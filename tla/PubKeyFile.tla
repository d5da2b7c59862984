------------------------------ MODULE PubKeyFile ------------------------------
(***************************************************************************)
(* SSH Wire Encoder entry points (spec 4.5): _libssh2_pub_priv_keyfile and *)
(* _libssh2_pub_priv_keyfilememory import a private key, unwrap it to raw  *)
(* PKCS#1 (RSA) or OpenSSL (DSA) form, copy the public integers out of the *)
(* block and build the "ssh-rsa" / "ssh-dss" blob.  The byte layout of the *)
(* blob is modelled in module WireEncoding; here the control flow and the  *)
(* ownership of every object the two functions touch.                      *)
(***************************************************************************)
EXTENDS KeyConvert

(* The block passed to convert_private_key_to_raw_key: decode the raw key  *)
(* with the private-key template of fmt and copy the named integers into   *)
(* new CFData objects.  res is the set of objects it created.              *)
CopyPublicFields(L, key, fmt, fields) ==
    LET F == {CF(f) : f \in fields}
        Block(b) ==
            LET Lc == Alloc(b.L, Coder("pubkey_block"))
            IN  { [L |-> b.L, res |-> {}] }                           \* coder create failed
                \cup
                IF b.raw.fmt = fmt /\ b.raw.kc = "private"
                THEN { [L |-> Release(AllocAll(Lc, F), Coder("pubkey_block")), res |-> F] }
                ELSE { [L |-> Release(Lc, Coder("pubkey_block")), res |-> {}] } \* decode failed
    IN  UNION { IF b.raw = NotCalled THEN {[L |-> b.L, res |-> {}]}
                ELSE { [L |-> AfterBlock(b, x.L), res |-> x.res] : x \in Block(b) }
                : b \in ConvertPrivateKeyToRawKey(L, key, fmt) }

(* Build the blob from the copied integers, or give up if any is missing. *)
EmitPublicKey(L, key, method, fields, x) ==
    IF x.res = {}
    THEN Out(1, NULL, Release(x.L, key))
    ELSE LET Lo == AllocAll(x.L, {Malloc("method"), Malloc("pubkeydata")})
         IN  Out(0, method, Release(ReleaseAll(Lo, x.res), key))   \* pubData is transient

Methods == [RSA |-> [name |-> "ssh-rsa", fmt |-> "PKCS1", fields |-> {"e", "n"}],
            DSA |-> [name |-> "ssh-dss", fmt |-> "OPENSSL", fields |-> {"p", "q", "g", "pub"}]]

(* _libssh2_pub_priv_keyfilememory: the buffer is imported with no path.   *)
PubPrivKeyfilememory(L, content, passphrase) ==
    LET d == Data("privatekeycfdata", content)
    IN  UNION { LET Lk == Release(k.L, d)
                    key == k.val
                IN  IF k.ret # 0 THEN {Out(k.ret, NULL, Lk)}
                    ELSE {Out(1, NULL, Release(Lk, key))}            \* SecKeyGetCSSMKey failed
                         \cup
                         IF key.v.alg \in DOMAIN Methods
                         THEN LET m == Methods[key.v.alg]
                              IN { EmitPublicKey(x.L, key, m.name, m.fields, x)
                                   : x \in CopyPublicFields(Lk, key, m.fmt, m.fields) }
                         ELSE {Out(1, NULL, Release(Lk, key))}       \* neither RSA nor DSA
              : k \in KeyNewFromData(Alloc(L, d), d, "private", NULL, passphrase) }

(* _libssh2_pub_priv_keyfile: read the file, then hand its bytes, without  *)
(* the path, to _libssh2_pub_priv_keyfilememory.                          *)
PubPrivKeyfile(L, file, passphrase) ==
    UNION { IF rd.val = NULL THEN {rd}
            ELSE { Out(o.ret, o.val, Release(o.L, rd.val))
                   : o \in PubPrivKeyfilememory(rd.L, rd.val.v, passphrase) }
          : rd \in CreateDataFromFile(L, file) }
=============================================================================
