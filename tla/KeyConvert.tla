------------------------------ MODULE KeyConvert ------------------------------
(***************************************************************************)
(* Public-Key Derivation (spec 4.4): unwrapping a SecKeyRef into a raw     *)
(* CSSM key and re-encoding its public fields as a public key.  The block  *)
(* that convert_private_key_to_raw_key invokes is an operator parameter    *)
(* Block(L, raw) yielding a set of [L, res]; when the block is not invoked *)
(* the outcome carries res = NotCalled.                                    *)
(***************************************************************************)
EXTENDS KeyImport

NotCalled == [notCalled |-> TRUE]

(* The raw CSSM key the block sees: algorithm, class and blob format. *)
Raw(key, fmt) == [alg |-> key.v.alg, kc |-> key.v.kc, fmt |-> fmt]

RawKeyBlob == Obj("rawkey", "rawKey", NoV)   \* KeyData CSSM_WrapKey allocates

(* A conversion that skips CSSM_DeleteContext when CSSM_WrapKey fails. *)
ConvertPrivateKeyToRawKeyKeepContext(L, key, privateFormat) ==
    LET Lx == Alloc(Use(L, key), Context("context"))
    IN  CASE key.v.blob = "RAW" -> {[L |-> L, raw |-> Raw(key, key.v.rawfmt), ctx |-> FALSE]}
          [] key.v.blob # "REFERENCE" -> {[L |-> L, raw |-> NotCalled, ctx |-> FALSE]}
          [] OTHER -> {[L |-> Lx, raw |-> NotCalled, ctx |-> FALSE]}   \* CSSM_WrapKey failed

(* convert_private_key_to_raw_key up to the call of its block.  Yields     *)
(* [L, raw, ctx]: raw is the CSSM key the block is invoked on, NotCalled   *)
(* when it is not, and ctx tells that the context is still to be deleted  *)
(* once the block returns (AfterBlock).  A raw key is handed over as it   *)
(* is, in whatever format it was imported; a reference key is wrapped     *)
(* into privateFormat (a public key keeps its default format).  The       *)
(* wrapped rawKey's KeyData is never given to CSSM_FreeKey.               *)
ConvertPrivateKeyToRawKey(L, key, privateFormat) ==
    LET NotInvoked(M) == [L |-> M, raw |-> NotCalled, ctx |-> FALSE]
        Lx   == Alloc(Use(L, key), Context("context"))
        Ldel == Release(Lx, Context("context"))
        wrapped == Raw(key, IF key.v.kc = "private" THEN privateFormat ELSE "default")
    IN  {NotInvoked(L)}                                  \* SecKeyGetCSSMKey failed
        \cup
        CASE key.v.blob = "RAW" -> {[L |-> L, raw |-> Raw(key, key.v.rawfmt), ctx |-> FALSE]}
          [] key.v.blob # "REFERENCE" -> {NotInvoked(L)}
          [] OTHER ->
               { NotInvoked(L),                          \* SecKeyGetCSPHandle failed
                 NotInvoked(L),                          \* CreateSymmetricContext failed
                 NotInvoked(Ldel),                       \* UpdateContextAttributes failed
                 NotInvoked(Ldel),                       \* CSSM_WrapKey failed
                 [L |-> Alloc(Lx, RawKeyBlob), raw |-> wrapped, ctx |-> TRUE] }

(* The CSSM_DeleteContext after the block returned, on ledger M. *)
AfterBlock(b, M) == IF b.ctx THEN Release(M, Context("context")) ELSE M

(* The value of a variable read before anything was stored in it: NULL or *)
(* some stale pointer, and the read itself is undefined behaviour.        *)
Garbage == Obj("garbage", "publicKey", NoV)
Uninitialized(L) == { [L |-> Fault(L, "undefined_read", Garbage), res |-> v] : v \in {NULL, Garbage} }

(* convert_rsa_private_key: PKCS#1 private raw key -> public SecKeyRef.   *)
ConvertRsaPrivateKey(L, raw) ==
    IF raw.alg # "RSA" \/ raw.fmt # "PKCS1" \/ raw.kc # "private" THEN {Out(1, NULL, L)}
    ELSE LET Lc == Alloc(L, Coder("convert_rsa"))
         IN  { Out(1, NULL, L),                                  \* coder create failed
               Out(1, NULL, Release(Lc, Coder("convert_rsa"))) } \* decode failed
             \cup
             { Out(k.ret, k.val, Release(k.L, Coder("convert_rsa"))) : k \in RsaNew(Lc, FALSE) }

(* convert_dsa_private_key: OpenSSL DSA private raw key -> public key.   *)
ConvertDsaPrivateKey(L, raw) ==
    IF raw.alg # "DSA" \/ raw.fmt # "OPENSSL" \/ raw.kc # "private" THEN {Out(1, NULL, L)}
    ELSE LET Lc == Alloc(L, Coder("convert_dsa"))
         IN  { Out(1, NULL, L),
               Out(1, NULL, Release(Lc, Coder("convert_dsa"))) }
             \cup
             { Out(k.ret, k.val, Release(k.L, Coder("convert_dsa"))) : k \in DsaNew(Lc, FALSE) }

(* convert_{rsa,dsa}_private_key_to_public_key: the block keeps a public *)
(* key with +1 retain and converts a private one with convert_alg.        *)
(* `__block SecKeyRef publicKey` is never initialised, so when the block  *)
(* is not invoked the function returns whatever the variable held.        *)
(* Yields [L, res].                                                       *)
ConvertToPublicKey(L, key, alg, fmt) ==
    LET Convert(M, raw) == IF alg = "RSA" THEN ConvertRsaPrivateKey(M, raw)
                           ELSE ConvertDsaPrivateKey(M, raw)
        Block(b) ==
            IF b.raw.alg = alg /\ b.raw.kc = "public"
            THEN {[L |-> AfterBlock(b, Retain(b.L, key)), res |-> key]}
            ELSE {[L |-> AfterBlock(b, c.L), res |-> c.val] : c \in Convert(b.L, b.raw)}
    IN  UNION { IF b.raw = NotCalled THEN Uninitialized(b.L) ELSE Block(b)
                : b \in ConvertPrivateKeyToRawKey(L, key, fmt) }

ConvertRsaPrivateKeyToPublicKey(L, key) == ConvertToPublicKey(L, key, "RSA", "PKCS1")

ConvertDsaPrivateKeyToPublicKey(L, key) == ConvertToPublicKey(L, key, "DSA", "OPENSSL")
=============================================================================
