----------------------------- MODULE MC_Encodings -----------------------------
(* The byte-level conversions, one input per state: the public-key blob  *)
(* of a key's integers, a DSA signature's r and s, or the integers a    *)
(* key is created from.                                                  *)
EXTENDS KeyTemplates, FiniteSets

VARIABLE input   \* [kind, method, fields]: one call's method and integers

(* Blob inputs: the byte sequences SecAsn1Decode hands the block:        *)
(* non-empty, no leading zero byte (the decoder drops the INTEGER sign   *)
(* pad), over bytes chosen at the edges of the high-bit test.            *)
Edge == {1, 127, 128, 255}          \* possible first bytes
Later == Edge \cup {0}               \* possible later bytes

Decoded(n) == {s \in BoundedSeq(Later, n) : s # <<>> /\ s[1] \in Edge}

BlobInputs ==
    { [kind |-> "blob", method |-> SshRsa, fields |-> <<e, n>>] : e \in Decoded(2), n \in Decoded(3) }
    \cup
    { [kind |-> "blob", method |-> SshDss, fields |-> <<p, q, g, y>>] : p, q, g, y \in Decoded(1) }

(* Signature inputs: DSA values r, s < q < 2^160 as 20 big-endian bytes; *)
(* the two leading bytes range over the edges of the sign-pad and        *)
(* zero-strip rules, the other 18 bytes are fixed.                       *)
Lead    == {0, 1, 127, 128, 255}
Second  == {0, 1, 128}
Rest    == [i \in 1..RawLen - 2 |-> 90]
Values  == {<<a, b>> \o Rest : a \in Lead, b \in Second}

SigInputs == { [kind |-> "dsa", method |-> SshDss, fields |-> <<r, s>>] : r, s \in Values }

(* Key inputs: the integers handed to _libssh2_rsa_new / _dsa_new, as   *)
(* SSH mpints (sign-padded) or bare; the other fields are fixed and      *)
(* distinct from them, so a field read from the wrong place shows.       *)
IntForms == {<<1>>, <<127>>, <<128>>, <<0, 128>>, <<255, 0>>, <<0, 255, 0>>}
RsaRest  == <<<<2>>, <<3>>, <<5>>, <<6>>, <<7>>, <<9>>>>   \* d, p, q, e1, e2, coeff
DsaQ == <<11>>
DsaX == <<13>>

KeyInputs ==
    { [kind |-> "rsakey", method |-> SshRsa, fields |-> <<e, n>>] : e, n \in IntForms }
    \cup
    { [kind |-> "dsakey", method |-> SshDss, fields |-> <<p, g, y>>] : p, g, y \in IntForms }

Init == input \in BlobInputs \cup SigInputs \cup KeyInputs
Next == UNCHANGED input

(* Spec 6 and 8.2, 8.6: the blob _libssh2_pub_priv_keyfilememory builds   *)
(* is the SSH string of the method followed by the mpint of every field,  *)
(* in order: each length counts the zero byte appendBigEndianInteger      *)
(* prepends when the high bit is set, and no byte is read that the field  *)
(* does not have.                                                         *)
WireBlobMatchesSpec ==
    input.kind = "blob" =>
    \A o \in PubKeyBlob(input.method, input.fields) :
        /\ ~o.ub
        /\ o.pub = WireBlob(input.method, [i \in DOMAIN input.fields |-> ValueOf(input.fields[i])])

(* The Dss-Sig-Value a DSA signer emits (RFC 3279 2.2.2): the minimal    *)
(* DER INTEGERs of r and s in a SEQUENCE.                                 *)
DssSigValueRef(r, s) == Tlv(TagSequence, Tlv(TagInteger, DerContent(r)) \o Tlv(TagInteger, DerContent(s)))

(* Spec 4.6, 8.3: when _libssh2_dsa_sha1_sign accepts the provider's     *)
(* Dss-Sig-Value, its 40 bytes are r then s, never truncated, shifted or  *)
(* swapped, and _libssh2_dsa_sha1_verify turns those 40 bytes back into   *)
(* exactly the DER the signer produced.                                   *)
DsaSignatureRoundTrip ==
    input.kind = "dsa" =>
    LET r   == input.fields[1]
        s   == input.fields[2]
        res == DsaSigDecode(DssSigValueRef(r, s))
    IN  res.ok => /\ res.sig = r \o s
                  /\ DsaSigEncode(res.sig) = DssSigValueRef(r, s)

(* RFC 4253 6.6 and spec 4.6: every signature the provider produces for  *)
(* a DSA key becomes the 40-byte SSH signature of its r and s.           *)
(* _libssh2_dsa_sha1_sign rejects any r or s whose DER content is not 20 *)
(* bytes once the sign pad is removed, as spec 8.3 tells it to, so a     *)
(* value below 2^152, whose DER content is shorter, is refused.          *)
DsaSignAcceptsProviderSignatures ==
    input.kind = "dsa" =>
    DsaSigDecode(DssSigValueRef(input.fields[1], input.fields[2]))
        = [ok |-> TRUE, sig |-> input.fields[1] \o input.fields[2]]

(* RFC 3447 A.1 and spec 4.4: _libssh2_rsa_new writes the RSAPrivateKey  *)
(* of its arguments; the provider exports it raw as PKCS#1;               *)
(* convert_rsa_private_key derives from it the RSAPublicKey of (n, e),    *)
(* and _libssh2_pub_priv_keyfile copies out e then n, with their values.  *)
(* Field order lives in three places (struct, template, initialiser) on   *)
(* both sides of the provider.                                            *)
RsaKeyFieldsRoundTrip ==
    input.kind = "rsakey" =>
    LET e    == input.fields[1]
        n    == input.fields[2]
        priv == RsaNewKeyData(e, n, RsaRest[1], RsaRest[2], RsaRest[3], RsaRest[4], RsaRest[5], RsaRest[6])
        raw  == KeyDer(priv)
    IN  /\ raw = RsaPrivateKeyRef(<<n, e>> \o RsaRest)
        /\ ConvertRsaPrivateKey(raw) # {}
        /\ \A pub \in ConvertRsaPrivateKey(raw) : KeyDer(pub) = RsaPublicKeyRef(n, e)
        /\ KeyfileRsaFields(raw) # {}
        /\ \A f \in KeyfileRsaFields(raw) : <<ValueOf(f[1]), ValueOf(f[2])>> = <<ValueOf(e), ValueOf(n)>>

(* RFC 3279 2.3.2 and spec 3, 4.4: from the OpenSSL private key           *)
(* _libssh2_dsa_new writes, convert_dsa_private_key derives the           *)
(* SubjectPublicKeyInfo of (p, q, g, y): id-dsa, the parameters, and y as *)
(* a DER INTEGER inside a BIT STRING of whole bytes; and                  *)
(* _libssh2_pub_priv_keyfile copies out p, q, g, y with their values.     *)
DsaKeyFieldsRoundTrip ==
    input.kind = "dsakey" =>
    LET p    == input.fields[1]
        g    == input.fields[2]
        y    == input.fields[3]
        raw  == KeyDer(DsaNewKeyData(p, DsaQ, g, y, DsaX))
    IN  /\ ConvertDsaPrivateKey(raw) # {}
        /\ \A pub \in ConvertDsaPrivateKey(raw) : KeyDer(pub) = DsaPublicKeyRef(p, DsaQ, g, y)
        /\ KeyfileDsaFields(raw) # {}
        /\ \A f \in KeyfileDsaFields(raw) :
              [i \in 1..4 |-> ValueOf(f[i])] = [i \in 1..4 |-> ValueOf(<<p, DsaQ, g, y>>[i])]
=============================================================================
