------------------------------ MODULE SignVerify ------------------------------
(***************************************************************************)
(* Sign/Verify Adapter (spec 4.6): SHA-1 signing and verification through  *)
(* SecTransform, and the DSA conversion between the provider's ASN.1       *)
(* Dss-Sig-Value and SSH's two 20-byte integers.  The integer values are   *)
(* abstracted to the lengths the ASN.1 decoder reports for r and s; module *)
(* Asn1Codec models the bytes.                                            *)
(***************************************************************************)
EXTENDS KeyConvert

CONSTANT SigLengths   \* byte lengths the decoder may report for DSA r and s

SignatureData == CF("signatureData")

(* _libssh2_key_sign_hash: on success the signature is copied into a new   *)
(* malloc'd buffer; the CFData SecTransformExecute returned is never      *)
(* released.                                                               *)
KeySignHash(L, key) ==
    LET Lt == Alloc(Use(L, key), CF("transform"))
        Li == Alloc(Lt, CF("inputData"))
        Lr == Release(Release(Li, CF("inputData")), CF("transform"))
    IN  { Out(1, NULL, L),                       \* SecSignTransformCreate failed
          Out(1, NULL, Lr),                      \* an attribute could not be set
          Out(1, NULL, Lr),                      \* SecTransformExecute returned NULL
          Out(0, Malloc("signature"), Alloc(Alloc(Lr, SignatureData), Malloc("signature"))) }

(* The CFTypeRef SecTransformExecute hands _libssh2_key_verify_hash: the   *)
(* caller owns it, and the function returns its boolean value without     *)
(* releasing it.                                                           *)
VerifyOutput == CF("output")

(* _libssh2_key_verify_hash.  When SecVerifyTransformCreate fails the code *)
(* releases signatureData but does not return: the next step passes the   *)
(* NULL transform to SecTransformSetAttribute, a NULL dereference that    *)
(* ends the process, so nothing after it happens.  On the way out the     *)
(* message, transform and signatureData are released; a NULL output comes *)
(* with a CFError that is released.  val is the verdict; ret 1 is an      *)
(* error or a rejected signature.                                         *)
KeyVerifyHash(L, key) ==
    LET Ls == Alloc(Use(L, key), CF("signatureData"))
        Lm == Alloc(Alloc(Ls, CF("transform")), CF("message"))
        Lf == Release(Release(Release(Lm, CF("message")), CF("transform")), CF("signatureData"))
    IN  { Out(1, FALSE, Use(Release(Ls, CF("signatureData")), NULL)),  \* create failed
          Out(1, FALSE, Lf),                                  \* an attribute could not be set
          Out(1, FALSE, Release(Alloc(Lf, CF("error")), CF("error"))),  \* output NULL
          Out(0, TRUE, Alloc(Lf, VerifyOutput)),
          Out(1, FALSE, Alloc(Lf, VerifyOutput)) }            \* the verdict

(* A verifier that forgets CFRelease(publicKey). *)
RsaSha1VerifyNoRelease(L, rsa) ==
    UNION { IF c.res = NULL THEN {Out(1, FALSE, c.L)} ELSE KeyVerifyHash(c.L, c.res)
          : c \in ConvertRsaPrivateKeyToPublicKey(L, rsa) }

(* _libssh2_rsa_sha1_verify *)
RsaSha1Verify(L, rsa) ==
    UNION { IF c.res = NULL THEN {Out(1, FALSE, c.L)}
            ELSE { IF Aborted(v.L) THEN v ELSE Out(v.ret, v.val, Release(v.L, c.res))
                   : v \in KeyVerifyHash(c.L, c.res) }
          : c \in ConvertRsaPrivateKeyToPublicKey(L, rsa) }

(* _libssh2_rsa_sha1_sign: the malloc'd signature goes to the caller. *)
RsaSha1Sign(L, rsa) == KeySignHash(L, rsa)

(* _libssh2_dsa_sha1_verify: the 40-byte signature is re-encoded as a      *)
(* Dss-Sig-Value with a coder of its own before the provider verifies it. *)
DsaSha1Verify(L, dsa) ==
    UNION { IF c.res = NULL THEN {Out(1, FALSE, c.L)}
            ELSE LET Lc == Alloc(c.L, Coder("dsa_verify"))
                 IN  { Out(1, FALSE, Release(c.L, c.res)),                          \* coder
                       Out(1, FALSE, Release(Release(Lc, Coder("dsa_verify")), c.res)) } \* encode
                     \cup
                     { IF Aborted(v.L) THEN v
                       ELSE Out(v.ret, v.val, Release(Release(v.L, Coder("dsa_verify")), c.res))
                       : v \in KeyVerifyHash(Lc, c.res) }
          : c \in ConvertDsaPrivateKeyToPublicKey(L, dsa) }

(* A DSA signer whose length check returns without releasing the coder. *)
DsaSha1SignLeakCoder(L, dsa) ==
    UNION { IF s.ret # 0 THEN {s}
            ELSE { Out(IF r = 20 /\ t = 20 THEN 0 ELSE 1, NULL,
                       IF r = 20 /\ t = 20
                       THEN Release(Release(Alloc(s.L, Coder("dsa_sign")), Coder("dsa_sign")), s.val)
                       ELSE Release(Alloc(s.L, Coder("dsa_sign")), s.val))
                   : r, t \in SigLengths }
          : s \in KeySignHash(L, dsa) }

(* A DSA signer that never frees the intermediate signature. *)
DsaSha1SignNoFree(L, dsa) ==
    UNION { IF s.ret # 0 THEN {s}
            ELSE { Out(IF r = 20 /\ t = 20 THEN 0 ELSE 1, NULL, s.L) : r, t \in SigLengths }
          : s \in KeySignHash(L, dsa) }

(* _libssh2_dsa_sha1_sign: decode the provider's Dss-Sig-Value and accept *)
(* it only when r and s are both exactly 20 bytes long.                   *)
DsaSha1Sign(L, dsa) ==
    UNION { IF s.ret # 0 THEN {s}
            ELSE LET Lc   == Alloc(s.L, Coder("dsa_sign"))
                     Done(M) == Release(Release(M, Coder("dsa_sign")), s.val)   \* free(sig)
                 IN  { Out(1, NULL, Release(s.L, s.val)),        \* coder create failed
                       Out(1, NULL, Done(Lc)) }                  \* decode failed
                     \cup
                     { Out(IF r = 20 /\ t = 20 THEN 0 ELSE 1, NULL, Done(Lc))
                       : r, t \in SigLengths }
          : s \in KeySignHash(L, dsa) }
=============================================================================
