---------------------------- MODULE KeyTemplates ----------------------------
(***************************************************************************)
(* ASN.1 Template Codec (spec 4.1) for the key layouts: the templates of  *)
(* securetransport.c as data, the DER the coder writes from them, and the *)
(* code that fills them (_libssh2_rsa_new, _libssh2_dsa_new) and reads    *)
(* them back (convert_*_private_key, _libssh2_pub_priv_keyfile).  A key's *)
(* fields are byte sequences; a record is a function from the struct's    *)
(* field names (params.p flattened to "p") to its value.                  *)
(***************************************************************************)
EXTENDS Asn1Codec, WireEncoding

RsaVersionTwoPrime == 0

RsaPrivateKeyTemplate ==
    IntegerFields(<<"version", "modulus", "publicExponent", "privateExponent",
                    "prime1", "prime2", "exponent1", "exponent2", "coefficient">>)

(* A public template that lists the exponent before the modulus. *)
RsaPublicKeyTemplateSwapped == IntegerFields(<<"publicExponent", "modulus">>)

RsaPublicKeyTemplate == IntegerFields(<<"modulus", "publicExponent">>)

DsaPrivateKeyTemplate == IntegerFields(<<"version", "p", "q", "g", "pub", "priv">>)

DsaParamsTemplate == IntegerFields(<<"p", "q", "g">>)

DsaAlgTemplate == <<Entry("OBJECT_ID", "oid"), Inline(DsaParamsTemplate)>>

DsaPublicKeyTemplate == <<Inline(DsaAlgTemplate), Entry("BIT_STRING", "pub")>>

-----------------------------------------------------------------------------
(* _libssh2_rsa_new: a PKCS#1 private key when ddata is given (<<>> is    *)
(* NULL), else a PKCS#1 public key, for _new_from_binary_template.        *)
RsaNewKeyData(e, n, d, p, q, e1, e2, coeff) ==
    IF d # <<>>
    THEN [keyClass |-> "private", template |-> RsaPrivateKeyTemplate,
          rec |-> "version" :> <<RsaVersionTwoPrime>> @@ "modulus" :> n @@ "publicExponent" :> e
                  @@ "privateExponent" :> d @@ "prime1" :> p @@ "prime2" :> q
                  @@ "exponent1" :> e1 @@ "exponent2" :> e2 @@ "coefficient" :> coeff]
    ELSE [keyClass |-> "public", template |-> RsaPublicKeyTemplate,
          rec |-> "modulus" :> n @@ "publicExponent" :> e]

(* CSSMOID_DSA_CMS, the OID the public key's AlgorithmIdentifier carries. *)
CssmOidDsaCms == <<42, 134, 72, 206, 56, 4, 1>>

(* A public DSA key whose BIT STRING length is left in bytes. *)
DsaNewKeyDataByteLength(p, q, g, y, x) ==
    LET params == "p" :> p @@ "q" :> q @@ "g" :> g
        pubDer == Tlv(TagInteger, SignPadded(y))
    IN  IF x # <<>>
        THEN [keyClass |-> "private", template |-> DsaPrivateKeyTemplate,
              rec |-> params @@ "version" :> <<1>> @@ "pub" :> y @@ "priv" :> x]
        ELSE [keyClass |-> "public", template |-> DsaPublicKeyTemplate,
              rec |-> params @@ "oid" :> CssmOidDsaCms @@ "pub" :> [data |-> pubDer, bits |-> Len(pubDer)]]

(* _libssh2_dsa_new: an OpenSSL private key when x is given, else a       *)
(* SubjectPublicKeyInfo whose BIT STRING holds y encoded with             *)
(* kSecAsn1UnsignedIntegerTemplate, its Length then multiplied by 8.      *)
DsaNewKeyData(p, q, g, y, x) ==
    LET params == "p" :> p @@ "q" :> q @@ "g" :> g
        pubDer == Tlv(TagInteger, SignPadded(y))
    IN  IF x # <<>>
        THEN [keyClass |-> "private", template |-> DsaPrivateKeyTemplate,
              rec |-> params @@ "version" :> <<1>> @@ "pub" :> y @@ "priv" :> x]
        ELSE [keyClass |-> "public", template |-> DsaPublicKeyTemplate,
              rec |-> params @@ "oid" :> CssmOidDsaCms @@ "pub" :> [data |-> pubDer, bits |-> Len(pubDer) * 8]]

(* _libssh2_new_from_binary_template: the bytes handed to the importer. *)
KeyDer(kd) == EncodeSequence(kd.template, kd.rec)

(* convert_rsa_private_key / convert_dsa_private_key on a raw key's      *)
(* bytes: decode the private template, build the public key from its     *)
(* fields; no key if the decode fails.                                   *)
ConvertRsaPrivateKey(raw) ==
    LET d == DecodeSequence(RsaPrivateKeyTemplate, raw)
    IN  IF d.ok THEN {RsaNewKeyData(d.rec.publicExponent, d.rec.modulus,
                                    <<>>, <<>>, <<>>, <<>>, <<>>, <<>>)}
        ELSE {}

ConvertDsaPrivateKey(raw) ==
    LET d == DecodeSequence(DsaPrivateKeyTemplate, raw)
    IN  IF d.ok THEN {DsaNewKeyData(d.rec.p, d.rec.q, d.rec.g, d.rec.pub, <<>>)} ELSE {}

(* The blocks of _libssh2_pub_priv_keyfilememory: the fields copied out  *)
(* of the raw private key, in the order they are appended to pubData.    *)
KeyfileRsaFields(raw) ==
    LET d == DecodeSequence(RsaPrivateKeyTemplate, raw)
    IN  IF d.ok THEN {<<d.rec.publicExponent, d.rec.modulus>>} ELSE {}

KeyfileDsaFields(raw) ==
    LET d == DecodeSequence(DsaPrivateKeyTemplate, raw)
    IN  IF d.ok THEN {<<d.rec.p, d.rec.q, d.rec.g, d.rec.pub>>} ELSE {}

-----------------------------------------------------------------------------
(* Reference: the DER of RFC 3447 A.1 RSAPublicKey / RSAPrivateKey and   *)
(* RFC 3279 2.3.2 DSA SubjectPublicKeyInfo, from the integers' values.   *)
RefInteger(bytes) ==
    LET m == MinimalBytes(ValueOf(bytes))
    IN  Tlv(TagInteger, IF m = <<>> THEN <<0>> ELSE IF m[1] >= 128 THEN <<0>> \o m ELSE m)

RsaPublicKeyRef(n, e) == Tlv(TagSequence, RefInteger(n) \o RefInteger(e))

RsaPrivateKeyRef(fields) ==
    Tlv(TagSequence, RefInteger(<<0>>) \o FlattenSeq([i \in DOMAIN fields |-> RefInteger(fields[i])]))

IdDsa == <<42, 134, 72, 206, 56, 4, 1>>   \* 1.2.840.10040.4.1

DsaPublicKeyRef(p, q, g, y) ==
    Tlv(TagSequence,
        Tlv(TagSequence, Tlv(TagOid, IdDsa)
                         \o Tlv(TagSequence, RefInteger(p) \o RefInteger(q) \o RefInteger(g)))
        \o Tlv(TagBitString, <<0>> \o RefInteger(y)))
=============================================================================
