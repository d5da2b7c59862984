------------------------------ MODULE Asn1Codec ------------------------------
(***************************************************************************)
(* ASN.1 Template Codec (spec 4.1): Apple's SecAsn1 coder as the code's  *)
(* templates use it (DER TLVs, INTEGER sign pad, BIT STRING lengths in    *)
(* bits), a template as data, and the DSA Dss-Sig-Value template with the *)
(* conversion between the provider's signer/verifier and SSH's 40 raw     *)
(* bytes (spec 4.6, 6).  Integers are byte sequences of naturals 0..255,  *)
(* never numbers: a DSA integer has 160 bits.                              *)
(***************************************************************************)
EXTENDS Naturals, Sequences, SequencesExt

RawLen == 20   \* bytes of r and of s in an SSH DSA signature

(***************************************************************************)
(* The coder, outside src/, as spec 4.1 and 4.6 describe it: decoding an  *)
(* INTEGER into a CSSM_DATA removes the sign pad, encoding one adds it.   *)
(* The provider's signer emits DER: the minimal two's-complement content. *)
(***************************************************************************)
RECURSIVE StripZeros(_)
StripZeros(b) == IF Len(b) > 1 /\ b[1] = 0 THEN StripZeros(Tail(b)) ELSE b

SignPadded(b) == IF b # <<>> /\ b[1] >= 128 THEN <<0>> \o b ELSE b

DerContent(unsignedBytes) == SignPadded(StripZeros(unsignedBytes))

DecodeInteger(c) == IF Len(c) > 1 /\ c[1] = 0 /\ c[2] >= 128 THEN Tail(c) ELSE c

EncodeInteger(d) == SignPadded(d)

TagInteger == 2
TagBitString == 3
TagOid == 6
TagSequence == 48

(* DER tag, definite length and contents, as the coder writes them.  The  *)
(* key fields here stay below 256 bytes of contents.                      *)
DerLength(n) == IF n < 128 THEN <<n>> ELSE <<129, n>>

Tlv(tag, content) == <<tag>> \o DerLength(Len(content)) \o content

-----------------------------------------------------------------------------
(* The SecAsn1Template tables: one entry per field after the SEQUENCE     *)
(* header; SEC_ASN1_INLINE embeds a sub-template's SEQUENCE.              *)
Entry(kind, field) == [kind |-> kind, field |-> field, sub |-> <<>>]
Inline(sub) == [kind |-> "INLINE", field |-> "", sub |-> sub]
IntegerFields(fs) == [i \in DOMAIN fs |-> Entry("INTEGER", fs[i])]

(* SecAsn1EncodeItem, outside src/, per spec 4.1: INTEGERs sign-padded, a *)
(* BIT STRING's CSSM_DATA Length counted in bits.                         *)
RECURSIVE EncodeSequence(_, _), EncodeEntry(_, _)
EncodeEntry(e, rec) ==
    CASE e.kind = "INTEGER"    -> Tlv(TagInteger, EncodeInteger(rec[e.field]))
      [] e.kind = "OBJECT_ID"  -> Tlv(TagOid, rec[e.field])
      [] e.kind = "BIT_STRING" ->
            LET v == rec[e.field]
            IN  Tlv(TagBitString, <<(8 - (v.bits % 8)) % 8>> \o SubSeq(v.data, 1, (v.bits + 7) \div 8))
      [] OTHER                 -> EncodeSequence(e.sub, rec)
EncodeSequence(tmpl, rec) ==
    Tlv(TagSequence, FlattenSeq([i \in DOMAIN tmpl |-> EncodeEntry(tmpl[i], rec)]))

(* One TLV of the given tag at the front of bytes, and what follows it.  *)
ParseTlv(bytes, tag) ==
    LET long == Len(bytes) >= 3 /\ bytes[2] = 129
        hdr  == IF long THEN 3 ELSE 2
        n    == IF long THEN bytes[3] ELSE bytes[2]
    IN  IF Len(bytes) >= 2 /\ bytes[1] = tag /\ (bytes[2] < 128 \/ long) /\ Len(bytes) >= hdr + n
        THEN [ok |-> TRUE, content |-> SubSeq(bytes, hdr + 1, hdr + n),
              rest |-> SubSeq(bytes, hdr + n + 1, Len(bytes))]
        ELSE [ok |-> FALSE, content |-> <<>>, rest |-> <<>>]

(* SecAsn1Decode of a SEQUENCE of INTEGERs: MalformedEncoding on a wrong  *)
(* tag or length, a missing or empty field, or trailing bytes.            *)
RECURSIVE DecodeFields(_, _, _)
DecodeFields(tmpl, bytes, rec) ==
    IF tmpl = <<>> THEN [ok |-> bytes = <<>>, rec |-> rec]
    ELSE LET t == ParseTlv(bytes, TagInteger)
         IN  IF ~t.ok \/ t.content = <<>> THEN [ok |-> FALSE, rec |-> rec]
             ELSE DecodeFields(Tail(tmpl), t.rest,
                               rec @@ (Head(tmpl).field :> DecodeInteger(t.content)))

DecodeSequence(tmpl, bytes) ==
    LET s == ParseTlv(bytes, TagSequence)
    IN  IF s.ok /\ s.rest = <<>> THEN DecodeFields(tmpl, s.content, <<>>)
        ELSE [ok |-> FALSE, rec |-> <<>>]

-----------------------------------------------------------------------------
(* _libssh2_dsa_signature_template: SEQUENCE { r INTEGER, s INTEGER }. *)
DsaSignatureTemplate == IntegerFields(<<"r", "s">>)

(* A signer that packs s before r. *)
DsaSigDecodeSwapped(der) ==
    LET d == DecodeSequence(DsaSignatureTemplate, der)
    IN  IF ~d.ok \/ Len(d.rec.r) # RawLen \/ Len(d.rec.s) # RawLen
        THEN [ok |-> FALSE, sig |-> <<>>]
        ELSE [ok |-> TRUE, sig |-> d.rec.s \o d.rec.r]

(* _libssh2_dsa_sha1_sign after the provider signed: SecAsn1Decode of the *)
(* Dss-Sig-Value, refused unless it decodes and r and s are exactly 20    *)
(* bytes, then r and s memcpy'd into sig_out.                             *)
DsaSigDecode(der) ==
    LET d == DecodeSequence(DsaSignatureTemplate, der)
    IN  IF ~d.ok \/ Len(d.rec.r) # RawLen \/ Len(d.rec.s) # RawLen
        THEN [ok |-> FALSE, sig |-> <<>>]
        ELSE [ok |-> TRUE, sig |-> d.rec.r \o d.rec.s]

(* _libssh2_dsa_sha1_verify before the provider verifies: the two 20-byte *)
(* halves of sig as r and s, SecAsn1EncodeItem'd with the template.       *)
DsaSigEncode(sig) ==
    EncodeSequence(DsaSignatureTemplate,
                   "r" :> SubSeq(sig, 1, RawLen) @@ "s" :> SubSeq(sig, RawLen + 1, 2 * RawLen))
=============================================================================
