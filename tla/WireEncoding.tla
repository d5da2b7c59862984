---------------------------- MODULE WireEncoding ----------------------------
(***************************************************************************)
(* SSH Wire Encoder, byte level (spec 4.5, 6): the public-key blob that    *)
(* _libssh2_pub_priv_keyfilememory builds in pubData once the block has    *)
(* copied the key's integers out.  Bytes are naturals 0..255; an integer   *)
(* field is the byte sequence SecAsn1Decode produced for it.  The code's   *)
(* encoding is checked against a reference written from the wire format:  *)
(* string and mpint of RFC 4251, which spec 6 restates.                   *)
(***************************************************************************)
EXTENDS Naturals, Sequences, SequencesExt, Bitwise

(* htonl(length) as the four bytes CFDataAppendBytes copies out.  The    *)
(* uint32_t cast of CFDataGetLength cannot wrap for a key's integers, so  *)
(* lengths are taken as they are.                                         *)
Htonl(n) == <<(n \div 2^24) % 256, (n \div 2^16) % 256, (n \div 2^8) % 256, n % 256>>

(* The method names as the bytes strlen and memcpy see. *)
SshRsa == <<115, 115, 104, 45, 114, 115, 97>>    \* "ssh-rsa"
SshDss == <<115, 115, 104, 45, 100, 115, 115>>   \* "ssh-dss"

(* A block that prepends the zero byte but forgets length++. *)
AppendBigEndianIntegerUncounted(pubData, data) ==
    LET pz == (data[1] & 128) = 128
    IN  {[pub |-> pubData \o Htonl(Len(data)) \o (IF pz THEN <<0>> ELSE <<>>) \o data,
          ub  |-> FALSE]}

(* The appendBigEndianInteger block: a 32-bit big-endian length, a zero   *)
(* byte when the first byte has its high bit set, then the bytes.  For an *)
(* empty integer *CFDataGetBytePtr(data) reads a byte that is not there:  *)
(* ub marks the undefined read, and either value of its high bit follows. *)
AppendBigEndianInteger(pubData, data) ==
    LET Emit(pz) == pubData \o Htonl(Len(data) + (IF pz THEN 1 ELSE 0))
                            \o (IF pz THEN <<0>> ELSE <<>>) \o data
    IN  IF data = <<>>
        THEN {[pub |-> Emit(pz), ub |-> TRUE] : pz \in BOOLEAN}
        ELSE {[pub |-> Emit((data[1] & 128) = 128), ub |-> FALSE]}

(* pubData after the method and then each field, in order, was appended:  *)
(* the set of [pub, ub] the blocks can produce.                           *)
RECURSIVE AppendFields(_, _)
AppendFields(acc, fields) ==
    IF fields = <<>> THEN acc
    ELSE AppendFields(UNION { { [pub |-> x.pub, ub |-> a.ub \/ x.ub]
                                : x \in AppendBigEndianInteger(a.pub, Head(fields)) }
                              : a \in acc },
                      Tail(fields))

PubKeyBlob(method, fields) ==
    AppendFields({[pub |-> Htonl(Len(method)) \o method, ub |-> FALSE]}, fields)

-----------------------------------------------------------------------------
(* Reference: the integer a byte sequence denotes, its minimal big-endian *)
(* bytes, and the SSH string and mpint encodings of spec 6.               *)
RECURSIVE ValueOf(_)
ValueOf(s) == IF s = <<>> THEN 0 ELSE ValueOf(Front(s)) * 256 + Last(s)

RECURSIVE MinimalBytes(_)
MinimalBytes(v) == IF v = 0 THEN <<>> ELSE MinimalBytes(v \div 256) \o <<v % 256>>

Uint32Ref(n) == [i \in 1..4 |-> (n \div 256^(4 - i)) % 256]

SshString(b) == Uint32Ref(Len(b)) \o b

Mpint(v) == LET m == MinimalBytes(v)
            IN  SshString(IF m # <<>> /\ m[1] >= 128 THEN <<0>> \o m ELSE m)

WireBlob(method, values) ==
    SshString(method) \o FlattenSeq([i \in DOMAIN values |-> Mpint(values[i])])
=============================================================================
