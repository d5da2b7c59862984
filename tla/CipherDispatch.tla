--------------------------- MODULE CipherDispatch ---------------------------
(***************************************************************************)
(* Cipher Dispatch Table (spec 4.7): _libssh2_cipher_init, _cipher_crypt,  *)
(* _cipher_dtor and _init_aes_ctr over CommonCrypto cryptors.  The caller  *)
(* owns a few cipher contexts (one per direction of a session); each is   *)
(* closed or holds the cryptor init created.  Block contents are          *)
(* abstracted to their lengths: what matters is how many bytes of the     *)
(* in-place buffer the cryptor really transformed (dataOut).              *)
(***************************************************************************)
EXTENDS Integers

CONSTANTS
    Contexts,   \* the _libssh2_cipher_ctx variables of the caller
    Ids,        \* algorithm identifiers the caller may pass to init
    Garbage     \* [alg, keyLength] values an uninitialised variable may hold

VARIABLES
    ctx,    \* ctx[c]: Closed, or the cryptor of context c
    last    \* the most recent call: op, its id or chunk, return code, what it did

vars == <<ctx, last>>

Closed == [closed |-> TRUE]

AesIds == {"aes128", "aes192", "aes256"}
CtrIds == {"aes128ctr", "aes192ctr", "aes256ctr"}
Known  == AesIds \cup CtrIds \cup {"blowfish", "arcfour", "cast5", "3des"}

-----------------------------------------------------------------------------
(***************************************************************************)
(* CommonCrypto, outside src/, from its documented behaviour: a cryptor is *)
(* created only for a known algorithm with a key length it supports; RC4  *)
(* is a stream cipher whatever mode is asked for; an update in CBC mode   *)
(* with ccNoPadding transforms only whole blocks and keeps the rest       *)
(* buffered, a stream mode transforms every byte.                         *)
(***************************************************************************)
BlockSize == [AES |-> 16, Blowfish |-> 8, CAST |-> 8, TDES |-> 8, RC4 |-> 1]

KeySizes == [AES |-> {16, 24, 32}, Blowfish |-> 8..56, CAST |-> 5..16,
             TDES |-> {24}, RC4 |-> 1..512]

ProviderAccepts(alg, keyLength) ==
    alg \in DOMAIN KeySizes /\ keyLength \in KeySizes[alg]

EffectiveMode(alg, mode) == IF alg = "RC4" THEN "stream" ELSE mode

(* Bytes CCCryptorUpdate writes back for n more input bytes. *)
Transformed(cr, n) ==
    IF cr.mode = "CBC"
    THEN ((cr.buffered + n) \div BlockSize[cr.alg]) * BlockSize[cr.alg]
    ELSE n

-----------------------------------------------------------------------------
(* The first switch of _libssh2_cipher_init, and its mode.  It has no     *)
(* default: for any other id `alg` is never written.                      *)
CodeAlg(id) ==
    CASE id \in AesIds \cup CtrIds -> {"AES"}
      [] id = "blowfish"            -> {"Blowfish"}
      [] id = "arcfour"             -> {"RC4"}
      [] id = "cast5"               -> {"CAST"}
      [] id = "3des"                -> {"TDES"}
      [] OTHER                      -> {g.alg : g \in Garbage}

CodeMode(id) == IF id \in CtrIds THEN "CTR" ELSE "CBC"

(* A second switch in which aes192 took the 256-bit key length. *)
CodeKeyLengthDrifted(id) ==
    CASE id \in {"aes256", "aes256ctr", "aes192"} -> {32}
      [] id = "aes192ctr"                        -> {24}
      [] id \in {"aes128", "aes128ctr"}          -> {16}
      [] id \in {"blowfish", "arcfour", "cast5"} -> {16}
      [] id = "3des"                             -> {24}
      [] OTHER                                   -> {g.keyLength : g \in Garbage}

(* The second switch: the key length; no default either. *)
CodeKeyLength(id) ==
    CASE id \in {"aes256", "aes256ctr"}          -> {32}
      [] id \in {"aes192", "aes192ctr"}          -> {24}
      [] id \in {"aes128", "aes128ctr"}          -> {16}
      [] id \in {"blowfish", "arcfour", "cast5"} -> {16}
      [] id = "3des"                             -> {24}
      [] OTHER                                   -> {g.keyLength : g \in Garbage}

(* A crypt that hands CommonCrypto's status back as its return code. *)
CryptStatus(n, st) == IF st = "kCCSuccess" THEN 0 ELSE -4302

(* _libssh2_cipher_crypt's return code for a CCCryptorUpdate status: the *)
(* dataOut the update reported is not looked at.                         *)
CryptReturn(n, st) == IF st = "kCCSuccess" THEN 0 ELSE 1

-----------------------------------------------------------------------------
Init == /\ ctx = [c \in Contexts |-> Closed]
        /\ last = [op |-> "none", ret |-> 0, provider |-> FALSE, id |-> "none",
                   n |-> 0, dataOut |-> 0, ub |-> FALSE]

(* _libssh2_cipher_init on a fresh context: both switches, then            *)
(* CCCryptorCreateWithMode, which may refuse the parameters or fail.      *)
CipherInit(c, id) ==
    /\ ctx[c] = Closed
    /\ \E alg \in CodeAlg(id), keyLength \in CodeKeyLength(id), dir \in {"encrypt", "decrypt"},
          created \in BOOLEAN :
          LET ok == created /\ ProviderAccepts(alg, keyLength)
          IN  /\ ctx' = IF ok
                        THEN [ctx EXCEPT ![c] = [id |-> id, alg |-> alg, dir |-> dir,
                                                 mode |-> EffectiveMode(alg, CodeMode(id)),
                                                 keyLength |-> keyLength, buffered |-> 0]]
                        ELSE ctx
              /\ last' = [op |-> "init", ret |-> IF ok THEN 0 ELSE 1, provider |-> TRUE,
                          id |-> id, n |-> 0, dataOut |-> 0, ub |-> id \notin Known]

(* The bytes libssh2 hands one crypt call for the method id: one cipher  *)
(* block, or for a counter or stream method a chunk of any length (spec  *)
(* 4.7).  It depends on the method the caller chose, not on the cryptor. *)
Chunks(id) == CASE id \in CtrIds \cup {"arcfour"} -> {1, 16}
                [] id \in AesIds                  -> {16}
                [] OTHER                          -> {8}

(* _libssh2_cipher_crypt: CCCryptorUpdate in place, ok unless it fails. *)
CipherCrypt(c) ==
    /\ ctx[c] # Closed
    /\ \E n \in Chunks(ctx[c].id), st \in {"kCCSuccess", "kCCMemoryFailure"} :
          LET out == IF st = "kCCSuccess" THEN Transformed(ctx[c], n) ELSE 0
          IN  /\ ctx' = IF st = "kCCSuccess" /\ ctx[c].mode = "CBC"
                        THEN [ctx EXCEPT ![c].buffered =
                                  (@ + n) % BlockSize[ctx[c].alg]]
                        ELSE ctx
              /\ last' = [op |-> "crypt", ret |-> CryptReturn(n, st), provider |-> TRUE,
                          id |-> ctx[c].id, n |-> n, dataOut |-> out, ub |-> FALSE]

(* _libssh2_cipher_dtor: CCCryptorRelease. *)
CipherDtor(c) ==
    /\ ctx[c] # Closed
    /\ ctx' = [ctx EXCEPT ![c] = Closed]
    /\ last' = [last EXCEPT !.op = "dtor", !.ret = 0, !.provider = TRUE, !.ub = FALSE]

(* _libssh2_init_aes_ctr: unimplemented, it does nothing. *)
InitAesCtr ==
    /\ last' = [last EXCEPT !.op = "init_aes_ctr", !.provider = FALSE]
    /\ UNCHANGED ctx

Next == \/ \E c \in Contexts, id \in Ids : CipherInit(c, id)
        \/ \E c \in Contexts : CipherCrypt(c) \/ CipherDtor(c)
        \/ InitAesCtr

Spec == Init /\ [][Next]_vars

-----------------------------------------------------------------------------
TypeOK ==
    /\ \A c \in Contexts : ctx[c] = Closed \/ ctx[c].buffered \in 0..15
    /\ last.ret \in {0, 1}

(* Spec 4.7, 8.7 and 9: the table every identifier must resolve to.       *)
SpecTable ==
    [i \in Known |->
        CASE i \in AesIds -> [alg |-> "AES", mode |-> "CBC"]
          [] i \in CtrIds -> [alg |-> "AES", mode |-> "CTR"]
          [] i = "arcfour" -> [alg |-> "RC4", mode |-> "stream"]
          [] i = "blowfish" -> [alg |-> "Blowfish", mode |-> "CBC"]
          [] i = "cast5" -> [alg |-> "CAST", mode |-> "CBC"]
          [] OTHER -> [alg |-> "TDES", mode |-> "CBC"]]

SpecKeyLength ==
    [i \in Known |-> CASE i \in {"aes128", "aes128ctr"} -> 16
                       [] i \in {"aes192", "aes192ctr", "3des"} -> 24
                       [] i \in {"aes256", "aes256ctr"} -> 32
                       [] OTHER -> 16]

(* Spec 4.7, 9: every open cryptor runs the algorithm, mode and key       *)
(* length the table gives its identifier, though _libssh2_cipher_init     *)
(* reaches them through two separate switches and a mode default (CBC)   *)
(* that CommonCrypto overrides for RC4.                                   *)
OpenCryptorsMatchTable ==
    \A c \in Contexts :
        ctx[c] # Closed =>
            /\ [alg |-> ctx[c].alg, mode |-> ctx[c].mode] = SpecTable[ctx[c].id]
            /\ ctx[c].keyLength = SpecKeyLength[ctx[c].id]

(* Spec 4.7, 8.7: an unrecognised identifier fails with UnsupportedCipher *)
(* without any provider call.  _libssh2_cipher_init has no default case: *)
(* it calls CCCryptorCreateWithMode with alg and keyLength unset.        *)
UnknownCipherRejected ==
    last.op = "init" /\ last.id \notin Known => last.ret = 1 /\ ~last.provider /\ ~last.ub
=============================================================================
