------------------------- MODULE MC_CipherDispatch -------------------------
(* Two cipher contexts, the directions of one SSH session, and the       *)
(* values an unset CCAlgorithm / size_t may hold: a valid pair, a key    *)
(* length AES refuses and an algorithm CommonCrypto does not know.       *)
EXTENDS CipherDispatch

CONSTANTS c1, c2

MC_Contexts == {c1, c2}
MC_Garbage  == {[alg |-> "AES", keyLength |-> 16], [alg |-> "AES", keyLength |-> 0],
                [alg |-> "none", keyLength |-> 16]}
MC_Known    == Known
MC_Ids      == Known \cup {"unknown"}
=============================================================================
