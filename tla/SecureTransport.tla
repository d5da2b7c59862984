---------------------------- MODULE SecureTransport ----------------------------
(***************************************************************************)
(* The libssh2 crypto back end of src/src/securetransport.c as its caller,  *)
(* the libssh2 session, drives it: one action per exported function.      *)
(* Each call starts from a ledger in which the caller's key handles hold   *)
(* one reference each, runs to completion (the adapter is synchronous,     *)
(* spec section 5) and leaves in `last` what the call left behind: its     *)
(* return code, every reference still live and every fault it committed.  *)
(* `held` is the set of key handles the caller owns between calls.         *)
(***************************************************************************)
EXTENDS SignVerify, PubKeyFile, Naturals, FiniteSets, Bags

CONSTANTS
    Files,        \* key files on disk: records [ext, content]
    Buffers,      \* key files already in memory: contents
    Passphrases,  \* passphrases the caller may pass (NULL among them)
    MaxHeld       \* bound on the key handles the caller holds at once

ASSUME Cardinality(KeyIds) >= MaxHeld + 3

VARIABLES
    held,    \* the key handles the caller owns between calls
    last     \* what the most recent call left behind

vars == <<held, last>>

(* arg: the [file, pass] a key-file load was given, NoArg for other calls. *)
NoArg  == [none |-> TRUE]
NoCall == [op |-> "none", ret |-> 0, live |-> EmptyBag, faults |-> {}, arg |-> NoArg]

Init == /\ held = {}
        /\ last = NoCall

(* The caller's view once a call with argument a returns with outcome o. *)
FinishArg(op, a, o, newHeld) ==
    /\ last' = [op |-> op, ret |-> o.ret, live |-> o.L.live, faults |-> o.L.faults, arg |-> a]
    /\ held' = newHeld

Finish(op, o, newHeld) == FinishArg(op, NoArg, o, newHeld)

(* A call that leaves the set of handles as it was. *)
Used(op, o) == Finish(op, o, held)

Start == StartLedger(held)

(* A constructor returned o: on success the caller now owns o.val. *)
Gained(o) == IF o.ret = 0 THEN held \cup {o.val} ELSE held
Imported(op, o) == Finish(op, o, Gained(o))

(* Loading a key file: remember which inputs the call was given. *)
Loaded(op, o, f, p) == FinishArg(op, [file |-> f, pass |-> p], o, Gained(o))

CanImport == Cardinality(held) < MaxHeld

-----------------------------------------------------------------------------
RsaNewPrivateCall ==
    /\ CanImport
    /\ \E f \in Files, p \in Passphrases :
          \E o \in RsaNewPrivate(Start, f, p) :
          Loaded("rsa_new_private", o, f, p)

DsaNewPrivateCall ==
    /\ CanImport
    /\ \E f \in Files, p \in Passphrases :
          \E o \in RsaNewPrivate(Start, f, p) :
          Loaded("dsa_new_private", o, f, p)

RsaNewPrivateFrommemoryCall ==
    /\ CanImport
    /\ \E c \in Buffers, p \in Passphrases :
          \E o \in RsaNewPrivateFrommemory(Start, c, p) :
          Imported("rsa_new_private_frommemory", o)

DsaNewPrivateFrommemoryCall ==
    /\ CanImport
    /\ \E c \in Buffers, p \in Passphrases :
          \E o \in RsaNewPrivateFrommemory(Start, c, p) :
          Imported("dsa_new_private_frommemory", o)

RsaNewCall ==
    /\ CanImport
    /\ \E private \in BOOLEAN : \E o \in RsaNew(Start, private) : Imported("rsa_new", o)

DsaNewCall ==
    /\ CanImport
    /\ \E private \in BOOLEAN : \E o \in DsaNew(Start, private) : Imported("dsa_new", o)

RsaFreeCall ==
    \E k \in held : \E o \in RsaFree(Start, k) : Finish("rsa_free", o, held \ {k})

DsaFreeCall ==
    \E k \in held : \E o \in RsaFree(Start, k) : Finish("dsa_free", o, held \ {k})

(* Signing takes a private key the caller holds; verifying any key. *)
HeldOf(alg) == {k \in held : k.v.alg = alg}
PrivateOf(alg) == {k \in HeldOf(alg) : k.v.kc = "private"}

RsaSha1SignCall ==
    \E k \in PrivateOf("RSA") : \E o \in RsaSha1Sign(Start, k) : Used("rsa_sha1_sign", o)

RsaSha1VerifyCall ==
    \E k \in HeldOf("RSA") : \E o \in RsaSha1Verify(Start, k) : Used("rsa_sha1_verify", o)

DsaSha1SignCall ==
    \E k \in PrivateOf("DSA") : \E o \in DsaSha1Sign(Start, k) : Used("dsa_sha1_sign", o)

DsaSha1VerifyCall ==
    \E k \in HeldOf("DSA") : \E o \in DsaSha1Verify(Start, k) : Used("dsa_sha1_verify", o)

PubPrivKeyfileCall ==
    \E f \in Files, p \in Passphrases :
        \E o \in PubPrivKeyfile(Start, f, p) : Used("pub_priv_keyfile", o)

PubPrivKeyfilememoryCall ==
    \E c \in Buffers, p \in Passphrases :
        \E o \in PubPrivKeyfilememory(Start, c, p) : Used("pub_priv_keyfilememory", o)

Next ==
  /\ ~Aborted(last)                \* the process ended on a NULL dereference
  /\ \/ RsaSha1SignCall
     \/ RsaSha1VerifyCall
     \/ DsaSha1SignCall
     \/ DsaSha1VerifyCall
     \/ PubPrivKeyfileCall
     \/ PubPrivKeyfilememoryCall
     \/ RsaNewPrivateCall
     \/ DsaNewPrivateCall
     \/ RsaNewPrivateFrommemoryCall
     \/ DsaNewPrivateFrommemoryCall
     \/ RsaNewCall
     \/ DsaNewCall
     \/ RsaFreeCall
     \/ DsaFreeCall

Spec == Init /\ [][Next]_vars

-----------------------------------------------------------------------------
KeyAttrs == [alg : {"RSA", "DSA", "EC"}, kc : {"private", "public"},
             blob : {f.blob : f \in BlobForms}, rawfmt : {f.rawfmt : f \in BlobForms}]

FaultKinds == {"retain_null", "retain_dead", "release_null", "release_unowned",
               "use_null", "use_unowned", "undefined_read", "index_out_of_bounds"}

TypeOK ==
    /\ held \subseteq [cls : {"key"}, id : KeyIds, v : KeyAttrs]
    /\ last.ret \in {0, 1}
    /\ IsABag(last.live)
    /\ \A f \in last.faults : f.what \in FaultKinds

(* The ownership properties speak of a call that returned: a process that *)
(* ended on a NULL dereference (Aborted) owns nothing any more.            *)
Returned == ~Aborted(last)

(* Key handles are reference counted by the provider (spec 3, 9): when any *)
(* call returns, every handle the caller owns has exactly one live         *)
(* reference and no other key has any.  It takes the +1 retain of         *)
(* convert_*_to_public_key, the release of the derived key by the verify  *)
(* functions, the items array of the importer and the CFRelease(key) on   *)
(* each exit of _libssh2_pub_priv_keyfilememory to agree.                 *)
KeyReferencesMatchHandles ==
    Returned => \A o \in BagToSet(last.live) \cup held :
        o.cls = "key" => CopiesIn(o, last.live) = IF o \in held THEN 1 ELSE 0

(* Spec 5: every ASN.1 coder a function creates, including the nested ones *)
(* of _libssh2_dsa_new and of the conversion blocks, is released before   *)
(* the call returns, on every exit path.                                  *)
CodersReleased == Returned => LiveOf(last, "coder") = {}

(* Spec 5: the CSSM context of convert_private_key_to_raw_key is deleted on *)
(* every path after it was created, whatever the block did.               *)
ContextsDeleted == Returned => LiveOf(last, "cssmctx") = {}

(* Buffers allocated with malloc / LIBSSH2_ALLOC survive a call only as    *)
(* its outputs, and only when it reports success: the signature of        *)
(* _libssh2_rsa_sha1_sign, the method and blob of pub_priv_keyfile*.  The *)
(* DSA signer frees its intermediate signature on every path.             *)
OutputsOf(op) ==
    CASE op = "rsa_sha1_sign" -> {Malloc("signature")}
      [] op \in {"pub_priv_keyfile", "pub_priv_keyfilememory"} ->
             {Malloc("method"), Malloc("pubkeydata")}
      [] OTHER -> {}

MallocOnlyForOutputs ==
    Returned =>
    /\ LiveOf(last, "malloc") = IF last.ret = 0 THEN OutputsOf(last.op) ELSE {}
    /\ \A o \in LiveOf(last, "malloc") : CopiesIn(o, last.live) = 1

(* Spec 5: every CoreFoundation object a call obtains is released before it *)
(* returns, on every exit path of every function, the known exceptions     *)
(* (NoLeakedCFObjects) aside: the results SecTransformExecute returns to   *)
(* _libssh2_key_sign_hash and _libssh2_key_verify_hash.                    *)
CFReleasedExceptExecuteResults ==
    Returned => LiveOf(last, "cf") \subseteq {SignatureData, VerifyOutput}

(* Spec 5, without exception: no CoreFoundation object outlives the call   *)
(* that obtained it.  _libssh2_key_sign_hash never releases signatureData, *)
(* _libssh2_key_verify_hash never releases output.                         *)
NoLeakedCFObjects == Returned => LiveOf(last, "cf") = {}

(* Spec 5: the KeyData CSSM_WrapKey allocates for the raw key is freed.   *)
(* convert_private_key_to_raw_key never calls CSSM_FreeKey.               *)
WrappedRawKeysFreed == Returned => LiveOf(last, "rawkey") = {}

(* Spec 7: a provider failure is reported to the caller as a distinct    *)
(* outcome; a call that read no uninitialised value (NoUndefinedRead)     *)
(* neither dereferences NULL nor releases it.  When                       *)
(* SecVerifyTransformCreate fails, _libssh2_key_verify_hash goes on to set *)
(* attributes on the NULL transform.                                       *)
NoNullDereference ==
    (\A f \in last.faults : f.what # "undefined_read")
        => \A f \in last.faults : f.what \notin {"use_null", "release_null"}

(* No call reads a variable that was never written.  When the raw-key     *)
(* block is not invoked, convert_*_private_key_to_public_key returns its  *)
(* uninitialised `publicKey` (spec 9, open question).                     *)
NoUndefinedRead == \A f \in last.faults : f.what # "undefined_read"

(* Spec 6: the importer returns zero or one item on success; the resolver *)
(* must not index an item that is not there.  _libssh2_key_new_from_data  *)
(* only rejects more than one item before reading items[0].               *)
ImportReadsExistingItem == \A f \in last.faults : f.what # "index_out_of_bounds"

(* Spec 4.3-4.5: the public key of any key file libssh2 can load for     *)
(* signing can also be derived: whenever _libssh2_rsa_new_private or       *)
(* _libssh2_dsa_new_private accepted a [file, pass], some run of           *)
(* _libssh2_pub_priv_keyfile on the same file and passphrase produces the  *)
(* blob.                                                                   *)
LoadableKeysAreExtractable ==
    last.arg # NoArg /\ last.ret = 0 =>
        \E o \in PubPrivKeyfile(StartLedger({}), last.arg.file, last.arg.pass) : o.ret = 0
=============================================================================
