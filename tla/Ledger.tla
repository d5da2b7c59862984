------------------------------- MODULE Ledger -------------------------------
(***************************************************************************)
(* Ownership ledger of the objects the Security, CoreFoundation and CSSM   *)
(* frameworks hand to src/src/securetransport.c.                           *)
(*                                                                         *)
(* Every function of securetransport.c runs synchronously on the caller's  *)
(* thread (spec section 5), so one call is modelled as a pure operator     *)
(* that threads a ledger L through the steps of the C function and yields  *)
(* the SET of outcomes its branches can reach.  L.live is a bag: an object *)
(* occurs once for every reference the adapter owns on it.  A *Create,     *)
(* *Copy or CFRetain adds a reference, CFRelease, SecAsn1CoderRelease,     *)
(* CSSM_DeleteContext, CSSM_FreeKey and free() remove one.  A release or   *)
(* a use of an object that has no live reference, or of NULL, is not       *)
(* applied: it is recorded in L.faults, which the properties inspect.      *)
(***************************************************************************)
LOCAL INSTANCE Naturals
LOCAL INSTANCE Bags
LOCAL INSTANCE BagsExt

CONSTANT NULL       \* the C null pointer, a model value

(* Objects: cls is the kind of resource, id the C variable that holds it,  *)
(* v what it carries (the bytes of a CFData, the attributes of a key).     *)
Obj(cls, id, v) == [cls |-> cls, id |-> id, v |-> v]
NoV             == [none |-> TRUE]   \* v of an object that carries nothing
CF(id)          == Obj("cf", id, NoV)
Data(id, c)     == Obj("cf", id, c)
Coder(id)       == Obj("coder", id, NoV)
Context(id)     == Obj("cssmctx", id, NoV)
Malloc(id)      == Obj("malloc", id, NoV)

(* The ledger at the start of a call: one reference per object in S. *)
StartLedger(S) == [live |-> SetToBag(S), faults |-> {}]

Fault(L, what, o) == [L EXCEPT !.faults = @ \cup {[what |-> what, obj |-> o]}]

(* CF*Create, CF*Copy, SecAsn1CoderCreate, CSSM_CSP_CreateSymmetricContext *)
(* and malloc: the adapter now owns one reference to the new object o.     *)
Alloc(L, o) == [L EXCEPT !.live = BagAdd(@, o)]

(* Several new objects at once, each with one reference. *)
AllocAll(L, S) == [L EXCEPT !.live = @ (+) SetToBag(S)]

(* CFRetain(o): one more reference to an object already live. *)
Retain(L, o) ==
    IF o = NULL THEN Fault(L, "retain_null", o)
    ELSE IF BagIn(o, L.live) THEN Alloc(L, o)
    ELSE Fault(L, "retain_dead", o)

(* CFRelease(o) and its kin: drop one owned reference. *)
Release(L, o) ==
    IF o = NULL THEN Fault(L, "release_null", o)
    ELSE IF BagIn(o, L.live) THEN [L EXCEPT !.live = BagRemove(@, o)]
    ELSE Fault(L, "release_unowned", o)

ReleaseAll(L, S) ==
    LET RECURSIVE Go(_, _)
        Go(M, T) == IF T = {} THEN M
                    ELSE LET o == CHOOSE x \in T : TRUE IN Go(Release(M, o), T \ {o})
    IN  Go(L, S)

(* Passing o to a framework call that dereferences it. *)
Use(L, o) ==
    IF o = NULL THEN Fault(L, "use_null", o)
    ELSE IF BagIn(o, L.live) THEN L
    ELSE Fault(L, "use_unowned", o)

(* Dereferencing NULL or CFRelease(NULL) ends the process: once L holds   *)
(* such a fault, no later step of any caller is taken.                     *)
Aborted(L) == \E f \in L.faults : f.what \in {"use_null", "release_null"}

(* The result of one C call: its return code, its out-value, the ledger.   *)
Out(ret, val, L) == [ret |-> ret, val |-> val, L |-> L]

(* Objects of class c the ledger still holds. *)
LiveOf(L, c) == {o \in BagToSet(L.live) : o.cls = c}
=============================================================================
