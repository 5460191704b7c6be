---------------------------- MODULE LocalHandles ----------------------------
(***************************************************************************)
(* Local handles: HandleScope (handlescope.cpp) over the slabs of an       *)
(* ObjectBlock (objectblock.h), with the reference counts of base_types.h  *)
(* and the smart pointers of smart_pointer.h.  One isolate, used by one    *)
(* thread at a time, as v8.h demands.                                      *)
(*                                                                         *)
(* All of it is from before the project's reset and commented out at this  *)
(* commit.  handlescope.cpp was written for an earlier ObjectBlock; where  *)
(* it extends a block and stores, or deletes from one limit to another,    *)
(* the model does what Isolate's AddLocalHandle and DeleteLocalHandleSlots *)
(* do with the block of this commit.                                       *)
(***************************************************************************)
EXTENDS Integers, SequencesExt

CONSTANTS
  HandleObjects, \* where a refcounted object can live
  SmartPtrs,     \* the smart pointers of the program
  NoObject,      \* a null Object*
  SlabSize,      \* slots of a slab
  MaxHandles,    \* bound: slots in use
  MaxOpen        \* bound: open scopes

ASSUME SlabAssumption == SlabSize \in Nat \ {0} /\ NoObject \notin HandleObjects
ASSUME SmartPtrsAssumption == IsFiniteSet(SmartPtrs)

VARIABLES
  slabs,      \* the slabs of the block, each the Object*s of its slots
  limits,     \* localHandleLimits: the next free slot and the end of its slab
  scopeSeen,  \* level # 0: a scope was opened.  No code ever lowers level
  openScopes, \* the limits each open HandleScope keeps, innermost last
  refCount,   \* of each object; one that has none does not exist
  smart       \* what each smart pointer points to

handleVars == <<slabs, limits, scopeSeen, openScopes, refCount, smart>>

(* The address of a slot, or one past the last: a slab and an offset. *)
Pointer == [slab : Nat, slot : Nat]
NullPtr == [slab |-> 0, slot |-> 0]
Limits  == [next : Pointer, limit : Pointer]
NoLimits == [next |-> NullPtr, limit |-> NullPtr]

HandleTypeOK ==
  /\ slabs \in Seq(Seq(HandleObjects))
  /\ limits \in Limits
  /\ scopeSeen \in BOOLEAN
  /\ openScopes \in Seq(Limits)
  /\ refCount \in [HandleObjects -> Nat]
  /\ smart \in [SmartPtrs -> HandleObjects \cup {NoObject}]

HandleInit ==
  /\ slabs = <<>>
  /\ limits = NoLimits
  /\ scopeSeen = FALSE
  /\ openScopes = <<>>
  /\ refCount = [o \in HandleObjects |-> 0]
  /\ smart = [p \in SmartPtrs |-> NoObject]

Exists(o) == refCount[o] > 0
-----------------------------------------------------------------------------
(* ObjectBlock *)
AddTo_Slip(block, o) ==  \* a slab is taken to be full when its last slot is free
  IF block = <<>> \/ Len(Last(block)) >= SlabSize - 1
  THEN Append(block, <<o>>)
  ELSE Append(Front(block), Append(Last(block), o))

AddTo(block, o) ==
  IF block = <<>> \/ Len(Last(block)) = SlabSize
  THEN Append(block, <<o>>)
  ELSE Append(Front(block), Append(Last(block), o))

LimitsOf(block) ==
  IF block = <<>> THEN NoLimits
  ELSE [next  |-> [slab |-> Len(block), slot |-> Len(Last(block))],
        limit |-> [slab |-> Len(block), slot |-> SlabSize]]

(* The slots in use, each a slab and an offset. *)
Filled(block) == {s \in (1 .. Len(block)) \X (1 .. SlabSize) : s[2] <= Len(block[s[1]])}

(* The block up to p, and the slots after p; p may be null. *)
Before(block, p) ==
  IF p = NullPtr THEN <<>>
  ELSE Append(SubSeq(block, 1, p.slab - 1), SubSeq(block[p.slab], 1, p.slot))

From_Slip(block, p) ==  \* slabs after the first are not gone through
  {s \in Filled(block) : p = NullPtr \/ (s[1] = p.slab /\ s[2] > p.slot)}

From(block, p) ==
  {s \in Filled(block) : \/ p = NullPtr \/ s[1] > p.slab
                         \/ s[1] = p.slab /\ s[2] > p.slot}

NumberOfItems(block) ==
  IF block = <<>> THEN 0 ELSE SlabSize * (Len(block) - 1) + Len(Last(block))

Occurrences(block, S, o) == Cardinality({s \in S : block[s[1]][s[2]] = o})

(* DeleteIterate releases what is in the slots, passing over null ones. *)
ReleasedFrom(block, p) ==
  [o \in HandleObjects |-> refCount[o] - Occurrences(block, From(block, p), o)]
-----------------------------------------------------------------------------
(* HandleScope *)
OpenHandleScope ==
  /\ Len(openScopes) < MaxOpen
  /\ openScopes' = Append(openScopes, limits)
  /\ scopeSeen' = TRUE
  /\ UNCHANGED <<slabs, limits, refCount, smart>>

(* An object is created for a handle, or has one and gets another.  That   *)
(* there is a scope is tested by looking at level.                         *)
CreateHandle(o) ==
  /\ scopeSeen
  /\ NumberOfItems(slabs) < MaxHandles
  /\ slabs' = AddTo(slabs, o)
  /\ limits' = LimitsOf(slabs')
  /\ refCount' = [refCount EXCEPT ![o] = @ + 1]
  /\ UNCHANGED <<scopeSeen, openScopes, smart>>

(* Leave: back to the limits that the scope kept. *)
Leave(block) ==
  LET prev == Last(openScopes) IN
  /\ openScopes # <<>>
  /\ openScopes' = Front(openScopes)
  /\ IF limits = prev THEN UNCHANGED refCount ELSE refCount' = ReleasedFrom(block, prev.next)

DestroyHandleScope ==
  LET prev == Last(openScopes) IN
  /\ Leave(slabs)
  /\ slabs' = IF limits = prev THEN slabs ELSE Before(slabs, prev.next)
  /\ limits' = prev
  /\ UNCHANGED <<scopeSeen, smart>>

InScope(p) ==
  LET next == Last(openScopes).next
  IN  \/ p.slab > next.slab
      \/ p.slab = next.slab /\ p.slot > next.slot

Escaping_Slip(p) == slabs  \* the old slot is not nulled

(* What the block is when the escaping value's slot was nulled. *)
Escaping(p) == [slabs EXCEPT ![p.slab][p.slot] = NoObject]

(* InternalClose: the value moves, with the reference its slot had.  The   *)
(* client closes with a handle of the scope it closes.                     *)
CloseHandleScope(k, n) ==
  LET p == [slab |-> k, slot |-> n]
      prev == Last(openScopes)
  IN
  /\ openScopes # <<>> /\ InScope(p)
  /\ Leave(Escaping(p))
  /\ slabs' = AddTo(Before(slabs, prev.next), slabs[k][n])
  /\ limits' = LimitsOf(slabs')
  /\ UNCHANGED <<scopeSeen, smart>>

(* HandleScope::NumberOfHandles counts from the limits. *)
NumberOfHandles == IF limits = NoLimits THEN 0
                   ELSE limits.limit.slab * SlabSize - (limits.limit.slot - limits.next.slot)
-----------------------------------------------------------------------------
(* SmartPtr: made, assigned, destroyed.  The old object is released first. *)
(* Like a handle, it may be the first to refer to a new object.            *)
SetSmartPtr(p, o) ==
  LET old == smart[p] IN
  /\ o # old
  /\ smart' = [smart EXCEPT ![p] = o]
  /\ refCount' = [x \in HandleObjects |-> refCount[x] + (IF x = o   THEN 1 ELSE 0)
                                                      - (IF x = old THEN 1 ELSE 0)]
  /\ UNCHANGED <<slabs, limits, scopeSeen, openScopes>>

HandleNext ==
  \/ OpenHandleScope
  \/ DestroyHandleScope
  \/ \E o \in HandleObjects : CreateHandle(o)
  \/ \E k \in DOMAIN slabs : \E n \in DOMAIN slabs[k] : CloseHandleScope(k, n)
  \/ \E p \in SmartPtrs, o \in HandleObjects \cup {NoObject} : SetSmartPtr(p, o)

HandleSpec == HandleInit /\ [][HandleNext]_handleVars
-----------------------------------------------------------------------------
(* The three accounts of where the block ends agree however scopes nest,   *)
(* cross slabs and let values escape: what a scope put back is where the   *)
(* block ends, and both ways to count find what is there.                  *)
LimitsAgree ==
  /\ limits = LimitsOf(slabs)
  /\ NumberOfHandles = Cardinality(Filled(slabs))
  /\ NumberOfItems(slabs) = Cardinality(Filled(slabs))

(* Each object counts its slots and its smart pointers: none is deleted    *)
(* that a handle still refers to, and none outlives its last handle.       *)
RefCountsAgree ==
  \A o \in HandleObjects :
    refCount[o] = Occurrences(slabs, Filled(slabs), o) + Cardinality({p \in SmartPtrs : smart[p] = o})

(* The books are kept right at every nesting of scopes: where the block    *)
(* ends, how many handles there are, and how many refer to each object.    *)
AccountsAgree == HandleTypeOK /\ LimitsAgree /\ RefCountsAgree

(* The frames of handles: one that belongs to no scope, and one for each   *)
(* scope, of the slots filled since it opened.  A handle is the address of *)
(* its slot.                                                               *)
Begin(f) == IF f = 1 THEN NullPtr ELSE openScopes[f - 1].next
FrameSlots(f) ==
  IF f > Len(openScopes) THEN From(slabs, Begin(f))
  ELSE From(slabs, Begin(f)) \ From(slabs, Begin(f + 1))

Frames ==
  [f \in 1 .. Len(openScopes) + 1 |-> [s \in FrameSlots(f) |-> slabs[s[1]][s[2]]]]

Promise == INSTANCE HandleStack WITH
  frames   <- Frames,
  held     <- smart,
  existing <- {o \in HandleObjects : Exists(o)}

(* Slabs, limits and counts keep the promise of HandleScope. *)
ImplementsHandleStack == Promise!StackSpec
=============================================================================
