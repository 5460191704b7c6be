----------------------------- MODULE WeakHandles ----------------------------
(***************************************************************************)
(* Persistent handles that may be weak: persistent.cpp, the reference      *)
(* counts and callback lists of v8monkeyobject.cpp, and what a garbage     *)
(* collection and the disposal of the isolate do with them.  One thread:   *)
(* the client runs between library calls and inside weak callbacks.        *)
(*                                                                         *)
(* All of it is from before the project's reset and commented out at this  *)
(* commit.  In WeakSpec a weak callback leaves the other weak handles of   *)
(* its object alone: ShouldTrace has looked up the next of them before it  *)
(* calls.  FreeWeakSpec is without that rule.                              *)
(***************************************************************************)
EXTENDS Integers, SequencesExt

CONSTANTS
  WeakObjects, \* where a V8MonkeyObject can live
  Cells,       \* slots of the isolate's persistent storage, never used again
  NoTarget,    \* a null V8MonkeyObject*
  NoCell,      \* a null pointer to an element of a callback list
  MaxLocals    \* bound: local handles of an object

ASSUME WeakAssumption == NoTarget \notin WeakObjects /\ NoCell \notin Cells

VARIABLES
  cell,       \* what each cell points to
  given,      \* the cells that were handed out
  present,    \* the objects that exist
  strongCount,\* refCount of each object
  weakCount,
  weakList,   \* callbackList of each object: the cell and whether it has a callback
  nearDeath,  \* isNearDeath of each object
  localCount, \* the local handles to each object
  trace,      \* the ShouldTrace under way
  disposed    \* whether the isolate is

weakVars == <<cell, given, present, strongCount, weakCount, weakList, nearDeath,
              localCount, trace, disposed>>

(* An element of a callback list, and how far ShouldTrace has gone.        *)
Entry == [cell : Cells, callback : BOOLEAN]
Trace == [at      : {"idle", "loop", "callback"},
          object  : WeakObjects \cup {NoTarget},
          current : Cells \cup {NoCell},
          next    : Cells \cup {NoCell}]

NoTrace == [at |-> "idle", object |-> NoTarget, current |-> NoCell, next |-> NoCell]

WeakTypeOK ==
  /\ cell \in [Cells -> WeakObjects \cup {NoTarget}]
  /\ given \subseteq Cells
  /\ present \subseteq WeakObjects
  /\ strongCount \in [WeakObjects -> Nat]
  /\ weakCount \in [WeakObjects -> Nat]
  /\ weakList \in [WeakObjects -> Seq(Entry)]
  /\ nearDeath \in [WeakObjects -> BOOLEAN]
  /\ localCount \in [WeakObjects -> Nat]
  /\ trace \in Trace
  /\ disposed \in BOOLEAN

WeakInit ==
  /\ cell = [c \in Cells |-> NoTarget]
  /\ given = {}
  /\ present = {}
  /\ strongCount = [o \in WeakObjects |-> 0]
  /\ weakCount = [o \in WeakObjects |-> 0]
  /\ weakList = [o \in WeakObjects |-> <<>>]
  /\ nearDeath = [o \in WeakObjects |-> FALSE]
  /\ localCount = [o \in WeakObjects |-> 0]
  /\ trace = NoTrace
  /\ disposed = FALSE

Plus(f, o, n) == [f EXCEPT ![o] = @ + n]

(* FindForSlot *)
IsWeak(o, c) == \E k \in DOMAIN weakList[o] : weakList[o][k].cell = c

Position(list, c) == SelectInSeq(list, LAMBDA e : e.cell = c)

Unlist_Slip(c, list) ==  \* what comes after it goes with it
  SubSeq(list, 1, Position(list, c) - 1)

(* What FindForSlot finds is taken out, if anything. *)
Unlist(c, list) == RemoveAt(list, Position(list, c))

(* The element after that of c; the first if c is none. *)
NextInList(list, c) ==
  LET after == IF c = NoCell THEN 1 ELSE 1 + Position(list, c)
  IN  IF after > Len(list) THEN NoCell ELSE list[after].cell

(* RemoveRef: the object goes when both counters are zero. *)
DeletedIfUnused(o) ==
  present' = IF strongCount'[o] = 0 /\ weakCount'[o] = 0 THEN present \ {o} ELSE present

(* Where the client may act: between calls, and inside a weak callback, if *)
(* that leaves the other weak handles of the traced object alone.          *)
ClientRuns == ~disposed /\ trace.at # "loop"
MayTouch(c) ==
  /\ ClientRuns
  /\ c \in given /\ cell[c] # NoTarget
  /\ trace.at = "callback" => \/ c = trace.current
                              \/ cell[c] # trace.object
                              \/ ~IsWeak(cell[c], c)
-----------------------------------------------------------------------------
(* A HandleScope adds a handle, to a new object or another handle's, and   *)
(* releases it.                                                            *)
AddLocal(o) ==
  /\ ClientRuns
  /\ localCount[o] < MaxLocals
  /\ localCount' = Plus(localCount, o, 1)
  /\ strongCount' = Plus(strongCount, o, 1)
  /\ present' = present \cup {o}
  /\ UNCHANGED <<cell, given, weakCount, weakList, nearDeath, trace, disposed>>

ReleaseLocal(o) ==
  /\ ClientRuns
  /\ localCount[o] > 0
  /\ localCount' = Plus(localCount, o, -1)
  /\ strongCount' = Plus(strongCount, o, -1)
  /\ UNCHANGED weakCount
  /\ DeletedIfUnused(o)
  /\ UNCHANGED <<cell, given, weakList, nearDeath, trace, disposed>>

(* From a local handle or from another persistent one. *)
MakePersistent(c, o) ==
  /\ ClientRuns
  /\ c \notin given
  /\ o \in present
  /\ given' = given \cup {c}
  /\ cell' = [cell EXCEPT ![c] = o]
  /\ strongCount' = Plus(strongCount, o, 1)
  /\ UNCHANGED <<present, weakCount, weakList, nearDeath, localCount, trace, disposed>>

(* MakePersistentWeak: a second call only changes the callback. *)
MakeWeak(c, callback) ==
  LET o == cell[c]
      e == [cell |-> c, callback |-> callback]
  IN
  /\ MayTouch(c)
  /\ IF IsWeak(o, c)
     THEN /\ weakList' = [weakList EXCEPT ![o] =
                            [k \in DOMAIN @ |-> IF @[k].cell = c THEN e ELSE @[k]]]
          /\ UNCHANGED <<strongCount, weakCount>>
     ELSE /\ weakList' = [weakList EXCEPT ![o] = <<e>> \o @]
          /\ strongCount' = Plus(strongCount, o, -1)
          /\ weakCount' = Plus(weakCount, o, 1)
  /\ UNCHANGED <<cell, given, present, nearDeath, localCount, trace, disposed>>

ClearWeakness_Slip(c) ==  \* whether the handle is weak is not asked
  LET o == cell[c] IN
  /\ MayTouch(c)
  /\ weakList' = [weakList EXCEPT ![o] = Unlist(c, @)]
  /\ strongCount' = Plus(strongCount, o, 1)
  /\ weakCount' = Plus(weakCount, o, IF weakCount[o] > 0 THEN -1 ELSE 0)
  /\ nearDeath' = [nearDeath EXCEPT ![o] = FALSE]
  /\ UNCHANGED <<cell, given, present, localCount, trace, disposed>>

ClearWeakness(c) ==
  LET o == cell[c] IN
  /\ MayTouch(c)
  /\ IsWeak(o, c)
  /\ weakList' = [weakList EXCEPT ![o] = Unlist(c, @)]
  /\ strongCount' = Plus(strongCount, o, 1)
  /\ weakCount' = Plus(weakCount, o, -1)
  /\ nearDeath' = [nearDeath EXCEPT ![o] = FALSE]
  /\ UNCHANGED <<cell, given, present, localCount, trace, disposed>>

DeletePersistent_Slip(c) ==  \* only a strong handle can be the last
  LET o == cell[c] IN
  /\ MayTouch(c)
  /\ IF IsWeak(o, c)
     THEN weakCount' = Plus(weakCount, o, -1) /\ UNCHANGED <<strongCount, present>>
     ELSE strongCount' = Plus(strongCount, o, -1) /\ UNCHANGED weakCount /\ DeletedIfUnused(o)
  /\ weakList' = [weakList EXCEPT ![o] = Unlist(c, @)]
  /\ cell' = [cell EXCEPT ![c] = NoTarget]
  /\ UNCHANGED <<given, nearDeath, localCount, trace, disposed>>

(* PersistentRelease, then the cell is cleared. *)
ReleaseCell(c) ==
  LET o == cell[c] IN
  /\ IF IsWeak(o, c)
     THEN weakCount' = Plus(weakCount, o, -1) /\ UNCHANGED strongCount
     ELSE strongCount' = Plus(strongCount, o, -1) /\ UNCHANGED weakCount
  /\ weakList' = [weakList EXCEPT ![o] = Unlist(c, @)]
  /\ DeletedIfUnused(o)
  /\ cell' = [cell EXCEPT ![c] = NoTarget]
  /\ UNCHANGED <<given, nearDeath, localCount, trace, disposed>>

DeletePersistent(c) == MayTouch(c) /\ ReleaseCell(c)

(* The same by a weak callback, of any handle at all. *)
DeleteInCallback(c) ==
  /\ trace.at = "callback"
  /\ c \in given /\ cell[c] # NoTarget
  /\ ReleaseCell(c)
-----------------------------------------------------------------------------
(* The collector traces a cell, and ShouldTrace finds weak handles only.   *)
(* It adds a reference, so that no callback can delete the object.         *)
StartTrace(c) ==
  LET o == cell[c] IN
  /\ trace = NoTrace /\ ~disposed
  /\ o # NoTarget
  /\ strongCount[o] = 0
  /\ strongCount' = Plus(strongCount, o, 1)
  /\ trace' = [at |-> "loop", object |-> o, current |-> NoCell,
               next |-> NextInList(weakList[o], NoCell)]
  /\ UNCHANGED <<cell, given, present, weakCount, weakList, nearDeath, localCount, disposed>>

(* One turn of the loop over the list, up to the callback if there is one. *)
VisitNext ==
  LET o == trace.object
      c == trace.next
      calls == weakList[o][Position(weakList[o], c)].callback
  IN
  /\ trace.at = "loop" /\ c # NoCell
  /\ trace' = [trace EXCEPT !.at = IF calls THEN "callback" ELSE "loop",
                            !.current = c,
                            !.next = NextInList(weakList[o], c)]
  /\ nearDeath' = [nearDeath EXCEPT ![o] = @ \/ calls]
  /\ UNCHANGED <<cell, given, present, strongCount, weakCount, weakList, localCount, disposed>>

CallbackReturns ==
  /\ trace.at = "callback"
  /\ trace' = [trace EXCEPT !.at = "loop"]
  /\ UNCHANGED <<cell, given, present, strongCount, weakCount, weakList, nearDeath,
                 localCount, disposed>>

(* The reference is taken back.  An object with weak handles only is       *)
(* released by each of them, and their cells are cleared.                  *)
FinishTrace_Slip ==  \* weak handles decide, though there may be strong ones
  LET o == trace.object IN
  /\ trace.at = "loop" /\ trace.next = NoCell
  /\ strongCount' = Plus(strongCount, o, -1)
  /\ weakCount' = [weakCount EXCEPT ![o] = 0]
  /\ present' = IF weakCount[o] > 0 THEN present \ {o} ELSE present
  /\ cell' = [c \in Cells |-> IF weakCount[o] > 0 /\ IsWeak(o, c) THEN NoTarget ELSE cell[c]]
  /\ weakList' = [weakList EXCEPT ![o] = <<>>]
  /\ nearDeath' = [nearDeath EXCEPT ![o] = FALSE]
  /\ trace' = NoTrace
  /\ UNCHANGED <<given, localCount, disposed>>

FinishTrace ==
  LET o == trace.object
      dies == strongCount[o] - 1 = 0
  IN
  /\ trace.at = "loop" /\ trace.next = NoCell
  /\ strongCount' = Plus(strongCount, o, -1)
  /\ weakCount' = [weakCount EXCEPT ![o] = IF dies THEN @ - Len(weakList[o]) ELSE @]
  /\ DeletedIfUnused(o)
  /\ cell' = [c \in Cells |-> IF dies /\ IsWeak(o, c) THEN NoTarget ELSE cell[c]]
  /\ weakList' = [weakList EXCEPT ![o] = IF dies THEN <<>> ELSE @]
  /\ nearDeath' = [nearDeath EXCEPT ![o] = FALSE]
  /\ trace' = NoTrace
  /\ UNCHANGED <<given, localCount, disposed>>

(* Isolate::Dispose: IsolateRelease for each cell, from weakCount as long  *)
(* as there is any.  That no HandleScope is open is asserted.              *)
CellsOf(o) == {c \in Cells : cell[c] = o}

DisposeIsolate_Slip ==  \* weak handles are released as if they were strong
  /\ ClientRuns /\ trace = NoTrace
  /\ \A o \in WeakObjects : localCount[o] = 0
  /\ strongCount' = [o \in WeakObjects |-> strongCount[o] - Cardinality(CellsOf(o))]
  /\ UNCHANGED weakCount
  /\ present' = {o \in present : strongCount'[o] # 0 \/ weakCount'[o] # 0}
  /\ disposed' = TRUE
  /\ UNCHANGED <<cell, given, weakList, nearDeath, localCount, trace>>

DisposeIsolate ==
  LET fromWeak == [o \in WeakObjects |-> Min({weakCount[o], Cardinality(CellsOf(o))})] IN
  /\ ClientRuns /\ trace = NoTrace
  /\ \A o \in WeakObjects : localCount[o] = 0
  /\ weakCount' = [o \in WeakObjects |-> weakCount[o] - fromWeak[o]]
  /\ strongCount' = [o \in WeakObjects |->
                       strongCount[o] - (Cardinality(CellsOf(o)) - fromWeak[o])]
  /\ present' = {o \in present : strongCount'[o] # 0 \/ weakCount'[o] # 0}
  /\ disposed' = TRUE
  /\ UNCHANGED <<cell, given, weakList, nearDeath, localCount, trace>>

WeakNext ==
  \/ \E o \in WeakObjects : AddLocal(o) \/ ReleaseLocal(o)
  \/ \E c \in Cells, o \in WeakObjects : MakePersistent(c, o)
  \/ \E c \in Cells, callback \in BOOLEAN : MakeWeak(c, callback)
  \/ \E c \in Cells : ClearWeakness(c) \/ DeletePersistent(c) \/ StartTrace(c)
  \/ VisitNext \/ CallbackReturns \/ FinishTrace
  \/ DisposeIsolate

WeakSpec == WeakInit /\ [][WeakNext]_weakVars

(* Callbacks that dispose of what they please. *)
FreeWeakSpec == WeakInit /\ [][WeakNext \/ \E c \in Cells : DeleteInCallback(c)]_weakVars
-----------------------------------------------------------------------------
Listed(o) == {c \in Cells : IsWeak(o, c)}

(* Whether a callback strengthens its handle, disposes of it or weakens it *)
(* again, the element that ShouldTrace looked up before it called is still *)
(* in the list.  "Weak callbacks are free to invoke Dispose" says          *)
(* v8monkeyobject.cpp 148, without a word on which handle: with            *)
(* FreeWeakSpec this does not hold.                                        *)
NextStaysListed == trace.next # NoCell => trace.next \in Listed(trace.object)

(* Each counter counts one kind of handle, though handles change kind, and *)
(* go, in the middle of a trace that holds a reference of its own; and the *)
(* callback list has one element for each weak handle, whose cell points   *)
(* to the object.                                                          *)
CountsFitHandles ==
  ~disposed =>
    \A o \in WeakObjects :
      /\ Listed(o) \subseteq CellsOf(o)
      /\ Len(weakList[o]) = Cardinality(Listed(o))
      /\ weakCount[o] = Cardinality(Listed(o))
      /\ strongCount[o] = localCount[o] + Cardinality(CellsOf(o) \ Listed(o))
                            + (IF trace.object = o THEN 1 ELSE 0)

(* The books of the weak handles are right, in the middle of a trace too. *)
WeakBooksAgree == WeakTypeOK /\ CountsFitHandles /\ NextStaysListed

(* An object exists as long as a handle, weak or strong, refers to it: no  *)
(* cell is left pointing to one that is gone, and none is left over when   *)
(* its last handle goes, at the latest with the isolate.                   *)
PresentIfReferenced ==
  \A o \in WeakObjects :
    o \in present <=> /\ ~disposed
                      /\ localCount[o] > 0 \/ CellsOf(o) # {} \/ trace.object = o

(* A weak handle is cleared behind the client's back only by a collection, *)
(* and only if nothing strong refers to the object when its callbacks have *)
(* returned.                                                               *)
WeakClearedByCollection ==
  [][\A c \in Cells :
       cell[c] # NoTarget /\ cell'[c] = NoTarget =>
         \/ MayTouch(c)
         \/ /\ trace.object = cell[c] /\ trace.at = "loop"
            /\ localCount[cell[c]] = 0
            /\ CellsOf(cell[c]) \subseteq Listed(cell[c])]_weakVars
=============================================================================
