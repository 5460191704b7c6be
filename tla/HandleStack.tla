----------------------------- MODULE HandleStack ----------------------------
(***************************************************************************)
(* What HandleScope promises its clients: local handles come in frames,    *)
(* one for each open scope on top of a first that belongs to none; a frame *)
(* goes with its scope, all but one handle that may escape to the frame    *)
(* below; every other handle keeps referring to its object; and an object  *)
(* exists exactly as long as a local handle or a smart pointer refers to   *)
(* it.  A handle is known by its address.                                  *)
(***************************************************************************)
EXTENDS Naturals, Sequences

CONSTANTS HandleObjects, SmartPtrs, NoObject

VARIABLES
  frames,   \* the handles of each frame, and the object each refers to
  held,     \* the object that each smart pointer refers to
  existing  \* the objects that exist

Top == Len(frames)

InUse(f) == UNION {DOMAIN frames[g] : g \in 1 .. f}  \* the handles of the first f frames

Referenced ==
  (UNION {{frames[f][h] : h \in DOMAIN frames[f]} : f \in 1 .. Top})
    \cup ({held[p] : p \in SmartPtrs} \ {NoObject})

NoHandles == [h \in {} |-> NoObject]
WithHandle(frame, h, o) ==
  [x \in DOMAIN frame \cup {h} |-> IF x = h THEN o ELSE frame[x]]

(* An object is made for a first handle, and any handle may be copied.  A  *)
(* new handle is not one that is in use.                                   *)
CreateHandle(o) ==
  /\ \E h \in DOMAIN frames'[Top'] \ InUse(Top) :
       frames' = [frames EXCEPT ![Top] = WithHandle(@, h, o)]
  /\ UNCHANGED held

OpenScope == frames' = Append(frames, NoHandles) /\ UNCHANGED held

LeaveScope ==
  /\ Top > 1
  /\ frames' = SubSeq(frames, 1, Top - 1)
  /\ UNCHANGED held

CloseScope(h) ==
  /\ Top > 1
  /\ h \in DOMAIN frames[Top]
  /\ \E n \in DOMAIN frames'[Top'] \ InUse(Top - 1) :
       frames' = [SubSeq(frames, 1, Top - 1) EXCEPT
                    ![Top - 1] = WithHandle(@, n, frames[Top][h])]
  /\ UNCHANGED held

(* At any object, a new one too, or at none. *)
Point(p, o) ==
  /\ held' = [held EXCEPT ![p] = o]
  /\ UNCHANGED frames

StackInit ==
  /\ frames = <<NoHandles>>
  /\ held = [p \in SmartPtrs |-> NoObject]
  /\ existing = {}

StackNext ==
  /\ \/ \E o \in HandleObjects : CreateHandle(o)
     \/ OpenScope
     \/ LeaveScope
     \/ \E h \in DOMAIN frames[Top] : CloseScope(h)
     \/ \E p \in SmartPtrs, o \in HandleObjects \cup {NoObject} : Point(p, o)
  /\ existing' = Referenced'

StackSpec == StackInit /\ [][StackNext]_<<frames, held, existing>>
=============================================================================
