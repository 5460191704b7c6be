--------------------------- MODULE IsolateHistory ---------------------------
(***************************************************************************)
(* Isolates with what the program itself does not record: who entered each *)
(* isolate, and through which isolates each thread came.  The history says *)
(* what an exit ought to restore, and lets rules be stated that a client   *)
(* has to keep for the single vector of each isolate to restore it.        *)
(***************************************************************************)
EXTENDS Isolates

VARIABLES
  stacks,    \* the isolates each thread has entered and not left
  visits     \* for each isolate, who is inside: [thread, depth], oldest first

history == <<stacks, visits>>
allVars == <<vars, history>>

HInit ==
  /\ Init
  /\ stacks = [t \in Threads |-> <<>>]
  /\ visits = [i \in Isolates |-> <<>>]

HEnter(t, i) ==
  /\ Enter(t, i)
  /\ stacks' = [stacks EXCEPT ![t] = Append(@, i)]
  /\ visits' = [visits EXCEPT
       ![i] = Append(@, [thread |-> t, depth |-> Len(stacks[t]) + 1])]

(* "Requires: this == Isolate::GetCurrent()" (src/include/v8.h).           *)
HExit(t, i) ==
  /\ i = currentIsolate[t]
  /\ stacks[t] # <<>>
  /\ Exit(t, i)
  /\ stacks' = [stacks EXCEPT ![t] = Front(@)]
  /\ visits' = [visits EXCEPT ![i] = IF @ = <<>> THEN @ ELSE Front(@)]

(* A thread that ends has left every isolate.                              *)
HThreadExits(t) == stacks[t] = <<>> /\ ThreadExits(t) /\ UNCHANGED history

(* The thread that leaves an isolate is the last that entered it, of those *)
(* that are still inside (the comment on previousIsolates in isolate.h).   *)
LastVisitor(t, i) == visits[i] # <<>> /\ Last(visits[i]).thread = t

(* A client's callback does not delete the isolate it was called for.      *)
Reported(i) == \E t \in Threads : \E k \in DOMAIN reporting[t] : reporting[t][k] = i

Unchanging ==
  \/ \E i \in Isolates : New(i)
  \/ \E t \in Threads :
       \/ CallbackReturns(t)
       \/ SetFatalErrorHandler(t)
       \/ currentIsolate[t] # Null /\ IsDead(t)
       \/ \E i \in Isolates : ~Reported(i) /\ Dispose(t, i)
  \/ Ended

(* A client that keeps the rules of src/include/v8.h.                      *)
ApiNext ==
  \/ \E t \in Threads :
       \/ HThreadExits(t)
       \/ \E i \in Isolates : HEnter(t, i) \/ HExit(t, i)
  \/ Unchanging /\ UNCHANGED history

ApiSpec == HInit /\ [][ApiNext]_allVars

(* A client that keeps the order of isolate.h as well.                     *)
LifoNext ==
  \/ \E t \in Threads :
       \/ HThreadExits(t)
       \/ \E i \in Isolates :
            HEnter(t, i) \/ (LastVisitor(t, i) /\ HExit(t, i))
  \/ Unchanging /\ UNCHANGED history

LifoSpec == HInit /\ [][LifoNext]_allVars
-----------------------------------------------------------------------------
(* Every variable has its type and the vectors keep their bound.           *)
TypeOK ==
  /\ process \in {"running", "aborted", "undefined"}
  /\ allocated \subseteq Isolates
  /\ previousIsolates \in [Isolates -> Seq(Isolates \cup {Null})]
  /\ \A i \in Isolates : Len(previousIsolates[i]) <= MaxEntries
  /\ currentIsolate \in [Threads -> Isolates \cup {Null}]
  /\ fatalErrorHandler \subseteq Isolates
  /\ hasFatalError \subseteq Isolates
  /\ reporting \in [Threads -> Seq(Isolates)]
  /\ stacks \in [Threads -> Seq(Isolates)]
  /\ visits \in [Isolates -> Seq([thread : Threads, depth : Nat])]

(* With LIFO exits the program does what the API promises: every exit      *)
(* restores the isolate the thread came from, and only an isolate that no  *)
(* thread is inside is deleted.                                            *)
Abstract == INSTANCE ThreadStacks WITH current <- currentIsolate
ImplementsThreadStacks == Abstract!Spec

(* Nothing follows a pointer to a deleted isolate: not the slot of a       *)
(* thread, not a vector's entry, not TriggerFatalError after the callback. *)
NeverUndefined == process # "undefined"

(* An isolate that every thread has left can be disposed of: no entry of a *)
(* departed thread stays behind in its vector.                             *)
NoStaleEntry ==
  \A i \in allocated : ~Abstract!Entered(i) => previousIsolates[i] = <<>>

(* "Exits this isolate by restoring the previously entered one in the      *)
(* current thread" (src/include/v8.h): the thread is back in the isolate   *)
(* from which it entered.                                                  *)
ExitRestores ==
  [][\A t \in Threads :
       Len(stacks'[t]) < Len(stacks[t]) =>
         currentIsolate'[t] = Abstract!Top(stacks'[t])]_allVars

-----------------------------------------------------------------------------
(* Why the vector of an isolate is enough.  The part of the argument that  *)
(* is about one isolate i: the entry of a visit is the isolate below it on *)
(* the visitor's stack, and the visits of one thread go deeper and deeper. *)
Below(s, d) == IF d = 1 THEN Null ELSE s[d - 1]

VisitsMatch(i) ==
  /\ Len(visits[i]) = Len(previousIsolates[i])
  /\ \A k \in DOMAIN visits[i] :
       /\ visits[i][k].depth \in DOMAIN stacks[visits[i][k].thread]
       /\ stacks[visits[i][k].thread][visits[i][k].depth] = i
       /\ previousIsolates[i][k] =
            Below(stacks[visits[i][k].thread], visits[i][k].depth)
  /\ \A k, l \in DOMAIN visits[i] :
       k < l /\ visits[i][k].thread = visits[i][l].thread
         => visits[i][k].depth < visits[i][l].depth

(* The part that is about one thread t.                                    *)
StackMatches(t) ==
  /\ currentIsolate[t] = Abstract!Top(stacks[t])
  /\ \A d \in DOMAIN stacks[t] :
       /\ stacks[t][d] \in allocated
       /\ \E k \in DOMAIN visits[stacks[t][d]] :
            visits[stacks[t][d]][k] = [thread |-> t, depth |-> d]

(* While LIFO is kept, the vectors and the stacks tell the same story.     *)
HistoryAgrees ==
  /\ \A i \in Isolates : VisitsMatch(i)
  /\ \A t \in Threads : StackMatches(t)

(* No thread is inside a callback for an isolate that is gone.             *)
ReportedAlive ==
  \A t \in Threads : \A k \in DOMAIN reporting[t] : reporting[t][k] \in allocated

(* What is true at every step of a client that keeps LIFO, and stays true  *)
(* by itself: the stacks, the vectors, the slots and the isolates that     *)
(* exist agree, at any depth and whoever visits whom.                      *)
HistoryInv ==
  /\ TypeOK
  /\ HistoryAgrees
  /\ ReportedAlive
  /\ NeverUndefined
=============================================================================
