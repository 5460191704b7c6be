--------------------------- MODULE IsolateCleanup ---------------------------
(***************************************************************************)
(* AutoIsolateCleanup and AutoTestCleanup (src/src/runtime/isolate.cpp):   *)
(* the destructors at the end of a test that leave and delete whatever     *)
(* isolates the thread is still inside.  The thread that runs one is the   *)
(* only one in these isolates; what it did before is any sequence of API   *)
(* calls.  AutoTestCleanup then calls V8::Dispose, which is in Engine.     *)
(* The history of IsolateHistory goes along.                               *)
(***************************************************************************)
EXTENDS IsolateHistory

CONSTANT Me    \* the thread

ASSUME MeAssumption == Me \in Threads

VARIABLES
  pc,       \* "test", then where the destructor is
  target,   \* its local variable i
  inside    \* the isolates the thread was inside when it began

cleanupVars == <<pc, target, inside>>
testVars == <<allVars, cleanupVars>>

CInit == HInit /\ pc = "test" /\ target = Null /\ inside = {}

(* i->Exit(), through a pointer the thread has.                            *)
Leave(i) ==
  /\ Follow(i, Exit(Me, i))
  /\ stacks' = [stacks EXCEPT ![Me] = IF @ = <<>> THEN @ ELSE Front(@)]
  /\ visits' = [visits EXCEPT ![i] = IF @ = <<>> THEN @ ELSE Front(@)]

(* The body of the test; Exit is called on the current isolate.            *)
Test ==
  /\ pc = "test"
  /\ \/ \E i \in Isolates :
          \/ HEnter(Me, i)
          \/ i = currentIsolate[Me] /\ Leave(i)
          \/ (New(i) \/ Dispose(Me, i)) /\ UNCHANGED history
     \/ (SetFatalErrorHandler(Me) \/ CallbackReturns(Me)) /\ UNCHANGED history
  /\ UNCHANGED cleanupVars

At(label) == Running /\ pc = label /\ reporting[Me] = <<>>

Begin ==
  /\ At("test")
  /\ pc' = "outer"
  /\ inside' = {i \in allocated : previousIsolates[i] # <<>>}
  /\ UNCHANGED <<allVars, target>>

(* while (Isolate::GetCurrent())                                           *)
Outer ==
  /\ At("outer")
  /\ \/ currentIsolate[Me] = Null /\ pc' = "done" /\ UNCHANGED target
     \/ /\ currentIsolate[Me] # Null
        /\ pc' = "inner"
        /\ target' = currentIsolate[Me]
  /\ UNCHANGED <<allVars, inside>>

(* while (Isolate::GetCurrent() == i) i->Exit()                            *)
Inner ==
  /\ At("inner")
  /\ \/ /\ currentIsolate[Me] = target
        /\ Leave(target)
        /\ UNCHANGED pc
     \/ /\ currentIsolate[Me] # target
        /\ pc' = "dispose"
        /\ UNCHANGED allVars
  /\ UNCHANGED <<target, inside>>

AfterDispose_Done == pc' = "done"
AfterDispose == pc' = "outer"

(* i->Dispose(), refused with a fatal error if i was also entered earlier. *)
DisposeTarget ==
  /\ At("dispose")
  /\ Follow(target, Dispose(Me, target))
  /\ AfterDispose
  /\ UNCHANGED <<target, inside, history>>

(* The tests' callbacks only return.                                       *)
Callback ==
  /\ pc \notin {"test", "done"}
  /\ CallbackReturns(Me)
  /\ UNCHANGED <<cleanupVars, history>>

Over == (pc = "done" \/ ~Running) /\ UNCHANGED testVars

Cleanup == Outer \/ Inner \/ DisposeTarget \/ Callback

CNext == Test \/ Begin \/ Cleanup \/ Over

CSpec == CInit /\ [][CNext]_testVars /\ WF_testVars(Cleanup)

-----------------------------------------------------------------------------
(* The cleanup follows no pointer to an isolate it has deleted, and never  *)
(* has an isolate refused while it is itself outside: that would abort.    *)
CleanupSafe == pc # "test" => Running

(* And when it is over, the thread is outside, and every isolate it was    *)
(* inside is gone, one that Dispose refused at first included.             *)
CleanupDeletes ==
  /\ CleanupSafe
  /\ pc = "done" => currentIsolate[Me] = Null /\ inside \cap allocated = {}

(* Both loops end, whatever the order in which isolates were re-entered.   *)
CleanupEnds == pc = "outer" ~> pc = "done"

-----------------------------------------------------------------------------
(* Why the cleanup keeps its promises.  Nobody else is in the isolates;    *)
(* once the test is over, what the loops have to hand is still there, and  *)
(* an isolate the thread was inside is gone, or has entries to be reached  *)
(* by, or is the one at hand.                                              *)
CleanupInv ==
  /\ TypeOK
  /\ HistoryAgrees
  /\ \A t \in Threads \ {Me} : stacks[t] = <<>>
  /\ pc \in {"test", "outer", "inner", "dispose", "done"}
  /\ target \in Isolates \cup {Null}
  /\ inside \subseteq Isolates
  /\ pc # "test" =>
       /\ Running
       /\ \A k \in DOMAIN reporting[Me] : reporting[Me][k] \in allocated
       /\ pc \in {"inner", "dispose"} => target \in allocated
       /\ \A i \in inside \cap allocated :
            \/ previousIsolates[i] # <<>>
            \/ i = target /\ pc \in {"inner", "dispose"}
       /\ pc = "done" => currentIsolate[Me] = Null
=============================================================================
