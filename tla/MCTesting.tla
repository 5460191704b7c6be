------------------------------ MODULE MCTesting ------------------------------
(* The two parts of the tests that are to end by themselves, for TLC: the  *)
(* harness around a test, and the cleanup inside one.  They share no       *)
(* state, and a behaviour moves one of them.                               *)
EXTENDS MCHarness, IsolateCleanup

CONSTANT c

OneThread     == {Me}
ThreeIsolates == {a, b, c}

VARIABLE part

testingVars == <<part, harnessVars, testVars>>

TestingInit == part \in {"harness", "cleanup"} /\ HarnessInit /\ CInit

InHarness(A) == part = "harness" /\ A /\ UNCHANGED <<part, testVars>>
InCleanup(A) == part = "cleanup" /\ A /\ UNCHANGED <<part, harnessVars>>

TestingNext == InHarness(HarnessNext) \/ InCleanup(CNext)

(* Each part with the fairness of its own specification. *)
TestingSpec ==
  /\ TestingInit /\ [][TestingNext]_testingVars
  /\ WF_testingVars(InHarness(StartRun \/ Answer \/ RunTests))
  /\ WF_testingVars(InCleanup(Cleanup))
=============================================================================
