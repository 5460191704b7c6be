---------------------------- MODULE TestHarness ----------------------------
(***************************************************************************)
(* The test harness: main, runTestsByFile and runTestsByName of            *)
(* src/test/harness/run_v8monkey_tests.cpp, and the runner of              *)
(* src/test/harness/V8MonkeyTest.cpp.                                      *)
(*                                                                         *)
(* Every test runs in a child forked for it.  The child has its parent's   *)
(* call stack, and must find its way out of the parent's loops to leave    *)
(* main with the verdict.  As a parent waits for its child at once, the    *)
(* processes that exist form a stack, and the last of them runs.           *)
(* The sets of files and tests are gone through in any order.              *)
(***************************************************************************)
EXTENDS HarnessArgs, FiniteSets, SequencesExt

CONSTANTS
  Registered,    \* the tests registered, a subset of Names
  fileOf,        \* the file of each registered test
  ExitCodes      \* the exit statuses a parent can tell apart: 256

ASSUME HarnessAssumption ==
  /\ Registered \subseteq Names
  /\ Registered # {} /\ IsFiniteSet(Registered)
  /\ fileOf \in [Registered -> Files]
  /\ ExitCodes \in Nat \ {0, 1}

VARIABLES
  processes,    \* the harness and the children below it
  status,       \* the exit status of the harness
  ran,          \* how often each test has been started
  broken        \* the tests that failed, crashed or could not be forked

runVars == <<processes, status, ran, broken>>
harnessVars == <<phase, argVars, runVars>>

testsByFileName(f) == {t \in Registered : fileOf[t] = f}

Unset  == [failed |-> FALSE, processIsChild |-> FALSE, set |-> FALSE]
Result(failed, isChild) ==
  [failed |-> failed, processIsChild |-> isChild, set |-> TRUE]
Parent == Result(FALSE, FALSE)

(* What a branch on a result may find: anything, if none was assigned.     *)
Readings(result) ==
  IF result.set THEN {result}
  ELSE {Result(FALSE, TRUE), Result(TRUE, TRUE), Parent}

HarnessInit ==
  /\ ArgsInit
  /\ processes = <<>>
  /\ status = 0
  /\ ran = [t \in Registered |-> 0]
  /\ broken = {}

-----------------------------------------------------------------------------
(* The stages of main.                                                     *)

EnterStage(p, stage, asked, files, tests) ==
  [p EXCEPT !.stage  = stage,
            !.files  = IF asked THEN files ELSE {},
            !.tests  = IF asked THEN tests ELSE {},
            !.copy   = {},
            !.result = IF asked THEN Unset ELSE Parent]

(* runTestsByFile takes executedTests by value.                            *)
AfterFiles_ByReference(p) == [p EXCEPT !.executed = p.copy]
AfterFiles(p) == p

(* runTestsByName skips the tests already executed; as the names are       *)
(* distinct, none becomes so during its own loop.                          *)
NextStage(p) ==
  CASE p.stage = "files" ->
         LET q == AfterFiles(p)
         IN EnterStage(q, "names", Requested("RunByName"), {}, testnames \ q.executed)
    [] p.stage = "names" ->
         EnterStage(p, "all", Requested("RunAll"), {}, Registered)
    [] p.stage = "all" ->
         EnterStage(p, "report", FALSE, {}, {})

(* main answers a request for information, or reports an error, at once.   *)
Answer ==
  /\ phase = "parsed"
  /\ {request1, request2} \cap (Errors \cup {"Usage", "TestList",
                                             "RegisteredTestCount"}) # {}
  /\ phase' = "answered"
  /\ status' = IF {request1, request2} \cap Errors # {} THEN 1 ELSE 0
  /\ UNCHANGED <<argVars, processes, ran, broken>>

(* ... or starts to run tests; the command line is not looked at again.    *)
StartRun ==
  /\ phase = "parsed"
  /\ {request1, request2} \cap {"RunByFile", "RunByName", "RunAll"} # {}
  /\ phase' = "run"
  /\ line' = <<>>
  /\ processes' =
       << EnterStage([stage |-> "", files |-> {}, tests |-> {}, executed |-> {},
                      copy |-> {}, failures |-> {}, result |-> Unset,
                      running |-> {}],
                     "files", Requested("RunByFile"), filenames, {}) >>
  /\ UNCHANGED <<request1, request2, filenames, testnames, status, ran, broken>>

-----------------------------------------------------------------------------
(* The loops.  running is the test a process waits for, or is inside of.   *)

top == Last(processes)
Become(p) == processes' = Append(Front(processes), p)

Runs == phase = "run" /\ top.running = {}

(* A child must not go on with its parent's loop.                          *)
LeavesLoop_Never(p) == FALSE
LeavesLoop(p) == p.result.processIsChild

Looping == Runs /\ ~LeavesLoop(top)

(* RunNamedTest inserts the test into the set its caller passed it.        *)
Executed(p, t) ==
  IF p.stage = "names" THEN [p EXCEPT !.executed = @ \cup {t}]
                       ELSE [p EXCEPT !.copy = @ \cup {t}]

NextFile_Kept(f) ==
  /\ Looping
  /\ top.tests = {}
  /\ f \in top.files
  /\ Become([top EXCEPT !.tests = testsByFileName(f),
               !.result = IF testsByFileName(f) = {} THEN Parent ELSE @])
  /\ UNCHANGED <<phase, argVars, status, ran, broken>>

NextFile(f) ==
  /\ Looping
  /\ top.tests = {}
  /\ f \in top.files
  /\ Become([top EXCEPT !.files = @ \ {f}, !.tests = testsByFileName(f),
               !.result = IF testsByFileName(f) = {} THEN Parent ELSE @])
  /\ UNCHANGED <<phase, argVars, status, ran, broken>>

Due(t) == Looping /\ t \in top.tests

NotFound_Silent(t) ==
  /\ Due(t)
  /\ t \notin Registered
  /\ Become([top EXCEPT !.tests = @ \ {t}, !.result = Parent])
  /\ UNCHANGED <<phase, argVars, status, ran, broken>>

NotFound(t) ==
  /\ Due(t)
  /\ t \notin Registered
  /\ Become([top EXCEPT !.tests = @ \ {t}, !.failures = @ \cup {t},
                        !.result = Parent])
  /\ UNCHANGED <<phase, argVars, status, ran, broken>>

Fork(t) ==
  /\ Due(t)
  /\ t \in Registered
  /\ LET p == [top EXCEPT !.tests = @ \ {t}, !.running = {t}]
     IN processes' = Append(Front(processes), p) \o <<p>>
  /\ ran' = [ran EXCEPT ![t] = @ + 1]
  /\ UNCHANGED <<phase, argVars, status, broken>>

(* The verdict of RunNamedTest in the parent.                              *)
Judged(p, t, failed) ==
  [Executed(p, t) EXCEPT !.tests    = @ \ {t},
                         !.running  = {},
                         !.result   = Result(failed, FALSE),
                         !.failures = IF failed THEN @ \cup {t} ELSE @]

ForkFails(t) ==
  /\ Due(t)
  /\ t \in Registered
  /\ Become(Judged(top, t, TRUE))
  /\ broken' = broken \cup {t}
  /\ UNCHANGED <<phase, argVars, status, ran>>

-----------------------------------------------------------------------------
(* The child.                                                              *)

IsChild == phase = "run" /\ Len(processes) > 1

(* The test function returns, or throws.                                   *)
TestReturns(failed) ==
  /\ IsChild
  /\ top.running # {}
  /\ \E t \in top.running :
       /\ Become([Executed(top, t) EXCEPT !.running = {},
                                          !.result = Result(failed, TRUE)])
       /\ broken' = IF failed THEN broken \cup {t} ELSE broken
  /\ UNCHANGED <<phase, argVars, status, ran>>

(* waitpid returns in the parent: 0 is success, any other status is not,   *)
(* nor is the death by a signal.                                           *)
ChildFailed_ByStatus(how) == how = "exit 1"
ChildFailed(how) == how # "exit 0"

WaitReturns(how) ==
  LET waiting == processes[Len(processes) - 1] IN
  \E t \in waiting.running :
    processes' =
      Append(Front(Front(processes)), Judged(waiting, t, ChildFailed(how)))

(* The test crashes, or the child does on its way out, when the static     *)
(* destructors run.                                                        *)
Crashes ==
  /\ IsChild
  /\ WaitReturns("signalled")
  /\ broken' = broken \cup processes[Len(processes) - 1].running
  /\ UNCHANGED <<phase, argVars, status, ran>>

(* A process leaves main.                                                  *)
LeaveMain(code) ==
  \/ /\ Len(processes) = 1
     /\ status' = code
     /\ phase' = "exited"
     /\ UNCHANGED processes
  \/ /\ Len(processes) > 1
     /\ WaitReturns(IF code = 0 THEN "exit 0" ELSE "exit 1")
     /\ UNCHANGED <<status, phase>>

LoopOver ==
  /\ Runs
  /\ LeavesLoop(top) \/ (top.files = {} /\ top.tests = {})

(* The loop has been left: main looks whether this is a child.             *)
Decide ==
  /\ LoopOver
  /\ top.stage # "report"
  /\ \E r \in Readings(top.result) :
       \/ /\ r.processIsChild
          /\ LeaveMain(IF r.failed THEN 1 ELSE 0)
       \/ /\ ~r.processIsChild
          /\ Become(NextStage(top))
          /\ UNCHANGED <<phase, status>>
  /\ UNCHANGED <<argVars, ran, broken>>

Report ==
  /\ Runs
  /\ top.stage = "report"
  /\ LeaveMain(Cardinality(top.failures) % ExitCodes)
  /\ UNCHANGED <<argVars, ran, broken>>

RunTests ==
  \/ \E f \in Files : NextFile(f)
  \/ \E t \in Names : NotFound(t) \/ Fork(t) \/ ForkFails(t)
  \/ \E failed \in BOOLEAN : TestReturns(failed)
  \/ Crashes
  \/ Decide
  \/ Report

HarnessOver == phase \in {"answered", "exited"} /\ UNCHANGED harnessVars

HarnessNext ==
  \/ parseArgs /\ UNCHANGED runVars
  \/ Answer
  \/ StartRun
  \/ RunTests
  \/ HarnessOver

HarnessSpec == HarnessInit /\ [][HarnessNext]_harnessVars

(* A process that can go on does, and every test ends.                     *)
FairHarnessSpec == HarnessSpec /\ WF_harnessVars(StartRun \/ Answer \/ RunTests)

-----------------------------------------------------------------------------
Wanted ==
  {t \in Registered :
     \/ Requested("RunByFile") /\ fileOf[t] \in filenames
     \/ Requested("RunByName") /\ t \in testnames
     \/ Requested("RunAll")}

Unknown == IF Requested("RunByName") THEN testnames \ Registered ELSE {}

TestResult ==
  {Unset} \cup [failed : BOOLEAN, processIsChild : BOOLEAN, set : {TRUE}]

Process == [stage : {"files", "names", "all", "report"}, files : SUBSET Files,
            tests : SUBSET Names, executed : SUBSET Names, copy : SUBSET Names,
            failures : SUBSET Names, result : TestResult, running : SUBSET Registered]

(* Every variable has its type, and at most one child exists at a time.    *)
HarnessTypeOK ==
  /\ phase \in {"parse", "parsed", "answered", "run", "exited"}
  /\ line \in Seq([option : Options, operand : {"none"} \cup Files \cup Names])
  /\ request1 \in Requests /\ request2 \in Requests
  /\ filenames \subseteq Files /\ testnames \subseteq Names
  /\ processes \in Seq(Process)
  /\ Len(processes) <= 2
  /\ status \in 0..(ExitCodes - 1)
  /\ ran \in [Registered -> Nat]
  /\ broken \subseteq Registered

(* "The child should not do the same; it should exit immediately": below   *)
(* the harness itself nobody forks, and a child that is out of its test    *)
(* does nothing more than leave.                                           *)
ChildrenOnlyLeave ==
  /\ HarnessTypeOK
  /\ phase = "run" /\ Len(processes) > 1 =>
       /\ Len(processes) = 2
       /\ top.running = {} => top.result.set /\ top.result.processIsChild

(* No process branches on a TestResult that was never given a value, in    *)
(* particular not the harness after runTestsByName skipped every test: it  *)
(* could take itself for a child and leave with nothing reported.          *)
ResultIsKnown == phase = "run" /\ LoopOver => top.result.set

(* A harness that exits with 0 after a run has seen every test that was    *)
(* asked for run and end well, and knew every name; as long as there are   *)
(* fewer failures than exit statuses.                                      *)
ZeroMeansPassed ==
  phase = "exited" /\ status = 0 /\ Cardinality(top.failures) < ExitCodes =>
    /\ \A t \in Wanted : ran[t] > 0 /\ t \notin broken
    /\ Unknown = {}

(* The failures reported are those that happened, and the tests run those  *)
(* that were asked for.                                                    *)
ReportIsTrue ==
  phase = "exited" =>
    /\ top.failures = broken \cup Unknown
    /\ \A t \in Registered : ran[t] > 0 => t \in Wanted

(* A run that was started ends, and so does every child's.                 *)
RunEnds == phase = "parsed" ~> phase \in {"answered", "exited"}

(* "Track test execution, to avoid running a test more than once".         *)
RunsOnce == \A t \in Registered : ran[t] <= 1
=============================================================================
