---------------------------- MODULE EngineProofs ----------------------------
(***************************************************************************)
(* Theorems about Engine, for every set of threads and every client.       *)
(***************************************************************************)
EXTENDS EngineClient, FiniteSetTheorems, TLAPS

(* TypeOK but for the range of the counter, which needs CountAgrees.       *)
Typed ==
  /\ process \in {"running", "aborted", "exited"}
  /\ pc \in [Threads -> Labels]
  /\ call \in [Threads -> Calls]
  /\ engineOnce \in OnceStates
  /\ firstOnce \in OnceStates
  /\ tearDown \in BOOLEAN
  /\ destroyed \in BOOLEAN
  /\ runtimeCount \in Int
  /\ data \subseteq Threads
  /\ engine \in {"down", "up", "failed", "shut"}
  /\ runtimes \subseteq Threads

(* Every step of the library preserves the types.                          *)
LEMMA StepTyped ==
  ASSUME Typed, NEW t \in Threads, Step(t)
  PROVE  Typed'
<1> USE DEF Typed, Labels, Outside, Calls, OnceStates, onceVars, disposal,
            accounting, At, Goto, Leave, Halt, AbortOr, AfterEngine,
            AssignReturns, OncePassed
<1>1. CASE EnsureSpiderMonkey(t)   BY <1>1 DEF EnsureSpiderMonkey
<1>2. CASE InitSpiderMonkey(t)     BY <1>2 DEF InitSpiderMonkey
<1>3. CASE PublishTearDown(t)      BY <1>3 DEF PublishTearDown
<1>4. CASE FirstThreadInit(t)      BY <1>4 DEF FirstThreadInit
<1>5. CASE CheckRuntime(t)         BY <1>5 DEF CheckRuntime
<1>6. CASE CheckAlive(t)           BY <1>6 DEF CheckAlive
<1>7. CASE NewRuntime(t)           BY <1>7 DEF NewRuntime
<1>8. CASE NewContext(t)           BY <1>8 DEF NewContext
<1>9. CASE RecordConstruction(t)   BY <1>9 DEF RecordConstruction
<1>10. CASE CheckTearDown(t)       BY <1>10 DEF CheckTearDown
<1>11. CASE StaticDestructor(t)    BY <1>11 DEF StaticDestructor
<1>12. CASE AttemptDispose(t)      BY <1>12 DEF AttemptDispose
<1>13. CASE DestroyRuntime(t)      BY <1>13 DEF DestroyRuntime
<1>14. CASE RecordDestruction(t)   BY <1>14 DEF RecordDestruction
<1>15. CASE ShutDown(t)            BY <1>15 DEF ShutDown
<1>16. CASE MarkDestroyed(t)       BY <1>16 DEF MarkDestroyed
<1> QED BY <1>1, <1>2, <1>3, <1>4, <1>5, <1>6, <1>7, <1>8, <1>9, <1>10,
           <1>11, <1>12, <1>13, <1>14, <1>15, <1>16 DEF Step

(* So does every step of the client.                                       *)
LEMMA ClientTyped ==
  ASSUME Typed, NEW t \in Threads, Client(t)
  PROVE  Typed'
BY DEF Client, Spawn, CallInitialize, CallEnsureRuntime, CallDispose,
       ThreadExits, Typed, Labels, Outside, Calls, onceVars, disposal,
       accounting, At, Goto, Enter

(* Types hold in every run of any client.                                  *)
THEOREM Typing == Spec => []Typed
<1>1. Init => Typed
  <2> SUFFICES ASSUME Init PROVE Typed
    OBVIOUS
  <2>1. pc \in [Threads -> Labels] /\ call \in [Threads -> Calls]
    BY DEF Init, Labels, Outside, Calls
  <2>2. engineOnce \in OnceStates /\ firstOnce \in OnceStates
    BY DEF Init, OnceStates
  <2>3. tearDown \in BOOLEAN /\ destroyed \in BOOLEAN
    BY DEF Init
  <2>6. runtimeCount \in Int
    BY DEF Init
  <2>4. data \subseteq Threads /\ runtimes \subseteq Threads
    BY DEF Init
  <2>5. /\ process \in {"running", "aborted", "exited"}
        /\ engine \in {"down", "up", "failed", "shut"}
    BY DEF Init
  <2> QED BY <2>1, <2>2, <2>3, <2>4, <2>5, <2>6 DEF Typed
<1>2. Typed /\ [Next]_vars => Typed'
  <2> SUFFICES ASSUME Typed, [Next]_vars PROVE Typed'
    OBVIOUS
  <2>1. CASE \E t \in Threads : Step(t) \/ Client(t)
    BY <2>1, StepTyped, ClientTyped
  <2>2. CASE ProcessExits
    BY <2>2, EngineAssumption
    DEF ProcessExits, Typed, Labels, Outside, Calls, onceVars, disposal,
        accounting, At, Enter, Halt
  <2>3. CASE Ended \/ UNCHANGED vars
    BY <2>3 DEF Ended, vars, Typed
  <2> QED BY <2>1, <2>2, <2>3 DEF Next
<1> QED BY <1>1, <1>2, PTL DEF Spec

-----------------------------------------------------------------------------
(* What IInv says of a process that has not ended.                         *)
Steady ==
  /\ \A t \in Threads : CallFits(t) /\ OnceFits(t) /\ SlotFits(t)
  /\ OneRunner
  /\ OnceDone

LEMMA StepSteady ==
  ASSUME Typed, Steady, NEW t \in Threads, Step(t), process' = "running"
  PROVE  Steady'
<1> USE DEF Typed, Steady, Calls, Outside, OnceStates, CallFits, OnceFits, SlotFits, OneRunner,
            OnceDone, Assigning, onceVars, disposal, accounting, At, Goto,
            Leave, Halt, AbortOr, AfterEngine, AssignReturns, OncePassed,
            GetJSRuntimeForThread, OthersRemain
<1>1. CASE EnsureSpiderMonkey(t)
  BY <1>1 DEF EnsureSpiderMonkey
<1>2. CASE InitSpiderMonkey(t)
  BY <1>2 DEF InitSpiderMonkey
<1>3. CASE PublishTearDown(t)
  BY <1>3 DEF PublishTearDown
<1>4. CASE FirstThreadInit(t)
  BY <1>4 DEF FirstThreadInit
<1>5. CASE CheckRuntime(t)
  BY <1>5 DEF CheckRuntime
<1>6. CASE CheckAlive(t)
  BY <1>6 DEF CheckAlive
<1>7. CASE NewRuntime(t)
  BY <1>7 DEF NewRuntime
<1>8. CASE NewContext(t)
  BY <1>8 DEF NewContext
<1>9. CASE RecordConstruction(t)
  BY <1>9 DEF RecordConstruction
<1>10. CASE CheckTearDown(t)
  BY <1>10 DEF CheckTearDown
<1>11. CASE StaticDestructor(t)
  BY <1>11 DEF StaticDestructor
<1>12. CASE AttemptDispose(t)
  BY <1>12 DEF AttemptDispose
<1>13. CASE DestroyRuntime(t)
  BY <1>13 DEF DestroyRuntime
<1>14. CASE RecordDestruction(t)
  BY <1>14 DEF RecordDestruction
<1>15. CASE ShutDown(t)
  BY <1>15 DEF ShutDown
<1>16. CASE MarkDestroyed(t)
  BY <1>16 DEF MarkDestroyed
<1> QED BY <1>1, <1>2, <1>3, <1>4, <1>5, <1>6, <1>7, <1>8, <1>9, <1>10, <1>11, <1>12, <1>13, <1>14, <1>15, <1>16 DEF Step

LEMMA ClientSteady ==
  ASSUME Typed, Steady, NEW t \in Threads, Client(t), process' = "running"
  PROVE  Steady'
<1> USE DEF Typed, Steady, Calls, Outside, OnceStates, CallFits, OnceFits,
            SlotFits, OneRunner, OnceDone, Assigning, onceVars, disposal,
            accounting, At, Goto, Enter
<1>1. CASE Spawn(t)
  BY <1>1 DEF Spawn
<1>2. CASE CallInitialize(t)
  BY <1>2 DEF CallInitialize
<1>3. CASE CallEnsureRuntime(t)
  BY <1>3 DEF CallEnsureRuntime
<1>4. CASE CallDispose(t)
  BY <1>4 DEF CallDispose
<1>5. CASE ThreadExits(t)
  BY <1>5 DEF ThreadExits
<1> QED BY <1>1, <1>2, <1>3, <1>4, <1>5 DEF Client

LEMMA ExitSteady ==
  ASSUME Typed, Steady, ProcessExits, process' = "running"
  PROVE  Steady'
BY EngineAssumption
   DEF ProcessExits, Typed, Steady, Calls, Outside, OnceStates, CallFits,
       OnceFits, SlotFits, OneRunner, OnceDone, Assigning, onceVars,
       disposal, accounting, At, Enter, Halt

(* Nothing happens in a process that has ended.                            *)
LEMMA EndedStays ==
  ASSUME Typed, [Next]_vars, process # "running"
  PROVE  UNCHANGED vars
BY EngineAssumption
   DEF Next, Step, Client, ProcessExits, Ended, EnsureSpiderMonkey,
       InitSpiderMonkey, PublishTearDown, FirstThreadInit, CheckRuntime,
       CheckAlive, NewRuntime, NewContext, RecordConstruction, CheckTearDown,
       StaticDestructor, AttemptDispose, DestroyRuntime, RecordDestruction,
       ShutDown, MarkDestroyed, Spawn, CallInitialize, CallEnsureRuntime,
       CallDispose, ThreadExits, At, Enter

(* The inductive invariant of every client: where each thread is inside    *)
(* which call agrees with the one-shots, its slot and its runtime.         *)
THEOREM Invariance == Spec => []IInv
<1>1. Init => IInv
  BY DEF Init, IInv, Outside, CallFits, OnceFits, SlotFits, OneRunner,
         OnceDone, Assigning
<1>2. Typed /\ IInv /\ [Next]_vars => IInv'
  <2> SUFFICES ASSUME Typed, IInv, [Next]_vars, process' = "running"
               PROVE  Steady'
    BY DEF IInv, Steady
  <2>1. process = "running"
    BY EndedStays DEF vars
  <2>2. Steady
    BY <2>1 DEF IInv, Steady
  <2>3. CASE \E t \in Threads : Step(t) \/ Client(t)
    BY <2>2, <2>3, StepSteady, ClientSteady
  <2>4. CASE ProcessExits
    BY <2>2, <2>4, ExitSteady
  <2>5. CASE Ended \/ UNCHANGED vars
    BY <2>1, <2>2, <2>5
    DEF Ended, vars, Steady, CallFits, OnceFits, SlotFits, OneRunner,
        OnceDone, Assigning
  <2> QED BY <2>3, <2>4, <2>5 DEF Next
<1> QED BY <1>1, <1>2, Typing, PTL DEF Spec

-----------------------------------------------------------------------------
(* Steps that leave alone what is counted, or add one thread, or drop one. *)
LEMMA CountAdds ==
  ASSUME Typed, CountAgrees, NEW t \in Threads, t \notin Counted,
         Counted' = Counted \cup {t}, runtimeCount' = runtimeCount + 1
  PROVE  CountAgrees'
<1>1. IsFiniteSet(Counted)
  BY EngineAssumption, FS_Subset DEF Counted
<1>2. Cardinality(Counted \cup {t}) = Cardinality(Counted) + 1
  BY <1>1, FS_AddElement
<1> QED BY <1>2 DEF CountAgrees

LEMMA CountDrops ==
  ASSUME Typed, CountAgrees, NEW t \in Threads, t \in Counted,
         Counted' = Counted \ {t}, runtimeCount' = runtimeCount - 1
  PROVE  CountAgrees'
<1>1. IsFiniteSet(Counted)
  BY EngineAssumption, FS_Subset DEF Counted
<1>2. Cardinality(Counted \ {t}) = Cardinality(Counted) - 1
  BY <1>1, FS_RemoveElement
<1> QED BY <1>2 DEF CountAgrees

LEMMA StepCounts ==
  ASSUME Typed, Steady, CountAgrees, NEW t \in Threads, Step(t)
  PROVE  CountAgrees'
<1> USE DEF onceVars, disposal, accounting, At, Goto, Leave, Halt, AbortOr,
            AfterEngine, AssignReturns, OncePassed, GetJSRuntimeForThread,
            OthersRemain
<1>1. CASE RecordConstruction(t)
  <2>1. t \in data /\ pc[t] = "recordConstruction"
    BY <1>1 DEF RecordConstruction, Steady, SlotFits
  <2>2. Counted' = Counted \cup {t}
    BY <1>1, <2>1 DEF RecordConstruction, Counted, Typed
  <2>3. t \notin Counted
    BY <2>1 DEF Counted
  <2>4. runtimeCount' = runtimeCount + 1
    BY <1>1 DEF RecordConstruction
  <2> QED BY <2>2, <2>3, <2>4, CountAdds
<1>2. CASE RecordDestruction(t)
  <2>1. t \notin data /\ pc[t] = "recordDestruction"
    BY <1>2 DEF RecordDestruction, Steady, SlotFits
  <2>2. Counted' = Counted \ {t}
    BY <1>2, <2>1 DEF RecordDestruction, Counted, Typed
  <2>3. t \in Counted
    BY <2>1 DEF Counted
  <2>4. runtimeCount' = runtimeCount - 1
    BY <1>2 DEF RecordDestruction
  <2> QED BY <2>2, <2>3, <2>4, CountDrops
<1>3. ASSUME Counted' = Counted, runtimeCount' = runtimeCount
      PROVE  CountAgrees'
  BY <1>3 DEF CountAgrees
<1>4. CASE NewContext(t)
  <2>1. t \notin data /\ pc[t] = "newContext"
    BY <1>4 DEF NewContext, Typed, Calls, Outside, Steady, SlotFits, CallFits,
                Assigning
  <2>2. pc' = pc \/ \E l \in {"recordConstruction", "checkRuntime", "idle"} :
                       pc' = [pc EXCEPT ![t] = l]
    BY <1>4 DEF NewContext
  <2>3. data' = data \/ (data' = data \cup {t} /\ pc'[t] = "recordConstruction")
    BY <1>4 DEF NewContext, Typed
  <2>4. Counted' = Counted
    BY <2>1, <2>2, <2>3 DEF Counted, Typed
  <2> QED BY <1>3, <1>4, <2>4 DEF NewContext
<1>5. CASE DestroyRuntime(t)
  <2>1. Counted' = Counted
    BY <1>5 DEF DestroyRuntime, Counted, Typed, Steady, SlotFits
  <2> QED BY <1>3, <1>5, <2>1 DEF DestroyRuntime
<1>6. CASE EnsureSpiderMonkey(t) \/ InitSpiderMonkey(t) \/ PublishTearDown(t)
  BY <1>3, <1>6 DEF EnsureSpiderMonkey, InitSpiderMonkey, PublishTearDown,
                    Counted, Typed
<1>7. CASE FirstThreadInit(t) \/ CheckRuntime(t) \/ CheckAlive(t)
  BY <1>3, <1>7 DEF FirstThreadInit, CheckRuntime, CheckAlive, Counted, Typed
<1>8. CASE NewRuntime(t)
  BY <1>3, <1>8 DEF NewRuntime, Counted, Typed
<1>9. CASE CheckTearDown(t) \/ StaticDestructor(t) \/ AttemptDispose(t)
  BY <1>3, <1>9 DEF CheckTearDown, StaticDestructor, AttemptDispose, Counted,
                    Typed
<1>10. CASE ShutDown(t) \/ MarkDestroyed(t)
  BY <1>3, <1>10 DEF ShutDown, MarkDestroyed, Counted, Typed
<1> QED BY <1>1, <1>2, <1>4, <1>5, <1>6, <1>7, <1>8, <1>9, <1>10 DEF Step

(* The counter agrees with the slots of the threads, and the types hold    *)
(* with the counter's range, in every run of any client.                   *)
THEOREM Counting == Spec => [](CountAgrees /\ TypeOK)
<1>1. Init => CountAgrees
  <2>1. Init => Counted = {}
    BY DEF Init, Counted
  <2> QED BY <2>1, FS_EmptySet DEF Init, CountAgrees
<1>2. Typed /\ IInv /\ CountAgrees /\ [Next]_vars => CountAgrees'
  <2> SUFFICES ASSUME Typed, IInv, CountAgrees, [Next]_vars
               PROVE  CountAgrees'
    OBVIOUS
  <2>1. ASSUME UNCHANGED vars PROVE CountAgrees'
    BY <2>1 DEF vars, CountAgrees, Counted
  <2>2. CASE process # "running"
    BY <2>1, <2>2, EndedStays
  <2>3. CASE process = "running"
    <3>1. Steady
      BY <2>3 DEF IInv, Steady
    <3>2. CASE \E t \in Threads : Step(t)
      BY <3>1, <3>2, StepCounts
    <3>3. CASE \E t \in Threads : Client(t)
      <4>1. Counted' = Counted /\ runtimeCount' = runtimeCount
        BY <3>3 DEF Client, Spawn, CallInitialize, CallEnsureRuntime,
                    CallDispose, ThreadExits, accounting, At, Goto, Enter,
                    Counted, Typed
      <4> QED BY <4>1 DEF CountAgrees
    <3>4. CASE ProcessExits
      <4>1. Counted' = Counted /\ runtimeCount' = runtimeCount
        BY <3>4, EngineAssumption
        DEF ProcessExits, accounting, At, Enter, Halt, Counted, Typed
      <4> QED BY <4>1 DEF CountAgrees
    <3> QED BY <2>1, <3>2, <3>3, <3>4 DEF Next, Ended
  <2> QED BY <2>2, <2>3
<1>3. Typed /\ CountAgrees => TypeOK
  <2> SUFFICES ASSUME Typed, CountAgrees PROVE TypeOK
    OBVIOUS
  <2>1. IsFiniteSet(Threads) /\ Counted \subseteq Threads
    BY EngineAssumption DEF Counted
  <2>2. /\ Cardinality(Counted) \in Nat
        /\ Cardinality(Threads) \in Nat
        /\ Cardinality(Counted) <= Cardinality(Threads)
    BY <2>1, FS_Subset, FS_CardinalityType
  <2>3. runtimeCount \in 0..Cardinality(Threads)
    BY <2>2 DEF CountAgrees
  <2> QED BY <2>3 DEF Typed, TypeOK
<1> QED BY <1>1, <1>2, <1>3, Typing, Invariance, PTL DEF Spec

(* Every variable has its type, and the counter never passes below zero or *)
(* above the number of threads, in every run of any client.                *)
THEOREM TypesHold == Spec => []TypeOK
<1>1. QED BY Counting, PTL

-----------------------------------------------------------------------------
(* A step that ends the process moves no thread and no one-shot.           *)
LEMMA HaltMovesNobody ==
  ASSUME Typed, [Next]_vars, process = "running", process' # "running"
  PROVE  UNCHANGED <<pc, call, firstOnce>>
<1> USE DEF onceVars, disposal, accounting, At, Goto, Leave, Halt, AbortOr,
            AfterEngine, AssignReturns
<1>1. ASSUME NEW t \in Threads, Step(t)
      PROVE  UNCHANGED <<pc, call, firstOnce>>
  BY <1>1
  DEF Step, EnsureSpiderMonkey, InitSpiderMonkey, PublishTearDown,
      FirstThreadInit, CheckRuntime, CheckAlive, NewRuntime, NewContext,
      RecordConstruction, CheckTearDown, StaticDestructor, AttemptDispose,
      DestroyRuntime, RecordDestruction, ShutDown, MarkDestroyed
<1>2. ASSUME NEW t \in Threads, Client(t)
      PROVE  FALSE
  BY <1>2 DEF Client, Spawn, CallInitialize, CallEnsureRuntime, CallDispose,
              ThreadExits, Enter
<1>3. CASE ProcessExits
  BY <1>3 DEF ProcessExits, Enter
<1>4. CASE Ended \/ UNCHANGED vars
  BY <1>4 DEF Ended, vars
<1> QED BY <1>1, <1>2, <1>3, <1>4 DEF Next

(* Until the first assignment is over nobody else is inside one.           *)
LEMMA SteadyFirst == Typed /\ Steady => FirstRuntimeAlone
BY DEF Typed, Calls, Steady, OnceFits, OneRunner, FirstRuntimeAlone, Assigning

THEOREM FirstAlone == Spec => []FirstRuntimeAlone
<1>1. Init => FirstRuntimeAlone
  BY DEF Init, FirstRuntimeAlone, Assigning
<1>2. /\ Typed /\ Typed' /\ IInv /\ IInv' /\ FirstRuntimeAlone
      /\ [Next]_vars
      => FirstRuntimeAlone'
  <2> SUFFICES ASSUME Typed, Typed', IInv', FirstRuntimeAlone, [Next]_vars
               PROVE  FirstRuntimeAlone'
    OBVIOUS
  <2>1. CASE process' = "running"
    <3>1. Steady'
      BY <2>1 DEF IInv, Steady
    <3>2. (Typed /\ Steady => FirstRuntimeAlone)'
      BY SteadyFirst, PTL
    <3> QED BY <3>1, <3>2
  <2>2. CASE process' # "running"
    <3>1. UNCHANGED <<pc, call, firstOnce>>
      BY <2>2, HaltMovesNobody, EndedStays DEF vars
    <3> QED BY <3>1 DEF FirstRuntimeAlone, Assigning
  <2> QED BY <2>1, <2>2
<1> QED BY <1>1, <1>2, Typing, Invariance, PTL DEF Spec

(* The engine is initialized once and before any runtime.                  *)
THEOREM OnceEach == Spec => InitThenRuntimes
<1>1. Typed /\ IInv /\ [Next]_vars =>
        [\A t \in Threads : /\ InitSpiderMonkey(t) => engine = "down"
                            /\ NewRuntime(t) => engine # "down"]_vars
  BY DEF IInv, InitSpiderMonkey, NewRuntime, At, OnceFits, OnceDone
<1> QED BY <1>1, Typing, Invariance, PTL DEF Spec, InitThenRuntimes

(* No thread is given a second runtime while it has one.                   *)
THEOREM RuntimeKept == Spec => NeverReassigned
<1>1. Typed /\ IInv /\ [Next]_vars =>
        [\A t \in Threads : NewRuntime(t) => t \notin runtimes]_vars
  BY DEF Typed, Calls, Outside, IInv, NewRuntime, At, CallFits, SlotFits,
         Assigning
<1> QED BY <1>1, Typing, Invariance, PTL DEF Spec, NeverReassigned

(* Unless the environment lets failures pass, EnsureRuntimeAndContext      *)
(* returns only to a thread that has its runtime.                          *)
THEOREM Assigned ==
  ASSUME ~NoAbort
  PROVE  Spec => EnsureAssigns
<1>1. Typed /\ IInv /\ [Next]_vars =>
        [\A t \in Threads :
           call[t] \in {"First", "Direct"} /\ call'[t] = "none" =>
             t \in data' \cap runtimes']_vars
  <2> SUFFICES ASSUME Typed, IInv, Next, NEW t \in Threads,
                      call[t] \in {"First", "Direct"}, call'[t] = "none"
               PROVE  t \in data' \cap runtimes'
    OBVIOUS
  <2>1. process = "running"
    BY EndedStays DEF vars
  <2>2. Steady
    BY <2>1 DEF IInv, Steady
  <2>3. PICK u \in Threads : Step(u) \/ Client(u) \/ ProcessExits
    BY <2>1, EngineAssumption DEF Next, Ended
  <2> USE DEF onceVars, accounting, At, Goto, Enter, Leave, Halt, AbortOr,
              AfterEngine, AssignReturns
  <2>4. ~Client(u) /\ ~ProcessExits
    BY <2>2, EngineAssumption
    DEF Client, Spawn, CallInitialize, CallEnsureRuntime, CallDispose,
        ThreadExits, ProcessExits, Typed, Steady, CallFits, Outside
  <2>5. CASE RecordConstruction(u)
    BY <2>2, <2>5 DEF RecordConstruction, Typed, Steady, SlotFits
  <2>6. CASE CheckRuntime(u)
    BY <2>2, <2>6 DEF CheckRuntime, GetJSRuntimeForThread, Typed, Steady,
                      SlotFits
  <2>7. CASE EnsureSpiderMonkey(u) \/ InitSpiderMonkey(u) \/ PublishTearDown(u)
    BY <2>7 DEF EnsureSpiderMonkey, InitSpiderMonkey, PublishTearDown, Typed
  <2>8. CASE FirstThreadInit(u) \/ CheckAlive(u) \/ NewRuntime(u) \/ NewContext(u)
    BY <2>8 DEF FirstThreadInit, CheckAlive, NewRuntime, NewContext, Typed
  <2>9. CASE CheckTearDown(u) \/ AttemptDispose(u) \/ RecordDestruction(u)
             \/ MarkDestroyed(u) \/ StaticDestructor(u) \/ DestroyRuntime(u)
             \/ ShutDown(u)
    BY <2>2, <2>9
    DEF CheckTearDown, AttemptDispose, RecordDestruction, MarkDestroyed,
        StaticDestructor, DestroyRuntime, ShutDown, Typed, Steady, CallFits
  <2> QED BY <2>3, <2>4, <2>5, <2>6, <2>7, <2>8, <2>9 DEF Step
<1> QED BY <1>1, Typing, Invariance, PTL DEF Spec, EnsureAssigns
-----------------------------------------------------------------------------
(* A client that keeps the rules meets the demands of SpiderMonkey, as     *)
(* long as JS_Init does not fail.                                          *)

(* SafeInv for a process that has not ended.                               *)
Safe ==
  /\ \A t \in Threads : DisposeFits(t)
  /\ engine \in {"down", "shut"} => data = {}
  /\ destroyed => engine = "shut"
  /\ engine = "shut" => destroyed \/ \E t \in Threads : pc[t] = "markDestroyed"

(* A client that keeps the rules is a client.                              *)
LEMMA SafeIsClient == SafeSpec => Spec /\ [][ClientRules]_vars
<1>1. [Next /\ ClientRules]_vars => [Next]_vars /\ [ClientRules]_vars
  OBVIOUS
<1> QED BY <1>1, PTL DEF SafeSpec, Spec

(* With everybody else outside, a counter of at most one is the disposer's *)
(* own runtime, or zero.                                                   *)
LEMMA LastRuntime ==
  ASSUME Typed, Steady, CountAgrees, NEW t \in Threads,
         pc[t] = "attemptDispose", \A u \in Others(t) : ~InLibrary(u),
         runtimeCount <= 1, t \in data
  PROVE  data = {t}
<1>1. Counted = data
  BY DEF Counted, Typed, Others, InLibrary, Outside
<1>2. IsFiniteSet(data)
  BY EngineAssumption, FS_Subset DEF Typed
<1>3. Cardinality(data) <= 1
  BY <1>1 DEF CountAgrees
<1>4. Cardinality({t}) = 1 /\ {t} \in SUBSET data
  BY FS_Singleton
<1>5. Cardinality({t}) <= Cardinality(data)
  BY <1>2, <1>4, FS_Subset
<1>6. Cardinality(data) = Cardinality({t})
  BY <1>2, <1>3, <1>4, <1>5, FS_CardinalityType
<1> QED BY <1>2, <1>4, <1>6, FS_Subset

LEMMA StepSafe ==
  ASSUME Typed, Steady, CountAgrees, Safe, "init" \notin Failures,
         NEW t \in Threads, Step(t), process' = "running"
  PROVE  Safe'
<1> USE DEF Typed, Steady, Safe, Calls, Outside, CallFits, OnceFits, SlotFits,
            OnceDone, DisposeFits, Others, InLibrary, Assigning, onceVars,
            disposal, accounting, At, Goto, Leave, Halt, AbortOr,
            AfterEngine, AssignReturns, OncePassed, GetJSRuntimeForThread,
            OthersRemain
<1>1. CASE EnsureSpiderMonkey(t)
  BY <1>1 DEF EnsureSpiderMonkey
<1>2. CASE InitSpiderMonkey(t)
  BY <1>2 DEF InitSpiderMonkey
<1>3. CASE PublishTearDown(t)
  BY <1>3 DEF PublishTearDown
<1>4. CASE FirstThreadInit(t)
  BY <1>4 DEF FirstThreadInit
<1>5. CASE CheckRuntime(t)
  BY <1>5 DEF CheckRuntime
<1>6. CASE CheckAlive(t)
  BY <1>6 DEF CheckAlive
<1>7. CASE NewRuntime(t)
  BY <1>7 DEF NewRuntime
<1>8. CASE NewContext(t)
  BY <1>8 DEF NewContext
<1>9. CASE RecordConstruction(t)
  BY <1>9 DEF RecordConstruction
<1>10. CASE CheckTearDown(t)
  BY <1>10 DEF CheckTearDown
<1>11. CASE StaticDestructor(t)
  BY <1>11 DEF StaticDestructor
<1>12. CASE AttemptDispose(t)
  BY <1>12, LastRuntime DEF AttemptDispose
<1>13. CASE DestroyRuntime(t)
  BY <1>13 DEF DestroyRuntime
<1>14. CASE RecordDestruction(t)
  BY <1>14 DEF RecordDestruction
<1>15. CASE ShutDown(t)
  BY <1>15 DEF ShutDown
<1>16. CASE MarkDestroyed(t)
  BY <1>16 DEF MarkDestroyed
<1> QED BY <1>1, <1>2, <1>3, <1>4, <1>5, <1>6, <1>7, <1>8, <1>9, <1>10,
           <1>11, <1>12, <1>13, <1>14, <1>15, <1>16 DEF Step

LEMMA ClientSafe ==
  ASSUME Typed, Steady, Safe, NEW t \in Threads, Client(t), ClientRules
  PROVE  Safe'
<1> USE DEF Typed, Steady, Safe, Calls, Outside, CallFits, SlotFits,
            DisposeFits, Others, InLibrary, onceVars, disposal, accounting,
            At, Goto, Enter, ClientRules, Starts
<1>1. CASE Spawn(t)
  BY <1>1 DEF Spawn
<1>2. CASE CallInitialize(t)
  BY <1>2 DEF CallInitialize, DisposeAlone, Disposing, NoReuse
<1>3. CASE CallEnsureRuntime(t)
  BY <1>3 DEF CallEnsureRuntime, DisposeAlone, Disposing, NoReuse
<1>4. CASE CallDispose(t)
  BY <1>4 DEF CallDispose, DisposeAlone, Disposing, DisposeByOwner, NoReuse
<1>5. CASE ThreadExits(t)
  BY <1>5 DEF ThreadExits, DisposeAlone, Disposing
<1> QED BY <1>1, <1>2, <1>3, <1>4, <1>5 DEF Client

LEMMA ExitSafe ==
  ASSUME Typed, Steady, Safe, ProcessExits, ClientRules, process' = "running"
  PROVE  Safe'
BY EngineAssumption
   DEF ProcessExits, Typed, Steady, Safe, Calls, Outside, CallFits, SlotFits,
       DisposeFits, Others, InLibrary, onceVars, disposal, accounting, At,
       Enter, Halt, ClientRules, JoinsThreads

(* While the rules are kept nobody is disturbed by a disposal.             *)
THEOREM SafeInvariance ==
  ASSUME "init" \notin Failures
  PROVE  SafeSpec => []SafeInv
<1>1. Init => SafeInv
  BY DEF Init, SafeInv, DisposeFits, Outside
<1>2. /\ Typed /\ IInv /\ CountAgrees /\ SafeInv
      /\ [Next]_vars /\ [ClientRules]_vars
      => SafeInv'
  <2> SUFFICES ASSUME Typed, IInv, CountAgrees, SafeInv, [Next]_vars,
                      [ClientRules]_vars, process' = "running"
               PROVE  Safe'
    BY DEF SafeInv, Safe
  <2>1. process = "running"
    BY EndedStays DEF vars
  <2>2. Steady /\ Safe
    BY <2>1 DEF IInv, Steady, SafeInv, Safe
  <2>3. CASE UNCHANGED vars
    BY <2>2, <2>3 DEF vars, Safe, DisposeFits, Others, InLibrary
  <2>4. CASE ClientRules /\ \E t \in Threads : Step(t) \/ Client(t)
    BY <2>2, <2>4, StepSafe, ClientSafe
  <2>5. CASE ClientRules /\ ProcessExits
    BY <2>2, <2>5, ExitSafe
  <2> QED BY <2>3, <2>4, <2>5 DEF Next, Ended
<1>3. SafeSpec => [](Typed /\ IInv /\ CountAgrees)
  BY SafeIsClient, Typing, Invariance, Counting, PTL
<1>4. SafeSpec => Init
  BY DEF SafeSpec
<1> QED BY <1>1, <1>2, <1>3, <1>4, SafeIsClient, PTL DEF Spec

-----------------------------------------------------------------------------
(* Every step of the library is a step of the engine's life, or none.      *)
LEMMA StepRefines ==
  ASSUME Typed, Steady, Safe, "init" \notin Failures,
         engine # "failed", NEW t \in Threads, Step(t)
  PROVE  [Lifecycle!Next]_<<engine, runtimes>>
<1> USE DEF Typed, Steady, Safe, Calls, Outside, CallFits, OnceFits, SlotFits,
            OnceDone, DisposeFits, Others, InLibrary, Assigning, accounting,
            At, Lifecycle!Next
<1>1. CASE InitSpiderMonkey(t)
  BY <1>1 DEF InitSpiderMonkey, Lifecycle!Start
<1>2. CASE NewRuntime(t)
  BY <1>2 DEF NewRuntime, Lifecycle!Acquire
<1>3. CASE NewContext(t)
  BY <1>3 DEF NewContext, Lifecycle!Release
<1>4. CASE DestroyRuntime(t)
  BY <1>4 DEF DestroyRuntime, Lifecycle!Release
<1>5. CASE ShutDown(t)
  <2>1. runtimes = {}
    BY <1>5 DEF ShutDown
  <2>2. engine = "up"
    BY <1>5 DEF ShutDown
  <2> QED BY <1>5, <2>1, <2>2 DEF ShutDown, Lifecycle!Stop
<1>6. CASE \/ EnsureSpiderMonkey(t) \/ PublishTearDown(t) \/ FirstThreadInit(t)
           \/ CheckRuntime(t) \/ CheckAlive(t) \/ RecordConstruction(t)
           \/ CheckTearDown(t) \/ StaticDestructor(t) \/ AttemptDispose(t)
           \/ RecordDestruction(t) \/ MarkDestroyed(t)
  BY <1>6 DEF EnsureSpiderMonkey, PublishTearDown, FirstThreadInit,
              CheckRuntime, CheckAlive, RecordConstruction, CheckTearDown,
              StaticDestructor, AttemptDispose, RecordDestruction,
              MarkDestroyed
<1> QED BY <1>1, <1>2, <1>3, <1>4, <1>5, <1>6 DEF Step

NotFailed == engine # "failed"

(* JS_Init does not fail when it cannot.                                   *)
LEMMA NeverFailed ==
  ASSUME "init" \notin Failures
  PROVE  Spec => []NotFailed
<1>1. Init => NotFailed
  BY DEF Init, NotFailed
<1>2. NotFailed /\ [Next]_vars => NotFailed'
  <2> SUFFICES ASSUME engine # "failed", [Next]_vars PROVE engine' # "failed"
    BY DEF NotFailed
  <2>1. ASSUME NEW t \in Threads, Step(t) PROVE engine' # "failed"
    BY <2>1
    DEF Step, EnsureSpiderMonkey, InitSpiderMonkey, PublishTearDown,
        FirstThreadInit, CheckRuntime, CheckAlive, NewRuntime, NewContext,
        RecordConstruction, CheckTearDown, StaticDestructor, AttemptDispose,
        DestroyRuntime, RecordDestruction, ShutDown, MarkDestroyed
  <2>2. ASSUME NEW t \in Threads, Client(t) PROVE engine' # "failed"
    BY <2>2 DEF Client, Spawn, CallInitialize, CallEnsureRuntime, CallDispose,
                ThreadExits
  <2> QED BY <2>1, <2>2 DEF Next, ProcessExits, Ended, vars
<1> QED BY <1>1, <1>2, PTL DEF Spec

(* The program of a client that keeps the rules implements the life of the *)
(* engine: initialized once, runtimes only while it is up, shut down once  *)
(* and with no runtime left.                                               *)
THEOREM Refinement ==
  ASSUME "init" \notin Failures
  PROVE  SafeSpec => ImplementsLifecycle
<1>1. Init => Lifecycle!Init
  BY DEF Init, Lifecycle!Init
<1>2. /\ Typed /\ IInv /\ SafeInv /\ NotFailed /\ [Next]_vars
      => [Lifecycle!Next]_<<engine, runtimes>>
  <2> SUFFICES ASSUME Typed, IInv, SafeInv, engine # "failed", [Next]_vars
               PROVE  [Lifecycle!Next]_<<engine, runtimes>>
    BY DEF NotFailed
  <2>1. CASE UNCHANGED vars
    BY <2>1 DEF vars
  <2>2. CASE process # "running"
    BY <2>1, <2>2, EndedStays
  <2>3. ASSUME process = "running", NEW t \in Threads, Step(t)
        PROVE  [Lifecycle!Next]_<<engine, runtimes>>
    BY <2>3, StepRefines DEF IInv, Steady, SafeInv, Safe
  <2>4. ASSUME NEW t \in Threads, Client(t)
        PROVE  UNCHANGED <<engine, runtimes>>
    BY <2>4 DEF Client, Spawn, CallInitialize, CallEnsureRuntime, CallDispose,
                ThreadExits, accounting
  <2>5. CASE ProcessExits
    BY <2>5 DEF ProcessExits, accounting
  <2> QED BY <2>1, <2>2, <2>3, <2>4, <2>5 DEF Next, Ended
<1>3. SafeSpec => [](Typed /\ IInv /\ SafeInv /\ NotFailed)
  BY SafeIsClient, Typing, Invariance, SafeInvariance, NeverFailed, PTL
<1>4. SafeSpec => Init
  BY DEF SafeSpec
<1> QED BY <1>1, <1>2, <1>3, <1>4, SafeIsClient, PTL
        DEF Spec, ImplementsLifecycle, Lifecycle!Spec

-----------------------------------------------------------------------------
(* No step of a client that keeps the rules fails an assertion.            *)
LEMMA StepLives ==
  ASSUME Typed, Steady, CountAgrees, Safe, Failures = {},
         NEW t \in Threads, Step(t)
  PROVE  process' # "aborted"
<1> USE DEF Typed, Steady, Safe, Calls, Outside, CallFits, SlotFits,
            DisposeFits, Others, onceVars, At, Goto, Leave, Halt, AbortOr,
            AfterEngine, AssignReturns
<1>1. CASE CheckAlive(t)
  BY <1>1 DEF CheckAlive
<1>2. CASE AttemptDispose(t)
  <2>1. CASE call[t] = "StaticDtor"
    <3>1. ASSUME NEW u \in Threads, u # t  PROVE u \notin Counted
      BY <2>1, <1>2, <3>1 DEF Counted, AttemptDispose
    <3>2. Cardinality(Counted) <= 1
      <4>1. Counted \in SUBSET {t}
        BY <3>1 DEF Counted
      <4>2. IsFiniteSet({t}) /\ Cardinality({t}) = 1
        BY FS_Singleton
      <4> QED BY <4>1, <4>2, FS_Subset
    <3>3. ~OthersRemain
      BY <3>2 DEF CountAgrees, OthersRemain
    <3> QED BY <1>2, <3>3 DEF AttemptDispose
  <2>2. CASE call[t] # "StaticDtor"
    BY <1>2, <2>2 DEF AttemptDispose
  <2> QED BY <2>1, <2>2
<1>3. CASE \/ EnsureSpiderMonkey(t) \/ InitSpiderMonkey(t) \/ PublishTearDown(t)
           \/ FirstThreadInit(t) \/ CheckRuntime(t) \/ NewRuntime(t)
           \/ NewContext(t) \/ RecordConstruction(t) \/ CheckTearDown(t)
           \/ StaticDestructor(t) \/ DestroyRuntime(t) \/ RecordDestruction(t)
           \/ ShutDown(t) \/ MarkDestroyed(t)
  BY <1>3
  DEF EnsureSpiderMonkey, InitSpiderMonkey, PublishTearDown, FirstThreadInit,
      CheckRuntime, NewRuntime, NewContext, RecordConstruction, CheckTearDown,
      StaticDestructor, DestroyRuntime, RecordDestruction, ShutDown,
      MarkDestroyed
<1> QED BY <1>1, <1>2, <1>3 DEF Step

(* A runtime is never asked for after the engine is gone, and the static   *)
(* destructor never finds another thread's runtime.                        *)
THEOREM NoAssertionFails ==
  ASSUME Failures = {}
  PROVE  SafeSpec => []NeverAborts
<1>1. Init => NeverAborts
  BY DEF Init, NeverAborts
<1>2. /\ Typed /\ IInv /\ CountAgrees /\ SafeInv /\ NeverAborts
      /\ [Next]_vars
      => NeverAborts'
  <2> SUFFICES ASSUME Typed, IInv, CountAgrees, SafeInv, NeverAborts,
                      [Next]_vars
               PROVE  process' # "aborted"
    BY DEF NeverAborts
  <2>1. CASE process # "running" \/ UNCHANGED vars
    BY <2>1, EndedStays DEF vars, NeverAborts
  <2>2. ASSUME process = "running", NEW t \in Threads, Step(t)
        PROVE  process' # "aborted"
    BY <2>2, StepLives DEF IInv, Steady, SafeInv, Safe
  <2>3. ASSUME NEW t \in Threads, Client(t)
        PROVE  process' = process
    BY <2>3 DEF Client, Spawn, CallInitialize, CallEnsureRuntime, CallDispose,
                ThreadExits, Goto
  <2>4. CASE ProcessExits
    BY <2>4 DEF ProcessExits, Halt, NeverAborts
  <2> QED BY <2>1, <2>2, <2>3, <2>4 DEF Next, Ended, NeverAborts
<1>3. SafeSpec => []SafeInv
  BY SafeInvariance
<1>4. SafeSpec => [](Typed /\ IInv /\ CountAgrees /\ SafeInv)
  BY <1>3, SafeIsClient, Typing, Invariance, Counting, PTL
<1>5. SafeSpec => Init
  BY DEF SafeSpec
<1> QED BY <1>1, <1>2, <1>3, <1>4, <1>5, SafeIsClient, PTL DEF Spec

-----------------------------------------------------------------------------
(* An initialized engine has somebody who will tear it down: the static    *)
(* tearDown, or the thread that is about to fill it.                       *)
Carried ==
  process = "running" =>
    /\ engineOnce = "done" => tearDown
    /\ engineOnce = "running" => \E t \in Threads : pc[t] \in {"jsInit", "publish"}

LEMMA CarriedInvariance == Spec => []Carried
<1>1. Init => Carried
  BY DEF Init, Carried
<1>2. Typed /\ Carried /\ [Next]_vars => Carried'
  <2> SUFFICES ASSUME Typed, Carried, [Next]_vars, process' = "running"
               PROVE  /\ engineOnce' = "done" => tearDown'
                      /\ engineOnce' = "running" =>
                           \E t \in Threads : pc'[t] \in {"jsInit", "publish"}
    BY DEF Carried
  <2> USE DEF Typed, onceVars, disposal, accounting, At, Goto, Enter, Leave,
              Halt, AbortOr, AfterEngine, AssignReturns, OncePassed
  <2>1. CASE UNCHANGED vars
    BY <2>1 DEF vars, Carried
  <2>2. CASE Ended \/ ProcessExits
    BY <2>2, EngineAssumption DEF Ended, vars, ProcessExits, Carried
  <2>3. ASSUME NEW t \in Threads, Client(t)
        PROVE  UNCHANGED <<engineOnce, tearDown, process>> /\ process = "running"
               /\ pc[t] \in Outside /\ \A u \in Threads \ {t} : pc'[u] = pc[u]
    BY <2>3 DEF Client, Spawn, CallInitialize, CallEnsureRuntime, CallDispose,
                ThreadExits, Outside
  <2>4. ASSUME NEW t \in Threads, Step(t)
        PROVE  /\ engineOnce' = "done" => tearDown'
               /\ engineOnce' = "running" =>
                    \E u \in Threads : pc'[u] \in {"jsInit", "publish"}
    <3> USE DEF Carried
    <3>1. CASE EnsureSpiderMonkey(t)
      BY <3>1 DEF EnsureSpiderMonkey
    <3>2. CASE InitSpiderMonkey(t)
      BY <3>2 DEF InitSpiderMonkey
    <3>3. CASE PublishTearDown(t)
      BY <3>3 DEF PublishTearDown
    <3>4. CASE \/ FirstThreadInit(t) \/ CheckRuntime(t) \/ CheckAlive(t)
               \/ NewRuntime(t) \/ NewContext(t) \/ RecordConstruction(t)
      BY <3>4 DEF FirstThreadInit, CheckRuntime, CheckAlive, NewRuntime,
                  NewContext, RecordConstruction
    <3>5. CASE \/ CheckTearDown(t) \/ StaticDestructor(t) \/ AttemptDispose(t)
               \/ DestroyRuntime(t) \/ RecordDestruction(t) \/ ShutDown(t)
               \/ MarkDestroyed(t)
      BY <3>5 DEF CheckTearDown, StaticDestructor, AttemptDispose,
                  DestroyRuntime, RecordDestruction, ShutDown, MarkDestroyed
    <3> QED BY <2>4, <3>1, <3>2, <3>3, <3>4, <3>5 DEF Step
  <2>5. ASSUME NEW t \in Threads, Client(t)
        PROVE  /\ engineOnce' = "done" => tearDown'
               /\ engineOnce' = "running" =>
                    \E u \in Threads : pc'[u] \in {"jsInit", "publish"}
    BY <2>3, <2>5 DEF Carried, Outside
  <2> QED BY <2>1, <2>2, <2>4, <2>5 DEF Next
<1> QED BY <1>1, <1>2, Typing, PTL DEF Spec

(* A process that ends has shut down the engine it brought up, and has     *)
(* left no runtime, whether it called V8::Dispose or not.                  *)
THEOREM ExitsClean ==
  ASSUME "init" \notin Failures
  PROVE  SafeSpec => []ExitClean
<1>1. Init => ExitClean
  BY DEF Init, ExitClean
<1>2. /\ Typed /\ IInv /\ SafeInv /\ NotFailed /\ Carried /\ ExitClean
      /\ [Next]_vars /\ [ClientRules]_vars
      => ExitClean'
  <2> SUFFICES ASSUME Typed, IInv, SafeInv, NotFailed, Carried, ExitClean,
                      [Next]_vars, [ClientRules]_vars, process' = "exited"
               PROVE  engine' \in {"down", "shut"} /\ runtimes' = {}
    BY DEF ExitClean
  <2> USE DEF Typed, IInv, SafeInv, onceVars, disposal, accounting, At, Goto,
              Leave, Halt, SlotFits, CallFits, DisposeFits, Others, Outside,
              Calls, OnceStates
  <2>1. CASE process # "running" \/ UNCHANGED vars
    BY <2>1, EndedStays DEF vars, ExitClean
  <2>2. ASSUME process = "running", NEW t \in Threads, StaticDestructor(t)
        PROVE  engine' \in {"down", "shut"} /\ runtimes' = {}
    BY <2>2 DEF StaticDestructor
  <2>3. ASSUME process = "running", NEW t \in Threads, MarkDestroyed(t)
        PROVE  engine' \in {"down", "shut"} /\ runtimes' = {}
    BY <2>3 DEF MarkDestroyed
  <2>4. ASSUME process = "running", ProcessExits
        PROVE  engine' \in {"down", "shut"} /\ runtimes' = {}
    BY <2>4, EngineAssumption
       DEF ProcessExits, Enter, Carried, OnceDone, ClientRules,
           JoinsThreads, vars
  <2>5. ASSUME process = "running", NEW t \in Threads, Step(t),
               ~StaticDestructor(t), ~MarkDestroyed(t)
        PROVE  process' # "exited"
    BY <2>5 DEF Step, EnsureSpiderMonkey, InitSpiderMonkey, PublishTearDown,
                FirstThreadInit, CheckRuntime, CheckAlive, NewRuntime,
                NewContext, RecordConstruction, CheckTearDown, AttemptDispose,
                DestroyRuntime, RecordDestruction, ShutDown, AfterEngine,
                AbortOr, AssignReturns
  <2>6. ASSUME process = "running", NEW t \in Threads, Client(t)
        PROVE  process' # "exited"
    BY <2>6 DEF Client, Spawn, CallInitialize, CallEnsureRuntime, CallDispose,
                ThreadExits
  <2> QED BY <2>1, <2>2, <2>3, <2>4, <2>5, <2>6 DEF Next, Ended
<1>3. SafeSpec => [](SafeInv /\ NotFailed)
  BY SafeIsClient, SafeInvariance, NeverFailed, PTL
<1>4. SafeSpec => [](Typed /\ IInv /\ Carried)
  BY SafeIsClient, Typing, Invariance, CarriedInvariance, PTL
<1>5. SafeSpec => Init
  BY DEF SafeSpec
<1> QED BY <1>1, <1>2, <1>3, <1>4, <1>5, SafeIsClient, PTL DEF Spec
=============================================================================
