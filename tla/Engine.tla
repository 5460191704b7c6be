------------------------------- MODULE Engine -------------------------------
(***************************************************************************)
(* The life of the SpiderMonkey engine under V8::Initialize, V8::Dispose,  *)
(* EnsureRuntimeAndContext, thread exit and process exit                   *)
(* (src/src/utils/SpiderMonkeyUtils.cpp above the "project reset" line,    *)
(* and src/src/engine/init.cpp).                                           *)
(*                                                                         *)
(* Every thread has a program counter.  A step is one access to state that *)
(* another thread can see: a pthread_once, the atomic counter, the plain   *)
(* flag spiderMonkeyDestroyed, the tearDown pointer, or one call into the  *)
(* JSAPI.  What a thread does with its own thread-local storage is folded  *)
(* into the neighbouring step.                                             *)
(*                                                                         *)
(* A definition Name_Slip, always just above Name, is Name with a slip a   *)
(* maintainer could make; no specification uses it.                        *)
(***************************************************************************)
EXTENDS Integers, FiniteSets

CONSTANTS
  Threads,     \* thread identities; one may be reused after its thread ended
  Main,        \* the thread that runs the static destructors
  NoAbort,     \* V8MONKEY_NOABORTONASSERT=1: Abort() returns to its caller
  Failures     \* the JSAPI calls that may fail

ASSUME EngineAssumption ==
  /\ IsFiniteSet(Threads)
  /\ Main \in Threads
  /\ NoAbort \in BOOLEAN
  /\ Failures \subseteq {"init", "runtime", "context"}

VARIABLES
  process,       \* the process as a whole
  pc,            \* where each thread is
  call,          \* the API call, or the part of one, each thread is inside
  engineOnce,    \* spiderMonkeyInit, the pthread_once of EnsureSpiderMonkey
  firstOnce,     \* firstThreadInit, the one of EnsureRuntimeAndContext
  tearDown,      \* does the static unique_ptr hold a SpiderMonkeyTearDown?
  destroyed,     \* the flag spiderMonkeyDestroyed
  runtimeCount,  \* the atomic counter of the same name
  data,          \* the threads whose smDataKey slot is not null
  engine,        \* SpiderMonkey itself
  runtimes       \* the threads that own a live JSRuntime

vars == <<process, pc, call, engineOnce, firstOnce, tearDown, destroyed,
          runtimeCount, data, engine, runtimes>>

onceVars   == <<engineOnce, firstOnce>>
disposal   == <<tearDown, destroyed>>
accounting == <<runtimeCount, data, runtimes>>

OnceStates == {"new", "running", "done"}
Calls      == {"none", "Initialize", "First", "Direct",
               "Dispose", "StaticDtor", "ThreadExit"}
Outside    == {"idle", "absent"}
Labels     == Outside \cup
  {"engineOnce", "jsInit", "publish", "firstOnce", "checkAlive",
   "newRuntime", "newContext", "recordConstruction", "checkRuntime",
   "checkTearDown", "dtorCheck", "attemptDispose", "destroyRuntime",
   "recordDestruction", "shutDown", "markDestroyed"}

Init ==
  /\ process = "running"
  /\ pc = [t \in Threads |-> IF t = Main THEN "idle" ELSE "absent"]
  /\ call = [t \in Threads |-> "none"]
  /\ engineOnce = "new"
  /\ firstOnce = "new"
  /\ tearDown = FALSE
  /\ destroyed = FALSE
  /\ runtimeCount = 0
  /\ data = {}
  /\ engine = "down"
  /\ runtimes = {}

-----------------------------------------------------------------------------
(* Control.                                                                *)

InLibrary(t) == pc[t] \notin Outside

At(t, label) == process = "running" /\ pc[t] = label

Goto(t, label) ==
  /\ pc' = [pc EXCEPT ![t] = label]
  /\ UNCHANGED <<process, call>>

Enter(t, what, label) ==
  /\ At(t, "idle")
  /\ pc' = [pc EXCEPT ![t] = label]
  /\ call' = [call EXCEPT ![t] = what]

Leave(t, label) ==
  /\ pc' = [pc EXCEPT ![t] = label]
  /\ call' = [call EXCEPT ![t] = "none"]

Halt(how) == process' = how /\ UNCHANGED <<pc, call>>

(* A failed JSAPI call: Abort() ends the process unless the environment    *)
(* says otherwise, in which case the caller goes on.                       *)
AbortOr(goOn) ==
  \/ ~NoAbort /\ Halt("aborted") /\ UNCHANGED onceVars
  \/ NoAbort /\ goOn

-----------------------------------------------------------------------------
(* What the client does: start and end threads, call the API, end the      *)
(* process.                                                                *)

Spawn(t) ==
  /\ At(t, "absent")
  /\ \E u \in Threads : pc[u] = "idle"
  /\ Goto(t, "idle")
  /\ UNCHANGED <<onceVars, disposal, accounting, engine>>

CallInitialize(t) ==
  /\ Enter(t, "Initialize", "engineOnce")
  /\ UNCHANGED <<process, onceVars, disposal, accounting, engine>>

CallEnsureRuntime(t) ==
  /\ Enter(t, "Direct", "firstOnce")
  /\ UNCHANGED <<process, onceVars, disposal, accounting, engine>>

CallDispose(t) ==
  /\ Enter(t, "Dispose", "checkTearDown")
  /\ UNCHANGED <<process, onceVars, disposal, accounting, engine>>

(* The destructor of smDataKey runs when the slot is not null.             *)
ThreadExits(t) ==
  /\ t # Main
  /\ \/ t \in data /\ Enter(t, "ThreadExit", "destroyRuntime")
     \/ t \notin data /\ Enter(t, "none", "absent")
  /\ UNCHANGED <<process, onceVars, disposal, accounting, engine>>

(* exit(): the unique_ptr's destructor deletes the object it holds, if any *)
ProcessExits ==
  /\ \/ tearDown /\ Enter(Main, "StaticDtor", "dtorCheck") /\ UNCHANGED process
     \/ ~tearDown /\ At(Main, "idle") /\ Halt("exited")
  /\ UNCHANGED <<onceVars, disposal, accounting, engine>>

-----------------------------------------------------------------------------
(* EnsureSpiderMonkey and initSpiderMonkey.                                *)

(* pthread_once lets a thread go on when the one-time function is over,    *)
(* and not while another thread is still inside it.                        *)
OncePassed_NoWait(once) == once # "new"
OncePassed(once) == once = "done"

AfterEngine(t) ==
  \/ call[t] = "Initialize" /\ Leave(t, "idle") /\ UNCHANGED process
  \/ call[t] # "Initialize" /\ Goto(t, "newRuntime")

EnsureSpiderMonkey(t) ==
  /\ At(t, "engineOnce")
  /\ \/ engineOnce = "new" /\ engineOnce' = "running" /\ Goto(t, "jsInit")
     \/ OncePassed(engineOnce) /\ AfterEngine(t) /\ UNCHANGED engineOnce
  /\ UNCHANGED <<firstOnce, disposal, accounting, engine>>

InitSpiderMonkey(t) ==
  /\ At(t, "jsInit")
  /\ \/ engine' = "up" /\ Goto(t, "publish") /\ UNCHANGED onceVars
     \/ /\ "init" \in Failures
        /\ engine' = "failed"
        /\ AbortOr(Goto(t, "publish") /\ UNCHANGED onceVars)
  /\ UNCHANGED <<disposal, accounting>>

(* tearDown.reset(), the last statement of the one-time function.          *)
PublishTearDown_Forgotten(t) ==
  /\ At(t, "publish")
  /\ engineOnce' = "done"
  /\ AfterEngine(t)
  /\ UNCHANGED <<firstOnce, disposal, accounting, engine>>

PublishTearDown(t) ==
  /\ At(t, "publish")
  /\ tearDown' = TRUE
  /\ engineOnce' = "done"
  /\ AfterEngine(t)
  /\ UNCHANGED <<firstOnce, destroyed, accounting, engine>>

-----------------------------------------------------------------------------
(* EnsureRuntimeAndContext and assignRuntimeAndContext.                    *)

FirstThreadInit(t) ==
  /\ At(t, "firstOnce")
  /\ \/ /\ firstOnce = "new"
        /\ firstOnce' = "running"
        /\ pc' = [pc EXCEPT ![t] = "checkAlive"]
        /\ call' = [call EXCEPT ![t] = "First"]
        /\ UNCHANGED process
     \/ OncePassed(firstOnce) /\ Goto(t, "checkRuntime") /\ UNCHANGED firstOnce
  /\ UNCHANGED <<engineOnce, disposal, accounting, engine>>

(* The function was run by pthread_once, or called directly.               *)
AssignReturns_OnceStuck(t) ==
  /\ \/ /\ call[t] = "First"
        /\ pc' = [pc EXCEPT ![t] = "checkRuntime"]
        /\ call' = [call EXCEPT ![t] = "Direct"]
     \/ call[t] # "First" /\ Leave(t, "idle")
  /\ UNCHANGED <<process, onceVars>>

AssignReturns(t) ==
  /\ \/ /\ call[t] = "First"
        /\ firstOnce' = "done"
        /\ pc' = [pc EXCEPT ![t] = "checkRuntime"]
        /\ call' = [call EXCEPT ![t] = "Direct"]
     \/ call[t] # "First" /\ Leave(t, "idle") /\ UNCHANGED firstOnce
  /\ UNCHANGED <<process, engineOnce>>

GetJSRuntimeForThread_Never(t) == FALSE
GetJSRuntimeForThread_Always(t) == TRUE
GetJSRuntimeForThread(t) == t \in data

CheckRuntime(t) ==
  /\ At(t, "checkRuntime")
  /\ \/ GetJSRuntimeForThread(t) /\ Leave(t, "idle") /\ UNCHANGED process
     \/ ~GetJSRuntimeForThread(t) /\ Goto(t, "checkAlive")
  /\ UNCHANGED <<onceVars, disposal, accounting, engine>>

CheckAlive(t) ==
  /\ At(t, "checkAlive")
  /\ \/ destroyed /\ Halt("aborted")
     \/ ~destroyed /\ Goto(t, "engineOnce")
  /\ UNCHANGED <<onceVars, disposal, accounting, engine>>

NewRuntime(t) ==
  /\ At(t, "newRuntime")
  /\ \/ runtimes' = runtimes \cup {t} /\ Goto(t, "newContext") /\ UNCHANGED onceVars
     \/ "runtime" \in Failures /\ AbortOr(AssignReturns(t)) /\ UNCHANGED runtimes
  /\ UNCHANGED <<disposal, runtimeCount, data, engine>>

(* JS_NewContext, and the thread's own slot set when it succeeded.         *)
NewContext(t) ==
  /\ At(t, "newContext")
  /\ \/ /\ data' = data \cup {t}
        /\ Goto(t, "recordConstruction")
        /\ UNCHANGED <<onceVars, runtimes>>
     \/ /\ "context" \in Failures
        /\ runtimes' = runtimes \ {t}
        /\ AbortOr(AssignReturns(t))
        /\ UNCHANGED data
  /\ UNCHANGED <<disposal, runtimeCount, engine>>

RecordConstruction_Uncounted(t) ==
  /\ At(t, "recordConstruction")
  /\ AssignReturns(t)
  /\ UNCHANGED <<disposal, accounting, engine>>

RecordConstruction(t) ==
  /\ At(t, "recordConstruction")
  /\ runtimeCount' = runtimeCount + 1
  /\ AssignReturns(t)
  /\ UNCHANGED <<disposal, data, engine, runtimes>>

-----------------------------------------------------------------------------
(* TearDownSpiderMonkey, SpiderMonkeyTearDown, tearDownRuntimeAndContext.  *)

CheckTearDown(t) ==
  /\ At(t, "checkTearDown")
  /\ \/ ~tearDown /\ Leave(t, "idle") /\ UNCHANGED process
     \/ tearDown /\ Goto(t, "attemptDispose")
  /\ UNCHANGED <<onceVars, disposal, accounting, engine>>

StaticDestructor(t) ==
  /\ At(t, "dtorCheck")
  /\ \/ destroyed /\ Halt("exited")
     \/ ~destroyed /\ Goto(t, "attemptDispose")
  /\ UNCHANGED <<onceVars, disposal, accounting, engine>>

OthersRemain_Unchecked == FALSE
OthersRemain_OffByOne == runtimeCount > 0
OthersRemain == runtimeCount > 1

AttemptDispose(t) ==
  /\ At(t, "attemptDispose")
  /\ \/ OthersRemain /\ call[t] = "Dispose" /\ Leave(t, "idle") /\ UNCHANGED process
     \/ OthersRemain /\ call[t] = "StaticDtor" /\ Halt("aborted")
     \/ ~OthersRemain /\ t \in data /\ Goto(t, "destroyRuntime")
     \/ ~OthersRemain /\ t \notin data /\ Goto(t, "shutDown")
  /\ UNCHANGED <<onceVars, disposal, accounting, engine>>

(* The context and the runtime are destroyed and the slot is nulled.       *)
DestroyRuntime_SlotKept(t) ==
  /\ At(t, "destroyRuntime")
  /\ runtimes' = runtimes \ {t}
  /\ Goto(t, "recordDestruction")
  /\ UNCHANGED <<onceVars, disposal, runtimeCount, data, engine>>

DestroyRuntime(t) ==
  /\ At(t, "destroyRuntime")
  /\ runtimes' = runtimes \ {t}
  /\ data' = data \ {t}
  /\ Goto(t, "recordDestruction")
  /\ UNCHANGED <<onceVars, disposal, runtimeCount, engine>>

RecordDestruction(t) ==
  /\ At(t, "recordDestruction")
  /\ runtimeCount' = runtimeCount - 1
  /\ \/ call[t] = "ThreadExit" /\ Leave(t, "absent") /\ UNCHANGED process
     \/ call[t] # "ThreadExit" /\ Goto(t, "shutDown")
  /\ UNCHANGED <<onceVars, disposal, data, engine, runtimes>>

ShutDown(t) ==
  /\ At(t, "shutDown")
  /\ engine' = "shut"
  /\ Goto(t, "markDestroyed")
  /\ UNCHANGED <<onceVars, disposal, accounting>>

MarkDestroyed(t) ==
  /\ At(t, "markDestroyed")
  /\ destroyed' = TRUE
  /\ \/ call[t] = "Dispose" /\ Leave(t, "idle") /\ UNCHANGED process
     \/ call[t] = "StaticDtor" /\ Halt("exited")
  /\ UNCHANGED <<onceVars, tearDown, accounting, engine>>

-----------------------------------------------------------------------------
(* The steps of the library, which the scheduler must take, and the calls  *)
(* of the client, which it may make.                                       *)

Step(t) ==
  \/ EnsureSpiderMonkey(t) \/ InitSpiderMonkey(t)   \/ PublishTearDown(t)
  \/ FirstThreadInit(t)    \/ CheckRuntime(t)       \/ CheckAlive(t)
  \/ NewRuntime(t)         \/ NewContext(t)         \/ RecordConstruction(t)
  \/ CheckTearDown(t)      \/ StaticDestructor(t)   \/ AttemptDispose(t)
  \/ DestroyRuntime(t)     \/ RecordDestruction(t)  \/ ShutDown(t)
  \/ MarkDestroyed(t)

Client(t) ==
  \/ Spawn(t)
  \/ CallInitialize(t)
  \/ CallEnsureRuntime(t)
  \/ CallDispose(t)
  \/ ThreadExits(t)

(* A process that has ended stays ended.                                   *)
Ended == process # "running" /\ UNCHANGED vars

Next ==
  \/ \E t \in Threads : Step(t) \/ Client(t)
  \/ ProcessExits
  \/ Ended

Spec == Init /\ [][Next]_vars

(* The operating system runs every thread, and pthread_once wakes the      *)
(* threads that wait for it.                                               *)
FairSpec == Spec /\ \A t \in Threads : WF_vars(Step(t))
=============================================================================
