---------------------------- MODULE EngineClient ----------------------------
(***************************************************************************)
(* What Engine promises: to any client, and to a client that keeps the     *)
(* rules without which an engine cannot be taken down safely.              *)
(***************************************************************************)
EXTENDS Engine

-----------------------------------------------------------------------------
(* Rules a client may keep.  Each constrains the steps of the client, and  *)
(* none restricts a step of the library.                                   *)

Starts(t) == ~InLibrary(t) /\ InLibrary(t)'

Disposing(t) == InLibrary(t) /\ call[t] \in {"Dispose", "StaticDtor"}

Others(t) == Threads \ {t}

(* V8::Dispose overlaps no other call, nor the exit of a thread.           *)
DisposeAlone ==
  \A t \in Threads : Starts(t) =>
    /\ \A u \in Others(t) : ~Disposing(u)
    /\ call'[t] = "Dispose" => \A u \in Others(t) : ~InLibrary(u)

(* V8::Dispose is called by a thread that has a runtime, or when none has. *)
DisposeByOwner ==
  \A t \in Threads :
    Starts(t) /\ call'[t] = "Dispose" => t \in data \/ data = {}

(* Every other thread is joined before the process exits.                  *)
JoinsThreads ==
  pc[Main] = "idle" /\ (call'[Main] = "StaticDtor" \/ process' = "exited")
    => \A u \in Others(Main) : pc[u] = "absent"

(* "disposing v8 is permanent" (src/include/v8.h).                         *)
NoReuse ==
  \A t \in Threads :
    Starts(t) /\ engine = "shut" => call'[t] \in {"ThreadExit", "StaticDtor"}

ClientRules == DisposeAlone /\ DisposeByOwner /\ JoinsThreads /\ NoReuse

(* A client that keeps every rule.                                         *)
SafeSpec == Init /\ [][Next /\ ClientRules]_vars

(* A client whose disposer need not have a runtime of its own.             *)
SerialSpec == Init /\ [][Next /\ DisposeAlone /\ JoinsThreads /\ NoReuse]_vars

(* A client that does not keep other threads out of V8::Dispose.           *)
OwnerSpec == Init /\ [][Next /\ DisposeByOwner /\ JoinsThreads /\ NoReuse]_vars

-----------------------------------------------------------------------------
(* Properties of every client's runs.                                      *)

(* The threads whose runtime runtimeCount has to count: the slot is set    *)
(* before the counter is raised, and nulled before it is lowered.          *)
Counted ==
  {t \in Threads :
     \/ t \in data /\ pc[t] # "recordConstruction"
     \/ pc[t] = "recordDestruction"}

(* Every variable has its type; the counter, which is an int, never goes   *)
(* below zero nor above the number of threads.                             *)
TypeOK ==
  /\ process \in {"running", "aborted", "exited"}
  /\ pc \in [Threads -> Labels]
  /\ call \in [Threads -> Calls]
  /\ engineOnce \in OnceStates
  /\ firstOnce \in OnceStates
  /\ tearDown \in BOOLEAN
  /\ destroyed \in BOOLEAN
  /\ runtimeCount \in 0..Cardinality(Threads)
  /\ data \subseteq Threads
  /\ engine \in {"down", "up", "failed", "shut"}
  /\ runtimes \subseteq Threads

(* runtimeCount is the number of threads that hold a runtime, up to the    *)
(* one step by which the counter lags behind: AttemptDispose decides on    *)
(* nothing else whether the engine may go.                                 *)
CountAgrees == runtimeCount = Cardinality(Counted)

Assigning(t) ==
  \/ call[t] = "First"
  \/ /\ call[t] = "Direct"
     /\ pc[t] \in {"checkAlive", "engineOnce", "jsInit", "publish",
                   "newRuntime", "newContext", "recordConstruction"}

(* "It is a SpiderMonkey API requirement that the first thread's runtime   *)
(* and context are stood up in a thread-safe fashion": until the first     *)
(* call of assignRuntimeAndContext is over no other thread is inside one.  *)
FirstRuntimeAlone ==
  firstOnce # "done" =>
    \A t, u \in Threads : Assigning(t) /\ Assigning(u) => t = u

(* JS_Init is called once, on a fresh engine, and JS_NewRuntime never      *)
(* before it, whichever of V8::Initialize and EnsureRuntimeAndContext the  *)
(* threads race through.                                                   *)
InitThenRuntimes ==
  [][\A t \in Threads : /\ InitSpiderMonkey(t) => engine = "down"
                        /\ NewRuntime(t) => engine # "down"]_vars

(* "Calling this function on a particular thread more than once has no     *)
(* effect": a thread that owns a runtime is never given a second.          *)
NeverReassigned ==
  [][\A t \in Threads : NewRuntime(t) => t \notin runtimes]_vars

(* A thread that returns from EnsureRuntimeAndContext has its runtime and  *)
(* context: the function "aborts if creating either of those objects       *)
(* fails".                                                                 *)
EnsureAssigns ==
  [][\A t \in Threads :
       call[t] \in {"First", "Direct"} /\ call'[t] = "none" =>
         t \in data' \cap runtimes']_vars

(* No thread waits forever: not for the two nested pthread_once, and not   *)
(* after a failure that Abort let pass.                                    *)
CallsReturn ==
  \A t \in Threads :
    InLibrary(t) ~> (~InLibrary(t) \/ process # "running")

-----------------------------------------------------------------------------
(* Properties of the runs of a client that keeps the rules.                *)

(* The demands of SpiderMonkey are met.                                    *)
Lifecycle == INSTANCE EngineLifecycle WITH phase <- engine, owners <- runtimes
ImplementsLifecycle == Lifecycle!Spec

(* No assertion of the library fails: a runtime is never asked for after   *)
(* the engine is gone, and the static destructor finds no other thread.    *)
NeverAborts == process # "aborted"

(* "We must now ensure it's torn down come what may": when the process has *)
(* ended, an engine that was ever up is shut down and left no runtime, be  *)
(* it by V8::Dispose or by the static destructor.                          *)
ExitClean ==
  process = "exited" => engine \in {"down", "shut"} /\ runtimes = {}

-----------------------------------------------------------------------------
(* What the comments of the code claim and the code does not do.           *)

(* "In order to tear down SpiderMonkey, all JSContexts and JSRuntimes must *)
(* have previously been torn down": JS_ShutDown runs when none is left.    *)
SafeShutDown == [][\A t \in Threads : ShutDown(t) => runtimes = {}]_vars

(* "we don't attempt teardown if multiple threads with JSRuntimes still    *)
(* exist", when V8::Dispose begins to destroy the caller's runtime.        *)
NoTeardownWhileShared ==
  [][\A t \in Threads :
       DestroyRuntime(t) /\ call[t] = "Dispose" => runtimes \subseteq {t}]_vars

-----------------------------------------------------------------------------
(* Why the properties of every client hold.                                *)

(* The labels at which a thread can be inside each call.                   *)
CallFits(t) ==
  /\ call[t] = "none" <=> pc[t] \in Outside
  /\ call[t] = "Initialize" => pc[t] \in {"engineOnce", "jsInit", "publish"}
  /\ call[t] = "First" =>
       pc[t] \in {"checkAlive", "engineOnce", "jsInit", "publish",
                  "newRuntime", "newContext", "recordConstruction"}
  /\ call[t] = "Direct" =>
       pc[t] \in {"firstOnce", "checkRuntime", "checkAlive", "engineOnce",
                  "jsInit", "publish", "newRuntime", "newContext",
                  "recordConstruction"}
  /\ call[t] = "ThreadExit" =>
       pc[t] \in {"destroyRuntime", "recordDestruction"}
  /\ call[t] = "Dispose" =>
       pc[t] \in {"checkTearDown", "attemptDispose", "destroyRuntime",
                  "recordDestruction", "shutDown", "markDestroyed"}
  /\ call[t] = "StaticDtor" =>
       pc[t] \in {"dtorCheck", "attemptDispose", "destroyRuntime",
                  "recordDestruction", "shutDown", "markDestroyed"}

(* What a thread that got so far knows of the two one-shots.               *)
OnceFits(t) ==
  /\ call[t] = "First" => firstOnce = "running"
  /\ call[t] = "Direct" /\ pc[t] # "firstOnce" => firstOnce = "done"
  /\ pc[t] = "jsInit" => engineOnce = "running" /\ engine = "down"
  /\ pc[t] = "publish" => engineOnce = "running" /\ engine # "down"
  /\ pc[t] \in {"newRuntime", "newContext", "recordConstruction",
                "attemptDispose", "shutDown", "markDestroyed"} =>
       engineOnce = "done"
  /\ call[t] \in {"Dispose", "StaticDtor"} /\ pc[t] # "checkTearDown" =>
       engineOnce = "done"

(* The slot and the runtime of a thread.                                   *)
SlotFits(t) ==
  /\ t \in runtimes <=> t \in data \/ pc[t] = "newContext"
  /\ Assigning(t) /\ pc[t] # "recordConstruction" => t \notin data
  /\ pc[t] \in {"recordConstruction", "destroyRuntime"} => t \in data
  /\ pc[t] \in {"recordDestruction", "shutDown", "absent"} => t \notin data

(* The one-shots have one runner each.                                     *)
OneRunner ==
  /\ \A t, u \in Threads :
       call[t] = "First" /\ call[u] = "First" => t = u
  /\ \A t, u \in Threads :
       pc[t] \in {"jsInit", "publish"} /\ pc[u] \in {"jsInit", "publish"} => t = u

OnceDone ==
  /\ firstOnce = "new" => data = {}
  /\ engineOnce = "new" => engine = "down"
  /\ engineOnce = "done" => engine # "down"
  /\ tearDown => engineOnce = "done"

(* A step that ends the process may leave the rest as it was.              *)
IInv ==
  process = "running" =>
    /\ \A t \in Threads : CallFits(t) /\ OnceFits(t) /\ SlotFits(t)
    /\ OneRunner
    /\ OnceDone

(* Why a client that keeps the rules takes the engine down safely: nobody  *)
(* else is inside the library while a thread disposes, and the only slot   *)
(* that can be left is the disposer's own.                                 *)
DisposeFits(t) ==
  /\ call[t] = "StaticDtor" =>
       t = Main /\ \A u \in Others(t) : pc[u] = "absent"
  /\ call[t] = "Dispose" => \A u \in Others(t) : ~InLibrary(u)
  /\ call[t] \in {"Dispose", "StaticDtor"} =>
       /\ t \in data \/ data = {}
       /\ pc[t] = "destroyRuntime" => data = {t}
       /\ pc[t] \notin {"dtorCheck", "markDestroyed"} => engine # "shut"
  /\ pc[t] = "markDestroyed" => engine = "shut"
  /\ call[t] \in {"Initialize", "First", "Direct"} => engine # "shut"

SafeInv ==
  process = "running" =>
    /\ \A t \in Threads : DisposeFits(t)
    /\ engine \in {"down", "shut"} => data = {}
    /\ destroyed => engine = "shut"
    /\ engine = "shut" => destroyed \/ \E t \in Threads : pc[t] = "markDestroyed"
=============================================================================
