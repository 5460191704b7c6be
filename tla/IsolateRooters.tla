--------------------------- MODULE IsolateRooters ---------------------------
(***************************************************************************)
(* Which isolates take part in whose garbage collection: the vector        *)
(* rooterRegistrations of SpiderMonkeyUtils.cpp, its TracerData, the table *)
(* of extra GC roots that SpiderMonkey keeps for each JSRuntime, and what  *)
(* Enter, Exit, Dispose and ~Isolate do with them.                         *)
(*                                                                         *)
(* All of it is from before the project's reset and commented out at this  *)
(* commit.  Nothing protects the vector: the model, like the code, takes   *)
(* it that only one thread at a time is in here.  A thread is its runtime; *)
(* it leaves every isolate before it ends, and that it may be inside one   *)
(* several times is left out.                                              *)
(***************************************************************************)
EXTENDS FiniteSets

CONSTANTS
  RootIsolates,  \* where an isolate can live
  RootRuntimes,  \* where a JSRuntime can live
  RootData       \* where a TracerData can live

VARIABLES
  registrations,  \* rooterRegistrations
  tracers,        \* the table of roots: a runtime and the data it is called with
  tracerData,     \* the TracerData that are allocated
  liveIsolates,
  liveRuntimes,
  registeredForGC,\* the isolates whose isRegisteredForGC is set
  inside,         \* who is inside which isolate
  handles         \* whose objects the handles of which isolate refer to

rootVars == <<registrations, tracers, tracerData, liveIsolates, liveRuntimes,
              registeredForGC, inside, handles>>

registryVars == <<registrations, tracers, tracerData>>

Registration == [isolate : RootIsolates, runtime : RootRuntimes, data : RootData]
IsolateRuntime == [isolate : RootIsolates, runtime : RootRuntimes]
Pair(i, r) == [isolate |-> i, runtime |-> r]

RootTypeOK ==
  /\ registrations \subseteq Registration
  /\ tracers \subseteq [runtime : RootRuntimes, data : RootData]
  /\ tracerData \subseteq RootData
  /\ liveIsolates \subseteq RootIsolates
  /\ liveRuntimes \subseteq RootRuntimes
  /\ registeredForGC \subseteq RootIsolates
  /\ inside \subseteq IsolateRuntime
  /\ handles \subseteq IsolateRuntime

RootInit ==
  /\ registrations = {}
  /\ tracers = {}
  /\ tracerData = {}
  /\ liveIsolates = {}
  /\ liveRuntimes = {}
  /\ registeredForGC = {}
  /\ inside = {}
  /\ handles = {}

NewRootIsolate(i) ==
  /\ i \notin liveIsolates
  /\ liveIsolates' = liveIsolates \cup {i}
  /\ UNCHANGED <<registryVars, liveRuntimes, registeredForGC, inside, handles>>

NewRootRuntime(r) ==
  /\ r \notin liveRuntimes
  /\ liveRuntimes' = liveRuntimes \cup {r}
  /\ UNCHANGED <<registryVars, liveIsolates, registeredForGC, inside, handles>>
-----------------------------------------------------------------------------
(* The registry. *)
Same_Slip(i, r) == {g \in registrations : g.isolate = i /\ g.data = r}  \* compares the wrong field

Same(i, r) == {g \in registrations : g.isolate = i /\ g.runtime = r}

(* The caller hands over a TracerData, which is deleted if there is a      *)
(* registration already, unless it is the one that is registered.          *)
AddIsolateRooter_Slip(i, r, d) ==  \* data that is not needed is kept
  /\ tracerData' = tracerData \cup {d}
  /\ IF Same(i, r) # {}
     THEN UNCHANGED <<registrations, tracers>>
     ELSE /\ registrations' = registrations \cup {[isolate |-> i, runtime |-> r, data |-> d]}
          /\ tracers' = tracers \cup {[runtime |-> r, data |-> d]}

AddIsolateRooter(i, r, d) ==
  IF Same(i, r) # {}
  THEN /\ tracerData' = IF \E g \in Same(i, r) : g.data # d THEN tracerData \ {d} ELSE tracerData
       /\ UNCHANGED <<registrations, tracers>>
  ELSE /\ registrations' = registrations \cup {[isolate |-> i, runtime |-> r, data |-> d]}
       /\ tracers' = tracers \cup {[runtime |-> r, data |-> d]}
       /\ tracerData' = tracerData \cup {d}

(* Both ways to remove: every one of the registrations is taken from the   *)
(* table of its runtime, its data deleted, and the vector cleared of it.   *)
Deregistered(gone) ==
  /\ tracers' = tracers \ {[runtime |-> g.runtime, data |-> g.data] : g \in gone}
  /\ tracerData' = tracerData \ {g.data : g \in gone}
  /\ registrations' = registrations \ gone
-----------------------------------------------------------------------------
(* Enter registers the isolate for the runtime of the thread, each time    *)
(* with new data.                                                          *)
EnterRooted(i, r, d) ==
  /\ i \in liveIsolates /\ r \in liveRuntimes
  /\ d \notin tracerData
  /\ AddIsolateRooter(i, r, d)
  /\ registeredForGC' = registeredForGC \cup {i}
  /\ inside' = inside \cup {Pair(i, r)}
  /\ UNCHANGED <<liveIsolates, liveRuntimes, handles>>

ExitRooted_Slip(i, r) ==  \* leaving is taken for the end of rooting
  /\ Pair(i, r) \in inside
  /\ inside' = inside \ {Pair(i, r)}
  /\ Deregistered(Same(i, r))
  /\ UNCHANGED <<liveIsolates, liveRuntimes, registeredForGC, handles>>

(* Exit leaves the registration: what was made inside may outlive it.      *)
ExitRooted(i, r) ==
  /\ Pair(i, r) \in inside
  /\ inside' = inside \ {Pair(i, r)}
  /\ UNCHANGED <<registryVars, liveIsolates, liveRuntimes, registeredForGC, handles>>

(* A thread inside makes handles to objects of its own runtime, and the    *)
(* last of them goes, whoever releases it.                                 *)
AddObject(i, r) ==
  /\ Pair(i, r) \in inside
  /\ handles' = handles \cup {Pair(i, r)}
  /\ UNCHANGED <<registryVars, liveIsolates, liveRuntimes, registeredForGC, inside>>

ReleaseObjects(i, r) ==
  /\ handles' = handles \ {Pair(i, r)}
  /\ UNCHANGED <<registryVars, liveIsolates, liveRuntimes, registeredForGC, inside>>

RemoveRuntime_Slip(r) ==  \* the isolates are told that they are not registered any more
  /\ r \in liveRuntimes
  /\ \A v \in inside : v.runtime # r
  /\ Deregistered({g \in registrations : g.runtime = r})
  /\ registeredForGC' = registeredForGC \ {g.isolate : g \in {h \in registrations : h.runtime = r}}
  /\ liveRuntimes' = liveRuntimes \ {r}
  /\ handles' = {h \in handles : h.runtime # r}
  /\ UNCHANGED <<liveIsolates, inside>>

(* A thread ends: RemoveRooter for its runtime, which is destroyed with    *)
(* the objects it owns.  The isolates are not told: isRegisteredForGC of   *)
(* one may stay set though nothing is registered.                          *)
RemoveRuntime(r) ==
  /\ r \in liveRuntimes
  /\ \A v \in inside : v.runtime # r
  /\ Deregistered({g \in registrations : g.runtime = r})
  /\ liveRuntimes' = liveRuntimes \ {r}
  /\ handles' = {h \in handles : h.runtime # r}
  /\ UNCHANGED <<liveIsolates, registeredForGC, inside>>

DisposeRooted_Slip(i) ==  \* only one of the runtimes it is registered with
  /\ i \in liveIsolates
  /\ \A v \in inside : v.isolate # i
  /\ \E g \in registrations : g.isolate = i /\ Deregistered({g})
  /\ liveIsolates' = liveIsolates \ {i}
  /\ registeredForGC' = registeredForGC \ {i}
  /\ handles' = {h \in handles : h.isolate # i}
  /\ UNCHANGED <<liveRuntimes, inside>>

(* Dispose, in whatever thread, of an isolate that nobody is inside: the   *)
(* flag decides whether there is something to remove.  Then ~Isolate finds *)
(* isDisposed set; if the client deletes the isolate, ~Isolate disposes.   *)
DisposeRooted(i) ==
  /\ i \in liveIsolates
  /\ \A v \in inside : v.isolate # i
  /\ IF i \in registeredForGC
     THEN Deregistered({g \in registrations : g.isolate = i})
     ELSE UNCHANGED registryVars
  /\ liveIsolates' = liveIsolates \ {i}
  /\ registeredForGC' = registeredForGC \ {i}
  /\ handles' = {h \in handles : h.isolate # i}
  /\ UNCHANGED <<liveRuntimes, inside>>

RootNext ==
  \/ \E i \in RootIsolates : NewRootIsolate(i) \/ DisposeRooted(i)
  \/ \E r \in RootRuntimes : NewRootRuntime(r) \/ RemoveRuntime(r)
  \/ \E i \in RootIsolates, r \in RootRuntimes :
       \/ \E d \in RootData : EnterRooted(i, r, d)
       \/ ExitRooted(i, r) \/ AddObject(i, r) \/ ReleaseObjects(i, r)

RootSpec == RootInit /\ [][RootNext]_rootVars
-----------------------------------------------------------------------------
(* Whatever a collection calls can be used: every tracer in the table of a *)
(* runtime has data that is allocated, belongs to one registration, and    *)
(* leads to an isolate that was not deleted and a runtime that still       *)
(* exists.  Isolates and runtimes go in any order, on any thread.          *)
TracersUsable ==
  \A tr \in tracers :
    /\ tr.data \in tracerData
    /\ \E g \in registrations :
         /\ g.data = tr.data /\ g.runtime = tr.runtime
         /\ g.isolate \in liveIsolates /\ g.runtime \in liveRuntimes
         /\ \A h \in registrations : h.data = tr.data => h = g

(* No TracerData leaks and none is deleted while it is registered: the     *)
(* data handed over is owned by exactly one registration, or deleted.      *)
DataOwned == tracerData = {g.data : g \in registrations}

(* An isolate roots a runtime at most once, and then SpiderMonkey knows.   *)
RootedOnce ==
  \A g \in registrations :
    /\ \A h \in registrations : h.isolate = g.isolate /\ h.runtime = g.runtime => h = g
    /\ [runtime |-> g.runtime, data |-> g.data] \in tracers

(* A collection calls the tracer, that the isolate's Trace, that each of   *)
(* its objects, which passes over the collections of other runtimes.       *)
Traces(tr, h) ==
  /\ tr.runtime = h.runtime
  /\ \E g \in registrations : g.data = tr.data /\ g.isolate = h.isolate

(* Every object that a handle refers to is found by the collections of its *)
(* own runtime, though its thread may have left the isolate, threads of    *)
(* other runtimes may have come and ended, and another may dispose of      *)
(* other isolates.                                                         *)
ObjectsTraced == \A h \in handles : \E tr \in tracers : Traces(tr, h)

(* The registry, SpiderMonkey's table of roots, what is allocated, what is *)
(* alive and what must be traced agree, in whatever order isolates and     *)
(* runtimes come and go.                                                   *)
RegistryAgrees == RootTypeOK /\ TracersUsable /\ DataOwned /\ RootedOnce /\ ObjectsTraced
=============================================================================
