------------------------------ MODULE Isolates ------------------------------
(***************************************************************************)
(* Isolates, the threads inside them and the fatal errors they report      *)
(* (src/src/runtime/isolate.cpp, isolate.h and IsolateAPI.cpp above the    *)
(* "project reset" line, TriggerFatalError of src/src/engine/init.cpp).    *)
(*                                                                         *)
(* A call is one step, as src/include/v8.h has callers hold the isolate's  *)
(* lock; the exception is TriggerFatalError, which runs client code in the *)
(* middle: the client's steps between the two are steps of its own.        *)
(*                                                                         *)
(* A definition Name_Slip, always just above Name, is Name with a slip a   *)
(* maintainer could make; no specification uses it.                        *)
(***************************************************************************)
EXTENDS Naturals, Sequences, SequencesExt

CONSTANTS
  Threads,
  Isolates,     \* addresses an isolate can have; reused after a deletion
  Null,         \* nullptr
  NoAbort,      \* V8MONKEY_NOABORTONASSERT=1: Abort() returns to its caller
  MaxEntries,   \* bound on the length of previousIsolates
  MaxErrors     \* bound on the fatal errors one thread reports at a time

ASSUME IsolatesAssumption ==
  /\ Null \notin Isolates
  /\ NoAbort \in BOOLEAN
  /\ MaxEntries \in Nat
  /\ MaxErrors \in Nat

VARIABLES
  process,             \* the process as a whole
  allocated,           \* the isolates that exist
  previousIsolates,    \* the vector of each isolate
  currentIsolate,      \* currentIsolateKey, each thread's slot
  fatalErrorHandler,   \* the isolates that have a callback
  hasFatalError,       \* the isolates that are dead
  reporting            \* the isolates whose callbacks each thread is inside

vars == <<process, allocated, previousIsolates, currentIsolate,
          fatalErrorHandler, hasFatalError, reporting>>

entryVars == <<previousIsolates, currentIsolate>>
errorVars == <<fatalErrorHandler, hasFatalError, reporting>>

Init ==
  /\ process = "running"
  /\ allocated = {}
  /\ previousIsolates = [i \in Isolates |-> <<>>]
  /\ currentIsolate = [t \in Threads |-> Null]
  /\ fatalErrorHandler = {}
  /\ hasFatalError = {}
  /\ reporting = [t \in Threads |-> <<>>]

Running == process = "running"

Halt(how) == process' = how /\ UNCHANGED <<allocated, entryVars, errorVars>>

(* The library follows a pointer it kept to an isolate: the outcome is     *)
(* undefined when that isolate has been deleted since.                     *)
Follow(i, access) ==
  \/ i \in allocated /\ access
  \/ i \notin allocated /\ Halt("undefined")

(* Abort(), called without an assertion.                                   *)
Abort ==
  \/ ~NoAbort /\ Halt("aborted")
  \/ NoAbort /\ UNCHANGED vars

-----------------------------------------------------------------------------
New(i) ==
  /\ Running
  /\ i \notin allocated
  /\ allocated' = allocated \cup {i}
  /\ previousIsolates' = [previousIsolates EXCEPT ![i] = <<>>]
  /\ fatalErrorHandler' = fatalErrorHandler \ {i}
  /\ hasFatalError' = hasFatalError \ {i}
  /\ UNCHANGED <<process, currentIsolate, reporting>>

RecordThreadEntry_Twice(i, p) ==
  [previousIsolates EXCEPT ![i] = @ \o <<p, p>>]
RecordThreadEntry_Self(i, p) == [previousIsolates EXCEPT ![i] = Append(@, i)]
RecordThreadEntry(i, p) == [previousIsolates EXCEPT ![i] = Append(@, p)]

Enter(t, i) ==
  /\ Running
  /\ i \in allocated
  /\ Len(previousIsolates[i]) < MaxEntries
  /\ previousIsolates' = RecordThreadEntry(i, currentIsolate[t])
  /\ currentIsolate' = [currentIsolate EXCEPT ![t] = i]
  /\ UNCHANGED <<process, allocated, errorVars>>

RecordThreadExit_Kept(i) == previousIsolates
RecordThreadExit(i) == [previousIsolates EXCEPT ![i] = Front(@)]

Exit(t, i) ==
  /\ Running
  /\ i \in allocated
  /\ \/ previousIsolates[i] = <<>> /\ Halt("aborted")
     \/ /\ previousIsolates[i] # <<>>
        /\ currentIsolate' =
             [currentIsolate EXCEPT ![t] = Last(previousIsolates[i])]
        /\ previousIsolates' = RecordThreadExit(i)
        /\ UNCHANGED <<process, allocated, errorVars>>

-----------------------------------------------------------------------------
(* TriggerFatalError, for a thread t.                                      *)

SignalFatalError(i) == hasFatalError' = hasFatalError \cup {i}

TriggerFatalError(t) ==
  LET i == currentIsolate[t] IN
  \/ i = Null /\ Abort
  \/ /\ i # Null
     /\ Follow(i,
          \/ /\ i \in fatalErrorHandler
             /\ Len(reporting[t]) < MaxErrors
             /\ reporting' = [reporting EXCEPT ![t] = Append(@, i)]
             /\ UNCHANGED <<process, allocated, entryVars,
                            fatalErrorHandler, hasFatalError>>
          \/ /\ i \notin fatalErrorHandler
             /\ SignalFatalError(i)
             /\ UNCHANGED <<process, allocated, entryVars,
                            fatalErrorHandler, reporting>>)

(* The callback returns, and the isolate it was called for is written to.  *)
CallbackReturns(t) ==
  /\ Running
  /\ reporting[t] # <<>>
  /\ Follow(Last(reporting[t]),
       /\ SignalFatalError(Last(reporting[t]))
       /\ reporting' = [reporting EXCEPT ![t] = Front(@)]
       /\ UNCHANGED <<process, allocated, entryVars, fatalErrorHandler>>)

-----------------------------------------------------------------------------
Disposable_Any(i) == TRUE
Disposable(i) == previousIsolates[i] = <<>>

Dispose(t, i) ==
  /\ Running
  /\ i \in allocated
  /\ \/ ~Disposable(i) /\ TriggerFatalError(t)
     \/ /\ Disposable(i)
        /\ allocated' = allocated \ {i}
        /\ UNCHANGED <<process, entryVars, errorVars>>

(* V8::SetFatalErrorHandler, with a function or with nullptr.              *)
SetFatalErrorHandler(t) ==
  LET i == currentIsolate[t] IN
  /\ Running
  /\ \/ i = Null /\ Halt("aborted")
     \/ /\ i # Null
        /\ Follow(i,
             /\ fatalErrorHandler' \in
                  {fatalErrorHandler \cup {i}, fatalErrorHandler \ {i}}
             /\ UNCHANGED <<process, allocated, entryVars,
                            hasFatalError, reporting>>)

(* V8::IsDead asserts that there is a current isolate; V8::Initialize asks *)
(* only then.  Neither changes anything.                                   *)
IsDead(t) ==
  /\ Running
  /\ \/ currentIsolate[t] = Null /\ Halt("aborted")
     \/ /\ currentIsolate[t] # Null
        /\ Follow(currentIsolate[t], UNCHANGED vars)

(* The thread ends, and its slot with it; another may start in its place.  *)
ThreadExits(t) ==
  /\ Running
  /\ reporting[t] = <<>>
  /\ currentIsolate' = [currentIsolate EXCEPT ![t] = Null]
  /\ UNCHANGED <<process, allocated, previousIsolates, errorVars>>

Ended == ~Running /\ UNCHANGED vars

Next ==
  \/ \E i \in Isolates : New(i)
  \/ \E t \in Threads :
       \/ CallbackReturns(t)
       \/ SetFatalErrorHandler(t)
       \/ IsDead(t)
       \/ ThreadExits(t)
       \/ \E i \in Isolates : Enter(t, i) \/ Exit(t, i) \/ Dispose(t, i)
  \/ Ended

Spec == Init /\ [][Next]_vars
=============================================================================
