-------------------------- MODULE PlatformHandles --------------------------
(***************************************************************************)
(* Who owns a native handle: the classes of platform.h, their moves and    *)
(* their destructors, as built for x86-64 Linux.  There a pthread_mutex_t  *)
(* is allocated and privateData points to it; pthread_once_t, pthread_t    *)
(* and pthread_key_t are small enough to be kept in privateData itself.    *)
(* An assertion that fails aborts (V8MONKEY_NOABORTONASSERT is not set).   *)
(* A handle that the system has taken back may be handed out again.        *)
(***************************************************************************)
EXTENDS Naturals, FiniteSets

CONSTANTS
  PlatformObjects,  \* places where a C++ object can live
  NativeHandles,    \* native mutexes, threads and keys
  NullHandle        \* a null privateData

ASSUME NullIsNoHandle == NullHandle \notin NativeHandles

VARIABLES
  object,       \* what lives in each place
  native,       \* what each native handle is
  process,      \* how the program fares
  movedClasses  \* history: the classes of which an object was moved

platformVars == <<object, native, process, movedClasses>>

PlatformClasses == {"Mutex", "OneShot", "Thread", "TLSKey"}

(* An empty place, and objects as their constructors leave them.  Of a     *)
(* OneShot, hasExecuted says that the pthread_once_t in it is no longer 0. *)
Constructed(class, h) == [class       |-> class,
                          privateData |-> h,
                          hasExecuted |-> FALSE,
                          hasFunction |-> class \in {"Thread", "OneShot"}]

EmptyPlace == Constructed("none", NullHandle)

HoldsA(o, class) == process = "running" /\ object[o].class = class

PlatformTypeOK ==
  /\ object \in [PlatformObjects -> [class       : PlatformClasses \cup {"none"},
                                     privateData : NativeHandles \cup {NullHandle},
                                     hasExecuted : BOOLEAN,
                                     hasFunction : BOOLEAN]]
  /\ native \in [NativeHandles -> {"free", "mutex", "key", "thread", "ended"}]
  /\ process \in {"running", "aborted", "terminated", "undefined"}
  /\ movedClasses \subseteq PlatformClasses

PlatformInit ==
  /\ object = [o \in PlatformObjects |-> EmptyPlace]
  /\ native = [h \in NativeHandles |-> "free"]
  /\ process = "running"
  /\ movedClasses = {}

ProcessEnds(how) == process' = how /\ UNCHANGED <<object, native, movedClasses>>

(* A constructor asks the system for a handle, and gives up without one. *)
AcquireNative(o, class, kind) ==
  /\ HoldsA(o, "none")
  /\ \/ \E h \in NativeHandles :
          /\ native[h] = "free"
          /\ native' = [native EXCEPT ![h] = kind]
          /\ object' = [object EXCEPT ![o] = Constructed(class, h)]
          /\ UNCHANGED <<process, movedClasses>>
     \/ ProcessEnds("terminated")

NewMutex(o)  == AcquireNative(o, "Mutex", "mutex")
NewTLSKey(o) == AcquireNative(o, "TLSKey", "key")

(* These two keep a function and ask the system for nothing. *)
NewThread(o) ==
  /\ HoldsA(o, "none")
  /\ object' = [object EXCEPT ![o] = Constructed("Thread", NullHandle)]
  /\ UNCHANGED <<native, process, movedClasses>>

NewOneShot(o) ==
  /\ HoldsA(o, "none")
  /\ object' = [object EXCEPT ![o] = Constructed("OneShot", NullHandle)]
  /\ UNCHANGED <<native, process, movedClasses>>

(* Lock and Unlock assert that there is a native mutex. *)
UseMutex(o) ==
  /\ HoldsA(o, "Mutex")
  /\ object[o].privateData = NullHandle
  /\ ProcessEnds("aborted")

(* pthread_once on the word in privateData, which is zero until it ran.  A *)
(* OneShot that was moved into has a word, but no function to call.        *)
RunOneShot(o) ==
  /\ HoldsA(o, "OneShot")
  /\ ~object[o].hasExecuted
  /\ IF object[o].hasFunction
     THEN /\ object' = [object EXCEPT ![o].hasExecuted = TRUE]
          /\ UNCHANGED <<native, process, movedClasses>>
     ELSE ProcessEnds("undefined")

(* Run notes the execution before it asks for a thread, and reports a      *)
(* failure only in its result.                                             *)
RunThread(o) ==
  /\ HoldsA(o, "Thread")
  /\ \/ object[o].hasExecuted /\ ProcessEnds("aborted")
     \/ /\ ~object[o].hasExecuted /\ ~object[o].hasFunction
        /\ ProcessEnds("undefined")
     \/ /\ ~object[o].hasExecuted /\ object[o].hasFunction
        /\ UNCHANGED <<process, movedClasses>>
        /\ \/ \E h \in NativeHandles :
                /\ native[h] = "free"
                /\ native' = [native EXCEPT ![h] = "thread"]
                /\ object' = [object EXCEPT ![o].hasExecuted = TRUE, ![o].privateData = h]
           \/ /\ object' = [object EXCEPT ![o].hasExecuted = TRUE]
              /\ UNCHANGED native

ThreadEnds(h) ==
  /\ process = "running"
  /\ native[h] = "thread"
  /\ native' = [native EXCEPT ![h] = "ended"]
  /\ UNCHANGED <<object, process, movedClasses>>

(* Join waits for whatever thread privateData names.  It does not clear    *)
(* privateData: of a second Join POSIX says nothing.                       *)
JoinThread(o) ==
  LET h == object[o].privateData IN
  /\ HoldsA(o, "Thread")
  /\ \/ ~object[o].hasExecuted /\ ProcessEnds("aborted")
     \/ /\ object[o].hasExecuted
        /\ h \notin {g \in NativeHandles : native[g] \in {"thread", "ended"}}
        /\ ProcessEnds("undefined")
     \/ /\ object[o].hasExecuted
        /\ h \in {g \in NativeHandles : native[g] = "ended"}
        /\ native' = [native EXCEPT ![h] = "free"]
        /\ UNCHANGED <<object, process, movedClasses>>

(* The bytes that a move leaves in `to`, and in `from`. *)
MovedInto(to, from) ==
  IF from.class = "TLSKey" THEN from
  ELSE [to EXCEPT !.class = from.class, !.privateData = from.privateData,
                  !.hasExecuted = IF from.class = "OneShot" THEN from.hasExecuted ELSE @]

MovedFrom_Slip(from) == from  \* a move that does not clear its source

MovedFrom(from) ==
  IF from.class = "TLSKey" THEN from
  ELSE [from EXCEPT !.privateData = NullHandle,
                    !.hasExecuted = IF from.class = "OneShot" THEN FALSE ELSE @]

MoveState(o, from) ==
  /\ object' = [object EXCEPT ![o]    = MovedInto(object[o], object[from]),
                              ![from] = MovedFrom(object[from])]
  /\ movedClasses' = movedClasses \cup {object[from].class}
  /\ UNCHANGED <<native, process>>

(* The move constructor of OneShot asserts on a privateData that it has    *)
(* not initialized.                                                        *)
MoveConstruct(o, from) ==
  /\ HoldsA(o, "none")
  /\ process = "running" /\ object[from].class # "none"
  /\ \/ MoveState(o, from)
     \/ object[from].class = "OneShot" /\ ProcessEnds("aborted")

(* Only the key may be assigned to while it holds something: what it held  *)
(* is dropped.                                                             *)
Occupied(o) == \/ object[o].class \in {"Mutex", "Thread"} /\ object[o].privateData # NullHandle
               \/ object[o].class = "OneShot" /\ object[o].hasExecuted

MoveAssign(o, from) ==
  /\ o # from
  /\ process = "running" /\ object[o].class = object[from].class
  /\ object[o].class # "none"
  /\ IF Occupied(o) THEN ProcessEnds("aborted") ELSE MoveState(o, from)

(* The destructors.  ~Mutex asserts on its handle; ~PlatformTLSKey deletes *)
(* whatever key has its number, and ignores an error; the other two have   *)
(* nothing to release.                                                     *)
Released_Slip(o) ==  \* ~PlatformTLSKey leaves the key to the system
  IF object[o].class = "Mutex" THEN [native EXCEPT ![object[o].privateData] = "free"] ELSE native

Released(o) ==
  LET h == object[o].privateData
  IN  IF \/ object[o].class = "Mutex"
         \/ object[o].class = "TLSKey" /\ native[h] = "key"
      THEN [native EXCEPT ![h] = "free"]
      ELSE native

DestroyObject(o) ==
  /\ process = "running"
  /\ object[o].class # "none"
  /\ IF object[o].class = "Mutex" /\ object[o].privateData = NullHandle
     THEN ProcessEnds("aborted")
     ELSE /\ native' = Released(o)
          /\ object' = [object EXCEPT ![o] = EmptyPlace]
          /\ UNCHANGED <<process, movedClasses>>

PlatformNext ==
  \/ \E o \in PlatformObjects :
       \/ NewMutex(o) \/ NewTLSKey(o) \/ NewThread(o) \/ NewOneShot(o)
       \/ UseMutex(o) \/ RunOneShot(o) \/ RunThread(o) \/ JoinThread(o)
       \/ DestroyObject(o)
       \/ \E from \in PlatformObjects : MoveConstruct(o, from) \/ MoveAssign(o, from)
  \/ \E h \in NativeHandles : ThreadEnds(h)

PlatformSpec == PlatformInit /\ [][PlatformNext]_platformVars

-----------------------------------------------------------------------------
HoldersOf(class, h) == {o \in PlatformObjects : object[o].class = class /\ object[o].privateData = h}

OwnedOnce(class, kind) ==
  \A h \in NativeHandles : Cardinality(HoldersOf(class, h)) = IF native[h] = kind THEN 1 ELSE 0

(* Whatever is moved where, a native mutex has exactly one owner and a     *)
(* Mutex never points to one that was destroyed: the moves and ~Mutex      *)
(* neither free twice nor leak.  So it is with keys, as long as no TLSKey  *)
(* was moved.  (A move leaves two owners, and the second to go may delete  *)
(* a key that has been handed out again: platform.h 47-49.)                *)
HandlesOwnedOnce ==
  /\ PlatformTypeOK
  /\ OwnedOnce("Mutex", "mutex")
  /\ "TLSKey" \notin movedClasses => OwnedOnce("TLSKey", "key")

=============================================================================
