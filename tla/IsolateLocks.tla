---------------------------- MODULE IsolateLocks ----------------------------
(***************************************************************************)
(* Locker, Unlocker and the lock of an isolate (locker.cpp, Isolate::Lock  *)
(* and Isolate::Unlock).  Lockers and Unlockers live on the C++ stack, so  *)
(* a thread destroys them in the reverse of the order it made them.        *)
(*                                                                         *)
(* One step is one access to what other threads see: the mutex, the plain  *)
(* int lockingThread, the atomic counter of thread IDs.  The code is from  *)
(* before the project's reset and commented out at this commit.            *)
(***************************************************************************)
EXTENDS Naturals, Sequences, FiniteSets

CONSTANTS
  LockThreads,  \* threads of the client
  LockIsolates, \* isolates: numbers, for an order in which to lock them
  Nobody,       \* the owner of a mutex that is free
  MaxScopes     \* bound: Lockers and Unlockers of a thread at a time

ASSUME LockAssumption ==
  /\ IsFiniteSet(LockThreads) /\ Nobody \notin LockThreads
  /\ LockIsolates \subseteq Nat /\ LockIsolates # {}

VARIABLES
  lockPC,       \* what each thread is doing, and to which isolate
  scopes,       \* the Lockers and Unlockers of each thread, innermost last
  lockingMutex, \* the owner of each isolate's mutex
  lockingThread,\* the ID each isolate notes, 0 for none
  threadID,     \* the ID each thread has, 0 for none yet
  idCount,      \* the next ID
  orderly       \* history: whether the client kept the order, see KeepsOrder

lockVars == <<lockPC, scopes, lockingMutex, lockingThread, threadID, idCount, orderly>>

IDs == Nat \ {0}

(* A Locker knows whether it took the lock; an Unlocker always gave it up. *)
Scope == [kind : {"Locker", "Unlocker"}, isolate : LockIsolates, has_lock : BOOLEAN]

At(t, place) == lockPC[t].at = place

LockTypeOK ==
  /\ lockPC \in [LockThreads ->
       [at : {"idle", "lock", "note", "clear", "unlock"}, isolate : LockIsolates]]
  /\ scopes \in [LockThreads -> Seq(Scope)]
  /\ lockingMutex \in [LockIsolates -> LockThreads \cup {Nobody}]
  /\ lockingThread \in [LockIsolates -> Nat]
  /\ threadID \in [LockThreads -> Nat]
  /\ idCount \in IDs
  /\ orderly \in BOOLEAN

LockInit ==
  /\ lockPC = [t \in LockThreads |-> [at |-> "idle", isolate |-> CHOOSE i \in LockIsolates : TRUE]]
  /\ scopes = [t \in LockThreads |-> <<>>]
  /\ lockingMutex = [i \in LockIsolates |-> Nobody]
  /\ lockingThread = [i \in LockIsolates |-> 0]
  /\ threadID = [t \in LockThreads |-> 0]
  /\ idCount = 1
  /\ orderly = TRUE

GoTo(t, place, i) == lockPC' = [lockPC EXCEPT ![t] = [at |-> place, isolate |-> i]]

Innermost(t) == scopes[t][Len(scopes[t])]

(* Made before anything of the call is waited for: the scope an object     *)
(* opens, or closes.                                                       *)
Opens(t, kind, i, has) ==
  scopes' = [scopes EXCEPT ![t] = Append(@, [kind |-> kind, isolate |-> i, has_lock |-> has])]

Closes(t) == scopes' = [scopes EXCEPT ![t] = SubSeq(@, 1, Len(@) - 1)]

(* fetchOrAssignThreadID, the first time a thread needs an ID. *)
FetchOrAssignThreadID(t) ==
  /\ At(t, "idle")
  /\ threadID[t] = 0
  /\ threadID' = [threadID EXCEPT ![t] = idCount]
  /\ idCount' = idCount + 1
  /\ UNCHANGED <<lockPC, scopes, lockingMutex, lockingThread, orderly>>

IsLockedForThisThread(t, i) == lockingThread[i] = threadID[t]

(* The client locks in ascending order, and gives up for a while only what *)
(* it locked last, since the Unlocker's destructor locks that again.       *)
KeepsOrder(t, i) == \A j \in LockIsolates : lockingMutex[j] = t => j <= i

MakeLocker_Slip(t, i) ==  \* a Locker inside a Locker locks again
  /\ At(t, "idle") /\ Len(scopes[t]) < MaxScopes
  /\ threadID[t] # 0
  /\ Opens(t, "Locker", i, TRUE)
  /\ GoTo(t, "lock", i)
  /\ orderly' = (orderly /\ KeepsOrder(t, i))
  /\ UNCHANGED <<lockingMutex, lockingThread, threadID, idCount>>

(* A Locker inside another of the same isolate takes nothing. *)
MakeLocker(t, i) ==
  /\ At(t, "idle") /\ Len(scopes[t]) < MaxScopes
  /\ threadID[t] # 0
  /\ IF IsLockedForThisThread(t, i)
     THEN Opens(t, "Locker", i, FALSE) /\ UNCHANGED <<lockPC, orderly>>
     ELSE /\ Opens(t, "Locker", i, TRUE)
          /\ GoTo(t, "lock", i)
          /\ orderly' = (orderly /\ KeepsOrder(t, i))
  /\ UNCHANGED <<lockingMutex, lockingThread, threadID, idCount>>

DestroyLocker_Slip(t) ==  \* has_lock is not looked at
  /\ At(t, "idle")
  /\ scopes[t] # <<>> /\ Innermost(t).kind = "Locker"
  /\ Closes(t)
  /\ GoTo(t, "clear", Innermost(t).isolate)
  /\ UNCHANGED <<lockingMutex, lockingThread, threadID, idCount, orderly>>

DestroyLocker(t) ==
  /\ At(t, "idle")
  /\ scopes[t] # <<>> /\ Innermost(t).kind = "Locker"
  /\ Closes(t)
  /\ IF Innermost(t).has_lock THEN GoTo(t, "clear", Innermost(t).isolate) ELSE UNCHANGED lockPC
  /\ UNCHANGED <<lockingMutex, lockingThread, threadID, idCount, orderly>>

(* The constructor of Unlocker asserts that the thread holds the lock. *)
MakeUnlocker(t, i) ==
  /\ At(t, "idle") /\ Len(scopes[t]) < MaxScopes
  /\ threadID[t] # 0
  /\ IsLockedForThisThread(t, i)
  /\ Opens(t, "Unlocker", i, TRUE)
  /\ GoTo(t, "clear", i)
  /\ orderly' = (orderly /\ KeepsOrder(t, i))
  /\ UNCHANGED <<lockingMutex, lockingThread, threadID, idCount>>

DestroyUnlocker(t) ==
  /\ At(t, "idle")
  /\ scopes[t] # <<>> /\ Innermost(t).kind = "Unlocker"
  /\ Closes(t)
  /\ GoTo(t, "lock", Innermost(t).isolate)
  /\ UNCHANGED <<lockingMutex, lockingThread, threadID, idCount, orderly>>

(* Isolate::Lock *)
AcquireMutex(t) ==
  LET i == lockPC[t].isolate IN
  /\ At(t, "lock")
  /\ lockingMutex[i] = Nobody
  /\ lockingMutex' = [lockingMutex EXCEPT ![i] = t]
  /\ GoTo(t, "note", i)
  /\ UNCHANGED <<scopes, lockingThread, threadID, idCount, orderly>>

NoteThread(t) ==
  LET i == lockPC[t].isolate IN
  /\ At(t, "note")
  /\ lockingThread' = [lockingThread EXCEPT ![i] = threadID[t]]
  /\ GoTo(t, "idle", i)
  /\ UNCHANGED <<scopes, lockingMutex, threadID, idCount, orderly>>

(* Isolate::Unlock *)
ClearThread_Slip(t) ==  \* the ID is left in place
  /\ At(t, "clear")
  /\ GoTo(t, "unlock", lockPC[t].isolate)
  /\ UNCHANGED <<scopes, lockingMutex, lockingThread, threadID, idCount, orderly>>

ClearThread(t) ==
  LET i == lockPC[t].isolate IN
  /\ At(t, "clear")
  /\ lockingThread' = [lockingThread EXCEPT ![i] = 0]
  /\ GoTo(t, "unlock", i)
  /\ UNCHANGED <<scopes, lockingMutex, threadID, idCount, orderly>>

ReleaseMutex(t) ==
  LET i == lockPC[t].isolate IN
  /\ At(t, "unlock")
  /\ lockingMutex' = [lockingMutex EXCEPT ![i] = Nobody]
  /\ GoTo(t, "idle", i)
  /\ UNCHANGED <<scopes, lockingThread, threadID, idCount, orderly>>

LockStep(t) ==
  \/ FetchOrAssignThreadID(t)
  \/ \E i \in LockIsolates : MakeLocker(t, i) \/ MakeUnlocker(t, i)
  \/ DestroyLocker(t) \/ DestroyUnlocker(t)
  \/ AcquireMutex(t) \/ NoteThread(t) \/ ClearThread(t) \/ ReleaseMutex(t)

LockNext == \E t \in LockThreads : LockStep(t)

LockSpec == LockInit /\ [][LockNext]_lockVars
-----------------------------------------------------------------------------
(* What a thread's scopes say, the first n of them: it holds an isolate if *)
(* the last of them that took or gave up the lock took it.                 *)
Decides(scope, i) == scope.isolate = i /\ scope.has_lock

HoldsUpTo(seq, i, n) ==
  \E k \in 1 .. n : /\ Decides(seq[k], i)
                    /\ seq[k].kind = "Locker"
                    /\ \A m \in k + 1 .. n : ~Decides(seq[m], i)

Holds(t, i) == HoldsUpTo(scopes[t], i, Len(scopes[t]))

(* Who finds its own ID in an isolate owns the mutex: IsLockedForThisThread *)
(* reads lockingThread without holding anything, at any moment of another  *)
(* thread's Lock or Unlock, and is right all the same.                     *)
LockedMeansOwner ==
  \A t \in LockThreads, i \in LockIsolates :
    threadID[t] # 0 /\ lockingThread[i] = threadID[t] => lockingMutex[i] = t

(* A thread between calls owns exactly the mutexes that its Lockers and    *)
(* Unlockers say, however they are nested.                                 *)
OwnershipFollowsScopes ==
  \A t \in LockThreads, i \in LockIsolates :
    At(t, "idle") => (lockingMutex[i] = t <=> Holds(t, i))

(* A mutex is released only by the thread that owns it. *)
OwnerReleases ==
  [][\A i \in LockIsolates, t \in LockThreads :
       lockingMutex[i] = t /\ lockingMutex'[i] # t => At(t, "unlock")]_lockVars

Waits(t) == At(t, "lock") /\ lockingMutex[lockPC[t].isolate] # Nobody

(* If every client locks in the same order, and unlocks for a while only   *)
(* what it locked last, no threads ever wait for each other in a circle.   *)
(* And no thread waits for itself in any case: a Locker inside a Locker    *)
(* does not lock the mutex again.                                          *)
NoDeadlock ==
  \A T \in (SUBSET LockThreads) \ {{}} :
    orderly \/ Cardinality(T) = 1 =>
      \E t \in T : ~Waits(t) \/ lockingMutex[lockPC[t].isolate] \notin T
=============================================================================
