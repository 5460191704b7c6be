-------------------------- MODULE IsolateLockProofs --------------------------
(***************************************************************************)
(* Proofs about the locks of isolates, for any number of threads and       *)
(* isolates and any nesting of Lockers and Unlockers.                      *)
(***************************************************************************)
EXTENDS IsolateLocks, FiniteSetTheorems, TLAPS

(* Every thread's ID is its own and was handed out, and so is every ID an  *)
(* isolate notes; a thread that does anything with locks has one.          *)
IDsInv ==
  /\ \A t \in LockThreads : threadID[t] < idCount
  /\ \A t, u \in LockThreads : t # u /\ threadID[t] # 0 => threadID[t] # threadID[u]
  /\ \A i \in LockIsolates : lockingThread[i] < idCount
  /\ \A t \in LockThreads : ~At(t, "idle") \/ scopes[t] # <<>> => threadID[t] # 0

(* While a thread is in Lock or Unlock of an isolate, and between: who     *)
(* owns its mutex, and whose ID it notes.                                  *)
Busy(t, i, places) == lockPC[t].at \in places /\ lockPC[t].isolate = i

MutexInv ==
  \A t \in LockThreads, i \in LockIsolates :
    /\ Busy(t, i, {"note", "clear", "unlock"}) => lockingMutex[i] = t
    /\ Busy(t, i, {"lock"}) => lockingMutex[i] # t
    /\ Busy(t, i, {"unlock"}) => lockingThread[i] = 0
    /\ lockingMutex[i] = t /\ ~Busy(t, i, {"note", "unlock"}) => lockingThread[i] = threadID[t]
    /\ lockingMutex[i] = t => threadID[t] # 0

(* The scopes say what will be when the thread has done what it is at, and *)
(* they alternate: each that took the lock, or gave it up, changed what    *)
(* the ones before it said.                                                *)
ScopesInv ==
  \A t \in LockThreads, i \in LockIsolates :
    /\ ~Busy(t, i, {"lock", "note", "clear", "unlock"}) => (lockingMutex[i] = t <=> Holds(t, i))
    /\ Busy(t, i, {"lock", "note"}) => Holds(t, i)
    /\ Busy(t, i, {"clear", "unlock"}) => ~Holds(t, i)

AlternatesUpTo(seq, n) ==
  \A k \in 1 .. n :
    /\ seq[k].kind = "Unlocker" => seq[k].has_lock
    /\ seq[k].has_lock =>
         (seq[k].kind = "Unlocker" <=> HoldsUpTo(seq, seq[k].isolate, k - 1))

AlternateInv == \A t \in LockThreads : AlternatesUpTo(scopes[t], Len(scopes[t]))

LockInv ==
  /\ LockTypeOK
  /\ IDsInv
  /\ MutexInv
  /\ LockedMeansOwner
  /\ ScopesInv
  /\ AlternateInv
-----------------------------------------------------------------------------
(* What the first n scopes say depends on them only. *)
LEMMA HoldsOfPrefix ==
  ASSUME NEW seq, NEW other, NEW i, NEW n \in Nat,
         \A k \in 1 .. n : seq[k] = other[k]
  PROVE  HoldsUpTo(seq, i, n) <=> HoldsUpTo(other, i, n)
<1>1. \A k \in 1 .. n : \A m \in k + 1 .. n : m \in 1 .. n
  OBVIOUS
<1>2. QED BY <1>1 DEF HoldsUpTo

(* One scope more decides, or leaves what was said. *)
LEMMA HoldsOfNext ==
  ASSUME NEW seq, NEW i, NEW n \in Nat
  PROVE  HoldsUpTo(seq, i, n + 1) <=>
           IF Decides(seq[n + 1], i) THEN seq[n + 1].kind = "Locker" ELSE HoldsUpTo(seq, i, n)
<1>1. CASE Decides(seq[n + 1], i)
  <2>1. \A k \in 1 .. n + 1 : k # n + 1 => n + 1 \in k + 1 .. n + 1
    OBVIOUS
  <2>2. \A m \in n + 1 + 1 .. n + 1 : FALSE
    OBVIOUS
  <2>3. n + 1 \in 1 .. n + 1
    OBVIOUS
  <2>4. QED BY <1>1, <2>1, <2>2, <2>3 DEF HoldsUpTo
<1>2. CASE ~Decides(seq[n + 1], i)
  <2>1. ASSUME HoldsUpTo(seq, i, n) PROVE HoldsUpTo(seq, i, n + 1)
    <3>1. PICK k \in 1 .. n : /\ Decides(seq[k], i) /\ seq[k].kind = "Locker"
                              /\ \A m \in k + 1 .. n : ~Decides(seq[m], i)
      BY <2>1 DEF HoldsUpTo
    <3>2. k \in 1 .. n + 1 /\ \A m \in k + 1 .. n + 1 : m \in k + 1 .. n \/ m = n + 1
      OBVIOUS
    <3>3. QED BY <1>2, <3>1, <3>2 DEF HoldsUpTo
  <2>2. ASSUME HoldsUpTo(seq, i, n + 1) PROVE HoldsUpTo(seq, i, n)
    <3>1. PICK k \in 1 .. n + 1 : /\ Decides(seq[k], i) /\ seq[k].kind = "Locker"
                                  /\ \A m \in k + 1 .. n + 1 : ~Decides(seq[m], i)
      BY <2>2 DEF HoldsUpTo
    <3>2. k # n + 1
      BY <1>2, <3>1
    <3>3. k \in 1 .. n /\ \A m \in k + 1 .. n : m \in k + 1 .. n + 1
      BY <3>2
    <3>4. QED BY <3>1, <3>3 DEF HoldsUpTo
  <2>3. QED BY <1>2, <2>1, <2>2
<1>3. QED BY <1>1, <1>2

(* A scope is opened that took the lock the ones before did not hold, or   *)
(* gave up one they held, or does nothing: the scopes still alternate.     *)
LEMMA PushedScopes ==
  ASSUME NEW seq \in Seq(Scope), NEW e \in Scope,
         AlternatesUpTo(seq, Len(seq)),
         e.kind = "Unlocker" => e.has_lock,
         e.has_lock => (e.kind = "Unlocker" <=> HoldsUpTo(seq, e.isolate, Len(seq)))
  PROVE  LET new == Append(seq, e)
         IN  /\ new \in Seq(Scope) /\ new # <<>>
             /\ AlternatesUpTo(new, Len(new))
             /\ \A i : HoldsUpTo(new, i, Len(new)) <=>
                         IF Decides(e, i) THEN e.kind = "Locker" ELSE HoldsUpTo(seq, i, Len(seq))
<1> DEFINE new == Append(seq, e)
           n == Len(seq)
<1>1. new \in Seq(Scope) /\ Len(new) = n + 1 /\ new[n + 1] = e /\ n \in Nat /\ new # <<>>
  OBVIOUS
<1>2. \A k \in 1 .. n : new[k] = seq[k]
  OBVIOUS
<1>3. ASSUME NEW i, NEW m \in 0 .. n PROVE HoldsUpTo(new, i, m) <=> HoldsUpTo(seq, i, m)
  <2>1. m \in Nat /\ \A k \in 1 .. m : new[k] = seq[k]
    BY <1>1, <1>2
  <2>2. QED BY <2>1, HoldsOfPrefix
<1>4. ASSUME NEW i
      PROVE  HoldsUpTo(new, i, n + 1) <=>
               IF Decides(e, i) THEN e.kind = "Locker" ELSE HoldsUpTo(seq, i, n)
  <2>1. HoldsUpTo(new, i, n) <=> HoldsUpTo(seq, i, n)
    BY <1>1, <1>3
  <2>2. HoldsUpTo(new, i, n + 1) <=>
          IF Decides(new[n + 1], i) THEN new[n + 1].kind = "Locker" ELSE HoldsUpTo(new, i, n)
    <3>1. n \in Nat
      OBVIOUS
    <3>2. HIDE DEF new
    <3>3. QED BY <3>1, HoldsOfNext
  <2>3. new[n + 1] = e
    BY <1>1
  <2>4. HIDE DEF new
  <2>5. QED BY <2>1, <2>2, <2>3
<1>5. AlternatesUpTo(new, n + 1)
  <2>1. SUFFICES ASSUME NEW k \in 1 .. n + 1
                 PROVE  /\ new[k].kind = "Unlocker" => new[k].has_lock
                        /\ new[k].has_lock =>
                             (new[k].kind = "Unlocker" <=> HoldsUpTo(new, new[k].isolate, k - 1))
    BY DEF AlternatesUpTo
  <2>2. k - 1 \in 0 .. n
    BY <1>1
  <2>3. HoldsUpTo(new, new[k].isolate, k - 1) <=> HoldsUpTo(seq, new[k].isolate, k - 1)
    BY <1>3, <2>2
  <2>4. CASE k = n + 1
    <3>1. new[k] = e /\ k - 1 = n
      BY <1>1, <2>4
    <3>2. QED BY <2>3, <3>1
  <2>5. CASE k \in 1 .. n
    <3>1. new[k] = seq[k]
      BY <1>2, <2>5
    <3>2. QED BY <2>3, <2>5, <3>1 DEF AlternatesUpTo
  <2>6. QED BY <1>1, <2>4, <2>5
<1>6. QED BY <1>1, <1>4, <1>5

(* The innermost scope is closed: the rest say what they said before it. *)
LEMMA PoppedScopes ==
  ASSUME NEW seq \in Seq(Scope), seq # <<>>,
         AlternatesUpTo(seq, Len(seq))
  PROVE  LET new == SubSeq(seq, 1, Len(seq) - 1)
             e   == seq[Len(seq)]
         IN  /\ new \in Seq(Scope) /\ e \in Scope
             /\ AlternatesUpTo(new, Len(new))
             /\ e.kind = "Unlocker" => e.has_lock
             /\ e.has_lock => (e.kind = "Unlocker" <=> HoldsUpTo(new, e.isolate, Len(new)))
             /\ \A i : HoldsUpTo(seq, i, Len(seq)) <=>
                         IF Decides(e, i) THEN e.kind = "Locker" ELSE HoldsUpTo(new, i, Len(new))
<1> DEFINE new == SubSeq(seq, 1, Len(seq) - 1)
           n == Len(seq) - 1
           e == seq[Len(seq)]
<1>1. n \in Nat /\ Len(seq) = n + 1 /\ e = seq[n + 1] /\ e \in Scope
  OBVIOUS
<1>2. new \in Seq(Scope) /\ Len(new) = n /\ \A k \in 1 .. n : new[k] = seq[k]
  BY <1>1
<1>3. ASSUME NEW i, NEW m \in 0 .. n PROVE HoldsUpTo(new, i, m) <=> HoldsUpTo(seq, i, m)
  <2>1. m \in Nat /\ \A k \in 1 .. m : new[k] = seq[k]
    BY <1>1, <1>2
  <2>2. QED BY <2>1, HoldsOfPrefix
<1>4. \A i : HoldsUpTo(new, i, n) <=> HoldsUpTo(seq, i, n)
  BY <1>1, <1>3
<1>5. \A i : HoldsUpTo(seq, i, n + 1) <=>
               IF Decides(e, i) THEN e.kind = "Locker" ELSE HoldsUpTo(new, i, n)
  BY <1>1, <1>4, HoldsOfNext
<1>6. AlternatesUpTo(new, n)
  <2>1. SUFFICES ASSUME NEW k \in 1 .. n
                 PROVE  /\ new[k].kind = "Unlocker" => new[k].has_lock
                        /\ new[k].has_lock =>
                             (new[k].kind = "Unlocker" <=> HoldsUpTo(new, new[k].isolate, k - 1))
    BY DEF AlternatesUpTo
  <2>2. k - 1 \in 0 .. n /\ k \in 1 .. Len(seq) /\ new[k] = seq[k]
    BY <1>1, <1>2
  <2>3. HoldsUpTo(new, new[k].isolate, k - 1) <=> HoldsUpTo(seq, new[k].isolate, k - 1)
    BY <1>3, <2>2
  <2>4. QED BY <2>2, <2>3 DEF AlternatesUpTo
<1>7. /\ e.kind = "Unlocker" => e.has_lock
      /\ e.has_lock => (e.kind = "Unlocker" <=> HoldsUpTo(new, e.isolate, n))
  <2>1. n + 1 \in 1 .. Len(seq) /\ (n + 1) - 1 = n
    BY <1>1
  <2>2. QED BY <1>1, <1>4, <2>1 DEF AlternatesUpTo
<1>8. QED BY <1>1, <1>2, <1>5, <1>6, <1>7
-----------------------------------------------------------------------------
(* It holds when nobody has locked anything. *)
LEMMA LockInvInit == LockInit => LockInv
<1> SUFFICES ASSUME LockInit PROVE LockInv
  OBVIOUS
<1>1. LockTypeOK
  BY LockAssumption DEF LockInit, LockTypeOK, IDs
<1>2. IDsInv
  BY DEF LockInit, IDsInv, At
<1>3. MutexInv /\ LockedMeansOwner
  BY LockAssumption DEF LockInit, MutexInv, LockedMeansOwner, Busy
<1>4. \A t \in LockThreads : Len(scopes[t]) = 0 /\ 1 .. 0 = {}
  BY DEF LockInit
<1>5. ScopesInv
  BY <1>4, LockAssumption DEF LockInit, ScopesInv, Busy, Holds, HoldsUpTo
<1>6. AlternateInv
  BY <1>4 DEF AlternateInv, AlternatesUpTo
<1>7. QED BY <1>1, <1>2, <1>3, <1>5, <1>6 DEF LockInv

(* Opening and closing a scope, for all the threads. *)
Opened(t, e) ==
  scopes' = [scopes EXCEPT ![t] = Append(@, e)]

LEMMA OpenedScopes ==
  ASSUME LockTypeOK, AlternateInv, NEW t \in LockThreads, NEW e \in Scope, Opened(t, e),
         e.kind = "Unlocker" => e.has_lock,
         e.has_lock => (e.kind = "Unlocker" <=> Holds(t, e.isolate))
  PROVE  /\ scopes' \in [LockThreads -> Seq(Scope)]
         /\ AlternateInv'
         /\ scopes'[t] # <<>>
         /\ \A u \in LockThreads : u # t => scopes'[u] = scopes[u]
         /\ \A u \in LockThreads, i \in LockIsolates :
              Holds(u, i)' <=> IF u = t /\ Decides(e, i) THEN e.kind = "Locker" ELSE Holds(u, i)
<1> DEFINE new == Append(scopes[t], e)
<1>1. scopes[t] \in Seq(Scope) /\ AlternatesUpTo(scopes[t], Len(scopes[t]))
  BY DEF LockTypeOK, AlternateInv
<1>2. /\ new \in Seq(Scope) /\ new # <<>>
      /\ AlternatesUpTo(new, Len(new))
      /\ \A i : HoldsUpTo(new, i, Len(new)) <=>
                  IF Decides(e, i) THEN e.kind = "Locker" ELSE Holds(t, i)
  <2>1. e.has_lock => (e.kind = "Unlocker" <=> HoldsUpTo(scopes[t], e.isolate, Len(scopes[t])))
    BY DEF Holds
  <2>2. QED BY <1>1, <2>1, PushedScopes DEF Holds
<1>3. scopes'[t] = new /\ \A u \in LockThreads : u # t => scopes'[u] = scopes[u]
  BY DEF Opened, LockTypeOK
<1>4. scopes' \in [LockThreads -> Seq(Scope)]
  BY <1>2 DEF Opened, LockTypeOK
<1> HIDE DEF new
<1>5. AlternateInv'
  BY <1>2, <1>3 DEF AlternateInv
<1>6. ASSUME NEW u \in LockThreads, NEW i \in LockIsolates
      PROVE  Holds(u, i)' <=> IF u = t /\ Decides(e, i) THEN e.kind = "Locker" ELSE Holds(u, i)
  <2>1. CASE u = t
    BY <1>2, <1>3, <2>1 DEF Holds
  <2>2. CASE u # t
    BY <1>3, <2>2 DEF Holds
  <2>3. QED BY <2>1, <2>2
<1>7. QED BY <1>2, <1>3, <1>4, <1>5, <1>6

LEMMA ClosedScopes ==
  ASSUME LockTypeOK, AlternateInv, NEW t \in LockThreads, scopes[t] # <<>>, Closes(t)
  PROVE  /\ scopes' \in [LockThreads -> Seq(Scope)]
         /\ AlternateInv'
         /\ \A u \in LockThreads : u # t => scopes'[u] = scopes[u]
         /\ Innermost(t) \in Scope
         /\ Innermost(t).kind = "Unlocker" => Innermost(t).has_lock
         /\ \A i \in LockIsolates : Decides(Innermost(t), i) =>
              (Innermost(t).kind = "Unlocker" <=> Holds(t, i)')
         /\ \A i \in LockIsolates :
              Holds(t, i) <=> IF Decides(Innermost(t), i) THEN Innermost(t).kind = "Locker"
                              ELSE Holds(t, i)'
         /\ \A u \in LockThreads, i \in LockIsolates : u # t => (Holds(u, i)' <=> Holds(u, i))
<1> DEFINE new == SubSeq(scopes[t], 1, Len(scopes[t]) - 1)
           e   == scopes[t][Len(scopes[t])]
<1>1. scopes[t] \in Seq(Scope) /\ AlternatesUpTo(scopes[t], Len(scopes[t]))
  BY DEF LockTypeOK, AlternateInv
<1>2. /\ new \in Seq(Scope) /\ e \in Scope
      /\ AlternatesUpTo(new, Len(new))
      /\ e.kind = "Unlocker" => e.has_lock
      /\ e.has_lock => (e.kind = "Unlocker" <=> HoldsUpTo(new, e.isolate, Len(new)))
      /\ \A i : Holds(t, i) <=>
                  IF Decides(e, i) THEN e.kind = "Locker" ELSE HoldsUpTo(new, i, Len(new))
  BY <1>1, PoppedScopes DEF Holds
<1>3. scopes'[t] = new /\ \A u \in LockThreads : u # t => scopes'[u] = scopes[u]
  BY DEF Closes, LockTypeOK
<1>4. scopes' \in [LockThreads -> Seq(Scope)]
  BY <1>2 DEF Closes, LockTypeOK
<1>5. Innermost(t) = e
  BY DEF Innermost
<1> HIDE DEF new, e
<1>6. AlternateInv'
  BY <1>2, <1>3 DEF AlternateInv
<1>7. \A i : Holds(t, i)' <=> HoldsUpTo(new, i, Len(new))
  BY <1>3 DEF Holds
<1>8. \A u \in LockThreads, i \in LockIsolates : u # t => (Holds(u, i)' <=> Holds(u, i))
  BY <1>3 DEF Holds
<1>9. \A i \in LockIsolates : Decides(e, i) => (e.kind = "Unlocker" <=> Holds(t, i)')
  BY <1>2, <1>7 DEF Decides
<1>10. \A i \in LockIsolates :
         Holds(t, i) <=> IF Decides(e, i) THEN e.kind = "Locker" ELSE Holds(t, i)'
  BY <1>2, <1>7
<1>11. QED BY <1>2, <1>3, <1>4, <1>5, <1>6, <1>8, <1>9, <1>10

(* A step that leaves the scopes alone. *)
LEMMA SameScopes ==
  ASSUME AlternateInv, UNCHANGED scopes
  PROVE  AlternateInv' /\ \A u \in LockThreads, i \in LockIsolates : Holds(u, i)' <=> Holds(u, i)
BY DEF AlternateInv, Holds

-----------------------------------------------------------------------------
(* Each step keeps the invariant. *)
(* A new ID is none that any isolate notes. *)
LEMMA FetchOrAssignThreadIDKeeps ==
  ASSUME LockInv, NEW t \in LockThreads, FetchOrAssignThreadID(t)
  PROVE  LockInv'
<1>1. LockTypeOK /\ IDsInv /\ MutexInv /\ LockedMeansOwner /\ ScopesInv /\ AlternateInv
  BY DEF LockInv
<1>2. AlternateInv' /\ \A u \in LockThreads, i \in LockIsolates : Holds(u, i)' <=> Holds(u, i)
  BY <1>1, SameScopes DEF FetchOrAssignThreadID
<1>3. LockTypeOK'
  BY <1>1 DEF FetchOrAssignThreadID, LockTypeOK, GoTo, At, IDs
<1>4. IDsInv'
  BY <1>1 DEF FetchOrAssignThreadID, LockTypeOK, IDsInv, GoTo, At, IDs
<1>5. MutexInv'
  BY <1>1, LockAssumption DEF FetchOrAssignThreadID, LockTypeOK, IDsInv, MutexInv, Busy, GoTo, At
<1>6. LockedMeansOwner'
  BY <1>1, LockAssumption DEF FetchOrAssignThreadID, LockTypeOK, IDsInv, MutexInv, LockedMeansOwner, Busy, GoTo, At
<1>7. ScopesInv'
  BY <1>1, <1>2, LockAssumption DEF FetchOrAssignThreadID, LockTypeOK, MutexInv, ScopesInv, Busy, GoTo, At
<1>8. QED BY <1>2, <1>3, <1>4, <1>5, <1>6, <1>7 DEF LockInv

(* Isolate::Lock takes a mutex that no thread owns. *)
LEMMA AcquireMutexKeeps ==
  ASSUME LockInv, NEW t \in LockThreads, AcquireMutex(t)
  PROVE  LockInv'
<1>1. LockTypeOK /\ IDsInv /\ MutexInv /\ LockedMeansOwner /\ ScopesInv /\ AlternateInv
  BY DEF LockInv
<1>2. AlternateInv' /\ \A u \in LockThreads, i \in LockIsolates : Holds(u, i)' <=> Holds(u, i)
  BY <1>1, SameScopes DEF AcquireMutex
<1>3. LockTypeOK'
  BY <1>1 DEF AcquireMutex, LockTypeOK, GoTo, At, IDs
<1>4. IDsInv'
  BY <1>1 DEF AcquireMutex, LockTypeOK, IDsInv, GoTo, At, IDs
<1>5. MutexInv'
  BY <1>1, LockAssumption DEF AcquireMutex, LockTypeOK, IDsInv, MutexInv, Busy, GoTo, At
<1>6. LockedMeansOwner'
  BY <1>1, LockAssumption DEF AcquireMutex, LockTypeOK, IDsInv, MutexInv, LockedMeansOwner, Busy, GoTo, At
<1>7. ScopesInv'
  BY <1>1, <1>2, LockAssumption DEF AcquireMutex, LockTypeOK, MutexInv, ScopesInv, Busy, GoTo, At
<1>8. QED BY <1>2, <1>3, <1>4, <1>5, <1>6, <1>7 DEF LockInv

(* It notes the ID of the owner. *)
LEMMA NoteThreadKeeps ==
  ASSUME LockInv, NEW t \in LockThreads, NoteThread(t)
  PROVE  LockInv'
<1>1. LockTypeOK /\ IDsInv /\ MutexInv /\ LockedMeansOwner /\ ScopesInv /\ AlternateInv
  BY DEF LockInv
<1>2. AlternateInv' /\ \A u \in LockThreads, i \in LockIsolates : Holds(u, i)' <=> Holds(u, i)
  BY <1>1, SameScopes DEF NoteThread
<1>3. LockTypeOK'
  BY <1>1 DEF NoteThread, LockTypeOK, GoTo, At, IDs
<1>4. IDsInv'
  BY <1>1 DEF NoteThread, LockTypeOK, IDsInv, GoTo, At, IDs
<1>5. MutexInv'
  BY <1>1, LockAssumption DEF NoteThread, LockTypeOK, IDsInv, MutexInv, Busy, GoTo, At
<1>6. LockedMeansOwner'
  BY <1>1, LockAssumption DEF NoteThread, LockTypeOK, IDsInv, MutexInv, LockedMeansOwner, Busy, GoTo, At
<1>7. ScopesInv'
  BY <1>1, <1>2, LockAssumption DEF NoteThread, LockTypeOK, MutexInv, ScopesInv, Busy, GoTo, At
<1>8. QED BY <1>2, <1>3, <1>4, <1>5, <1>6, <1>7 DEF LockInv

(* Isolate::Unlock forgets the ID while the thread still owns the mutex. *)
LEMMA ClearThreadKeeps ==
  ASSUME LockInv, NEW t \in LockThreads, ClearThread(t)
  PROVE  LockInv'
<1>1. LockTypeOK /\ IDsInv /\ MutexInv /\ LockedMeansOwner /\ ScopesInv /\ AlternateInv
  BY DEF LockInv
<1>2. AlternateInv' /\ \A u \in LockThreads, i \in LockIsolates : Holds(u, i)' <=> Holds(u, i)
  BY <1>1, SameScopes DEF ClearThread
<1>3. LockTypeOK'
  BY <1>1 DEF ClearThread, LockTypeOK, GoTo, At, IDs
<1>4. IDsInv'
  BY <1>1 DEF ClearThread, LockTypeOK, IDsInv, GoTo, At, IDs
<1>5. MutexInv'
  BY <1>1, LockAssumption DEF ClearThread, LockTypeOK, IDsInv, MutexInv, Busy, GoTo, At
<1>6. LockedMeansOwner'
  BY <1>1, LockAssumption DEF ClearThread, LockTypeOK, IDsInv, MutexInv, LockedMeansOwner, Busy, GoTo, At
<1>7. ScopesInv'
  BY <1>1, <1>2, LockAssumption DEF ClearThread, LockTypeOK, MutexInv, ScopesInv, Busy, GoTo, At
<1>8. QED BY <1>2, <1>3, <1>4, <1>5, <1>6, <1>7 DEF LockInv

(* It gives back a mutex in which no ID is noted. *)
LEMMA ReleaseMutexKeeps ==
  ASSUME LockInv, NEW t \in LockThreads, ReleaseMutex(t)
  PROVE  LockInv'
<1>1. LockTypeOK /\ IDsInv /\ MutexInv /\ LockedMeansOwner /\ ScopesInv /\ AlternateInv
  BY DEF LockInv
<1>2. AlternateInv' /\ \A u \in LockThreads, i \in LockIsolates : Holds(u, i)' <=> Holds(u, i)
  BY <1>1, SameScopes DEF ReleaseMutex
<1>3. LockTypeOK'
  BY <1>1 DEF ReleaseMutex, LockTypeOK, GoTo, At, IDs
<1>4. IDsInv'
  BY <1>1 DEF ReleaseMutex, LockTypeOK, IDsInv, GoTo, At, IDs
<1>5. MutexInv'
  BY <1>1, LockAssumption DEF ReleaseMutex, LockTypeOK, IDsInv, MutexInv, Busy, GoTo, At
<1>6. LockedMeansOwner'
  BY <1>1, LockAssumption DEF ReleaseMutex, LockTypeOK, IDsInv, MutexInv, LockedMeansOwner, Busy, GoTo, At
<1>7. ScopesInv'
  BY <1>1, <1>2, LockAssumption DEF ReleaseMutex, LockTypeOK, MutexInv, ScopesInv, Busy, GoTo, At
<1>8. QED BY <1>2, <1>3, <1>4, <1>5, <1>6, <1>7 DEF LockInv

(* A Locker opens a scope that takes the lock, if the thread did not have  *)
(* it; and none that does, if it had.                                      *)
LEMMA MakeLockerKeeps ==
  ASSUME LockInv, NEW t \in LockThreads, NEW i \in LockIsolates, MakeLocker(t, i)
  PROVE  LockInv'
<1> DEFINE e == [kind |-> "Locker", isolate |-> i, has_lock |-> ~IsLockedForThisThread(t, i)]
<1>1. LockTypeOK /\ IDsInv /\ MutexInv /\ LockedMeansOwner /\ ScopesInv /\ AlternateInv
  BY DEF LockInv
<1>a. ~IsLockedForThisThread(t, i) => ~Holds(t, i) /\ lockingMutex[i] # t
  BY <1>1 DEF MakeLocker, IsLockedForThisThread, MutexInv, ScopesInv, Busy, At
<1>2. /\ scopes' \in [LockThreads -> Seq(Scope)]
      /\ AlternateInv'
      /\ \A u \in LockThreads : u # t => scopes'[u] = scopes[u]
      /\ \A u \in LockThreads, j \in LockIsolates :
           Holds(u, j)' <=> (u = t /\ j = i /\ ~IsLockedForThisThread(t, i)) \/ Holds(u, j)
      /\ ~IsLockedForThisThread(t, i) => lockingMutex[i] # t
  <2>1. e \in Scope /\ Opened(t, e)
    BY DEF MakeLocker, Opens, Opened, Scope
  <2>2. e.kind = "Locker" /\ e.isolate = i /\ (e.has_lock <=> ~IsLockedForThisThread(t, i))
    OBVIOUS
  <2> HIDE DEF e
  <2>3. e.kind = "Unlocker" => e.has_lock
    BY <2>2
  <2>4. e.has_lock => (e.kind = "Unlocker" <=> Holds(t, e.isolate))
    BY <1>a, <2>2
  <2>5. \A u \in LockThreads, j \in LockIsolates :
          Holds(u, j)' <=> IF u = t /\ Decides(e, j) THEN e.kind = "Locker" ELSE Holds(u, j)
    BY <1>1, <2>1, <2>3, <2>4, OpenedScopes
  <2>6. \A j : Decides(e, j) <=> j = i /\ ~IsLockedForThisThread(t, i)
    BY <2>2 DEF Decides
  <2>7. QED BY <1>1, <1>a, <2>1, <2>2, <2>3, <2>4, <2>5, <2>6, OpenedScopes
<1>3. UNCHANGED <<lockingMutex, lockingThread, threadID, idCount>> /\ orderly' \in BOOLEAN
  BY <1>1 DEF MakeLocker, LockTypeOK
<1>4. At(t, "idle") /\ threadID[t] # 0
  BY <1>1, <1>2 DEF MakeLocker, IDsInv
<1>5. CASE ~IsLockedForThisThread(t, i)
  <2>1. lockPC' = [lockPC EXCEPT ![t] = [at |-> "lock", isolate |-> i]]
    BY <1>5 DEF MakeLocker, GoTo
  <2>2. lockingMutex[i] # t
    BY <1>2, <1>5
  <2>3. \A u \in LockThreads, j \in LockIsolates : Holds(u, j)' <=> Holds(u, j) \/ (u = t /\ j = i)
    BY <1>2, <1>5
  <2>4. i \in LockIsolates
    OBVIOUS
  <2>5. LockTypeOK'
    BY <1>1, <1>2, <1>3, <2>1, <2>4 DEF LockTypeOK
  <2>6. IDsInv'
    BY <1>1, <1>2, <1>3, <1>4, <2>1, <2>4 DEF LockTypeOK, IDsInv, At
  <2>7. MutexInv'
    BY <1>1, <1>3, <1>4, <2>1, <2>2, <2>4 DEF LockTypeOK, MutexInv, Busy, At
  <2>8. LockedMeansOwner'
    BY <1>1, <1>3 DEF LockedMeansOwner
  <2>9. ScopesInv'
    BY <1>1, <1>3, <1>4, <2>1, <2>2, <2>3, <2>4 DEF LockTypeOK, ScopesInv, Busy, At
  <2>10. QED BY <1>2, <2>5, <2>6, <2>7, <2>8, <2>9 DEF LockInv
<1>6. CASE IsLockedForThisThread(t, i)
  <2>1. lockPC' = lockPC
    BY <1>6 DEF MakeLocker, GoTo
  <2>2. \A u \in LockThreads, j \in LockIsolates : Holds(u, j)' <=> Holds(u, j)
    BY <1>2, <1>6
  <2>3. LockTypeOK'
    BY <1>1, <1>2, <1>3, <2>1 DEF LockTypeOK
  <2>4. IDsInv'
    BY <1>1, <1>2, <1>3, <1>4, <2>1 DEF LockTypeOK, IDsInv, At
  <2>5. MutexInv'
    BY <1>1, <1>3, <2>1 DEF MutexInv, Busy
  <2>6. LockedMeansOwner'
    BY <1>1, <1>3 DEF LockedMeansOwner
  <2>7. ScopesInv'
    BY <1>1, <1>3, <2>1, <2>2 DEF ScopesInv, Busy
  <2>8. QED BY <1>2, <2>3, <2>4, <2>5, <2>6, <2>7 DEF LockInv
<1>7. QED BY <1>5, <1>6

(* An Unlocker gives up a lock that the thread holds. *)
LEMMA MakeUnlockerKeeps ==
  ASSUME LockInv, NEW t \in LockThreads, NEW i \in LockIsolates, MakeUnlocker(t, i)
  PROVE  LockInv'
<1> DEFINE e == [kind |-> "Unlocker", isolate |-> i, has_lock |-> TRUE]
<1>1. LockTypeOK /\ IDsInv /\ MutexInv /\ LockedMeansOwner /\ ScopesInv /\ AlternateInv
  BY DEF LockInv
<1>a. Holds(t, i) /\ lockingMutex[i] = t
  BY <1>1 DEF MakeUnlocker, IsLockedForThisThread, LockedMeansOwner, ScopesInv, Busy, At
<1>2. /\ scopes' \in [LockThreads -> Seq(Scope)]
      /\ AlternateInv'
      /\ \A u \in LockThreads : u # t => scopes'[u] = scopes[u]
      /\ \A u \in LockThreads, j \in LockIsolates :
           Holds(u, j)' <=> ~(u = t /\ j = i) /\ Holds(u, j)
      /\ lockingMutex[i] = t
  <2>1. e \in Scope /\ Opened(t, e)
    BY DEF MakeUnlocker, Opens, Opened, Scope
  <2>2. e.kind = "Unlocker" /\ e.isolate = i /\ e.has_lock
    OBVIOUS
  <2> HIDE DEF e
  <2>3. e.has_lock => (e.kind = "Unlocker" <=> Holds(t, e.isolate))
    BY <1>a, <2>2
  <2>4. \A u \in LockThreads, j \in LockIsolates :
          Holds(u, j)' <=> IF u = t /\ Decides(e, j) THEN e.kind = "Locker" ELSE Holds(u, j)
    BY <1>1, <2>1, <2>2, <2>3, OpenedScopes
  <2>5. \A j : Decides(e, j) <=> j = i
    BY <2>2 DEF Decides
  <2>6. QED BY <1>1, <1>a, <2>1, <2>2, <2>3, <2>4, <2>5, OpenedScopes
<1>3. LockTypeOK'
  BY <1>1, <1>2 DEF MakeUnlocker, LockTypeOK, Innermost, Scope, GoTo, At, IDs
<1>4. IDsInv'
  BY <1>1, <1>2 DEF MakeUnlocker, LockTypeOK, IDsInv, GoTo, At, IDs
<1>5. MutexInv'
  BY <1>1, <1>2, LockAssumption DEF MakeUnlocker, LockTypeOK, IDsInv, MutexInv, Busy, GoTo, At, Decides, IsLockedForThisThread, Scope
<1>6. LockedMeansOwner'
  BY <1>1 DEF MakeUnlocker, LockedMeansOwner
<1>7. ScopesInv'
  BY <1>1, <1>2 DEF MakeUnlocker, LockTypeOK, ScopesInv, MutexInv, Busy, GoTo, At, Decides, Scope
<1>8. QED BY <1>1, <1>2, <1>3, <1>4, <1>5, <1>6, <1>7 DEF LockInv

(* A Locker that took the lock gives back what the thread still owns. *)
LEMMA DestroyLockerKeeps ==
  ASSUME LockInv, NEW t \in LockThreads, DestroyLocker(t)
  PROVE  LockInv'
<1> DEFINE i == Innermost(t).isolate
           has == Innermost(t).has_lock
<1>1. LockTypeOK /\ IDsInv /\ MutexInv /\ LockedMeansOwner /\ ScopesInv /\ AlternateInv
  BY DEF LockInv
<1>a. scopes[t] # <<>> /\ Closes(t) /\ Innermost(t).kind = "Locker" /\ At(t, "idle")
  BY DEF DestroyLocker
<1>b. /\ \A j \in LockIsolates : Decides(Innermost(t), j) => ~Holds(t, j)' /\ Holds(t, j)
      /\ \A j \in LockIsolates : ~Decides(Innermost(t), j) => (Holds(t, j)' <=> Holds(t, j))
  BY <1>1, <1>a, ClosedScopes
<1>c. Innermost(t) \in Scope
  BY <1>1, <1>a, ClosedScopes
<1>d. i \in LockIsolates /\ has \in BOOLEAN
  BY <1>c DEF Scope
<1>e. has => lockingMutex[i] = t
  BY <1>1, <1>a, <1>b, <1>d DEF Decides, ScopesInv, Busy, At
<1>2. /\ scopes' \in [LockThreads -> Seq(Scope)]
      /\ AlternateInv'
      /\ \A u \in LockThreads : u # t => scopes'[u] = scopes[u]
      /\ \A u \in LockThreads, j \in LockIsolates :
           Holds(u, j)' <=> ~(u = t /\ j = Innermost(t).isolate /\ Innermost(t).has_lock) /\ Holds(u, j)
      /\ Innermost(t).isolate \in LockIsolates /\ Innermost(t).has_lock \in BOOLEAN
      /\ Innermost(t).has_lock => lockingMutex[Innermost(t).isolate] = t
      /\ scopes[t] # <<>>
  <2>1. \A u \in LockThreads, j \in LockIsolates : u # t => (Holds(u, j)' <=> Holds(u, j))
    BY <1>1, <1>a, ClosedScopes
  <2>2. QED BY <1>1, <1>a, <1>b, <1>d, <1>e, <2>1, ClosedScopes DEF Decides
<1>3. UNCHANGED <<lockingMutex, lockingThread, threadID, idCount>> /\ orderly' \in BOOLEAN
  BY <1>1 DEF DestroyLocker, LockTypeOK
<1>4. At(t, "idle") /\ threadID[t] # 0
  BY <1>1, <1>2 DEF DestroyLocker, IDsInv
<1>5. CASE Innermost(t).has_lock
  <2>1. lockPC' = [lockPC EXCEPT ![t] = [at |-> "clear", isolate |-> i]]
    BY <1>5 DEF DestroyLocker, GoTo
  <2>2. lockingMutex[i] = t
    BY <1>2, <1>5
  <2>3. \A u \in LockThreads, j \in LockIsolates : Holds(u, j)' <=> Holds(u, j) /\ ~(u = t /\ j = i)
    BY <1>2, <1>5
  <2>4. i \in LockIsolates
    BY <1>2
  <2> HIDE DEF i
  <2>5. LockTypeOK'
    BY <1>1, <1>2, <1>3, <2>1, <2>4 DEF LockTypeOK
  <2>6. IDsInv'
    BY <1>1, <1>2, <1>3, <1>4, <2>1, <2>4 DEF LockTypeOK, IDsInv, At
  <2>7. MutexInv'
    BY <1>1, <1>3, <1>4, <2>1, <2>2, <2>4 DEF LockTypeOK, MutexInv, Busy, At
  <2>8. LockedMeansOwner'
    BY <1>1, <1>3 DEF LockedMeansOwner
  <2>9. ScopesInv'
    BY <1>1, <1>3, <1>4, <2>1, <2>2, <2>3, <2>4 DEF LockTypeOK, ScopesInv, Busy, At
  <2>10. QED BY <1>2, <2>5, <2>6, <2>7, <2>8, <2>9 DEF LockInv
<1>6. CASE ~Innermost(t).has_lock
  <2>1. lockPC' = lockPC
    BY <1>6 DEF DestroyLocker, GoTo
  <2>2. \A u \in LockThreads, j \in LockIsolates : Holds(u, j)' <=> Holds(u, j)
    BY <1>2, <1>6
  <2>3. LockTypeOK'
    BY <1>1, <1>2, <1>3, <2>1 DEF LockTypeOK
  <2>4. IDsInv'
    BY <1>1, <1>2, <1>3, <1>4, <2>1 DEF LockTypeOK, IDsInv, At
  <2>5. MutexInv'
    BY <1>1, <1>3, <2>1 DEF MutexInv, Busy
  <2>6. LockedMeansOwner'
    BY <1>1, <1>3 DEF LockedMeansOwner
  <2>7. ScopesInv'
    BY <1>1, <1>3, <2>1, <2>2 DEF ScopesInv, Busy
  <2>8. QED BY <1>2, <2>3, <2>4, <2>5, <2>6, <2>7 DEF LockInv
<1>7. QED BY <1>5, <1>6

(* An Unlocker takes back a lock that the thread gave up and has not taken *)
(* since.                                                                  *)
LEMMA DestroyUnlockerKeeps ==
  ASSUME LockInv, NEW t \in LockThreads, DestroyUnlocker(t)
  PROVE  LockInv'
<1> DEFINE i == Innermost(t).isolate
<1>1. LockTypeOK /\ IDsInv /\ MutexInv /\ LockedMeansOwner /\ ScopesInv /\ AlternateInv
  BY DEF LockInv
<1>a. scopes[t] # <<>> /\ Closes(t) /\ Innermost(t).kind = "Unlocker" /\ At(t, "idle")
  BY DEF DestroyUnlocker
<1>b. Innermost(t) \in Scope /\ Innermost(t).has_lock
  BY <1>1, <1>a, ClosedScopes
<1>c. /\ \A j \in LockIsolates : Decides(Innermost(t), j) => Holds(t, j)' /\ ~Holds(t, j)
      /\ \A j \in LockIsolates : ~Decides(Innermost(t), j) => (Holds(t, j)' <=> Holds(t, j))
  BY <1>1, <1>a, ClosedScopes
<1>d. i \in LockIsolates
  BY <1>b DEF Scope
<1>e. lockingMutex[i] # t
  BY <1>1, <1>a, <1>b, <1>c, <1>d DEF Decides, ScopesInv, Busy, At
<1>2. /\ scopes' \in [LockThreads -> Seq(Scope)]
      /\ AlternateInv'
      /\ \A u \in LockThreads : u # t => scopes'[u] = scopes[u]
      /\ \A u \in LockThreads, j \in LockIsolates :
           Holds(u, j)' <=> (u = t /\ j = Innermost(t).isolate) \/ Holds(u, j)
      /\ Innermost(t).isolate \in LockIsolates
      /\ lockingMutex[Innermost(t).isolate] # t
      /\ scopes[t] # <<>>
  <2>1. \A u \in LockThreads, j \in LockIsolates : u # t => (Holds(u, j)' <=> Holds(u, j))
    BY <1>1, <1>a, ClosedScopes
  <2>2. QED BY <1>1, <1>a, <1>b, <1>c, <1>d, <1>e, <2>1, ClosedScopes DEF Decides
<1>3. LockTypeOK'
  BY <1>1, <1>2 DEF DestroyUnlocker, LockTypeOK, Innermost, Scope, GoTo, At, IDs
<1>4. IDsInv'
  BY <1>1, <1>2 DEF DestroyUnlocker, LockTypeOK, IDsInv, GoTo, At, IDs
<1>5. MutexInv'
  BY <1>1, <1>2, LockAssumption DEF DestroyUnlocker, LockTypeOK, IDsInv, MutexInv, Busy, GoTo, At, Decides, IsLockedForThisThread, Scope
<1>6. LockedMeansOwner'
  BY <1>1 DEF DestroyUnlocker, LockedMeansOwner
<1>7. ScopesInv'
  BY <1>1, <1>2 DEF DestroyUnlocker, LockTypeOK, ScopesInv, MutexInv, Busy, GoTo, At, Decides, Scope
<1>8. QED BY <1>1, <1>2, <1>3, <1>4, <1>5, <1>6, <1>7 DEF LockInv

(* Every step of every thread keeps it. *)
LEMMA LockInvStep == LockInv /\ [LockNext]_lockVars => LockInv'
<1> SUFFICES ASSUME LockInv, [LockNext]_lockVars PROVE LockInv'
  OBVIOUS
<1>1. CASE UNCHANGED lockVars
  BY <1>1 DEF lockVars, LockInv, LockTypeOK, IDsInv, MutexInv, LockedMeansOwner, ScopesInv,
     AlternateInv, Busy, At, Holds
<1>2. ASSUME NEW t \in LockThreads, LockStep(t) PROVE LockInv'
  <2>1. ASSUME NEW i \in LockIsolates, MakeLocker(t, i) \/ MakeUnlocker(t, i) PROVE LockInv'
    BY <2>1, MakeLockerKeeps, MakeUnlockerKeeps
  <2>2. QED
    BY <1>2, <2>1, FetchOrAssignThreadIDKeeps, DestroyLockerKeeps, DestroyUnlockerKeeps,
       AcquireMutexKeeps, NoteThreadKeeps, ClearThreadKeeps, ReleaseMutexKeeps DEF LockStep
<1>3. QED BY <1>1, <1>2 DEF LockNext
-----------------------------------------------------------------------------
(* The state of locks, scopes and IDs stays as LockInv describes it,       *)
(* whatever the threads do with Lockers and Unlockers (locker.cpp).        *)
THEOREM LockInvAlways == LockSpec => []LockInv
<1>1. QED BY LockInvInit, LockInvStep, PTL DEF LockSpec

(* IsLockedForThisThread never says to a thread that it holds the lock of  *)
(* an isolate whose mutex another owns or nobody (isolate.cpp).            *)
THEOREM LockedMeansOwnerAlways == LockSpec => []LockedMeansOwner
<1>1. LockInv => LockedMeansOwner
  BY DEF LockInv
<1>2. QED BY <1>1, LockInvAlways, PTL

(* A thread between two calls owns the mutexes that its Lockers and        *)
(* Unlockers say it owns, at any depth of nesting (locker.cpp).            *)
THEOREM OwnershipFollowsScopesAlways == LockSpec => []OwnershipFollowsScopes
<1>1. LockInv => OwnershipFollowsScopes
  BY DEF LockInv, ScopesInv, OwnershipFollowsScopes, Busy, At
<1>2. QED BY <1>1, LockInvAlways, PTL

(* No step takes a mutex from a thread but the thread's own Unlock: the    *)
(* condition on which pthread_mutex_unlock is defined (Isolate::Unlock).   *)
THEOREM OwnerReleasesAlways == LockSpec => OwnerReleases
<1> DEFINE Kept == \A i \in LockIsolates, t \in LockThreads :
                     lockingMutex[i] = t /\ lockingMutex'[i] # t => At(t, "unlock")
<1>1. LockInv /\ [LockNext]_lockVars => [Kept]_lockVars
  <2>1. SUFFICES ASSUME LockInv, LockNext,
                        NEW i \in LockIsolates, NEW t \in LockThreads,
                        lockingMutex[i] = t, lockingMutex'[i] # t
                 PROVE  At(t, "unlock")
    OBVIOUS
  <2>2. LockTypeOK /\ MutexInv
    BY <2>1 DEF LockInv
  <2>3. PICK u \in LockThreads : LockStep(u)
    BY <2>1 DEF LockNext
  <2>4. CASE AcquireMutex(u)
    BY <2>1, <2>2, <2>4, LockAssumption DEF AcquireMutex, LockTypeOK
  <2>5. CASE ReleaseMutex(u)
    BY <2>1, <2>2, <2>5 DEF ReleaseMutex, LockTypeOK, MutexInv, Busy, At
  <2>6. QED
    BY <2>1, <2>3, <2>4, <2>5 DEF LockStep, FetchOrAssignThreadID, MakeLocker, MakeUnlocker,
       DestroyLocker, DestroyUnlocker, NoteThread, ClearThread
<1>2. QED BY <1>1, LockInvAlways, PTL DEF LockSpec, OwnerReleases
-----------------------------------------------------------------------------
(* While the clients keep the order, what a thread waits for comes after   *)
(* all it holds; and what a Locker took, or an Unlocker gave up and will   *)
(* lock again, after all that the scopes outside it hold.                  *)
WaitsUpward ==
  \A t \in LockThreads, j \in LockIsolates :
    At(t, "lock") /\ lockingMutex[j] = t => j <= lockPC[t].isolate

ScopesUpward ==
  \A t \in LockThreads, j \in LockIsolates :
    \A k \in 1 .. Len(scopes[t]) :
      scopes[t][k].has_lock /\ HoldsUpTo(scopes[t], j, k - 1) => j <= scopes[t][k].isolate

OrderInv == orderly => WaitsUpward /\ ScopesUpward

(* A finite set has an element of greatest rank: of the subsets without    *)
(* one none could be minimal.                                              *)
LEMMA GreatestRank ==
  ASSUME NEW T, IsFiniteSet(T), T # {}, NEW rank \in [T -> Nat]
  PROVE  \E m \in T : \A t \in T : rank[t] <= rank[m]
<1> DEFINE HasGreatest(S) == \E m \in S : \A t \in S : rank[t] <= rank[m]
           Without == {S \in SUBSET T : S # {} /\ ~HasGreatest(S)}
<1>1. SUFFICES ASSUME Without # {} PROVE FALSE
  <2>1. T \notin Without => HasGreatest(T)
    OBVIOUS
  <2>2. QED BY <2>1
<1>2. IsWellFoundedOn(StrictSubsetOrdering(T), SUBSET T)
  BY FS_StrictSubsetOrderingWellFounded, FS_FiniteSubsetsOfFinite
<1>3. PICK S \in Without : \A U \in Without : ~(<<U, S>> \in StrictSubsetOrdering(T))
  <2>1. Without \subseteq SUBSET T
    OBVIOUS
  <2> HIDE DEF Without
  <2>2. QED BY <1>1, <1>2, <2>1, WFMin
<1>4. PICK x \in S : TRUE
  OBVIOUS
<1> DEFINE Rest == S \ {x}
<1>5. Rest \notin Without
  <2>1. Rest \in SUBSET T /\ S \in SUBSET T /\ Rest \subseteq S /\ Rest # S
    BY <1>4
  <2>2. <<Rest, S>> \in StrictSubsetOrdering(T)
    BY <2>1 DEF StrictSubsetOrdering
  <2>3. QED BY <1>3, <2>2
<1>6. CASE Rest = {}
  <2>1. S = {x} /\ x \in T
    BY <1>4, <1>6
  <2>2. rank[x] <= rank[x]
    BY <2>1
  <2>3. QED BY <2>1, <2>2
<1>7. CASE Rest # {}
  <2>1. PICK m \in Rest : \A t \in Rest : rank[t] <= rank[m]
    BY <1>5, <1>7
  <2>2. \A t \in S : rank[t] \in Nat /\ (t = x \/ t \in Rest)
    OBVIOUS
  <2>3. CASE rank[x] <= rank[m]
    <3>1. \A t \in S : rank[t] <= rank[m]
      BY <2>1, <2>2, <2>3
    <3>2. QED BY <2>1, <3>1
  <2>4. CASE rank[m] <= rank[x]
    <3>1. \A t \in S : rank[t] <= rank[x]
      BY <2>1, <2>2, <2>4
    <3>2. QED BY <1>4, <3>1
  <2>5. QED BY <1>4, <2>1, <2>2, <2>3, <2>4
<1>8. QED BY <1>6, <1>7

(* An orderly call opens a scope above all that the thread holds.          *)
LEMMA PushKeepsOrder ==
  ASSUME LockInv, OrderInv, NEW t \in LockThreads, NEW e \in Scope, Opened(t, e),
         At(t, "idle"), orderly' => orderly,
         orderly' /\ e.has_lock => KeepsOrder(t, e.isolate)
  PROVE  orderly' => ScopesUpward'
<1> SUFFICES ASSUME orderly', NEW u \in LockThreads, NEW j \in LockIsolates,
                    NEW k \in 1 .. Len(scopes'[u]),
                    scopes'[u][k].has_lock, HoldsUpTo(scopes'[u], j, k - 1)
             PROVE  j <= scopes'[u][k].isolate
  BY DEF ScopesUpward
<1>1. LockTypeOK /\ ScopesInv /\ ScopesUpward /\ (e.has_lock => KeepsOrder(t, e.isolate))
  BY DEF LockInv, OrderInv
<1>2. CASE u # t
  <2>1. scopes'[u] = scopes[u]
    BY <1>1, <1>2 DEF Opened, LockTypeOK
  <2>2. QED BY <1>1, <2>1 DEF ScopesUpward
<1>3. CASE u = t
  <2> DEFINE n == Len(scopes[t])
  <2>1. /\ scopes[t] \in Seq(Scope) /\ scopes'[t] = Append(scopes[t], e)
    BY <1>1 DEF Opened, LockTypeOK
  <2>2. /\ n \in Nat /\ Len(scopes'[t]) = n + 1 /\ scopes'[t][n + 1] = e
        /\ \A m \in 1 .. n : scopes'[t][m] = scopes[t][m]
    BY <2>1
  <2>a. k \in 1 .. n + 1
    BY <1>3, <2>2
  <2>b. n \in Nat
    BY <2>2
  <2> HIDE DEF n
  <2>3. k - 1 \in Nat /\ \A m \in 1 .. k - 1 : m \in 1 .. n
    BY <2>a, <2>b
  <2>4. HoldsUpTo(scopes[t], j, k - 1)
    <3>1. \A m \in 1 .. k - 1 : scopes'[t][m] = scopes[t][m]
      BY <2>2, <2>3
    <3>2. QED BY <1>3, <2>3, <3>1, HoldsOfPrefix
  <2>5. CASE k = n + 1
    <3>1. Holds(t, j)
      BY <2>b, <2>4, <2>5 DEF Holds, n
    <3>2. lockingMutex[j] = t
      BY <1>1, <3>1 DEF ScopesInv, Busy, At
    <3>3. QED BY <1>1, <1>3, <2>2, <2>5, <3>2 DEF KeepsOrder
  <2>6. CASE k \in 1 .. n
    <3>1. scopes'[t][k] = scopes[t][k]
      BY <2>2, <2>6
    <3>2. QED BY <1>1, <1>3, <2>4, <2>6, <3>1 DEF ScopesUpward, n
  <2>7. QED BY <2>a, <2>b, <2>5, <2>6
<1>4. QED BY <1>2, <1>3

(* Closing one leaves those outside it as they were.                       *)
LEMMA PopKeepsOrder ==
  ASSUME LockTypeOK, ScopesUpward, NEW t \in LockThreads, scopes[t] # <<>>, Closes(t)
  PROVE  ScopesUpward'
<1> SUFFICES ASSUME NEW u \in LockThreads, NEW j \in LockIsolates,
                    NEW k \in 1 .. Len(scopes'[u]),
                    scopes'[u][k].has_lock, HoldsUpTo(scopes'[u], j, k - 1)
             PROVE  j <= scopes'[u][k].isolate
  BY DEF ScopesUpward
<1>1. CASE u # t
  <2>1. scopes'[u] = scopes[u]
    BY <1>1 DEF Closes, LockTypeOK
  <2>2. QED BY <2>1 DEF ScopesUpward
<1>2. CASE u = t
  <2>1. scopes[t] \in Seq(Scope) /\ scopes'[t] = SubSeq(scopes[t], 1, Len(scopes[t]) - 1)
    BY DEF Closes, LockTypeOK
  <2>2. /\ Len(scopes[t]) \in Nat /\ Len(scopes'[t]) = Len(scopes[t]) - 1
        /\ \A m \in 1 .. Len(scopes[t]) - 1 : scopes'[t][m] = scopes[t][m]
    BY <2>1
  <2>3. k \in 1 .. Len(scopes[t]) - 1
    BY <1>2, <2>2
  <2>4. k - 1 \in Nat /\ \A m \in 1 .. k - 1 : m \in 1 .. Len(scopes[t]) - 1
    BY <2>2, <2>3
  <2>5. HoldsUpTo(scopes[t], j, k - 1)
    <3>1. \A m \in 1 .. k - 1 : scopes'[t][m] = scopes[t][m]
      BY <2>2, <2>4
    <3>2. QED BY <1>2, <2>4, <3>1, HoldsOfPrefix
  <2>6. k \in 1 .. Len(scopes[t]) /\ scopes'[t][k] = scopes[t][k]
    BY <2>2, <2>3
  <2>7. QED BY <1>2, <2>5, <2>6 DEF ScopesUpward
<1>3. QED BY <1>1, <1>2

(* Where the threads are once one of them has gone on.                     *)
LEMMA Gone ==
  ASSUME LockTypeOK, NEW t \in LockThreads, NEW place, NEW i, GoTo(t, place, i)
  PROVE  /\ \A u \in LockThreads : u # t => lockPC'[u] = lockPC[u]
         /\ lockPC'[t].at = place /\ lockPC'[t].isolate = i
BY DEF LockTypeOK, GoTo

(* Steps inside Lock and Unlock, which open and close no scope.            *)
LEMMA MutexStepKeepsOrder ==
  ASSUME LockInv, OrderInv, NEW t \in LockThreads,
         \/ FetchOrAssignThreadID(t) \/ AcquireMutex(t) \/ NoteThread(t)
         \/ ClearThread(t) \/ ReleaseMutex(t)
  PROVE  OrderInv'
<1> SUFFICES ASSUME orderly' PROVE WaitsUpward' /\ ScopesUpward'
  BY DEF OrderInv
<1>1. UNCHANGED <<scopes, orderly>>
  BY DEF FetchOrAssignThreadID, AcquireMutex, NoteThread, ClearThread, ReleaseMutex
<1>2. LockTypeOK /\ WaitsUpward /\ ScopesUpward
  BY <1>1 DEF LockInv, OrderInv
<1>3. ScopesUpward'
  BY <1>1, <1>2 DEF ScopesUpward
<1>4. ASSUME NEW u \in LockThreads, NEW j \in LockIsolates,
             At(u, "lock")', lockingMutex'[j] = u
      PROVE  At(u, "lock") /\ lockingMutex[j] = u /\ lockPC'[u] = lockPC[u]
  <2>1. CASE FetchOrAssignThreadID(t)
    BY <1>4, <2>1 DEF FetchOrAssignThreadID, At
  <2>2. CASE AcquireMutex(t)
    <3>1. GoTo(t, "note", lockPC[t].isolate)
      BY <2>2 DEF AcquireMutex
    <3>2. u # t /\ lockPC'[u] = lockPC[u]
      BY <1>2, <1>4, <3>1, Gone DEF At
    <3>3. lockingMutex[j] = u
      BY <1>2, <1>4, <2>2, <3>2 DEF AcquireMutex, LockTypeOK
    <3>4. QED BY <1>4, <3>2, <3>3 DEF At
  <2>3. CASE NoteThread(t)
    <3>1. GoTo(t, "idle", lockPC[t].isolate) /\ UNCHANGED lockingMutex
      BY <2>3 DEF NoteThread
    <3>2. QED BY <1>2, <1>4, <3>1, Gone DEF At
  <2>4. CASE ClearThread(t)
    <3>1. GoTo(t, "unlock", lockPC[t].isolate) /\ UNCHANGED lockingMutex
      BY <2>4 DEF ClearThread
    <3>2. QED BY <1>2, <1>4, <3>1, Gone DEF At
  <2>5. CASE ReleaseMutex(t)
    <3>1. GoTo(t, "idle", lockPC[t].isolate)
      BY <2>5 DEF ReleaseMutex
    <3>2. u # t /\ lockPC'[u] = lockPC[u]
      BY <1>2, <1>4, <3>1, Gone DEF At
    <3>3. lockingMutex[j] = u
      BY <1>2, <1>4, <2>5, LockAssumption DEF ReleaseMutex, LockTypeOK
    <3>4. QED BY <1>4, <3>2, <3>3 DEF At
  <2>6. QED BY <2>1, <2>2, <2>3, <2>4, <2>5
<1>5. WaitsUpward'
  BY <1>2, <1>4 DEF WaitsUpward
<1>6. QED BY <1>3, <1>5

(* A call that opens a scope looks at what the thread holds.               *)
LEMMA MakeKeepsOrder ==
  ASSUME LockInv, OrderInv, NEW t \in LockThreads, NEW i \in LockIsolates,
         MakeLocker(t, i) \/ MakeUnlocker(t, i)
  PROVE  OrderInv'
<1> SUFFICES ASSUME orderly' PROVE WaitsUpward' /\ ScopesUpward'
  BY DEF OrderInv
<1>1. /\ At(t, "idle")
      /\ orderly
      /\ UNCHANGED lockingMutex
      /\ \A u \in LockThreads : u # t => lockPC'[u] = lockPC[u]
      /\ At(t, "lock")' => lockPC'[t].isolate = i /\ KeepsOrder(t, i)
  <2>1. LockTypeOK
    BY DEF LockInv
  <2>2. CASE UNCHANGED <<lockPC, orderly>>
    BY <2>2 DEF MakeLocker, MakeUnlocker, At
  <2>3. CASE (GoTo(t, "lock", i) \/ GoTo(t, "clear", i)) /\ orderly' = (orderly /\ KeepsOrder(t, i))
    BY <2>1, <2>3, Gone DEF MakeLocker, MakeUnlocker, At
  <2>4. QED BY <2>2, <2>3 DEF MakeLocker, MakeUnlocker
<1>2. LockTypeOK /\ WaitsUpward
  BY <1>1 DEF LockInv, OrderInv
<1>3. PICK e \in Scope : /\ Opened(t, e)
                         /\ e.isolate = i
                         /\ e.has_lock => KeepsOrder(t, i)
  <2>1. CASE MakeUnlocker(t, i)
    <3>1. [kind |-> "Unlocker", isolate |-> i, has_lock |-> TRUE] \in Scope
      BY DEF Scope
    <3>2. QED BY <2>1, <3>1 DEF MakeUnlocker, Opens, Opened
  <2>2. CASE MakeLocker(t, i) /\ IsLockedForThisThread(t, i)
    <3>1. [kind |-> "Locker", isolate |-> i, has_lock |-> FALSE] \in Scope
      BY DEF Scope
    <3>2. QED BY <2>2, <3>1 DEF MakeLocker, Opens, Opened
  <2>3. CASE MakeLocker(t, i) /\ ~IsLockedForThisThread(t, i)
    <3>1. [kind |-> "Locker", isolate |-> i, has_lock |-> TRUE] \in Scope
      BY DEF Scope
    <3>2. QED BY <2>3, <3>1 DEF MakeLocker, Opens, Opened
  <2>4. QED BY <2>1, <2>2, <2>3
<1>4. ScopesUpward'
  BY <1>1, <1>3, PushKeepsOrder
<1>5. WaitsUpward'
  BY <1>1, <1>2 DEF WaitsUpward, KeepsOrder, At
<1>6. QED BY <1>4, <1>5

(* An Unlocker's destructor locks again what came after all that the       *)
(* thread still holds.                                                     *)
LEMMA DestroyKeepsOrder ==
  ASSUME LockInv, OrderInv, NEW t \in LockThreads, DestroyLocker(t) \/ DestroyUnlocker(t)
  PROVE  OrderInv'
<1> SUFFICES ASSUME orderly' PROVE WaitsUpward' /\ ScopesUpward'
  BY DEF OrderInv
<1>1. /\ At(t, "idle") /\ scopes[t] # <<>> /\ Closes(t)
      /\ orderly
      /\ UNCHANGED lockingMutex
      /\ \A u \in LockThreads : u # t => lockPC'[u] = lockPC[u]
      /\ At(t, "lock")' => /\ Innermost(t).kind = "Unlocker"
                           /\ lockPC'[t].isolate = Innermost(t).isolate
  <2>1. LockTypeOK
    BY DEF LockInv
  <2>2. CASE UNCHANGED lockPC
    BY <2>2 DEF DestroyLocker, DestroyUnlocker, At
  <2>3. CASE DestroyLocker(t) /\ GoTo(t, "clear", Innermost(t).isolate)
    BY <2>1, <2>3, Gone DEF DestroyLocker, At
  <2>4. CASE DestroyUnlocker(t) /\ GoTo(t, "lock", Innermost(t).isolate)
    BY <2>1, <2>4, Gone DEF DestroyUnlocker, At
  <2>5. QED BY <2>2, <2>3, <2>4 DEF DestroyLocker, DestroyUnlocker
<1>2. LockTypeOK /\ ScopesInv /\ AlternateInv /\ WaitsUpward /\ ScopesUpward
  BY <1>1 DEF LockInv, OrderInv
<1>3. ScopesUpward'
  BY <1>1, <1>2, PopKeepsOrder
<1>4. ASSUME At(t, "lock")', NEW j \in LockIsolates, lockingMutex[j] = t
      PROVE  j <= Innermost(t).isolate
  <2> DEFINE n == Len(scopes[t])
  <2>1. Innermost(t).kind = "Unlocker" /\ Innermost(t).has_lock
    BY <1>1, <1>2, <1>4, ClosedScopes
  <2>2. n \in Nat \ {0} /\ Innermost(t) = scopes[t][n]
    BY <1>1, <1>2 DEF LockTypeOK, Innermost
  <2>3. HoldsUpTo(scopes[t], j, n)
    BY <1>1, <1>2, <1>4 DEF ScopesInv, Busy, At, Holds
  <2> HIDE DEF n
  <2>4. n - 1 \in Nat /\ (n - 1) + 1 = n /\ n \in 1 .. n
    BY <2>2
  <2>5. HoldsUpTo(scopes[t], j, n - 1)
    <3>1. HoldsUpTo(scopes[t], j, (n - 1) + 1) <=>
            IF Decides(scopes[t][(n - 1) + 1], j) THEN scopes[t][(n - 1) + 1].kind = "Locker"
            ELSE HoldsUpTo(scopes[t], j, n - 1)
      BY <2>4, HoldsOfNext
    <3>2. QED BY <2>1, <2>2, <2>3, <2>4, <3>1
  <2>6. QED BY <1>2, <2>1, <2>2, <2>4, <2>5 DEF ScopesUpward, n
<1>5. WaitsUpward'
  BY <1>1, <1>2, <1>4 DEF WaitsUpward, At
<1>6. QED BY <1>3, <1>5

LEMMA OrderInvStep == LockInv /\ OrderInv /\ [LockNext]_lockVars => OrderInv'
<1> SUFFICES ASSUME LockInv, OrderInv, [LockNext]_lockVars PROVE OrderInv'
  OBVIOUS
<1>1. CASE UNCHANGED lockVars
  BY <1>1 DEF lockVars, OrderInv, WaitsUpward, ScopesUpward, At
<1>2. ASSUME NEW t \in LockThreads, LockStep(t) PROVE OrderInv'
  BY <1>2, MutexStepKeepsOrder, MakeKeepsOrder, DestroyKeepsOrder DEF LockStep
<1>3. QED BY <1>1, <1>2 DEF LockNext

(* While all clients lock in one order, what a thread waits for comes      *)
(* after all it holds (Lock and Unlock of isolate.cpp, in the order that   *)
(* the scopes of locker.cpp call them).                                    *)
THEOREM OrderInvAlways == LockSpec => []OrderInv
<1>1. LockInit => OrderInv
  <2> SUFFICES ASSUME LockInit PROVE WaitsUpward /\ ScopesUpward
    BY DEF OrderInv
  <2>1. \A t \in LockThreads : Len(scopes[t]) = 0 /\ 1 .. 0 = {} /\ ~At(t, "lock")
    BY DEF LockInit, At
  <2>2. QED BY <2>1 DEF WaitsUpward, ScopesUpward
<1>2. QED BY <1>1, OrderInvStep, LockInvAlways, PTL DEF LockSpec

(* No threads wait for each other in a circle if all lock in one order,    *)
(* and no thread ever waits for itself, whatever the order: of threads     *)
(* that wait for each other only, the one that waits for the isolate last  *)
(* in the order would wait for a thread that waits for a later one.        *)
THEOREM NoDeadlockAlways == LockSpec => []NoDeadlock
<1>1. LockInv /\ OrderInv => NoDeadlock
  <2>1. SUFFICES ASSUME LockInv, OrderInv, NEW T \in (SUBSET LockThreads) \ {{}},
                        orderly \/ Cardinality(T) = 1,
                        \A t \in T : Waits(t) /\ lockingMutex[lockPC[t].isolate] \in T
                 PROVE  FALSE
    BY DEF NoDeadlock
  <2>2. IsFiniteSet(T) /\ T # {} /\ T \subseteq LockThreads
    <3>1. T \in SUBSET LockThreads /\ T # {}
      BY <2>1
    <3>2. IsFiniteSet(T)
      BY <3>1, LockAssumption, FS_Subset
    <3>3. QED BY <3>1, <3>2
  <2>3. LockTypeOK /\ MutexInv
    BY <2>1 DEF LockInv
  <2> DEFINE rank == [t \in T |-> lockPC[t].isolate]
  <2>4. \A t \in T : rank[t] \in Nat /\ lockPC[t].isolate \in LockIsolates
    BY <2>2, <2>3, LockAssumption DEF LockTypeOK
  <2>5. \A t \in T : lockingMutex[lockPC[t].isolate] # t
    BY <2>1, <2>2, <2>3, <2>4 DEF MutexInv, Busy, Waits, At
  <2>6. CASE Cardinality(T) = 1
    <3>1. PICK t : T = {t}
      BY <2>2, <2>6, FS_Singleton
    <3>2. QED BY <2>1, <2>5, <3>1
  <2>7. CASE orderly
    <3>1. rank \in [T -> Nat]
      BY <2>4
    <3>2. PICK m \in T : \A t \in T : rank[t] <= rank[m]
      <4> HIDE DEF rank
      <4>1. QED BY <2>2, <3>1, GreatestRank
    <3> DEFINE i == lockPC[m].isolate
               u == lockingMutex[i]
    <3>3. u \in T /\ At(u, "lock") /\ lockPC[u].isolate <= i
      BY <2>1, <3>2 DEF Waits
    <3>4. i <= lockPC[u].isolate
      BY <2>2, <2>4, <2>7, <3>3, <2>1 DEF OrderInv, WaitsUpward
    <3>5. lockPC[u].isolate = i
      BY <2>4, <3>3, <3>4
    <3>6. QED BY <2>5, <3>3, <3>5
  <2>8. QED BY <2>1, <2>6, <2>7
<1>2. QED BY <1>1, LockInvAlways, OrderInvAlways, PTL
=============================================================================
