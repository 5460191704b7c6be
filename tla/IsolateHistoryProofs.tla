------------------------ MODULE IsolateHistoryProofs ------------------------
(***************************************************************************)
(* Theorems about isolates, for any number of threads and isolates and any *)
(* depth of entries: with LIFO exits, the single vector of each isolate    *)
(* does what v8.h promises to each thread.                                 *)
(***************************************************************************)
EXTENDS IsolateHistory, SequenceTheorems, TLAPS

Visit == [thread : Threads, depth : Nat]

(* The part of HistoryInv that does not depend on what callbacks do.       *)
StoriesAgree == TypeOK /\ HistoryAgrees

LEMMA InvAgrees ==
  ASSUME HistoryInv
  PROVE  StoriesAgree
BY DEF HistoryInv, StoriesAgree

(* What the steps do to a sequence at its end. *)
LEMMA FrontIs ==
  ASSUME NEW S, NEW s \in Seq(S), s # <<>>
  PROVE  /\ Len(s) \in Nat /\ Len(s) > 0
         /\ Front(s) \in Seq(S)
         /\ Len(Front(s)) = Len(s) - 1
         /\ DOMAIN Front(s) = 1 .. Len(s) - 1
         /\ \A k \in 1 .. Len(s) - 1 : Front(s)[k] = s[k]
         /\ Last(s) = s[Len(s)] /\ Last(s) \in S
<1>1. Len(s) \in Nat /\ Len(s) > 0 /\ Len(s) - 1 \in Nat
  OBVIOUS
<1>2. Front(s) \in Seq(S)
  BY <1>1 DEF Front
<1>3. Len(Front(s)) = Len(s) - 1
  <2>1. \A k \in 1 .. Len(s) - 1 : s[k] \in S
    BY <1>1
  <2> DEFINE n == Len(s) - 1
  <2>2. n \in Nat
    BY <1>1
  <2> HIDE DEF n
  <2>3. Len(SubSeq(s, 1, n)) = IF 1 <= n THEN n - 1 + 1 ELSE 0
    BY <2>1, <2>2, SubSeqProperties DEF n
  <2>4. Len(SubSeq(s, 1, n)) = n
    BY <2>2, <2>3
  <2> QED BY <2>4 DEF Front, n
<1>4. DOMAIN Front(s) = 1 .. Len(s) - 1
  BY <1>2, <1>3
<1>5. \A k \in 1 .. Len(s) - 1 : Front(s)[k] = s[k]
  BY <1>1 DEF Front
<1>6. Last(s) = s[Len(s)] /\ Last(s) \in S
  BY <1>1 DEF Last
<1> QED BY <1>1, <1>2, <1>3, <1>4, <1>5, <1>6

LEMMA AppendIs ==
  ASSUME NEW S, NEW s \in Seq(S), NEW e \in S
  PROVE  /\ Append(s, e) \in Seq(S)
         /\ Len(s) \in Nat
         /\ Len(Append(s, e)) = Len(s) + 1
         /\ DOMAIN Append(s, e) = 1 .. Len(s) + 1
         /\ \A k \in 1 .. Len(s) : Append(s, e)[k] = s[k]
         /\ Append(s, e)[Len(s) + 1] = e
OBVIOUS

(* What the types say of each thread and of each isolate. *)
LEMMA ThreadTypes ==
  ASSUME TypeOK, NEW t \in Threads
  PROVE  /\ stacks[t] \in Seq(Isolates) /\ Len(stacks[t]) \in Nat
         /\ DOMAIN stacks[t] = 1 .. Len(stacks[t])
         /\ currentIsolate[t] \in Isolates \cup {Null}
         /\ reporting[t] \in Seq(Isolates)
BY DEF TypeOK

LEMMA IsolateTypes ==
  ASSUME TypeOK, NEW i \in Isolates
  PROVE  /\ visits[i] \in Seq(Visit) /\ Len(visits[i]) \in Nat
         /\ DOMAIN visits[i] = 1 .. Len(visits[i])
         /\ \A k \in DOMAIN visits[i] :
              visits[i][k].thread \in Threads /\ visits[i][k].depth \in Nat
         /\ previousIsolates[i] \in Seq(Isolates \cup {Null})
         /\ Len(previousIsolates[i]) \in Nat /\ Len(previousIsolates[i]) <= MaxEntries
<1>1. visits[i] \in Seq(Visit)
  BY DEF TypeOK, Visit
<1>2. Len(visits[i]) \in Nat /\ DOMAIN visits[i] = 1 .. Len(visits[i])
  BY <1>1
<1>3. \A k \in DOMAIN visits[i] : visits[i][k] \in Visit
  BY <1>1, <1>2
<1>4. \A v \in Visit : v.thread \in Threads /\ v.depth \in Nat
  BY DEF Visit
<1>5. previousIsolates[i] \in Seq(Isolates \cup {Null}) /\ Len(previousIsolates[i]) <= MaxEntries
  BY DEF TypeOK
<1> QED BY <1>1, <1>2, <1>3, <1>4, <1>5

(* It holds at the start. *)
LEMMA HistoryInvInit == HInit => HistoryInv
<1> SUFFICES ASSUME HInit PROVE HistoryInv
  OBVIOUS
<1>1. TypeOK
  BY IsolatesAssumption DEF HInit, Init, TypeOK
<1>2. HistoryAgrees
  BY DEF HInit, Init, HistoryAgrees, VisitsMatch, StackMatches, Abstract!Top
<1>3. ReportedAlive /\ NeverUndefined
  BY DEF HInit, Init, ReportedAlive, NeverUndefined
<1> QED BY <1>1, <1>2, <1>3 DEF HistoryInv

(* A thread's stack and an isolate's vector grow together. *)
LEMMA EnterAgrees ==
  ASSUME StoriesAgree, NEW t \in Threads, NEW i \in Isolates, HEnter(t, i)
  PROVE  StoriesAgree'
<1> DEFINE d == Len(stacks[t]) + 1
           n == Len(visits[i]) + 1
           e == [thread |-> t, depth |-> d]
<1>1. /\ process = "running" /\ process' = process /\ allocated' = allocated /\ i \in allocated
      /\ Len(previousIsolates[i]) < MaxEntries
      /\ previousIsolates' = [previousIsolates EXCEPT ![i] = Append(@, currentIsolate[t])]
      /\ currentIsolate' = [currentIsolate EXCEPT ![t] = i]
      /\ stacks' = [stacks EXCEPT ![t] = Append(@, i)]
      /\ visits' = [visits EXCEPT ![i] = Append(@, e)]
      /\ UNCHANGED <<fatalErrorHandler, hasFatalError, reporting>>
  BY DEF HEnter, Enter, Running, RecordThreadEntry, errorVars
<1>2. TypeOK /\ HistoryAgrees
  BY DEF StoriesAgree
<1>3. /\ stacks[t] \in Seq(Isolates) /\ d \in Nat /\ d > 0
      /\ e \in Visit /\ visits[i] \in Seq(Visit) /\ n \in Nat /\ n > 0
      /\ previousIsolates[i] \in Seq(Isolates \cup {Null})
      /\ currentIsolate[t] \in Isolates \cup {Null}
      /\ Len(previousIsolates[i]) = Len(visits[i])
      /\ currentIsolate[t] = Abstract!Top(stacks[t])
  <2>1. e \in Visit
    BY <1>2, ThreadTypes DEF Visit
  <2>2. VisitsMatch(i) /\ StackMatches(t)
    BY <1>2 DEF HistoryAgrees
  <2> QED BY <1>2, <2>1, <2>2, ThreadTypes, IsolateTypes DEF VisitsMatch, StackMatches
<1>4. /\ stacks'[t] \in Seq(Isolates) /\ Len(stacks'[t]) = d /\ stacks'[t][d] = i
      /\ \A c \in 1 .. d - 1 : stacks'[t][c] = stacks[t][c]
      /\ \A u \in Threads : u # t => stacks'[u] = stacks[u]
  BY <1>1, <1>2, <1>3, AppendIs DEF TypeOK
<1>5. /\ visits'[i] \in Seq(Visit) /\ Len(visits'[i]) = n /\ visits'[i][n] = e
      /\ \A k \in 1 .. n - 1 : visits'[i][k] = visits[i][k]
      /\ \A j \in Isolates : j # i => visits'[j] = visits[j]
  BY <1>1, <1>2, <1>3, AppendIs DEF TypeOK, Visit
<1>6. /\ previousIsolates'[i] \in Seq(Isolates \cup {Null}) /\ Len(previousIsolates'[i]) = n
      /\ previousIsolates'[i][n] = currentIsolate[t]
      /\ \A k \in 1 .. n - 1 : previousIsolates'[i][k] = previousIsolates[i][k]
      /\ \A j \in Isolates : j # i => previousIsolates'[j] = previousIsolates[j]
  BY <1>1, <1>2, <1>3, AppendIs DEF TypeOK
<1> HIDE DEF d, n, e
<1>7. e.thread = t /\ e.depth = d /\ Len(stacks[t]) = d - 1 /\ Len(visits[i]) = n - 1
  BY <1>3 DEF d, n, e
<1>8. TypeOK'
  <2>1. \A j \in Isolates : Len(previousIsolates'[j]) <= MaxEntries
    BY <1>1, <1>2, <1>3, <1>6, <1>7, IsolatesAssumption DEF TypeOK
  <2>2. /\ previousIsolates' \in [Isolates -> Seq(Isolates \cup {Null})]
        /\ stacks' \in [Threads -> Seq(Isolates)]
        /\ visits' \in [Isolates -> Seq(Visit)]
        /\ currentIsolate' \in [Threads -> Isolates \cup {Null}]
    BY <1>1, <1>2, <1>4, <1>5, <1>6 DEF TypeOK, Visit
  <2> QED BY <1>1, <1>2, <2>1, <2>2 DEF TypeOK, Visit
(* What was on a stack is there still, at the same depth. *)
<1>9. \A u \in Threads : \A c \in DOMAIN stacks[u] :
        c \in DOMAIN stacks'[u] /\ stacks'[u][c] = stacks[u][c]
        /\ Below(stacks'[u], c) = Below(stacks[u], c)
  <2>1. \A u \in Threads : stacks[u] \in Seq(Isolates) /\ DOMAIN stacks[u] = 1 .. Len(stacks[u])
    BY <1>2 DEF TypeOK
  <2>2. DOMAIN stacks'[t] = 1 .. d
    BY <1>4
  <2>3. ASSUME NEW c \in 1 .. d - 1
        PROVE  /\ c \in 1 .. d /\ stacks'[t][c] = stacks[t][c]
               /\ Below(stacks'[t], c) = Below(stacks[t], c)
    <3>1. c # 1 => c - 1 \in 1 .. d - 1
      BY <1>3
    <3>2. Below(stacks'[t], c) = Below(stacks[t], c)
      BY <1>4, <3>1 DEF Below
    <3> QED BY <1>3, <1>4, <3>2
  <2> QED BY <1>4, <1>7, <2>1, <2>2, <2>3
<1>10. ASSUME NEW j \in Isolates PROVE VisitsMatch(j)'
  <2>1. VisitsMatch(j)
    BY <1>2 DEF HistoryAgrees
  <2>2. visits[j] \in Seq(Visit) /\ DOMAIN visits[j] = 1 .. Len(visits[j])
    BY <1>2, IsolateTypes
  <2>3. \A k \in DOMAIN visits[j] : visits[j][k].thread \in Threads
    BY <1>2, IsolateTypes
  <2>4. CASE j # i
    <3>1. visits'[j] = visits[j] /\ previousIsolates'[j] = previousIsolates[j]
      BY <1>5, <1>6, <2>4
    <3> QED BY <1>9, <2>1, <2>3, <3>1 DEF VisitsMatch
  <2>5. CASE j = i
    <3>1. DOMAIN visits'[i] = 1 .. n /\ DOMAIN visits[i] = 1 .. n - 1
      BY <1>5, <1>7, <2>2, <2>5
    <3>2. ASSUME NEW k \in 1 .. n - 1
          PROVE  /\ visits'[i][k].depth \in DOMAIN stacks'[visits'[i][k].thread]
                 /\ stacks'[visits'[i][k].thread][visits'[i][k].depth] = i
                 /\ previousIsolates'[i][k] =
                      Below(stacks'[visits'[i][k].thread], visits'[i][k].depth)
      <4>1. visits'[i][k] = visits[i][k] /\ previousIsolates'[i][k] = previousIsolates[i][k]
        BY <1>5, <1>6
      <4>2. k \in DOMAIN visits[i] /\ visits[i][k].thread \in Threads
        BY <2>3, <2>5, <3>1
      <4>3. /\ visits[i][k].depth \in DOMAIN stacks[visits[i][k].thread]
            /\ stacks[visits[i][k].thread][visits[i][k].depth] = i
            /\ previousIsolates[i][k] =
                 Below(stacks[visits[i][k].thread], visits[i][k].depth)
        BY <2>1, <2>5, <4>2 DEF VisitsMatch
      <4> QED BY <1>9, <4>1, <4>2, <4>3
    <3>3. /\ visits'[i][n].depth \in DOMAIN stacks'[visits'[i][n].thread]
          /\ stacks'[visits'[i][n].thread][visits'[i][n].depth] = i
          /\ previousIsolates'[i][n] = Below(stacks'[visits'[i][n].thread], visits'[i][n].depth)
      <4>1. DOMAIN stacks'[t] = 1 .. d
        BY <1>4
      <4>2. currentIsolate[t] = Below(stacks'[t], d)
        <5>1. CASE d = 1
          BY <1>3, <1>7, <5>1 DEF Below, Abstract!Top
        <5>2. CASE d # 1
          <6>1. stacks[t] # <<>> /\ d - 1 \in 1 .. d - 1
            BY <1>3, <1>7, <5>2
          <6> QED BY <1>3, <1>4, <1>7, <5>2, <6>1 DEF Below, Abstract!Top
        <5> QED BY <5>1, <5>2
      <4> QED BY <1>3, <1>4, <1>5, <1>6, <1>7, <4>1, <4>2
    <3>4. ASSUME NEW k \in 1 .. n, NEW l \in 1 .. n, k < l,
                 visits'[i][k].thread = visits'[i][l].thread
          PROVE  visits'[i][k].depth < visits'[i][l].depth
      <4>1. k \in 1 .. n - 1
        BY <1>3, <3>4
      <4>2. CASE l = n
        <5>1. visits[i][k].thread = t /\ visits[i][k].depth \in 1 .. d - 1
          <6>1. DOMAIN stacks[t] = 1 .. d - 1
            BY <1>3, <1>7
          <6>2. visits[i][k].thread = t
            BY <1>5, <1>7, <3>4, <4>1, <4>2
          <6>3. visits[i][k].depth \in DOMAIN stacks[visits[i][k].thread]
            BY <2>1, <2>5, <3>1, <4>1 DEF VisitsMatch
          <6> QED BY <6>1, <6>2, <6>3
        <5>2. visits'[i][k].depth = visits[i][k].depth
          BY <1>5, <4>1
        <5>3. visits'[i][l].depth = d
          BY <1>5, <1>7, <4>2
        <5> QED BY <1>3, <5>1, <5>2, <5>3
      <4>3. CASE l # n
        <5>1. l \in 1 .. n - 1
          BY <1>3, <4>3
        <5> QED BY <1>5, <2>1, <2>5, <3>1, <3>4, <4>1, <5>1 DEF VisitsMatch
      <4> QED BY <4>2, <4>3
    <3>5. \A k \in 1 .. n : k \in 1 .. n - 1 \/ k = n
      BY <1>3
    <3>6. Len(visits'[i]) = Len(previousIsolates'[i])
      BY <1>5, <1>6
    <3> QED BY <2>5, <3>1, <3>2, <3>3, <3>4, <3>5, <3>6 DEF VisitsMatch
  <2> QED BY <2>4, <2>5
<1>11. ASSUME NEW u \in Threads PROVE StackMatches(u)'
  <2>1. StackMatches(u) /\ stacks[u] \in Seq(Isolates)
    BY <1>2 DEF HistoryAgrees, TypeOK
  (* A visit stays where it was. *)
  <2>2. ASSUME NEW c \in DOMAIN stacks[u]
        PROVE  /\ stacks[u][c] \in allocated
               /\ \E k \in DOMAIN visits'[stacks[u][c]] :
                    visits'[stacks[u][c]][k] = [thread |-> u, depth |-> c]
    <3>1. stacks[u][c] \in Isolates
      BY <2>1
    <3>2. PICK k \in DOMAIN visits[stacks[u][c]] :
                 visits[stacks[u][c]][k] = [thread |-> u, depth |-> c]
      BY <2>1 DEF StackMatches
    <3>3. k \in DOMAIN visits'[stacks[u][c]] /\ visits'[stacks[u][c]][k] = visits[stacks[u][c]][k]
      <4>1. DOMAIN visits'[i] = 1 .. n /\ DOMAIN visits[i] = 1 .. n - 1
        BY <1>3, <1>5, <1>7
      <4>2. CASE stacks[u][c] = i
        BY <1>3, <1>5, <3>2, <4>1, <4>2
      <4>3. CASE stacks[u][c] # i
        BY <1>5, <3>1, <3>2, <4>3
      <4> QED BY <4>2, <4>3
    <3> QED BY <2>1, <3>2, <3>3 DEF StackMatches
  <2>3. CASE u # t
    <3>1. stacks'[u] = stacks[u] /\ currentIsolate'[u] = currentIsolate[u]
      BY <1>1, <1>2, <1>4, <2>3 DEF TypeOK
    <3>2. allocated' = allocated
      BY <1>1
    <3>3. currentIsolate[u] = Abstract!Top(stacks[u])
      BY <2>1 DEF StackMatches
    <3> QED BY <2>2, <3>1, <3>2, <3>3 DEF StackMatches
  <2>4. CASE u = t
    <3>1. currentIsolate'[t] = Abstract!Top(stacks'[t])
      <4>1. stacks'[t] # <<>> /\ currentIsolate'[t] = i
        <5>1. currentIsolate \in [Threads -> Isolates \cup {Null}]
          BY <1>2 DEF TypeOK
        <5>2. currentIsolate'[t] = i
          BY <1>1, <5>1
        <5> QED BY <1>3, <1>4, <5>2
      <4> QED BY <1>4, <4>1 DEF Abstract!Top
    <3>2. DOMAIN stacks'[t] = 1 .. d /\ DOMAIN stacks[t] = 1 .. d - 1
      BY <1>3, <1>4, <1>7
    <3>3. ASSUME NEW c \in 1 .. d - 1
          PROVE  /\ stacks'[t][c] \in allocated'
                 /\ \E k \in DOMAIN visits'[stacks'[t][c]] :
                      visits'[stacks'[t][c]][k] = [thread |-> t, depth |-> c]
      <4>1. c \in DOMAIN stacks[u] /\ stacks'[t][c] = stacks[u][c] /\ allocated' = allocated
        BY <1>1, <1>4, <2>4, <3>2
      <4> QED BY <2>2, <2>4, <4>1
    <3>4. /\ stacks'[t][d] \in allocated'
          /\ \E k \in DOMAIN visits'[stacks'[t][d]] :
               visits'[stacks'[t][d]][k] = [thread |-> t, depth |-> d]
      <4>1. n \in DOMAIN visits'[i]
        BY <1>3, <1>5
      <4>2. visits'[i][n] = [thread |-> t, depth |-> d]
        BY <1>5 DEF e
      <4> QED BY <1>1, <1>4, <4>1, <4>2
    <3>5. \A c \in 1 .. d : c \in 1 .. d - 1 \/ c = d
      BY <1>3
    <3> QED BY <2>4, <3>1, <3>2, <3>3, <3>4, <3>5 DEF StackMatches
  <2> QED BY <2>3, <2>4
<1> QED BY <1>8, <1>10, <1>11 DEF StoriesAgree, HistoryAgrees

LEMMA EnterKeeps ==
  ASSUME HistoryInv, NEW t \in Threads, NEW i \in Isolates, HEnter(t, i)
  PROVE  HistoryInv'
<1>1. StoriesAgree'
  BY InvAgrees, EnterAgrees
<1>2. process' = process /\ allocated' = allocated /\ reporting' = reporting
  BY DEF HEnter, Enter, errorVars
<1> QED BY <1>1, <1>2 DEF HistoryInv, StoriesAgree, ReportedAlive, NeverUndefined

(* The last visitor of an isolate that leaves it: its visit is the newest  *)
(* of the isolate and the deepest of the thread.                           *)
LEMMA ExitAgrees ==
  ASSUME StoriesAgree, NEW t \in Threads, NEW i \in Isolates,
         LastVisitor(t, i), HExit(t, i)
  PROVE  /\ StoriesAgree' /\ UNCHANGED <<process, allocated, reporting>>
         /\ stacks[t] # <<>>
         /\ stacks' = [stacks EXCEPT ![t] = Front(@)]
         /\ currentIsolate' = [currentIsolate EXCEPT ![t] = Abstract!Top(stacks'[t])]
<1> DEFINE d == Len(stacks[t])
           n == Len(visits[i])
<1>1. TypeOK /\ VisitsMatch(i) /\ StackMatches(t)
  BY DEF StoriesAgree, HistoryAgrees
<1>2. stacks[t] # <<>> /\ visits[i] # <<>> /\ i = currentIsolate[t]
  BY DEF HExit, LastVisitor
<1>3. /\ stacks[t] \in Seq(Isolates) /\ d \in Nat /\ d > 0 /\ DOMAIN stacks[t] = 1 .. d
      /\ visits[i] \in Seq(Visit) /\ n \in Nat /\ n > 0 /\ DOMAIN visits[i] = 1 .. n
      /\ previousIsolates[i] \in Seq(Isolates \cup {Null}) /\ Len(previousIsolates[i]) = n
      /\ previousIsolates[i] # <<>>
  <2>1. /\ stacks[t] \in Seq(Isolates) /\ visits[i] \in Seq(Visit)
        /\ previousIsolates[i] \in Seq(Isolates \cup {Null})
    BY <1>1, ThreadTypes, IsolateTypes
  <2>2. Len(previousIsolates[i]) = n
    BY <1>1 DEF VisitsMatch
  <2> QED BY <1>2, <2>1, <2>2
<1>4. /\ process = "running" /\ process' = process /\ allocated' = allocated
      /\ currentIsolate' = [currentIsolate EXCEPT ![t] = Last(previousIsolates[i])]
      /\ previousIsolates' = [previousIsolates EXCEPT ![i] = Front(@)]
      /\ stacks' = [stacks EXCEPT ![t] = Front(@)]
      /\ visits' = [visits EXCEPT ![i] = IF @ = <<>> THEN @ ELSE Front(@)]
      /\ UNCHANGED <<fatalErrorHandler, hasFatalError, reporting>>
  BY <1>3 DEF HExit, Exit, Running, RecordThreadExit, errorVars
<1>5. visits[i][n].thread = t
  BY <1>3, FrontIs DEF LastVisitor
<1> HIDE DEF d, n
<1>6. stacks[t][d] = i
  BY <1>1, <1>2 DEF StackMatches, Abstract!Top, d
(* The newest visit of the isolate is the top of the thread's stack.       *)
<1>7. visits[i][n] = [thread |-> t, depth |-> d]
  <2>1. d \in DOMAIN stacks[t]
    BY <1>3
  <2>2. PICK k \in DOMAIN visits[i] : visits[i][k] = [thread |-> t, depth |-> d]
    BY <1>1, <1>6, <2>1 DEF StackMatches
  <2>3. n \in DOMAIN visits[i] /\ k \in 1 .. n
    BY <1>3, <2>2
  <2>4. visits[i][n].depth \in 1 .. d
    BY <1>1, <1>3, <1>5, <2>3 DEF VisitsMatch
  <2>5. visits[i][k].thread = t /\ visits[i][k].depth = d
    BY <2>2
  <2>6. k < n => visits[i][k].depth < visits[i][n].depth
    BY <1>1, <1>5, <2>2, <2>3, <2>5 DEF VisitsMatch
  <2>7. k = n
    BY <1>3, <2>3, <2>4, <2>5, <2>6
  <2> QED BY <2>2, <2>7
<1>8. visits[i][n].depth = d
  BY <1>7
<1>9. previousIsolates[i][n] = Below(stacks[t], d)
  <2>1. n \in DOMAIN visits[i]
    BY <1>3
  <2>2. previousIsolates[i][n] = Below(stacks[visits[i][n].thread], visits[i][n].depth)
    BY <1>1, <2>1 DEF VisitsMatch
  <2> QED BY <1>5, <1>8, <2>2
<1>10. /\ stacks'[t] \in Seq(Isolates) /\ Len(stacks'[t]) = d - 1
       /\ DOMAIN stacks'[t] = 1 .. d - 1
       /\ \A c \in 1 .. d - 1 : stacks'[t][c] = stacks[t][c]
       /\ \A u \in Threads : u # t => stacks'[u] = stacks[u]
  <2>1. stacks'[t] = Front(stacks[t]) /\ \A u \in Threads : u # t => stacks'[u] = stacks[u]
    BY <1>1, <1>4 DEF TypeOK
  <2>2. Len(stacks[t]) = d
    BY DEF d
  <2>3. /\ Front(stacks[t]) \in Seq(Isolates)
        /\ Len(Front(stacks[t])) = Len(stacks[t]) - 1
        /\ DOMAIN Front(stacks[t]) = 1 .. Len(stacks[t]) - 1
        /\ \A k \in 1 .. Len(stacks[t]) - 1 : Front(stacks[t])[k] = stacks[t][k]
    BY <1>2, <1>3, FrontIs
  <2> QED BY <2>1, <2>2, <2>3
<1>11. /\ visits'[i] \in Seq(Visit) /\ Len(visits'[i]) = n - 1
       /\ DOMAIN visits'[i] = 1 .. n - 1
       /\ \A k \in 1 .. n - 1 : visits'[i][k] = visits[i][k]
       /\ \A j \in Isolates : j # i => visits'[j] = visits[j]
  <2>1. visits'[i] = Front(visits[i]) /\ \A j \in Isolates : j # i => visits'[j] = visits[j]
    BY <1>1, <1>2, <1>4 DEF TypeOK
  <2>2. Len(visits[i]) = n
    BY DEF n
  <2>3. /\ Front(visits[i]) \in Seq(Visit)
        /\ Len(Front(visits[i])) = Len(visits[i]) - 1
        /\ DOMAIN Front(visits[i]) = 1 .. Len(visits[i]) - 1
        /\ \A k \in 1 .. Len(visits[i]) - 1 : Front(visits[i])[k] = visits[i][k]
    BY <1>2, <1>3, FrontIs
  <2> QED BY <2>1, <2>2, <2>3
<1>12. /\ previousIsolates'[i] \in Seq(Isolates \cup {Null}) /\ Len(previousIsolates'[i]) = n - 1
       /\ \A k \in 1 .. n - 1 : previousIsolates'[i][k] = previousIsolates[i][k]
       /\ \A j \in Isolates : j # i => previousIsolates'[j] = previousIsolates[j]
       /\ Last(previousIsolates[i]) = previousIsolates[i][n]
       /\ Last(previousIsolates[i]) \in Isolates \cup {Null}
  <2>1. /\ previousIsolates'[i] = Front(previousIsolates[i])
        /\ \A j \in Isolates : j # i => previousIsolates'[j] = previousIsolates[j]
    BY <1>1, <1>4 DEF TypeOK
  <2>2. LET s == previousIsolates[i]
        IN  /\ Front(s) \in Seq(Isolates \cup {Null})
            /\ Len(Front(s)) = Len(s) - 1
            /\ \A k \in 1 .. Len(s) - 1 : Front(s)[k] = s[k]
            /\ Last(s) = s[Len(s)] /\ Last(s) \in Isolates \cup {Null}
    BY <1>3, FrontIs
  <2> QED BY <1>3, <2>1, <2>2
(* The thread is back where it came from.                                  *)
<1>13. Last(previousIsolates[i]) = Abstract!Top(stacks'[t])
  <2>1. CASE d = 1
    BY <1>9, <1>10, <1>12, <2>1 DEF Below, Abstract!Top
  <2>2. CASE d # 1
    <3>1. d - 1 \in 1 .. d - 1 /\ stacks'[t] # <<>>
      BY <1>3, <1>10, <2>2
    <3> QED BY <1>9, <1>10, <1>12, <2>2, <3>1 DEF Below, Abstract!Top
  <2> QED BY <2>1, <2>2
<1>14. currentIsolate' = [currentIsolate EXCEPT ![t] = Abstract!Top(stacks'[t])]
  BY <1>4, <1>13
<1>15. TypeOK'
  <2>1. \A j \in Isolates : Len(previousIsolates'[j]) <= MaxEntries
    <3>1. n <= MaxEntries /\ \A j \in Isolates : Len(previousIsolates[j]) <= MaxEntries
      BY <1>1, <1>3 DEF TypeOK
    <3>2. n - 1 <= MaxEntries
      BY <1>3, <3>1, IsolatesAssumption
    <3>3. Len(previousIsolates'[i]) <= MaxEntries
      BY <1>12, <3>2
    <3>4. \A j \in Isolates : j # i => Len(previousIsolates'[j]) <= MaxEntries
      <4>1. \A j \in Isolates : j # i => previousIsolates'[j] = previousIsolates[j]
        BY <1>12
      <4> QED BY <3>1, <4>1
    <3> QED BY <3>3, <3>4
  <2>2. /\ previousIsolates' \in [Isolates -> Seq(Isolates \cup {Null})]
        /\ stacks' \in [Threads -> Seq(Isolates)]
        /\ visits' \in [Isolates -> Seq(Visit)]
    <3>1. /\ previousIsolates \in [Isolates -> Seq(Isolates \cup {Null})]
          /\ stacks \in [Threads -> Seq(Isolates)]
          /\ visits \in [Isolates -> Seq(Visit)]
      BY <1>1 DEF TypeOK, Visit
    <3>2. previousIsolates' \in [Isolates -> Seq(Isolates \cup {Null})]
      <4>1. previousIsolates' = [previousIsolates EXCEPT ![i] = Front(previousIsolates[i])]
        BY <1>4
      <4>2. previousIsolates'[i] = Front(previousIsolates[i])
        BY <3>1, <4>1
      <4> QED BY <1>12, <3>1, <4>1, <4>2
    <3>3. stacks' \in [Threads -> Seq(Isolates)]
      <4>1. stacks' = [stacks EXCEPT ![t] = Front(stacks[t])]
        BY <1>4
      <4>2. stacks'[t] = Front(stacks[t])
        BY <3>1, <4>1
      <4> QED BY <1>10, <3>1, <4>1, <4>2
    <3>4. visits' \in [Isolates -> Seq(Visit)]
      <4>1. visits' = [visits EXCEPT ![i] = Front(visits[i])]
        BY <1>2, <1>4
      <4>2. visits'[i] = Front(visits[i])
        BY <3>1, <4>1
      <4> QED BY <1>11, <3>1, <4>1, <4>2
    <3> QED BY <3>2, <3>3, <3>4
  <2>3. currentIsolate' \in [Threads -> Isolates \cup {Null}]
    BY <1>1, <1>4, <1>12 DEF TypeOK
  <2> QED BY <1>1, <1>4, <2>1, <2>2, <2>3 DEF TypeOK, Visit
<1>16. \A c \in 1 .. d - 1 : Below(stacks'[t], c) = Below(stacks[t], c)
  <2>1. \A c \in 1 .. d - 1 : c # 1 => c - 1 \in 1 .. d - 1
    BY <1>3
  <2> QED BY <1>10, <2>1 DEF Below
<1>17. ASSUME NEW j \in Isolates PROVE VisitsMatch(j)'
  <2>1. VisitsMatch(j)
    BY DEF StoriesAgree, HistoryAgrees
  <2>2. DOMAIN visits[j] = 1 .. Len(visits[j])
    BY <1>1, IsolateTypes
  <2>3. \A k \in DOMAIN visits[j] : visits[j][k].thread \in Threads /\ visits[j][k].depth \in Nat
    BY <1>1, IsolateTypes
  (* A visit that is still there is not the one the thread has left.       *)
  <2>4. ASSUME NEW k \in DOMAIN visits'[j]
        PROVE  /\ k \in DOMAIN visits[j] /\ visits'[j][k] = visits[j][k]
               /\ previousIsolates'[j][k] = previousIsolates[j][k]
               /\ visits[j][k].thread = t => visits[j][k].depth \in 1 .. d - 1
    <3>1. CASE j = i
      <4>1. k \in 1 .. n - 1 /\ k \in DOMAIN visits[i] /\ n \in DOMAIN visits[i] /\ k < n
        BY <1>3, <1>11, <2>4, <3>1
      <4>2. visits[i][k].thread = t => visits[i][k].depth < d
        BY <1>1, <1>5, <1>8, <4>1 DEF VisitsMatch
      <4>3. visits[i][k].depth \in DOMAIN stacks[visits[i][k].thread]
        BY <1>1, <4>1 DEF VisitsMatch
      <4>4. visits[i][k].thread = t => visits[i][k].depth \in 1 .. d - 1
        BY <1>3, <4>2, <4>3
      <4> QED BY <1>11, <1>12, <3>1, <4>1, <4>4
    <3>2. CASE j # i
      <4>1. visits'[j] = visits[j] /\ previousIsolates'[j] = previousIsolates[j]
        BY <1>11, <1>12, <3>2
      <4>2. /\ visits[j][k].depth \in DOMAIN stacks[visits[j][k].thread]
            /\ stacks[visits[j][k].thread][visits[j][k].depth] = j
        BY <2>1, <2>4, <4>1 DEF VisitsMatch
      <4>3. visits[j][k].thread = t => visits[j][k].depth \in 1 .. d /\ visits[j][k].depth # d
        BY <1>3, <1>6, <3>2, <4>2
      <4> QED BY <1>3, <2>4, <4>1, <4>3
    <3> QED BY <3>1, <3>2
  <2>5. Len(visits'[j]) = Len(previousIsolates'[j])
    <3>1. CASE j = i
      BY <1>11, <1>12, <3>1
    <3>2. CASE j # i
      BY <1>11, <1>12, <2>1, <3>2 DEF VisitsMatch
    <3> QED BY <3>1, <3>2
  <2>6. ASSUME NEW k \in DOMAIN visits'[j]
        PROVE  /\ visits'[j][k].depth \in DOMAIN stacks'[visits'[j][k].thread]
               /\ stacks'[visits'[j][k].thread][visits'[j][k].depth] = j
               /\ previousIsolates'[j][k] =
                    Below(stacks'[visits'[j][k].thread], visits'[j][k].depth)
    <3>1. /\ k \in DOMAIN visits[j] /\ visits'[j][k] = visits[j][k]
          /\ previousIsolates'[j][k] = previousIsolates[j][k]
          /\ visits[j][k].thread = t => visits[j][k].depth \in 1 .. d - 1
      BY <2>4
    <3>2. /\ visits[j][k].depth \in DOMAIN stacks[visits[j][k].thread]
          /\ stacks[visits[j][k].thread][visits[j][k].depth] = j
          /\ previousIsolates[j][k] = Below(stacks[visits[j][k].thread], visits[j][k].depth)
      BY <2>1, <3>1 DEF VisitsMatch
    <3>3. CASE visits[j][k].thread = t
      BY <1>10, <1>16, <3>1, <3>2, <3>3
    <3>4. CASE visits[j][k].thread # t
      BY <1>10, <2>3, <3>1, <3>2, <3>4
    <3> QED BY <3>3, <3>4
  <2>7. ASSUME NEW k \in DOMAIN visits'[j], NEW l \in DOMAIN visits'[j], k < l,
               visits'[j][k].thread = visits'[j][l].thread
        PROVE  visits'[j][k].depth < visits'[j][l].depth
    <3>1. /\ k \in DOMAIN visits[j] /\ visits'[j][k] = visits[j][k]
          /\ l \in DOMAIN visits[j] /\ visits'[j][l] = visits[j][l]
      BY <2>4
    <3> QED BY <2>1, <2>7, <3>1 DEF VisitsMatch
  <2> QED BY <2>5, <2>6, <2>7 DEF VisitsMatch
<1>18. ASSUME NEW u \in Threads PROVE StackMatches(u)'
  <2>1. StackMatches(u) /\ stacks[u] \in Seq(Isolates)
    BY <1>1 DEF StoriesAgree, HistoryAgrees, TypeOK
  <2>2. currentIsolate'[u] = Abstract!Top(stacks'[u])
    <3>1. currentIsolate \in [Threads -> Isolates \cup {Null}]
      BY <1>1 DEF TypeOK
    <3>2. CASE u = t
      BY <1>14, <3>1, <3>2
    <3>3. CASE u # t
      <4>1. currentIsolate'[u] = currentIsolate[u] /\ stacks'[u] = stacks[u]
        BY <1>10, <1>14, <3>1, <3>3
      <4>2. currentIsolate[u] = Abstract!Top(stacks[u])
        BY <2>1 DEF StackMatches
      <4> QED BY <4>1, <4>2
    <3> QED BY <3>2, <3>3
  <2>3. ASSUME NEW c \in DOMAIN stacks'[u]
        PROVE  /\ c \in DOMAIN stacks[u] /\ stacks'[u][c] = stacks[u][c]
               /\ u = t => c # d
    <3>1. CASE u = t
      BY <1>3, <1>10, <2>3, <3>1
    <3>2. CASE u # t
      BY <1>10, <2>3, <3>2
    <3> QED BY <3>1, <3>2
  <2>4. ASSUME NEW c \in DOMAIN stacks'[u]
        PROVE  /\ stacks'[u][c] \in allocated'
               /\ \E k \in DOMAIN visits'[stacks'[u][c]] :
                    visits'[stacks'[u][c]][k] = [thread |-> u, depth |-> c]
    <3>1. /\ c \in DOMAIN stacks[u] /\ stacks'[u][c] = stacks[u][c]
          /\ u = t => c # d
      BY <2>3
    <3>2. stacks[u][c] \in Isolates
      BY <2>1, <3>1
    <3>3. PICK k \in DOMAIN visits[stacks[u][c]] :
                 visits[stacks[u][c]][k] = [thread |-> u, depth |-> c]
      BY <2>1, <3>1 DEF StackMatches
    <3>4. /\ visits[stacks[u][c]][k].thread = u
          /\ visits[stacks[u][c]][k].depth = c
      BY <3>3
    <3>5. k \in DOMAIN visits'[stacks[u][c]] /\ visits'[stacks[u][c]][k] = visits[stacks[u][c]][k]
      <4>1. CASE stacks[u][c] = i
        <5>1. k # n
          BY <1>5, <1>8, <3>1, <3>4, <4>1
        <5>2. k \in 1 .. n - 1
          BY <1>3, <3>3, <4>1, <5>1
        <5> QED BY <1>11, <4>1, <5>2
      <4>2. CASE stacks[u][c] # i
        BY <1>11, <3>2, <3>3, <4>2
      <4> QED BY <4>1, <4>2
    <3>6. stacks[u][c] \in allocated'
      BY <1>4, <2>1, <3>1 DEF StackMatches
    <3> QED BY <3>1, <3>3, <3>5, <3>6
  <2> QED BY <2>2, <2>4 DEF StackMatches
<1>19. StoriesAgree'
  BY <1>15, <1>17, <1>18 DEF StoriesAgree, HistoryAgrees
<1> QED BY <1>2, <1>4, <1>14, <1>19

LEMMA ExitKeeps ==
  ASSUME HistoryInv, NEW t \in Threads, NEW i \in Isolates,
         LastVisitor(t, i), HExit(t, i)
  PROVE  HistoryInv'
<1>1. StoriesAgree' /\ UNCHANGED <<process, allocated, reporting>>
  BY InvAgrees, ExitAgrees
<1> QED BY <1>1 DEF HistoryInv, StoriesAgree, ReportedAlive, NeverUndefined

-----------------------------------------------------------------------------
(* The visits of an isolate and the stacks of the threads bound each other. *)
LEMMA VisitsStand ==
  ASSUME StoriesAgree, NEW i \in Isolates
  PROVE  /\ i \notin allocated => previousIsolates[i] = <<>>
         /\ previousIsolates[i] = <<>> <=> ~Abstract!Entered(i)
<1>1. VisitsMatch(i) /\ TypeOK
  BY DEF StoriesAgree, HistoryAgrees
<1>2. /\ DOMAIN visits[i] = 1 .. Len(visits[i])
      /\ Len(visits[i]) \in Nat /\ previousIsolates[i] \in Seq(Isolates \cup {Null})
      /\ \A k \in DOMAIN visits[i] : visits[i][k].thread \in Threads
  BY <1>1, IsolateTypes
<1>3. Len(visits[i]) = Len(previousIsolates[i])
  BY <1>1 DEF VisitsMatch
<1>4. previousIsolates[i] = <<>> <=> DOMAIN visits[i] = {}
  <2>1. previousIsolates[i] = <<>> <=> Len(previousIsolates[i]) = 0
    BY <1>2, EmptySeq
  <2>2. \A m \in Nat : m = 0 <=> 1 .. m = {}
    OBVIOUS
  <2>3. Len(visits[i]) = 0 <=> DOMAIN visits[i] = {}
    BY <1>2, <2>2
  <2> QED BY <1>3, <2>1, <2>3
<1>5. ASSUME NEW k \in DOMAIN visits[i]
      PROVE  Abstract!Entered(i) /\ i \in allocated
  <2> DEFINE u == visits[i][k].thread
             c == visits[i][k].depth
  <2>1. u \in Threads /\ c \in DOMAIN stacks[u] /\ stacks[u][c] = i
    BY <1>1, <1>2 DEF VisitsMatch
  <2>2. StackMatches(u)
    BY <2>1 DEF StoriesAgree, HistoryAgrees
  <2> HIDE DEF u, c
  <2>3. i \in allocated
    BY <2>1, <2>2 DEF StackMatches
  <2> QED BY <2>1, <2>3 DEF Abstract!Entered
<1>6. ASSUME Abstract!Entered(i) PROVE DOMAIN visits[i] # {}
  <2>1. PICK u \in Threads : \E d \in DOMAIN stacks[u] : stacks[u][d] = i
    BY <1>6 DEF Abstract!Entered
  <2>2. StackMatches(u)
    BY DEF StoriesAgree, HistoryAgrees
  <2> QED BY <2>1, <2>2 DEF StackMatches
<1> QED BY <1>4, <1>5, <1>6

(* The slot of a thread leads to an isolate that exists, or nowhere.       *)
LEMMA SlotAlive ==
  ASSUME StoriesAgree, NEW t \in Threads
  PROVE  /\ currentIsolate[t] # Null => currentIsolate[t] \in allocated
         /\ currentIsolate[t] = Null <=> stacks[t] = <<>>
<1>1. StackMatches(t) /\ TypeOK /\ stacks[t] \in Seq(Isolates)
  BY DEF StoriesAgree, HistoryAgrees, TypeOK
<1>2. currentIsolate[t] = Abstract!Top(stacks[t])
  BY <1>1 DEF StackMatches
<1>3. CASE stacks[t] = <<>>
  BY <1>2, <1>3 DEF Abstract!Top
<1>4. CASE stacks[t] # <<>>
  <2>1. Len(stacks[t]) \in DOMAIN stacks[t] /\ stacks[t][Len(stacks[t])] \in Isolates
    BY <1>1, <1>4
  <2>2. currentIsolate[t] = stacks[t][Len(stacks[t])]
    BY <1>2, <1>4 DEF Abstract!Top
  <2> QED BY <1>1, <1>4, <2>1, <2>2, IsolatesAssumption DEF StackMatches
<1> QED BY <1>3, <1>4

(* A step that moves no thread leaves the stories alike, if what the       *)
(* stacks refer to is still there.                                         *)
LEMMA QuietAgrees ==
  ASSUME StoriesAgree, UNCHANGED <<entryVars, history>>,
         process' \in {"running", "aborted", "undefined"},
         allocated' \subseteq Isolates,
         \A t \in Threads : \A d \in DOMAIN stacks[t] : stacks[t][d] \in allocated',
         fatalErrorHandler' \subseteq Isolates, hasFatalError' \subseteq Isolates,
         reporting' \in [Threads -> Seq(Isolates)]
  PROVE  StoriesAgree'
<1>1. /\ previousIsolates' = previousIsolates /\ currentIsolate' = currentIsolate
      /\ stacks' = stacks /\ visits' = visits
  BY DEF entryVars, history
<1>2. TypeOK'
  BY <1>1 DEF StoriesAgree, TypeOK
<1>3. ASSUME NEW j \in Isolates PROVE VisitsMatch(j)'
  <2>1. VisitsMatch(j)
    BY DEF StoriesAgree, HistoryAgrees
  <2> QED BY <1>1, <2>1 DEF VisitsMatch
<1>4. ASSUME NEW u \in Threads PROVE StackMatches(u)'
  <2>1. StackMatches(u)
    BY DEF StoriesAgree, HistoryAgrees
  <2>2. currentIsolate[u] = Abstract!Top(stacks[u])
    BY <2>1 DEF StackMatches
  <2>3. \A d \in DOMAIN stacks[u] :
          \E k \in DOMAIN visits[stacks[u][d]] :
            visits[stacks[u][d]][k] = [thread |-> u, depth |-> d]
    BY <2>1 DEF StackMatches
  <2> QED BY <1>1, <2>2, <2>3 DEF StackMatches
<1> QED BY <1>2, <1>3, <1>4 DEF StoriesAgree, HistoryAgrees

(* And it keeps the invariant, if what the callbacks refer to is as well.  *)
LEMMA QuietKeeps ==
  ASSUME HistoryInv, UNCHANGED <<entryVars, history>>,
         process' \in {"running", "aborted"},
         allocated' \subseteq Isolates,
         \A t \in Threads : \A d \in DOMAIN stacks[t] : stacks[t][d] \in allocated',
         fatalErrorHandler' \subseteq Isolates, hasFatalError' \subseteq Isolates,
         reporting' \in [Threads -> Seq(Isolates)],
         ReportedAlive'
  PROVE  HistoryInv'
<1>1. StoriesAgree'
  BY InvAgrees, QuietAgrees
<1> QED BY <1>1 DEF HistoryInv, StoriesAgree, NeverUndefined

(* The isolates on the stacks, while none is deleted.                      *)
LEMMA StacksAlive ==
  ASSUME StoriesAgree, NEW t \in Threads, NEW d \in DOMAIN stacks[t]
  PROVE  stacks[t][d] \in allocated
<1>1. StackMatches(t)
  BY DEF StoriesAgree, HistoryAgrees
<1> QED BY <1>1 DEF StackMatches

(* A step that only reports errors or notes handlers.                      *)
LEMMA ReportingKeeps ==
  ASSUME HistoryInv, UNCHANGED <<entryVars, history, allocated>>,
         process' \in {"running", "aborted"},
         fatalErrorHandler' \subseteq Isolates, hasFatalError' \subseteq Isolates,
         reporting' \in [Threads -> Seq(Isolates)],
         \A t \in Threads : \A k \in DOMAIN reporting'[t] : reporting'[t][k] \in allocated
  PROVE  HistoryInv'
<1>1. allocated' = allocated /\ allocated \subseteq Isolates
  BY DEF HistoryInv, TypeOK
<1>2. ReportedAlive'
  BY <1>1 DEF ReportedAlive
<1>3. \A t \in Threads : \A d \in DOMAIN stacks[t] : stacks[t][d] \in allocated'
  BY <1>1, InvAgrees, StacksAlive
<1> QED BY <1>1, <1>2, <1>3, QuietKeeps

LEMMA ReportTypes ==
  ASSUME HistoryInv
  PROVE  /\ process \in {"running", "aborted"}
         /\ allocated \subseteq Isolates
         /\ fatalErrorHandler \subseteq Isolates /\ hasFatalError \subseteq Isolates
         /\ reporting \in [Threads -> Seq(Isolates)]
         /\ \A t \in Threads : \A k \in DOMAIN reporting[t] : reporting[t][k] \in allocated
BY DEF HistoryInv, TypeOK, NeverUndefined, ReportedAlive

(* The process stops where an assertion fails.                             *)
LEMMA HaltKeeps ==
  ASSUME HistoryInv, Halt("aborted"), UNCHANGED history
  PROVE  HistoryInv' /\ allocated' = allocated /\ UNCHANGED entryVars
<1>1. /\ process' = "aborted" /\ UNCHANGED <<entryVars, history, allocated>>
      /\ fatalErrorHandler' = fatalErrorHandler /\ hasFatalError' = hasFatalError
      /\ reporting' = reporting
  BY DEF Halt, errorVars
<1> QED BY <1>1, ReportTypes, ReportingKeeps

-----------------------------------------------------------------------------
(* A new isolate has the address of none that a thread is inside.          *)
LEMMA NewKeeps ==
  ASSUME HistoryInv, NEW i \in Isolates, New(i), UNCHANGED history
  PROVE  HistoryInv' /\ Abstract!New(i)
<1>1. /\ process = "running" /\ i \notin allocated /\ allocated' = allocated \cup {i}
      /\ previousIsolates' = [previousIsolates EXCEPT ![i] = <<>>]
      /\ fatalErrorHandler' = fatalErrorHandler \ {i}
      /\ hasFatalError' = hasFatalError \ {i}
      /\ process' = process /\ currentIsolate' = currentIsolate /\ reporting' = reporting
  BY DEF New, Running
<1>2. previousIsolates' = previousIsolates
  <2>1. previousIsolates[i] = <<>>
    BY <1>1, InvAgrees, VisitsStand
  <2>2. previousIsolates \in [Isolates -> Seq(Isolates \cup {Null})]
    BY DEF HistoryInv, TypeOK
  <2> QED BY <1>1, <2>1, <2>2
<1>3. UNCHANGED <<entryVars, history>>
  BY <1>1, <1>2 DEF entryVars
<1>4. allocated' \subseteq Isolates /\ fatalErrorHandler' \subseteq Isolates
      /\ hasFatalError' \subseteq Isolates /\ reporting' \in [Threads -> Seq(Isolates)]
      /\ process' \in {"running", "aborted"}
  BY <1>1, ReportTypes
<1>5. ReportedAlive'
  BY <1>1, ReportTypes DEF ReportedAlive
<1>6. \A t \in Threads : \A d \in DOMAIN stacks[t] : stacks[t][d] \in allocated'
  BY <1>1, InvAgrees, StacksAlive
<1>7. HistoryInv'
  BY <1>3, <1>4, <1>5, <1>6, QuietKeeps
<1>8. Abstract!New(i)
  BY <1>1 DEF Abstract!New, history
<1> QED BY <1>7, <1>8

(* The callback's end writes to an isolate that is still there.            *)
LEMMA CallbackReturnsKeeps ==
  ASSUME HistoryInv, NEW t \in Threads, CallbackReturns(t), UNCHANGED history
  PROVE  HistoryInv' /\ allocated' = allocated /\ UNCHANGED entryVars
<1> DEFINE i == Last(reporting[t])
<1>1. /\ reporting[t] \in Seq(Isolates) /\ reporting[t] # <<>>
      /\ reporting \in [Threads -> Seq(Isolates)]
  BY ReportTypes DEF CallbackReturns
<1>2. /\ Len(reporting[t]) \in Nat /\ Len(reporting[t]) \in DOMAIN reporting[t]
      /\ DOMAIN Front(reporting[t]) = 1 .. Len(reporting[t]) - 1
      /\ \A k \in 1 .. Len(reporting[t]) - 1 :
           k \in DOMAIN reporting[t] /\ Front(reporting[t])[k] = reporting[t][k]
      /\ Front(reporting[t]) \in Seq(Isolates)
      /\ i = reporting[t][Len(reporting[t])] /\ i \in Isolates
  <2>1. /\ Len(reporting[t]) \in Nat /\ Len(reporting[t]) > 0
        /\ DOMAIN reporting[t] = 1 .. Len(reporting[t])
    BY <1>1
  <2>2. /\ DOMAIN Front(reporting[t]) = 1 .. Len(reporting[t]) - 1
        /\ \A k \in 1 .. Len(reporting[t]) - 1 : Front(reporting[t])[k] = reporting[t][k]
        /\ Front(reporting[t]) \in Seq(Isolates)
        /\ i = reporting[t][Len(reporting[t])] /\ i \in Isolates
    BY <1>1, FrontIs
  <2> QED BY <2>1, <2>2
<1>3. i \in allocated
  BY <1>2, ReportTypes
<1>4. /\ hasFatalError' = hasFatalError \cup {i}
      /\ reporting' = [reporting EXCEPT ![t] = Front(reporting[t])]
      /\ process' = process /\ allocated' = allocated /\ UNCHANGED entryVars
      /\ fatalErrorHandler' = fatalErrorHandler
  BY <1>3 DEF CallbackReturns, Follow, SignalFatalError
<1> HIDE DEF i
<1>5. reporting' \in [Threads -> Seq(Isolates)]
  BY <1>1, <1>2, <1>4
<1>6. \A u \in Threads : \A k \in DOMAIN reporting'[u] : reporting'[u][k] \in allocated
  <2>1. reporting'[t] = Front(reporting[t])
    BY <1>1, <1>4
  <2>2. \A k \in DOMAIN reporting'[t] : reporting'[t][k] \in allocated
    BY <1>2, <2>1, ReportTypes
  <2>3. \A u \in Threads : u # t => reporting'[u] = reporting[u]
    BY <1>1, <1>4
  <2> QED BY <2>2, <2>3, ReportTypes
<1>7. HistoryInv'
  BY <1>2, <1>4, <1>5, <1>6, ReportTypes, ReportingKeeps
<1> QED BY <1>4, <1>7

LEMMA SetHandlerKeeps ==
  ASSUME HistoryInv, NEW t \in Threads, SetFatalErrorHandler(t), UNCHANGED history
  PROVE  HistoryInv' /\ allocated' = allocated /\ UNCHANGED entryVars
<1> DEFINE i == currentIsolate[t]
<1>1. CASE i = Null
  BY <1>1, HaltKeeps DEF SetFatalErrorHandler
<1>2. CASE i # Null
  <2>1. i \in allocated
    BY <1>2, InvAgrees, SlotAlive
  <2>2. /\ fatalErrorHandler' \in {fatalErrorHandler \cup {i}, fatalErrorHandler \ {i}}
        /\ process' = process /\ allocated' = allocated /\ UNCHANGED entryVars
        /\ hasFatalError' = hasFatalError /\ reporting' = reporting
    BY <1>2, <2>1 DEF SetFatalErrorHandler, Follow
  <2> HIDE DEF i
  <2>3. fatalErrorHandler' \subseteq Isolates
    BY <2>1, <2>2, ReportTypes
  <2>4. HistoryInv'
    BY <2>2, <2>3, ReportTypes, ReportingKeeps
  <2> QED BY <2>2, <2>4
<1> QED BY <1>1, <1>2

(* An error is reported to the isolate the thread is in, or to none.       *)
LEMMA TriggerKeeps ==
  ASSUME HistoryInv, NEW t \in Threads, TriggerFatalError(t), UNCHANGED history
  PROVE  HistoryInv' /\ allocated' = allocated /\ UNCHANGED entryVars
<1> DEFINE i == currentIsolate[t]
<1>1. CASE i = Null
  <2>1. Halt("aborted") \/ UNCHANGED vars
    BY <1>1, IsolatesAssumption DEF TriggerFatalError, Abort
  <2>2. CASE Halt("aborted")
    BY <2>2, HaltKeeps
  <2>3. CASE UNCHANGED vars
    <3>1. /\ process' = process /\ UNCHANGED <<entryVars, history, allocated>>
          /\ fatalErrorHandler' = fatalErrorHandler /\ hasFatalError' = hasFatalError
          /\ reporting' = reporting
      BY <2>3 DEF vars, entryVars
    <3> QED BY <3>1, ReportTypes, ReportingKeeps
  <2> QED BY <2>1, <2>2, <2>3
<1>2. CASE i # Null
  <2>1. i \in allocated /\ i \in Isolates
    BY <1>2, InvAgrees, SlotAlive, ReportTypes
  <2>2. /\ process' = process /\ allocated' = allocated /\ UNCHANGED entryVars
        /\ fatalErrorHandler' = fatalErrorHandler
        /\ \/ hasFatalError' = hasFatalError \cup {i} /\ reporting' = reporting
           \/ /\ reporting' = [reporting EXCEPT ![t] = Append(reporting[t], i)]
              /\ hasFatalError' = hasFatalError
    BY <1>2, <2>1 DEF TriggerFatalError, Follow, SignalFatalError
  <2> HIDE DEF i
  <2>3. CASE hasFatalError' = hasFatalError \cup {i} /\ reporting' = reporting
    <3>1. HistoryInv'
      BY <2>1, <2>2, <2>3, ReportTypes, ReportingKeeps
    <3> QED BY <2>2, <3>1
  <2>4. CASE /\ reporting' = [reporting EXCEPT ![t] = Append(reporting[t], i)]
             /\ hasFatalError' = hasFatalError
    <3>1. reporting \in [Threads -> Seq(Isolates)] /\ reporting[t] \in Seq(Isolates)
      BY ReportTypes
    <3>2. reporting'[t] = Append(reporting[t], i)
      BY <2>4, <3>1
    <3>3. \A u \in Threads : u # t => reporting'[u] = reporting[u]
      BY <2>4, <3>1
    <3>4. \A k \in DOMAIN reporting'[t] : reporting'[t][k] \in allocated
      <4>1. ASSUME NEW k \in DOMAIN reporting'[t] PROVE reporting'[t][k] \in allocated
        <5>1. k \in 1 .. Len(reporting[t]) \/ k = Len(reporting[t]) + 1
          BY <2>1, <3>1, <3>2, <4>1
        <5>2. CASE k \in 1 .. Len(reporting[t])
          BY <2>1, <3>1, <3>2, <5>2, ReportTypes
        <5>3. CASE k = Len(reporting[t]) + 1
          BY <2>1, <3>1, <3>2, <5>3
        <5> QED BY <5>1, <5>2, <5>3
      <4> QED BY <4>1
    <3>5. \A u \in Threads : \A k \in DOMAIN reporting'[u] : reporting'[u][k] \in allocated
      BY <3>3, <3>4, ReportTypes
    <3>6. reporting' \in [Threads -> Seq(Isolates)]
      BY <2>1, <2>4, <3>1
    <3>7. HistoryInv'
      BY <2>2, <2>4, <3>5, <3>6, ReportTypes, ReportingKeeps
    <3> QED BY <2>2, <3>7
  <2> QED BY <2>2, <2>3, <2>4
<1> QED BY <1>1, <1>2

(* Only an isolate that nobody has entered, and that no callback is about, *)
(* is deleted.                                                             *)
LEMMA DisposeKeeps ==
  ASSUME HistoryInv, NEW t \in Threads, NEW i \in Isolates,
         ~Reported(i), Dispose(t, i), UNCHANGED history
  PROVE  /\ HistoryInv'
         /\ \/ Abstract!Dispose(i)
            \/ allocated' = allocated /\ UNCHANGED entryVars
<1>1. CASE TriggerFatalError(t)
  BY <1>1, TriggerKeeps
<1>2. CASE ~TriggerFatalError(t)
  <2>1. /\ i \in allocated /\ previousIsolates[i] = <<>> /\ allocated' = allocated \ {i}
        /\ process' = process /\ UNCHANGED entryVars
        /\ fatalErrorHandler' = fatalErrorHandler /\ hasFatalError' = hasFatalError
        /\ reporting' = reporting
    BY <1>2 DEF Dispose, Disposable, errorVars
  <2>2. ~Abstract!Entered(i)
    BY <2>1, InvAgrees, VisitsStand
  <2>3. \A u \in Threads : \A d \in DOMAIN stacks[u] : stacks[u][d] \in allocated'
    BY <2>1, <2>2, InvAgrees, StacksAlive DEF Abstract!Entered
  <2>4. ReportedAlive'
    BY <2>1, ReportTypes DEF ReportedAlive, Reported
  <2>5. HistoryInv'
    BY <2>1, <2>3, <2>4, ReportTypes, QuietKeeps
  <2>6. Abstract!Dispose(i)
    BY <2>1, <2>2 DEF Abstract!Dispose, history, entryVars
  <2> QED BY <2>5, <2>6
<1> QED BY <1>1, <1>2

(* A thread that ends is in no isolate: its slot was empty already.        *)
LEMMA ThreadExitsKeeps ==
  ASSUME HistoryInv, NEW t \in Threads, HThreadExits(t)
  PROVE  HistoryInv' /\ allocated' = allocated /\ UNCHANGED <<entryVars, history>>
<1>1. /\ stacks[t] = <<>> /\ UNCHANGED history
      /\ currentIsolate' = [currentIsolate EXCEPT ![t] = Null]
      /\ process' = process /\ allocated' = allocated /\ previousIsolates' = previousIsolates
      /\ fatalErrorHandler' = fatalErrorHandler /\ hasFatalError' = hasFatalError
      /\ reporting' = reporting
  BY DEF HThreadExits, ThreadExits, errorVars
<1>2. currentIsolate' = currentIsolate
  <2>1. currentIsolate[t] = Null /\ currentIsolate \in [Threads -> Isolates \cup {Null}]
    BY <1>1, InvAgrees, SlotAlive DEF HistoryInv, TypeOK
  <2> QED BY <1>1, <2>1
<1>3. UNCHANGED entryVars
  BY <1>1, <1>2 DEF entryVars
<1>4. HistoryInv'
  BY <1>1, <1>3, ReportTypes, ReportingKeeps
<1> QED BY <1>1, <1>3, <1>4

-----------------------------------------------------------------------------
shown == <<allocated, stacks, currentIsolate>>

(* A step without a trace in the abstract specification.                   *)
LEMMA Unseen ==
  ASSUME allocated' = allocated, UNCHANGED entryVars, UNCHANGED history
  PROVE  UNCHANGED shown
BY DEF entryVars, history, shown

(* Every step keeps the invariant, and is a step of the abstract           *)
(* specification or changes nothing that it shows.                         *)
LEMMA StepKeeps ==
  ASSUME HistoryInv, LifoNext
  PROVE  HistoryInv' /\ [Abstract!Next]_shown
<1>1. ASSUME NEW t \in Threads, HThreadExits(t)
      PROVE  HistoryInv' /\ [Abstract!Next]_shown
  BY <1>1, ThreadExitsKeeps, Unseen
<1>2. ASSUME NEW t \in Threads, NEW i \in Isolates, HEnter(t, i)
      PROVE  HistoryInv' /\ [Abstract!Next]_shown
  <2>1. HistoryInv'
    BY <1>2, EnterKeeps
  <2>2. Abstract!Enter(t, i)
    <3>1. /\ i \in allocated /\ allocated' = allocated
          /\ stacks' = [stacks EXCEPT ![t] = Append(stacks[t], i)]
          /\ currentIsolate' = [currentIsolate EXCEPT ![t] = i]
      BY <1>2 DEF HEnter, Enter
    <3>2. stacks[t] \in Seq(Isolates)
      BY DEF HistoryInv, TypeOK
    <3>3. Abstract!Top(Append(stacks[t], i)) = i
      BY <3>2 DEF Abstract!Top
    <3> QED BY <3>1, <3>3 DEF Abstract!Enter, Abstract!Switch
  <2> QED BY <2>1, <2>2 DEF Abstract!Next
<1>3. ASSUME NEW t \in Threads, NEW i \in Isolates, LastVisitor(t, i), HExit(t, i)
      PROVE  HistoryInv' /\ [Abstract!Next]_shown
  <2>1. /\ HistoryInv' /\ allocated' = allocated /\ stacks[t] # <<>>
        /\ stacks' = [stacks EXCEPT ![t] = Front(@)]
        /\ currentIsolate' = [currentIsolate EXCEPT ![t] = Abstract!Top(stacks'[t])]
    BY <1>3, InvAgrees, ExitAgrees, ExitKeeps
  <2>2. stacks \in [Threads -> Seq(Isolates)]
    BY DEF HistoryInv, TypeOK
  <2>3. stacks'[t] = SubSeq(stacks[t], 1, Len(stacks[t]) - 1)
    BY <2>1, <2>2 DEF Front
  <2>4. stacks' = [stacks EXCEPT ![t] = SubSeq(stacks[t], 1, Len(stacks[t]) - 1)]
    BY <2>1 DEF Front
  <2>5. Abstract!Exit(t)
    BY <2>1, <2>3, <2>4 DEF Abstract!Exit, Abstract!Switch
  <2> QED BY <2>1, <2>5 DEF Abstract!Next
<1>4. ASSUME Unchanging, UNCHANGED history
      PROVE  HistoryInv' /\ [Abstract!Next]_shown
  <2>1. ASSUME NEW i \in Isolates, New(i) PROVE HistoryInv' /\ [Abstract!Next]_shown
    BY <1>4, <2>1, NewKeeps DEF Abstract!Next
  <2>2. ASSUME NEW t \in Threads, CallbackReturns(t)
        PROVE  HistoryInv' /\ [Abstract!Next]_shown
    BY <1>4, <2>2, CallbackReturnsKeeps, Unseen
  <2>3. ASSUME NEW t \in Threads, SetFatalErrorHandler(t)
        PROVE  HistoryInv' /\ [Abstract!Next]_shown
    BY <1>4, <2>3, SetHandlerKeeps, Unseen
  <2>4. ASSUME NEW t \in Threads, NEW i \in Isolates, ~Reported(i), Dispose(t, i)
        PROVE  HistoryInv' /\ [Abstract!Next]_shown
    BY <1>4, <2>4, DisposeKeeps, Unseen DEF Abstract!Next
  <2>5. ASSUME UNCHANGED vars PROVE HistoryInv' /\ [Abstract!Next]_shown
    <3>1. /\ process' = process /\ allocated' = allocated /\ UNCHANGED entryVars
          /\ fatalErrorHandler' = fatalErrorHandler /\ hasFatalError' = hasFatalError
          /\ reporting' = reporting
      BY <2>5 DEF vars, entryVars
    <3>2. HistoryInv'
      BY <1>4, <3>1, ReportTypes, ReportingKeeps
    <3> QED BY <1>4, <3>1, <3>2, Unseen
  <2>6. ASSUME NEW t \in Threads, currentIsolate[t] # Null, IsDead(t)
        PROVE  UNCHANGED vars
    BY <2>6, InvAgrees, SlotAlive DEF IsDead, Follow
  <2>7. Ended => UNCHANGED vars
    BY DEF Ended
  <2> QED BY <1>4, <2>1, <2>2, <2>3, <2>4, <2>5, <2>6, <2>7 DEF Unchanging
<1> QED BY <1>1, <1>2, <1>3, <1>4 DEF LifoNext

LEMMA StutterKeeps ==
  ASSUME HistoryInv, UNCHANGED allVars
  PROVE  HistoryInv' /\ UNCHANGED shown
<1>1. /\ process' = process /\ allocated' = allocated /\ UNCHANGED <<entryVars, history>>
      /\ fatalErrorHandler' = fatalErrorHandler /\ hasFatalError' = hasFatalError
      /\ reporting' = reporting
  BY DEF allVars, vars, entryVars
<1>2. HistoryInv'
  BY <1>1, ReportTypes, ReportingKeeps
<1> QED BY <1>1, <1>2, Unseen

(* While exits are LIFO, the stacks, the vectors, the slots and the        *)
(* isolates that exist agree, at every step (isolate.cpp, isolate.h).      *)
THEOREM HistoryInvAlways == LifoSpec => []HistoryInv
<1>1. HistoryInv /\ [LifoNext]_allVars => HistoryInv'
  BY StepKeeps, StutterKeeps
<1> QED BY <1>1, HistoryInvInit, PTL DEF LifoSpec

(* Then no pointer to a deleted isolate is followed: not from a thread's   *)
(* slot, not from a vector, not after a callback (TriggerFatalError).      *)
THEOREM NeverUndefinedAlways == LifoSpec => []NeverUndefined
<1>1. HistoryInv => NeverUndefined
  BY DEF HistoryInv
<1> QED BY <1>1, HistoryInvAlways, PTL

(* And every isolate that all threads have left can be disposed of         *)
(* (Isolate::Dispose, which refuses while previousIsolates has entries).   *)
THEOREM NoStaleEntryAlways == LifoSpec => []NoStaleEntry
<1>1. HistoryInv => NoStaleEntry
  BY InvAgrees, VisitsStand, ReportTypes DEF NoStaleEntry
<1> QED BY <1>1, HistoryInvAlways, PTL

(* "Exits this isolate by restoring the previously entered one in the      *)
(* current thread" (v8.h): true of Isolate::Exit while exits are LIFO.     *)
THEOREM LifoExitRestores == LifoSpec => ExitRestores
<1>1. ASSUME HistoryInv'
      PROVE  \A t \in Threads :
               Len(stacks'[t]) < Len(stacks[t]) =>
                 currentIsolate'[t] = Abstract!Top(stacks'[t])
  BY <1>1 DEF HistoryInv, HistoryAgrees, StackMatches
<1> QED BY <1>1, HistoryInvAlways, PTL DEF ExitRestores

(* The one vector per isolate does for every thread what a stack of its    *)
(* own would: isolates with LIFO exits implement ThreadStacks.             *)
THEOREM LifoImplementsThreadStacks == LifoSpec => ImplementsThreadStacks
<1>1. HInit => Abstract!Init
  BY DEF HInit, Init, Abstract!Init
<1>2. HistoryInv /\ [LifoNext]_allVars => [Abstract!Next]_shown
  BY StepKeeps, StutterKeeps
<1>3. LifoSpec => Abstract!Spec
  BY <1>1, <1>2, HistoryInvAlways, PTL DEF LifoSpec, Abstract!Spec, shown
<1> QED BY <1>3 DEF ImplementsThreadStacks
=============================================================================
