------------------------ MODULE IsolateCleanupProofs ------------------------
(***************************************************************************)
(* Theorems about the destructors at the end of a test, for any isolates   *)
(* and any depth of entries: they follow no pointer to an isolate they     *)
(* deleted, have none refused while outside, and leave none behind.        *)
(*                                                                         *)
(* The stories of IsolateHistory agree here without LIFO being a rule: a   *)
(* thread that is alone in the isolates can leave them in no other order.  *)
(***************************************************************************)
EXTENDS IsolateCleanup, IsolateHistoryProofs

OthersOutside == \A t \in Threads \ {Me} : stacks[t] = <<>>

ReportsAlive == \A k \in DOMAIN reporting[Me] : reporting[Me][k] \in allocated

(* The types that the steps which move no thread depend on. *)
LEMMA QuietTypes ==
  ASSUME StoriesAgree
  PROVE  /\ process \in {"running", "aborted", "undefined"}
         /\ allocated \subseteq Isolates
         /\ fatalErrorHandler \subseteq Isolates /\ hasFatalError \subseteq Isolates
         /\ reporting \in [Threads -> Seq(Isolates)]
         /\ previousIsolates \in [Isolates -> Seq(Isolates \cup {Null})]
BY DEF StoriesAgree, TypeOK

(* A step that only reports errors, notes handlers or ends the process.    *)
LEMMA ReportingAgrees ==
  ASSUME StoriesAgree, UNCHANGED <<entryVars, history, allocated>>,
         process' \in {"running", "aborted", "undefined"},
         fatalErrorHandler' \subseteq Isolates, hasFatalError' \subseteq Isolates,
         reporting' \in [Threads -> Seq(Isolates)]
  PROVE  StoriesAgree'
<1>1. allocated' = allocated /\ allocated \subseteq Isolates
  BY QuietTypes
<1>2. \A t \in Threads : \A d \in DOMAIN stacks[t] : stacks[t][d] \in allocated'
  BY <1>1, StacksAlive
<1> QED BY <1>1, <1>2, QuietAgrees

LEMMA HaltAgrees ==
  ASSUME StoriesAgree, NEW how \in {"aborted", "undefined"}, Halt(how), UNCHANGED history
  PROVE  StoriesAgree' /\ allocated' = allocated /\ UNCHANGED entryVars
<1>1. /\ process' = how /\ UNCHANGED <<entryVars, history, allocated>>
      /\ fatalErrorHandler' = fatalErrorHandler /\ hasFatalError' = hasFatalError
      /\ reporting' = reporting
  BY DEF Halt, errorVars
<1> QED BY <1>1, QuietTypes, ReportingAgrees

LEMMA StutterAgrees ==
  ASSUME StoriesAgree, UNCHANGED allVars
  PROVE  StoriesAgree'
<1>1. /\ process' = process /\ UNCHANGED <<entryVars, history, allocated>>
      /\ fatalErrorHandler' = fatalErrorHandler /\ hasFatalError' = hasFatalError
      /\ reporting' = reporting
  BY DEF allVars, vars, entryVars
<1> QED BY <1>1, QuietTypes, ReportingAgrees

LEMMA NewAgrees ==
  ASSUME StoriesAgree, NEW i \in Isolates, New(i), UNCHANGED history
  PROVE  StoriesAgree'
<1>1. /\ process = "running" /\ i \notin allocated /\ allocated' = allocated \cup {i}
      /\ previousIsolates' = [previousIsolates EXCEPT ![i] = <<>>]
      /\ fatalErrorHandler' = fatalErrorHandler \ {i}
      /\ hasFatalError' = hasFatalError \ {i}
      /\ process' = process /\ currentIsolate' = currentIsolate /\ reporting' = reporting
  BY DEF New, Running
<1>2. previousIsolates[i] = <<>>
  BY <1>1, VisitsStand
<1>3. UNCHANGED <<entryVars, history>>
  BY <1>1, <1>2, QuietTypes DEF entryVars
<1>4. \A t \in Threads : \A d \in DOMAIN stacks[t] : stacks[t][d] \in allocated'
  BY <1>1, StacksAlive
<1> QED BY <1>1, <1>3, <1>4, QuietTypes, QuietAgrees

LEMMA SetHandlerAgrees ==
  ASSUME StoriesAgree, SetFatalErrorHandler(Me), UNCHANGED history
  PROVE  StoriesAgree'
<1> DEFINE i == currentIsolate[Me]
<1>1. CASE i = Null
  BY <1>1, HaltAgrees DEF SetFatalErrorHandler
<1>2. CASE i # Null
  <2>1. i \in allocated
    BY <1>2, MeAssumption, SlotAlive
  <2>2. /\ fatalErrorHandler' \in {fatalErrorHandler \cup {i}, fatalErrorHandler \ {i}}
        /\ process' = process /\ allocated' = allocated /\ UNCHANGED entryVars
        /\ hasFatalError' = hasFatalError /\ reporting' = reporting
    BY <1>2, <2>1 DEF SetFatalErrorHandler, Follow
  <2> HIDE DEF i
  <2>3. fatalErrorHandler' \subseteq Isolates
    BY <2>1, <2>2, QuietTypes
  <2> QED BY <2>2, <2>3, QuietTypes, ReportingAgrees
<1> QED BY <1>1, <1>2

(* The callback's end may write to an isolate that is gone only where the  *)
(* test itself deleted it from the callback.                               *)
LEMMA CallbackAgrees ==
  ASSUME StoriesAgree, CallbackReturns(Me), UNCHANGED history
  PROVE  /\ StoriesAgree' /\ allocated' = allocated /\ UNCHANGED entryVars
         /\ ReportsAlive => process' = process /\ ReportsAlive'
<1> DEFINE i == Last(reporting[Me])
<1>1. /\ reporting[Me] \in Seq(Isolates) /\ reporting[Me] # <<>>
      /\ reporting \in [Threads -> Seq(Isolates)]
  BY MeAssumption, QuietTypes DEF CallbackReturns
<1>2. /\ Len(reporting[Me]) \in Nat /\ Len(reporting[Me]) > 0
      /\ Front(reporting[Me]) \in Seq(Isolates)
      /\ DOMAIN Front(reporting[Me]) = 1 .. Len(reporting[Me]) - 1
      /\ \A k \in 1 .. Len(reporting[Me]) - 1 : Front(reporting[Me])[k] = reporting[Me][k]
      /\ i = reporting[Me][Len(reporting[Me])] /\ i \in Isolates
  BY <1>1, FrontIs
<1>3. DOMAIN reporting[Me] = 1 .. Len(reporting[Me])
  BY <1>1
<1>4. CASE i \in allocated
  <2>1. /\ hasFatalError' = hasFatalError \cup {i}
        /\ reporting' = [reporting EXCEPT ![Me] = Front(reporting[Me])]
        /\ process' = process /\ allocated' = allocated /\ UNCHANGED entryVars
        /\ fatalErrorHandler' = fatalErrorHandler
    BY <1>4 DEF CallbackReturns, Follow, SignalFatalError
  <2> HIDE DEF i
  <2>2. reporting'[Me] = Front(reporting[Me]) /\ reporting' \in [Threads -> Seq(Isolates)]
    BY <1>1, <1>2, <2>1, MeAssumption
  <2>3. StoriesAgree'
    BY <1>2, <2>1, <2>2, QuietTypes, ReportingAgrees
  <2>4. ASSUME ReportsAlive, NEW k \in DOMAIN reporting'[Me]
        PROVE  reporting'[Me][k] \in allocated'
    <3>1. k \in 1 .. Len(reporting[Me]) - 1 /\ k \in DOMAIN reporting[Me]
      BY <1>2, <1>3, <2>2, <2>4
    <3>2. reporting'[Me][k] = reporting[Me][k]
      BY <1>2, <2>2, <3>1
    <3> QED BY <2>1, <2>4, <3>1, <3>2 DEF ReportsAlive
  <2> QED BY <2>1, <2>3, <2>4 DEF ReportsAlive
<1>5. CASE i \notin allocated
  <2>1. Halt("undefined")
    BY <1>5 DEF CallbackReturns, Follow
  <2>2. ~ReportsAlive
    BY <1>2, <1>3, <1>5 DEF ReportsAlive
  <2> QED BY <2>1, <2>2, HaltAgrees
<1> QED BY <1>4, <1>5

(* An error is reported to the isolate the thread is in, or it aborts.     *)
LEMMA TriggerAgrees ==
  ASSUME StoriesAgree, TriggerFatalError(Me), UNCHANGED history
  PROVE  /\ StoriesAgree' /\ allocated' = allocated /\ UNCHANGED entryVars
         /\ ReportsAlive /\ currentIsolate[Me] # Null => process' = process /\ ReportsAlive'
<1> DEFINE i == currentIsolate[Me]
<1>1. CASE i = Null
  <2>1. Halt("aborted") \/ UNCHANGED vars
    BY <1>1, IsolatesAssumption DEF TriggerFatalError, Abort
  <2>2. CASE Halt("aborted")
    BY <1>1, <2>2, HaltAgrees
  <2>3. CASE UNCHANGED vars
    <3>1. allocated' = allocated /\ UNCHANGED entryVars /\ UNCHANGED allVars
      BY <2>3 DEF vars, entryVars, allVars
    <3> QED BY <1>1, <3>1, StutterAgrees
  <2> QED BY <2>1, <2>2, <2>3
<1>2. CASE i # Null
  <2>1. i \in allocated /\ i \in Isolates
    BY <1>2, MeAssumption, SlotAlive, QuietTypes
  <2>2. /\ process' = process /\ allocated' = allocated /\ UNCHANGED entryVars
        /\ fatalErrorHandler' = fatalErrorHandler
        /\ \/ hasFatalError' = hasFatalError \cup {i} /\ reporting' = reporting
           \/ /\ reporting' = [reporting EXCEPT ![Me] = Append(reporting[Me], i)]
              /\ hasFatalError' = hasFatalError
    BY <1>2, <2>1 DEF TriggerFatalError, Follow, SignalFatalError
  <2> HIDE DEF i
  <2>3. CASE hasFatalError' = hasFatalError \cup {i} /\ reporting' = reporting
    <3>1. StoriesAgree'
      BY <2>1, <2>2, <2>3, QuietTypes, ReportingAgrees
    <3> QED BY <2>2, <2>3, <3>1 DEF ReportsAlive
  <2>4. CASE /\ reporting' = [reporting EXCEPT ![Me] = Append(reporting[Me], i)]
             /\ hasFatalError' = hasFatalError
    <3>1. reporting \in [Threads -> Seq(Isolates)] /\ reporting[Me] \in Seq(Isolates)
      BY MeAssumption, QuietTypes
    <3>2. reporting'[Me] = Append(reporting[Me], i) /\ reporting' \in [Threads -> Seq(Isolates)]
      BY <2>1, <2>4, <3>1, MeAssumption
    <3>3. StoriesAgree'
      BY <2>2, <2>4, <3>2, QuietTypes, ReportingAgrees
    <3>4. /\ Len(reporting[Me]) \in Nat /\ DOMAIN reporting[Me] = 1 .. Len(reporting[Me])
          /\ DOMAIN reporting'[Me] = 1 .. Len(reporting[Me]) + 1
          /\ \A k \in 1 .. Len(reporting[Me]) : reporting'[Me][k] = reporting[Me][k]
          /\ reporting'[Me][Len(reporting[Me]) + 1] = i
      BY <2>1, <3>1, <3>2, AppendIs
    <3>5. ASSUME ReportsAlive, NEW k \in DOMAIN reporting'[Me]
          PROVE  reporting'[Me][k] \in allocated'
      <4>1. k \in 1 .. Len(reporting[Me]) \/ k = Len(reporting[Me]) + 1
        BY <3>4
      <4> QED BY <2>1, <2>2, <3>4, <3>5, <4>1 DEF ReportsAlive
    <3> QED BY <2>2, <3>3, <3>5 DEF ReportsAlive
  <2> QED BY <2>2, <2>3, <2>4
<1> QED BY <1>1, <1>2

(* An isolate is refused, or it is deleted, and then nobody was inside.    *)
LEMMA DisposeAgrees ==
  ASSUME StoriesAgree, NEW i \in Isolates, Dispose(Me, i), UNCHANGED history
  PROVE  /\ StoriesAgree' /\ UNCHANGED entryVars /\ i \in allocated
         /\ \/ previousIsolates[i] # <<>> /\ TriggerFatalError(Me) /\ allocated' = allocated
            \/ /\ allocated' = allocated \ {i}
               /\ process' = process /\ reporting' = reporting
<1>1. i \in allocated
  BY DEF Dispose
<1>2. CASE previousIsolates[i] # <<>> /\ TriggerFatalError(Me)
  BY <1>1, <1>2, TriggerAgrees
<1>3. CASE ~(previousIsolates[i] # <<>> /\ TriggerFatalError(Me))
  <2>1. /\ previousIsolates[i] = <<>> /\ allocated' = allocated \ {i}
        /\ process' = process /\ UNCHANGED entryVars
        /\ fatalErrorHandler' = fatalErrorHandler /\ hasFatalError' = hasFatalError
        /\ reporting' = reporting
    BY <1>3 DEF Dispose, Disposable, errorVars
  <2>2. ~Abstract!Entered(i)
    BY <2>1, VisitsStand
  <2>3. \A u \in Threads : \A d \in DOMAIN stacks[u] : stacks[u][d] \in allocated'
    BY <2>1, <2>2, StacksAlive DEF Abstract!Entered
  <2>4. StoriesAgree'
    BY <2>1, <2>3, QuietTypes, QuietAgrees
  <2> QED BY <1>1, <2>1, <2>4
<1> QED BY <1>2, <1>3

-----------------------------------------------------------------------------
(* The isolates have entries while somebody is inside, which is this       *)
(* thread if it is anybody.                                                *)
LEMMA NobodyElse ==
  ASSUME StoriesAgree, OthersOutside, NEW i \in Isolates, previousIsolates[i] # <<>>
  PROVE  /\ stacks[Me] # <<>> /\ currentIsolate[Me] # Null
         /\ LastVisitor(Me, i)
<1>1. VisitsMatch(i) /\ TypeOK
  BY DEF StoriesAgree, HistoryAgrees
<1>2. /\ visits[i] \in Seq(Visit) /\ Len(visits[i]) \in Nat
      /\ DOMAIN visits[i] = 1 .. Len(visits[i])
      /\ \A k \in DOMAIN visits[i] : visits[i][k].thread \in Threads
      /\ previousIsolates[i] \in Seq(Isolates \cup {Null})
  BY <1>1, IsolateTypes
<1>3. Len(visits[i]) = Len(previousIsolates[i]) /\ Len(previousIsolates[i]) # 0
  BY <1>1, <1>2, EmptySeq DEF VisitsMatch
<1>4. visits[i] # <<>>
  BY <1>3, EmptySeq
<1>5. PICK k \in DOMAIN visits[i] : k = Len(visits[i])
  BY <1>2, <1>3
<1>6. Last(visits[i]) = visits[i][k]
  BY <1>2, <1>4, <1>5, FrontIs
<1>7. visits[i][k].thread \in Threads /\ visits[i][k].depth \in DOMAIN stacks[visits[i][k].thread]
  BY <1>1, <1>2 DEF VisitsMatch
<1>8. stacks[visits[i][k].thread] # <<>>
  BY <1>7
<1>9. visits[i][k].thread = Me
  BY <1>7, <1>8 DEF OthersOutside
<1>10. stacks[Me] # <<>> /\ currentIsolate[Me] # Null
  BY <1>8, <1>9, MeAssumption, SlotAlive
<1> QED BY <1>4, <1>6, <1>9, <1>10 DEF LastVisitor

(* The isolate a thread is in has an entry of its own.                     *)
LEMMA CurrentEntered ==
  ASSUME StoriesAgree, currentIsolate[Me] # Null
  PROVE  /\ currentIsolate[Me] \in allocated /\ currentIsolate[Me] \in Isolates
         /\ previousIsolates[currentIsolate[Me]] # <<>>
<1> DEFINE i == currentIsolate[Me]
<1>1. i \in allocated /\ i \in Isolates /\ stacks[Me] # <<>>
  BY MeAssumption, SlotAlive, QuietTypes
<1>2. StackMatches(Me) /\ stacks[Me] \in Seq(Isolates)
  BY MeAssumption DEF StoriesAgree, HistoryAgrees, TypeOK
<1>3. stacks[Me][Len(stacks[Me])] = i
  BY <1>1, <1>2 DEF StackMatches, Abstract!Top
<1>4. Len(stacks[Me]) \in DOMAIN stacks[Me]
  BY <1>1, <1>2
<1>5. Abstract!Entered(i)
  BY <1>3, <1>4, MeAssumption DEF Abstract!Entered
<1> QED BY <1>1, <1>5, VisitsStand

(* The thread that is alone can always go back the way it came.            *)
LEMMA LeaveAgrees ==
  ASSUME StoriesAgree, OthersOutside, NEW i \in Isolates, i = currentIsolate[Me], Leave(i)
  PROVE  /\ StoriesAgree' /\ OthersOutside'
         /\ process' = process /\ allocated' = allocated /\ reporting' = reporting
         /\ \A j \in Isolates : j # i => previousIsolates'[j] = previousIsolates[j]
<1>1. /\ i \in allocated /\ previousIsolates[i] # <<>>
      /\ stacks[Me] # <<>> /\ LastVisitor(Me, i)
  BY CurrentEntered, NobodyElse, IsolatesAssumption
<1>2. /\ stacks \in [Threads -> Seq(Isolates)]
      /\ previousIsolates \in [Isolates -> Seq(Isolates \cup {Null})]
  BY DEF StoriesAgree, TypeOK
<1>3. Exit(Me, i)
  BY <1>1 DEF Leave, Follow
<1>4. stacks' = [stacks EXCEPT ![Me] = Front(@)]
  BY <1>1 DEF Leave
<1>5. HExit(Me, i)
  BY <1>1, <1>3, <1>4 DEF HExit, Leave
<1>6. StoriesAgree' /\ UNCHANGED <<process, allocated, reporting>>
  BY <1>1, <1>5, MeAssumption, ExitAgrees
<1>7. OthersOutside'
  BY <1>2, <1>4 DEF OthersOutside
<1>8. \A j \in Isolates : j # i => previousIsolates'[j] = previousIsolates[j]
  BY <1>1, <1>2, <1>3 DEF Exit, RecordThreadExit
<1> QED BY <1>6, <1>7, <1>8

LEMMA OthersStay ==
  ASSUME OthersOutside, UNCHANGED history
  PROVE  OthersOutside'
BY DEF OthersOutside, history

-----------------------------------------------------------------------------
(* CleanupInv in the terms of the lemmas above. *)
Entries ==
  \A i \in inside \cap allocated :
    \/ previousIsolates[i] # <<>>
    \/ i = target /\ pc \in {"inner", "dispose"}

Cleaning ==
  /\ Running /\ ReportsAlive /\ Entries
  /\ pc \in {"inner", "dispose"} => target \in allocated
  /\ pc = "done" => currentIsolate[Me] = Null

Labels == {"test", "outer", "inner", "dispose", "done"}

LocalsOK ==
  pc \in Labels /\ target \in Isolates \cup {Null} /\ inside \subseteq Isolates

LEMMA CleanupParts ==
  CleanupInv <=> StoriesAgree /\ OthersOutside /\ LocalsOK /\ (pc # "test" => Cleaning)
BY DEF CleanupInv, StoriesAgree, OthersOutside, LocalsOK, Labels, Cleaning, ReportsAlive, Entries

LEMMA PartsKeep ==
  ASSUME StoriesAgree', OthersOutside', LocalsOK', pc' # "test" => Cleaning'
  PROVE  CleanupInv'
BY DEF CleanupInv, StoriesAgree, OthersOutside, LocalsOK, Labels, Cleaning, ReportsAlive, Entries

LEMMA CleanupInit == CInit => CleanupInv
<1> SUFFICES ASSUME CInit PROVE CleanupInv
  OBVIOUS
<1>1. StoriesAgree
  BY HistoryInvInit, InvAgrees DEF CInit
<1>2. OthersOutside /\ LocalsOK /\ pc = "test"
  BY DEF CInit, HInit, OthersOutside, LocalsOK, Labels
<1> QED BY <1>1, <1>2, CleanupParts

(* The test may do as it likes: it only has to keep the stories.           *)
LEMMA TestKeeps ==
  ASSUME CleanupInv, Test
  PROVE  CleanupInv'
<1>1. StoriesAgree /\ OthersOutside /\ LocalsOK
  BY CleanupParts
<1>2. pc' = "test" /\ LocalsOK'
  BY <1>1 DEF Test, cleanupVars, LocalsOK
<1>3. ASSUME NEW i \in Isolates, HEnter(Me, i) PROVE StoriesAgree' /\ OthersOutside'
  <2>1. StoriesAgree'
    BY <1>1, <1>3, MeAssumption, EnterAgrees
  <2>2. OthersOutside'
    BY <1>1, <1>3 DEF HEnter, OthersOutside, StoriesAgree, TypeOK
  <2> QED BY <2>1, <2>2
<1>4. ASSUME NEW i \in Isolates, i = currentIsolate[Me], Leave(i)
      PROVE  StoriesAgree' /\ OthersOutside'
  BY <1>1, <1>4, LeaveAgrees
<1>5. ASSUME NEW i \in Isolates, New(i) \/ Dispose(Me, i), UNCHANGED history
      PROVE  StoriesAgree' /\ OthersOutside'
  BY <1>1, <1>5, NewAgrees, DisposeAgrees, OthersStay
<1>6. ASSUME SetFatalErrorHandler(Me) \/ CallbackReturns(Me), UNCHANGED history
      PROVE  StoriesAgree' /\ OthersOutside'
  BY <1>1, <1>6, SetHandlerAgrees, CallbackAgrees, OthersStay
<1>7. StoriesAgree' /\ OthersOutside'
  BY <1>3, <1>4, <1>5, <1>6 DEF Test
<1> QED BY <1>2, <1>7, PartsKeep

(* What the steps that only move pc leave alone. *)
LEMMA IsolatesStay ==
  ASSUME CleanupInv, UNCHANGED allVars
  PROVE  /\ StoriesAgree' /\ OthersOutside'
         /\ (Running /\ ReportsAlive => Running' /\ ReportsAlive')
         /\ allocated' = allocated /\ currentIsolate' = currentIsolate
         /\ previousIsolates' = previousIsolates
<1>1. StoriesAgree /\ OthersOutside
  BY CleanupParts
<1>2. /\ process' = process /\ reporting' = reporting /\ UNCHANGED history
      /\ allocated' = allocated /\ currentIsolate' = currentIsolate
      /\ previousIsolates' = previousIsolates
  BY DEF allVars, vars
<1>3. StoriesAgree' /\ OthersOutside'
  BY <1>1, <1>2, StutterAgrees, OthersStay
<1> QED BY <1>2, <1>3 DEF Running, ReportsAlive

LEMMA BeginKeeps ==
  ASSUME CleanupInv, Begin
  PROVE  CleanupInv'
<1>1. /\ Running /\ reporting[Me] = <<>> /\ UNCHANGED allVars
      /\ pc' = "outer" /\ target' = target
      /\ inside' = {i \in allocated : previousIsolates[i] # <<>>}
  BY DEF Begin, At
<1>2. LocalsOK /\ StoriesAgree
  BY CleanupParts
<1>3. ReportsAlive
  BY <1>1 DEF ReportsAlive
<1>4. LocalsOK'
  BY <1>1, <1>2, QuietTypes DEF LocalsOK, Labels
<1>5. Entries'
  BY <1>1, IsolatesStay DEF Entries
<1>6. Cleaning'
  BY <1>1, <1>3, <1>5, IsolatesStay DEF Cleaning
<1> QED BY <1>1, <1>4, <1>6, IsolatesStay, PartsKeep

LEMMA OuterKeeps ==
  ASSUME CleanupInv, Outer
  PROVE  CleanupInv'
<1>1. /\ pc = "outer" /\ UNCHANGED allVars /\ inside' = inside
      /\ \/ currentIsolate[Me] = Null /\ pc' = "done" /\ target' = target
         \/ currentIsolate[Me] # Null /\ pc' = "inner" /\ target' = currentIsolate[Me]
  BY DEF Outer, At
<1>2. LocalsOK /\ StoriesAgree /\ Cleaning
  BY <1>1, CleanupParts
<1>3. currentIsolate[Me] # Null => currentIsolate[Me] \in allocated /\ currentIsolate[Me] \in Isolates
  BY <1>2, CurrentEntered
<1>4. LocalsOK'
  BY <1>1, <1>2, <1>3 DEF LocalsOK, Labels
<1>5. Entries'
  BY <1>1, <1>2, IsolatesStay DEF Entries, Cleaning
<1>6. Cleaning'
  BY <1>1, <1>2, <1>3, <1>5, IsolatesStay DEF Cleaning
<1> QED BY <1>1, <1>4, <1>6, IsolatesStay, PartsKeep

LEMMA InnerKeeps ==
  ASSUME CleanupInv, Inner
  PROVE  CleanupInv'
<1>1. /\ pc = "inner" /\ target' = target /\ inside' = inside
      /\ \/ currentIsolate[Me] = target /\ Leave(target) /\ pc' = "inner"
         \/ UNCHANGED allVars /\ pc' = "dispose"
  BY DEF Inner, At
<1>2. LocalsOK /\ StoriesAgree /\ OthersOutside /\ Cleaning /\ target \in allocated
  BY <1>1, CleanupParts DEF Cleaning
<1>3. LocalsOK' /\ target \in Isolates
  BY <1>1, <1>2, QuietTypes DEF LocalsOK, Labels
<1>4. CASE currentIsolate[Me] = target /\ Leave(target) /\ pc' = "inner"
  <2>1. /\ StoriesAgree' /\ OthersOutside'
        /\ process' = process /\ allocated' = allocated /\ reporting' = reporting
        /\ \A j \in Isolates : j # target => previousIsolates'[j] = previousIsolates[j]
    BY <1>2, <1>3, <1>4, LeaveAgrees
  <2>2. Entries'
    BY <1>1, <1>2, <1>4, <2>1 DEF Entries, Cleaning, LocalsOK
  <2>3. Cleaning'
    BY <1>1, <1>2, <1>4, <2>1, <2>2 DEF Cleaning, Running, ReportsAlive
  <2> QED BY <1>3, <2>1, <2>3, PartsKeep
<1>5. CASE UNCHANGED allVars /\ pc' = "dispose"
  <2>1. Entries'
    BY <1>1, <1>2, <1>5, IsolatesStay DEF Entries, Cleaning
  <2>2. Cleaning'
    BY <1>1, <1>2, <1>5, <2>1, IsolatesStay DEF Cleaning
  <2> QED BY <1>3, <1>5, <2>2, IsolatesStay, PartsKeep
<1> QED BY <1>1, <1>4, <1>5

(* What is refused has an entry, and whoever made it is still inside some  *)
(* isolate: TriggerFatalError has one to report to and does not abort.     *)
LEMMA DisposeTargetKeeps ==
  ASSUME CleanupInv, DisposeTarget
  PROVE  CleanupInv'
<1>1. /\ pc = "dispose" /\ pc' = "outer" /\ target' = target /\ inside' = inside
      /\ UNCHANGED history /\ reporting[Me] = <<>>
      /\ Follow(target, Dispose(Me, target))
  BY DEF DisposeTarget, At, AfterDispose
<1>2. LocalsOK /\ StoriesAgree /\ OthersOutside /\ Cleaning /\ target \in allocated
  BY <1>1, CleanupParts DEF Cleaning
<1>3. target \in Isolates /\ LocalsOK'
  BY <1>1, <1>2, QuietTypes DEF LocalsOK, Labels
<1>4. Dispose(Me, target)
  BY <1>1, <1>2 DEF Follow
<1>5. /\ StoriesAgree' /\ UNCHANGED entryVars
      /\ \/ previousIsolates[target] # <<>> /\ TriggerFatalError(Me) /\ allocated' = allocated
         \/ /\ allocated' = allocated \ {target}
            /\ process' = process /\ reporting' = reporting
  BY <1>1, <1>2, <1>3, <1>4, DisposeAgrees
<1>6. OthersOutside'
  BY <1>1, <1>2, OthersStay
<1>7. previousIsolates' = previousIsolates
  BY <1>5 DEF entryVars
<1>8. Entries'
  BY <1>1, <1>2, <1>5, <1>7 DEF Entries, Cleaning
<1>9. process' = process /\ ReportsAlive'
  <2>1. CASE previousIsolates[target] # <<>> /\ TriggerFatalError(Me)
    <3>1. currentIsolate[Me] # Null
      BY <1>2, <1>3, <2>1, NobodyElse
    <3> QED BY <1>1, <1>2, <2>1, <3>1, TriggerAgrees DEF Cleaning
  <2>2. CASE process' = process /\ reporting' = reporting
    BY <1>1, <2>2 DEF ReportsAlive
  <2> QED BY <1>5, <2>1, <2>2
<1>10. Cleaning'
  BY <1>1, <1>2, <1>8, <1>9 DEF Cleaning, Running
<1> QED BY <1>3, <1>5, <1>6, <1>10, PartsKeep

LEMMA CallbackKeeps ==
  ASSUME CleanupInv, Callback
  PROVE  CleanupInv'
<1>1. /\ pc \notin {"test", "done"} /\ CallbackReturns(Me) /\ UNCHANGED history
      /\ pc' = pc /\ target' = target /\ inside' = inside
  BY DEF Callback, cleanupVars
<1>2. LocalsOK /\ StoriesAgree /\ OthersOutside /\ Cleaning
  BY <1>1, CleanupParts
<1>3. /\ StoriesAgree' /\ allocated' = allocated /\ UNCHANGED entryVars
      /\ process' = process /\ ReportsAlive'
  BY <1>1, <1>2, CallbackAgrees DEF Cleaning
<1>4. OthersOutside' /\ LocalsOK'
  BY <1>1, <1>2, OthersStay DEF LocalsOK
<1>5. previousIsolates' = previousIsolates /\ currentIsolate' = currentIsolate
  BY <1>3 DEF entryVars
<1>6. Entries'
  BY <1>1, <1>2, <1>3, <1>5 DEF Entries, Cleaning
<1>7. Cleaning'
  BY <1>1, <1>2, <1>3, <1>6 DEF Cleaning, Running
<1> QED BY <1>3, <1>4, <1>7, PartsKeep

LEMMA CleanupStutter ==
  ASSUME CleanupInv, UNCHANGED testVars
  PROVE  CleanupInv'
<1>1. UNCHANGED allVars /\ pc' = pc /\ target' = target /\ inside' = inside
  BY DEF testVars, cleanupVars
<1>2. LocalsOK' /\ (pc # "test" => Cleaning)
  BY <1>1, CleanupParts DEF LocalsOK
<1>3. pc # "test" => Cleaning'
  BY <1>1, <1>2, IsolatesStay DEF Cleaning, Entries
<1> QED BY <1>1, <1>2, <1>3, IsolatesStay, PartsKeep

LEMMA CleanupStep == CleanupInv /\ [CNext]_testVars => CleanupInv'
<1> SUFFICES ASSUME CleanupInv, [CNext]_testVars PROVE CleanupInv'
  OBVIOUS
<1>1. CASE Test
  BY <1>1, TestKeeps
<1>2. CASE Begin
  BY <1>2, BeginKeeps
<1>3. CASE Cleanup
  BY <1>3, OuterKeeps, InnerKeeps, DisposeTargetKeeps, CallbackKeeps DEF Cleanup
<1>4. CASE UNCHANGED testVars
  BY <1>4, CleanupStutter
<1> QED BY <1>1, <1>2, <1>3, <1>4 DEF CNext, Over

(* At every step of a test and of the destructors after it, what they hold *)
(* on to exists, and what the thread was inside is gone or can be reached. *)
THEOREM CleanupInvAlways == CSpec => []CleanupInv
<1> QED BY CleanupInit, CleanupStep, PTL DEF CSpec

(* ~AutoIsolateCleanup and ~AutoTestCleanup leave the thread outside, with *)
(* every isolate it was inside deleted, one that Dispose refused at first  *)
(* included, and follow no pointer to a deleted isolate on the way.        *)
THEOREM CleanupDeletesAlways == CSpec => []CleanupDeletes
<1>1. CleanupInv => CleanupDeletes
  <2> SUFFICES ASSUME CleanupInv PROVE CleanupDeletes
    OBVIOUS
  <2>1. StoriesAgree /\ OthersOutside /\ LocalsOK /\ (pc # "test" => Cleaning)
    BY CleanupParts
  <2>2. CleanupSafe
    BY <2>1 DEF CleanupSafe, Cleaning
  <2>3. ASSUME pc = "done" PROVE currentIsolate[Me] = Null /\ inside \cap allocated = {}
    <3>1. currentIsolate[Me] = Null /\ Entries
      BY <2>1, <2>3 DEF Cleaning
    <3>2. \A i \in Isolates : previousIsolates[i] = <<>>
      BY <2>1, <3>1, NobodyElse
    <3>3. \A i \in inside \cap allocated : previousIsolates[i] # <<>>
      BY <2>3, <3>1 DEF Entries
    <3> QED BY <2>1, <3>1, <3>2, <3>3 DEF LocalsOK
  <2> QED BY <2>2, <2>3 DEF CleanupDeletes
<1> QED BY <1>1, CleanupInvAlways, PTL
=============================================================================
