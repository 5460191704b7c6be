---------------------------- MODULE HarnessProofs ----------------------------
(***************************************************************************)
(* Proofs about the test harness, for any tests, files and command lines:  *)
(* what parseArgs makes of the line, and what the runner and the children  *)
(* it forks make of the tests asked for.                                   *)
(***************************************************************************)
EXTENDS TestHarness, FiniteSetTheorems, SequenceTheorems, TLAPS

Arguments == [option : Options, operand : {"none"} \cup Files \cup Names]

(* What the requests say of the line that was read.                        *)
Only(r) == request1 = r /\ request2 = r /\ filenames = {} /\ testnames = {}

Informs ==
  \/ Only("Usage") /\ Asked("-h")
  \/ Only("TestList") /\ ~Asked("-h") /\ Asked("-l")
  \/ Only("RegisteredTestCount") /\ ~Asked("-h") /\ ~Asked("-l") /\ Asked("-c")

Collected == filenames = Operands("-f") /\ testnames = Operands("-n")

(* The line asked for nothing, for files and names, or, as it turned out   *)
(* at its end, for everything.                                             *)
Nothing == line = <<>> /\ Collected /\ request1 = "None" /\ request2 = "None"
Everything == line = <<>> /\ Collected /\ request1 = "RunAll" /\ request2 = "None"
Some ==
  /\ line # <<>> /\ Collected
  /\ ~Asked("-h") /\ ~Asked("-l") /\ ~Asked("-c")
  /\ request1 \in {"RunByFile", "RunByName"}
  /\ request2 \in {"RunByFile", "RunByName", "None"}

LineInv ==
  /\ phase = "parse" => Informs \/ Nothing \/ Some
  /\ phase = "parsed" => Informs \/ Everything \/ Some \/ \E e \in Errors : Only(e)

ArgTypes ==
  /\ phase \in {"parse", "parsed", "answered", "run", "exited"}
  /\ line \in Seq(Arguments)
  /\ request1 \in Requests /\ request2 \in Requests
  /\ filenames \subseteq Files
  /\ testnames \subseteq Names /\ IsFiniteSet(testnames)

(* The inductive invariant of parseArgs.                                   *)
ArgsInv ==
  /\ ArgTypes
  /\ LineInv
  /\ RequestsBacked
-----------------------------------------------------------------------------
(* One argument more on the line.                                          *)
LEMMA LineGrows ==
  ASSUME line \in Seq(Arguments), NEW option \in Options,
         NEW operand \in {"none"} \cup Files \cup Names, Read(option, operand)
  PROVE  /\ line' \in Seq(Arguments) /\ line' # <<>>
         /\ \A o : Asked(o)' <=> Asked(o) \/ o = option
         /\ \A o : Operands(o)' = Operands(o) \cup (IF o = option THEN {operand} ELSE {})
<1> DEFINE x == [option |-> option, operand |-> operand]
           n == Len(line)
<1>1. line' = Append(line, x) /\ x \in Arguments
  BY DEF Read, Arguments
<1>2. /\ n \in Nat /\ DOMAIN line = 1 .. n
      /\ line' \in Seq(Arguments) /\ DOMAIN line' = 1 .. n + 1
      /\ \A k \in 1 .. n : line'[k] = line[k]
      /\ line'[n + 1] = x
  BY <1>1
<1>3. line' # <<>>
  BY <1>2
<1> HIDE DEF n
<1>4. /\ \A k \in 1 .. n : k \in 1 .. n + 1
      /\ \A k \in 1 .. n + 1 : k \in 1 .. n \/ k = n + 1
      /\ n + 1 \in 1 .. n + 1
  BY <1>2
<1>5. x.option = option /\ x.operand = operand
  OBVIOUS
<1> HIDE DEF x
<1>6. ASSUME NEW o PROVE Asked(o)' <=> Asked(o) \/ o = option
  BY <1>2, <1>4, <1>5 DEF Asked
<1>7. ASSUME NEW o
      PROVE  Operands(o)' = Operands(o) \cup (IF o = option THEN {operand} ELSE {})
  <2>1. Operands(o)' \subseteq Operands(o) \cup (IF o = option THEN {operand} ELSE {})
    BY <1>2, <1>4, <1>5 DEF Operands
  <2>2. Operands(o) \subseteq Operands(o)'
    BY <1>2, <1>4 DEF Operands
  <2>3. o = option => operand \in Operands(o)'
    BY <1>2, <1>4, <1>5 DEF Operands
  <2>4. QED BY <2>1, <2>2, <2>3
<1>8. QED BY <1>2, <1>3, <1>6, <1>7

LEMMA ArgsInvInit == ArgsInit => ArgsInv
<1> SUFFICES ASSUME ArgsInit PROVE ArgsInv
  OBVIOUS
<1>1. ArgTypes
  BY FS_EmptySet DEF ArgsInit, ArgTypes, Requests
<1>2. Operands("-f") = {} /\ Operands("-n") = {}
  BY DEF ArgsInit, Operands
<1>3. LineInv
  BY <1>2 DEF ArgsInit, LineInv, Nothing, Collected
<1>4. RequestsBacked
  BY DEF ArgsInit, RequestsBacked, Requested
<1>5. QED BY <1>1, <1>3, <1>4 DEF ArgsInv

LEMMA SetToOnly ==
  ASSUME NEW r, setTo(r)
  PROVE  Only(r)'
BY DEF setTo, Only

LEMMA ParseStep ==
  ASSUME ArgsInv, parseArgs
  PROVE  ArgsInv'
<1>1. ArgTypes /\ LineInv /\ RequestsBacked
  BY DEF ArgsInv
<1>2. phase = "parse"
  BY DEF parseArgs, Help, List, Count, File, Name, MissingOperand, Unrecognised,
         EndOfLine, Read
<1>3. Informs \/ Nothing \/ Some
  BY <1>1, <1>2 DEF LineInv
<1>4. line = <<>> => \A o : ~Asked(o)
  BY DEF Asked
<1>a. line \in Seq(Arguments)
  BY <1>1 DEF ArgTypes
<1>5. ASSUME NEW r, NEW option \in Options, Read(option, "none"), setTo(r), r \in Requests,
             phase' \in {"parse", "parsed"}, r \notin {"RunByFile", "RunByName"}
      PROVE  ArgTypes' /\ RequestsBacked' /\ Only(r)'
  <2>1. line' \in Seq(Arguments)
    BY <1>a, <1>5, LineGrows
  <2>2. Only(r)'
    BY <1>5, SetToOnly
  <2>3. ArgTypes'
    BY <1>5, <2>1, <2>2, FS_EmptySet DEF ArgTypes, Only
  <2>4. RequestsBacked'
    BY <1>5, <2>2 DEF Only, RequestsBacked, Requested
  <2>5. QED BY <2>2, <2>3, <2>4
<1>6. CASE Help
  <2>1. Read("-h", "none") /\ setTo("Usage") /\ phase' = "parse"
    BY <1>2, <1>6 DEF Help
  <2>2. "-h" \in Options /\ "Usage" \in Requests
    BY DEF Options, Requests
  <2>3. ArgTypes' /\ RequestsBacked' /\ Only("Usage")'
    BY <1>5, <2>1, <2>2
  <2>4. Asked("-h")'
    BY <1>a, <2>1, <2>2, LineGrows
  <2>5. QED BY <2>1, <2>3, <2>4 DEF ArgsInv, LineInv, Informs
<1>7. CASE List
  <2>1. Read("-l", "none") /\ setTo("TestList") /\ phase' = "parse" /\ ~Requested("Usage")
    BY <1>2, <1>7 DEF List, canRequestTestList
  <2>2. "-l" \in Options /\ "TestList" \in Requests
    BY DEF Options, Requests
  <2>3. ArgTypes' /\ RequestsBacked' /\ Only("TestList")'
    BY <1>5, <2>1, <2>2
  <2>4. ~Asked("-h")
    BY <1>3, <1>4, <2>1 DEF Informs, Nothing, Some, Only, Requested
  <2>5. Asked("-l")' /\ ~Asked("-h")'
    BY <1>a, <2>1, <2>2, <2>4, LineGrows
  <2>6. QED BY <2>1, <2>3, <2>5 DEF ArgsInv, LineInv, Informs
<1>8. CASE Count
  <2>1. /\ Read("-c", "none") /\ setTo("RegisteredTestCount") /\ phase' = "parse"
        /\ ~Requested("Usage") /\ ~Requested("TestList")
    BY <1>2, <1>8 DEF Count, canRequestTestCount
  <2>2. "-c" \in Options /\ "RegisteredTestCount" \in Requests
    BY DEF Options, Requests
  <2>3. ArgTypes' /\ RequestsBacked' /\ Only("RegisteredTestCount")'
    BY <1>5, <2>1, <2>2
  <2>4. ~Asked("-h") /\ ~Asked("-l")
    BY <1>3, <1>4, <2>1 DEF Informs, Nothing, Some, Only, Requested
  <2>5. Asked("-c")' /\ ~Asked("-h")' /\ ~Asked("-l")'
    BY <1>a, <2>1, <2>2, <2>4, LineGrows
  <2>6. QED BY <2>1, <2>3, <2>5 DEF ArgsInv, LineInv, Informs
<1>9. ASSUME canRequestByFileOrName
      PROVE  /\ Nothing \/ Some
             /\ Collected /\ ~Asked("-h") /\ ~Asked("-l") /\ ~Asked("-c")
  BY <1>3, <1>4, <1>9 DEF canRequestByFileOrName, Informs, Nothing, Some, Only, Requested
<1>10. ASSUME NEW f \in Files, File(f) PROVE ArgsInv'
  <2>1. /\ canRequestByFileOrName /\ Read("-f", f) /\ filenames' = filenames \cup {f}
        /\ setNext("RunByFile") /\ phase' = "parse" /\ testnames' = testnames
    BY <1>2, <1>10 DEF File
  <2>2. "-f" \in Options
    BY DEF Options
  <2>3. /\ line' \in Seq(Arguments) /\ line' # <<>>
        /\ \A o : Asked(o)' <=> Asked(o) \/ o = "-f"
        /\ Operands("-f")' = Operands("-f") \cup {f} /\ Operands("-n")' = Operands("-n")
    BY <1>a, <2>1, <2>2, LineGrows
  <2>4. /\ request1' \in {"RunByFile", "RunByName"}
        /\ request2' \in {"RunByFile", "RunByName", "None"}
        /\ Requested("RunByName")' => Requested("RunByName")
    BY <1>9, <2>1 DEF setNext, Nothing, Some, Requested
  <2>5. Some'
    BY <1>9, <2>1, <2>3, <2>4 DEF Some, Collected
  <2>6. ArgTypes'
    BY <1>1, <2>1, <2>3, <2>4 DEF ArgTypes, Requests
  <2>7. RequestsBacked'
    BY <1>1, <2>1, <2>4 DEF RequestsBacked
  <2>8. QED BY <2>1, <2>5, <2>6, <2>7 DEF ArgsInv, LineInv
<1>11. ASSUME NEW n \in Names, Name(n) PROVE ArgsInv'
  <2>1. /\ canRequestByFileOrName /\ Read("-n", n) /\ testnames' = testnames \cup {n}
        /\ setNext("RunByName") /\ phase' = "parse" /\ filenames' = filenames
    BY <1>2, <1>11 DEF Name
  <2>2. "-n" \in Options
    BY DEF Options
  <2>3. /\ line' \in Seq(Arguments) /\ line' # <<>>
        /\ \A o : Asked(o)' <=> Asked(o) \/ o = "-n"
        /\ Operands("-n")' = Operands("-n") \cup {n} /\ Operands("-f")' = Operands("-f")
    BY <1>a, <2>1, <2>2, LineGrows
  <2>4. /\ request1' \in {"RunByFile", "RunByName"}
        /\ request2' \in {"RunByFile", "RunByName", "None"}
        /\ Requested("RunByFile")' => Requested("RunByFile")
    BY <1>9, <2>1 DEF setNext, Nothing, Some, Requested
  <2>5. Some'
    BY <1>9, <2>1, <2>3, <2>4 DEF Some, Collected
  <2>6. IsFiniteSet(testnames')
    BY <1>1, <2>1, FS_AddElement DEF ArgTypes
  <2>7. ArgTypes'
    BY <1>1, <2>1, <2>3, <2>4, <2>6 DEF ArgTypes, Requests
  <2>8. RequestsBacked'
    BY <1>1, <2>1, <2>4 DEF RequestsBacked
  <2>9. QED BY <2>1, <2>5, <2>7, <2>8 DEF ArgsInv, LineInv
<1>12. ASSUME NEW option \in Options, NEW e \in Errors, Read(option, "none"), setTo(e),
              phase' = "parsed"
       PROVE  ArgsInv'
  <2>1. e \in Requests /\ e \notin {"RunByFile", "RunByName"}
    BY DEF Errors, Requests
  <2>2. ArgTypes' /\ RequestsBacked' /\ Only(e)'
    BY <1>5, <1>12, <2>1
  <2>3. QED BY <1>12, <2>2 DEF ArgsInv, LineInv
<1>13. CASE MissingOperand("-f", "FileError") \/ MissingOperand("-n", "NameError")
  BY <1>12, <1>13 DEF MissingOperand, Errors, Options
<1>14. ASSUME NEW option \in Options, Unrecognised(option) PROVE ArgsInv'
  BY <1>12, <1>14 DEF Unrecognised, Errors
<1>15. CASE EndOfLine
  <2>1. phase' = "parsed" /\ UNCHANGED <<line, filenames, testnames>>
    BY <1>15 DEF EndOfLine
  <2>2. CASE request1 = "None" /\ request2 = "None"
    <3>1. request1' = "RunAll" /\ request2' = "None"
      BY <1>15, <2>2 DEF EndOfLine, setNext
    <3>2. Nothing
      BY <1>3, <2>2 DEF Informs, Some, Only
    <3>3. Operands("-f")' = Operands("-f") /\ Operands("-n")' = Operands("-n")
      BY <2>1 DEF Operands
    <3>4. Everything'
      BY <2>1, <3>1, <3>2, <3>3 DEF Nothing, Everything, Collected
    <3>5. filenames = {} /\ testnames = {}
      BY <3>2 DEF Nothing, Collected, Operands
    <3>6. ArgTypes' /\ RequestsBacked'
      BY <1>1, <2>1, <3>1, <3>5 DEF ArgTypes, RequestsBacked, Requested, Requests
    <3>7. QED BY <2>1, <3>4, <3>6 DEF ArgsInv, LineInv
  <2>3. CASE ~(request1 = "None" /\ request2 = "None")
    <3>1. UNCHANGED <<request1, request2>>
      BY <1>15, <2>3 DEF EndOfLine
    <3>2. Informs \/ Some
      BY <1>3, <2>3 DEF Nothing
    <3>3. (Informs \/ Some)'
      BY <2>1, <3>1, <3>2 DEF Informs, Some, Only, Collected, Asked, Operands
    <3>4. ArgTypes' /\ RequestsBacked'
      BY <1>1, <2>1, <3>1 DEF ArgTypes, RequestsBacked, Requested
    <3>5. QED BY <2>1, <3>3, <3>4 DEF ArgsInv, LineInv
  <2>4. QED BY <2>2, <2>3
<1>16. QED BY <1>6, <1>7, <1>8, <1>10, <1>11, <1>13, <1>14, <1>15 DEF parseArgs

(* After that, the line is dropped or stays as it is.                      *)
LEMMA ArgsKept ==
  ASSUME ArgsInv, line' \in {line, <<>>},
         UNCHANGED <<request1, request2, filenames, testnames>>,
         (UNCHANGED line /\ UNCHANGED phase) \/ phase' \in {"answered", "run", "exited"}
  PROVE  ArgsInv'
<1>1. ArgTypes'
  <2>1. <<>> \in Seq(Arguments)
    OBVIOUS
  <2>2. QED BY <2>1 DEF ArgsInv, ArgTypes
<1>2. RequestsBacked'
  BY DEF ArgsInv, RequestsBacked, Requested
<1>3. LineInv'
  BY DEF ArgsInv, LineInv, Informs, Nothing, Everything, Some, Only, Collected,
         Asked, Operands
<1>4. QED BY <1>1, <1>2, <1>3 DEF ArgsInv

LEMMA ArgsStep == ArgsInv /\ [HarnessNext]_harnessVars => ArgsInv'
<1> SUFFICES ASSUME ArgsInv, [HarnessNext]_harnessVars PROVE ArgsInv'
  OBVIOUS
<1>1. CASE UNCHANGED harnessVars \/ HarnessOver
  BY <1>1, ArgsKept DEF harnessVars, argVars, HarnessOver
<1>2. CASE parseArgs
  BY <1>2, ParseStep
<1>3. CASE Answer
  BY <1>3, ArgsKept DEF Answer, argVars
<1>4. CASE StartRun
  BY <1>4, ArgsKept DEF StartRun
<1>5. CASE RunTests
  <2>1. UNCHANGED argVars /\ (UNCHANGED phase \/ phase' = "exited")
    BY <1>5 DEF RunTests, NextFile, NotFound, Fork, ForkFails, TestReturns, Crashes,
                Decide, Report, LeaveMain
  <2>2. QED BY <2>1, ArgsKept DEF argVars
<1>6. QED BY <1>1, <1>2, <1>3, <1>4, <1>5 DEF HarnessNext

THEOREM ArgsInvAlways == HarnessSpec => []ArgsInv
<1>1. HarnessInit => ArgsInv
  BY ArgsInvInit DEF HarnessInit
<1>2. QED BY <1>1, ArgsStep, PTL DEF HarnessSpec

(* What parseArgs returns is what its comment says of the whole line.      *)
THEOREM PrecedenceHoldsAlways == HarnessSpec => []PrecedenceHolds
<1>1. ASSUME ArgsInv PROVE PrecedenceHolds
  <2>1. SUFFICES ASSUME phase = "parsed", {request1, request2} \cap Errors = {}
                 PROVE  PrecedenceHolds
    BY DEF PrecedenceHolds
  <2>2. Informs \/ Everything \/ Some
    BY <1>1, <2>1 DEF ArgsInv, LineInv, Only
  <2>3. CASE Informs
    BY <2>3 DEF Informs, Only, PrecedenceHolds
  <2>4. CASE Everything
    <3>1. \A o : ~Asked(o)
      BY <2>4 DEF Everything, Asked
    <3>2. QED BY <2>4, <3>1 DEF Everything, Collected, PrecedenceHolds, Requested
  <2>5. CASE Some
    BY <2>5 DEF Some, Collected, PrecedenceHolds, Requested
  <2>6. QED BY <2>2, <2>3, <2>4, <2>5
<1>2. QED BY <1>1, ArgsInvAlways, PTL

(* A run is asked for with something to run, and information without.      *)
THEOREM RequestsBackedAlways == HarnessSpec => []RequestsBacked
<1>1. ArgsInv => RequestsBacked
  BY DEF ArgsInv
<1>2. QED BY <1>1, ArgsInvAlways, PTL
-----------------------------------------------------------------------------
(* The runner.                                                             *)

ByFile(t) == Requested("RunByFile") /\ fileOf[t] \in filenames
ByName(n) == Requested("RunByName") /\ n \in testnames

(* A test was started or could not be, and an unknown name was reported.   *)
Dealt(h, n) == IF n \in Registered THEN ran[n] > 0 \/ n \in broken ELSE n \in h.failures

(* Each test asked for was dealt with, or the harness comes to it: in this *)
(* loop or in one of those that follow.                                    *)
Ahead(h) ==
  /\ \A t \in Registered :
       ByFile(t) => Dealt(h, t) \/ t \in h.tests \/ fileOf[t] \in h.files
  /\ \A n \in Names :
       ByName(n) => Dealt(h, n) \/ h.stage = "files" \/ n \in h.tests
  /\ \A t \in Registered :
       Requested("RunAll") => Dealt(h, t) \/ h.stage \in {"files", "names"} \/ t \in h.tests

(* The harness itself, which has a verdict or is about to get one.         *)
Sound(h) ==
  /\ h \in Process
  /\ ~h.result.processIsChild
  /\ h.result.set \/ h.tests # {} \/ h.files # {} \/ h.running # {}
  /\ h.stage = "files" => h.executed = {}
  /\ h.stage # "files" => h.files = {}
  /\ h.stage = "report" => h.tests = {}
  /\ h.files \subseteq filenames /\ (h.files # {} => Requested("RunByFile"))
  /\ h.tests \subseteq Wanted \cup Unknown
  /\ h.failures \subseteq broken \cup Unknown
  /\ Ahead(h)

(* It runs alone, and has seen what failed.                                *)
Alone(h) == Sound(h) /\ h.running = {} /\ broken \subseteq h.failures

(* It waits for the child that runs t, or has run it and is on its way out *)
(* with the verdict.                                                       *)
Waiting(h, c) ==
  /\ Sound(h)
  /\ c \in Process
  /\ c.stage # "report"
  /\ \E t \in Registered :
       /\ h.running = {t} /\ ran[t] > 0
       /\ \/ c.running = {t} /\ broken \subseteq h.failures
          \/ /\ c.running = {}
             /\ c.result.set /\ c.result.processIsChild
             /\ c.result.failed => t \in broken
             /\ broken \subseteq h.failures \cup (IF c.result.failed THEN {t} ELSE {})

(* The processes that exist.  When the harness has left main, its status   *)
(* is the number of failures as far as a parent can tell.                  *)
Stacked ==
  CASE phase = "run" ->
         \/ Len(processes) = 1 /\ Alone(processes[1])
         \/ Len(processes) = 2 /\ Waiting(processes[1], processes[2])
    [] phase = "exited" ->
         /\ Len(processes) = 1 /\ Alone(processes[1])
         /\ processes[1].stage = "report"
         /\ status = Cardinality(processes[1].failures) % ExitCodes
    [] OTHER ->
         processes = <<>> /\ broken = {} /\ \A t \in Registered : ran[t] = 0

RunTypes ==
  /\ processes \in Seq(Process)
  /\ status \in 0 .. (ExitCodes - 1)
  /\ ran \in [Registered -> Nat]
  /\ broken \subseteq Registered

RunnerInv ==
  /\ RunTypes
  /\ \A t \in Registered : ran[t] > 0 => t \in Wanted
  /\ Stacked

RunInv == ArgsInv /\ RunnerInv
-----------------------------------------------------------------------------
(* Stacks of one process, and of two.                                      *)
LEMMA Ends ==
  ASSUME NEW S, NEW h \in S, NEW c \in S
  PROVE  /\ SubSeq(<<h, c>>, 1, 1) = <<h>>
         /\ Append(<<>>, h) = <<h>> /\ Append(<<h>>, c) = <<h, c>>
         /\ <<h>> \o <<c>> = <<h, c>>
<1>1. /\ <<>> \in Seq(S) /\ <<h>> \in Seq(S) /\ <<c>> \in Seq(S) /\ <<h, c>> \in Seq(S)
      /\ Len(<<h>>) = 1 /\ Len(<<c>>) = 1 /\ Len(<<h, c>>) = 2 /\ Len(<<>>) = 0
      /\ <<h>>[1] = h /\ <<c>>[1] = c /\ <<h, c>>[1] = h /\ <<h, c>>[2] = c
  OBVIOUS
<1>2. SubSeq(<<h, c>>, 1, 1) = <<h>>
  <2> DEFINE s == SubSeq(<<h, c>>, 1, 1)
  <2>1. \A i \in 1 .. 1 : <<h, c>>[i] \in S
    BY <1>1
  <2>2. s \in Seq(S) /\ Len(s) = 1 /\ s[1] = h
    BY <1>1, <2>1, SubSeqProperties
  <2> HIDE DEF s
  <2>3. s = <<h>>
    BY <1>1, <2>2, SeqEqual
  <2>4. QED BY <2>3 DEF s
<1>3. Append(<<>>, h) = <<h>>
  <2> DEFINE s == Append(<<>>, h)
  <2>1. s \in Seq(S) /\ Len(s) = 1 /\ s[1] = h
    BY <1>1, AppendProperties
  <2> HIDE DEF s
  <2>2. s = <<h>>
    BY <1>1, <2>1, SeqEqual
  <2>3. QED BY <2>2 DEF s
<1>4. Append(<<h>>, c) = <<h, c>>
  <2> DEFINE s == Append(<<h>>, c)
  <2>1. s \in Seq(S) /\ Len(s) = 2 /\ s[1] = h /\ s[2] = c
    BY <1>1, AppendProperties
  <2> HIDE DEF s
  <2>2. s = <<h, c>>
    BY <1>1, <2>1, SeqEqual
  <2>3. QED BY <2>2 DEF s
<1>5. <<h>> \o <<c>> = <<h, c>>
  <2> DEFINE s == <<h>> \o <<c>>
  <2>1. s \in Seq(S) /\ Len(s) = 2 /\ s[1] = h /\ s[2] = c
    BY <1>1, ConcatProperties
  <2> HIDE DEF s
  <2>2. s = <<h, c>>
    BY <1>1, <2>1, SeqEqual
  <2>3. QED BY <2>2 DEF s
<1>6. QED BY <1>2, <1>3, <1>4, <1>5

LEMMA OneProcess ==
  ASSUME NEW h, NEW p, processes = <<h>>
  PROVE  /\ Len(processes) = 1 /\ top = h
         /\ Become(p) => processes' = <<p>>
         /\ Append(Front(processes), p) \o <<p>> = <<p, p>>
<1>1. Front(processes) = <<>>
  BY SubSeqEmpty DEF Front
<1>2. Len(processes) = 1 /\ top = h
  BY DEF top, Last
<1>3. Append(<<>>, p) = <<p>> /\ <<p>> \o <<p>> = <<p, p>>
  <2>1. p \in {p}
    OBVIOUS
  <2>2. QED BY <2>1, Ends
<1>4. QED BY <1>1, <1>2, <1>3 DEF Become

LEMMA TwoProcesses ==
  ASSUME NEW h, NEW c, NEW p, processes = <<h, c>>
  PROVE  /\ Len(processes) = 2 /\ top = c
         /\ processes[Len(processes) - 1] = h
         /\ Become(p) => processes' = <<h, p>>
         /\ Append(Front(Front(processes)), p) = <<p>>
<1>1. Len(processes) = 2 /\ processes[2] = c /\ processes[1] = h
  OBVIOUS
<1>2. Front(processes) = <<h>>
  <2>1. h \in {h, c} /\ c \in {h, c}
    OBVIOUS
  <2>2. SubSeq(<<h, c>>, 1, 1) = <<h>>
    BY <2>1, Ends
  <2>3. Front(processes) = SubSeq(<<h, c>>, 1, 2 - 1)
    BY <1>1 DEF Front
  <2>4. 2 - 1 = 1
    OBVIOUS
  <2>5. QED BY <2>2, <2>3, <2>4
<1>3. Front(<<h>>) = <<>>
  BY SubSeqEmpty DEF Front
<1>4. Append(<<h>>, p) = <<h, p>> /\ Append(<<>>, p) = <<p>>
  <2>1. h \in {h, p} /\ p \in {h, p}
    OBVIOUS
  <2>2. QED BY <2>1, Ends
<1>5. top = c /\ processes[Len(processes) - 1] = h
  <2>1. 2 - 1 = 1
    OBVIOUS
  <2>2. QED BY <1>1, <2>1 DEF top, Last
<1>6. QED BY <1>1, <1>2, <1>3, <1>4, <1>5 DEF Become

(* The sequence of processes has one of these forms.                       *)
LEMMA StackForms ==
  ASSUME processes \in Seq(Process)
  PROVE  /\ Len(processes) = 1 => processes = <<processes[1]>> /\ processes[1] \in Process
         /\ Len(processes) = 2 => /\ processes = <<processes[1], processes[2]>>
                                  /\ processes[1] \in Process /\ processes[2] \in Process
<1>1. ASSUME Len(processes) = 1
      PROVE  processes = <<processes[1]>> /\ processes[1] \in Process
  <2>1. processes[1] \in Process
    BY <1>1, ElementOfSeq
  <2>2. <<processes[1]>> \in Seq(Process)
    BY <2>1
  <2>3. processes = <<processes[1]>>
    BY <1>1, <2>2, SeqEqual
  <2>4. QED BY <2>1, <2>3
<1>2. ASSUME Len(processes) = 2
      PROVE  /\ processes = <<processes[1], processes[2]>>
             /\ processes[1] \in Process /\ processes[2] \in Process
  <2>1. processes[1] \in Process /\ processes[2] \in Process
    <3>1. 1 \in 1 .. Len(processes) /\ 2 \in 1 .. Len(processes)
      BY <1>2
    <3>2. QED BY <3>1, ElementOfSeq
  <2>2. <<processes[1], processes[2]>> \in Seq(Process)
    BY <2>1
  <2>3. processes = <<processes[1], processes[2]>>
    BY <1>2, <2>2, SeqEqual
  <2>4. QED BY <2>1, <2>3
<1>3. QED BY <1>1, <1>2

LEMMA NewStacks ==
  ASSUME NEW h \in Process, NEW c \in Process
  PROVE  /\ processes' = <<h>> => /\ processes' \in Seq(Process)
                                  /\ Len(processes') = 1 /\ processes'[1] = h
         /\ processes' = <<h, c>> => /\ processes' \in Seq(Process) /\ Len(processes') = 2
                                     /\ processes'[1] = h /\ processes'[2] = c
<1>1. <<h>> \in Seq(Process) /\ <<h, c>> \in Seq(Process)
  OBVIOUS
<1>2. Len(<<h>>) = 1 /\ <<h>>[1] = h /\ Len(<<h, c>>) = 2 /\ <<h, c>>[1] = h /\ <<h, c>>[2] = c
  OBVIOUS
<1>3. QED BY <1>1, <1>2
-----------------------------------------------------------------------------
(* What a process becomes.                                                 *)

Asks == <<request1, request2, filenames, testnames>>

LEMMA AsksSame ==
  ASSUME UNCHANGED Asks
  PROVE  /\ Wanted' = Wanted /\ Unknown' = Unknown
         /\ \A r : Requested(r)' <=> Requested(r)
         /\ filenames' = filenames /\ testnames' = testnames
         /\ \A t : (ByFile(t)' <=> ByFile(t)) /\ (ByName(t)' <=> ByName(t))
BY DEF Asks, Wanted, Unknown, Requested, ByFile, ByName

LEMMA SoundSame ==
  ASSUME NEW h, UNCHANGED <<Asks, ran, broken>>
  PROVE  Sound(h)' <=> Sound(h)
BY AsksSame DEF Sound, Ahead, Dealt

(* A test, or a name no test has, is dealt with.                           *)
LEMMA SoundAfterTest ==
  ASSUME NEW h, Sound(h), NEW p \in Process, NEW t \in Names,
         UNCHANGED Asks, broken \subseteq broken',
         \A u \in Registered : ran[u] > 0 => ran'[u] > 0,
         p.stage = h.stage, p.files = h.files, p.executed = h.executed \/ h.stage # "files",
         p.tests = h.tests \ {t}, h.failures \subseteq p.failures,
         p.failures \subseteq (broken \cup Unknown)',
         ~p.result.processIsChild, p.result.set \/ p.running # {},
         Dealt(p, t)'
  PROVE  Sound(p)'
<1>1. /\ Wanted' = Wanted /\ Unknown' = Unknown
      /\ \A r : Requested(r)' <=> Requested(r)
      /\ filenames' = filenames /\ testnames' = testnames
      /\ \A u : (ByFile(u)' <=> ByFile(u)) /\ (ByName(u)' <=> ByName(u))
  BY AsksSame
<1>2. \A u : Dealt(h, u) => Dealt(p, u)'
  BY DEF Dealt
<1>3. Ahead(p)'
  <2>1. \A u \in Registered :
          ByFile(u)' => Dealt(p, u)' \/ u \in p.tests \/ fileOf[u] \in p.files
    BY <1>1, <1>2 DEF Sound, Ahead
  <2>2. \A u \in Names :
          ByName(u)' => Dealt(p, u)' \/ p.stage = "files" \/ u \in p.tests
    BY <1>1, <1>2 DEF Sound, Ahead
  <2>3. \A u \in Registered :
          Requested("RunAll")' => Dealt(p, u)' \/ p.stage \in {"files", "names"} \/ u \in p.tests
    BY <1>1, <1>2 DEF Sound, Ahead
  <2>4. QED BY <2>1, <2>2, <2>3 DEF Ahead
<1>4. QED BY <1>1, <1>3 DEF Sound

LEMMA Results ==
  /\ Unset \in TestResult /\ ~Unset.processIsChild /\ ~Unset.set
  /\ Parent \in TestResult /\ ~Parent.processIsChild /\ Parent.set
  /\ \A failed, isChild \in BOOLEAN :
       /\ Result(failed, isChild) \in TestResult
       /\ Result(failed, isChild).failed = failed
       /\ Result(failed, isChild).processIsChild = isChild
       /\ Result(failed, isChild).set
BY DEF Unset, Parent, Result, TestResult

(* EnterStage, once it is known whether the stage is asked for.            *)
Started(h, stage, files, tests, result) ==
  [h EXCEPT !.stage = stage, !.files = files, !.tests = tests, !.copy = {}, !.result = result]

(* A process, or what it is before its first stage.                        *)
StageOrNone ==
  [stage : {"", "files", "names", "all", "report"}, files : SUBSET Files,
   tests : SUBSET Names, executed : SUBSET Names, copy : SUBSET Names,
   failures : SUBSET Names, result : TestResult, running : SUBSET Registered]

LEMMA StartedFields ==
  ASSUME NEW h \in StageOrNone, NEW stage \in {"files", "names", "all", "report"},
         NEW files \in SUBSET Files, NEW tests \in SUBSET Names, NEW result \in TestResult
  PROVE  LET p == Started(h, stage, files, tests, result)
         IN  /\ p \in Process
             /\ p.stage = stage /\ p.executed = h.executed
             /\ p.files = files /\ p.tests = tests
             /\ p.failures = h.failures /\ p.running = h.running
             /\ p.result = result
BY DEF Process, StageOrNone, Started

LEMMA BeginFields ==
  ASSUME NEW h \in Process, NEW stage \in {"files", "names", "all", "report"},
         NEW files \in SUBSET Files, NEW tests \in SUBSET Names, NEW result \in TestResult
  PROVE  LET p == Started(h, stage, files, tests, result)
         IN  /\ p \in Process
             /\ p.stage = stage /\ p.executed = h.executed
             /\ p.files = files /\ p.tests = tests
             /\ p.failures = h.failures /\ p.running = h.running
             /\ p.result = result
<1>1. h \in StageOrNone
  BY DEF Process, StageOrNone
<1>2. QED BY <1>1, StartedFields

(* The next stage begins: its tests are those asked for in this way.       *)
LEMMA SoundNextStage ==
  ASSUME ArgsInv, NEW h, Sound(h), h.files = {}, h.tests = {}, h.running = {},
         h.stage # "report"
  PROVE  LET p == NextStage(h)
         IN  p \in Process /\ Sound(p) /\ p.running = {} /\ p.failures = h.failures
<1> DEFINE p == NextStage(h)
<1>1. /\ h \in Process /\ h.stage \in {"files", "names", "all"}
      /\ Registered \in SUBSET Names /\ Registered # {}
      /\ testnames \in SUBSET Names
      /\ Requested("RunByName") => testnames # {}
  BY HarnessAssumption DEF ArgsInv, ArgTypes, RequestsBacked, Sound, Process, Requested
<1>2. /\ h.failures \subseteq broken \cup Unknown
      /\ \A t \in Registered : ByFile(t) => Dealt(h, t)
      /\ \A n \in Names : ByName(n) => Dealt(h, n) \/ h.stage = "files"
      /\ \A t \in Registered :
           Requested("RunAll") => Dealt(h, t) \/ h.stage \in {"files", "names"}
  BY DEF Sound, Ahead
<1>3. CASE h.stage = "files"
  <2>1. h.executed = {} /\ testnames \ h.executed = testnames
    BY <1>3 DEF Sound
  <2>2. p = EnterStage(h, "names", Requested("RunByName"), {}, testnames)
    BY <1>3, <2>1 DEF NextStage, AfterFiles
  <2>3. /\ p \in Process /\ p.stage = "names" /\ p.files = {}
        /\ p.tests = (IF Requested("RunByName") THEN testnames ELSE {})
        /\ p.failures = h.failures /\ p.running = {}
        /\ ~p.result.processIsChild /\ (p.result.set <=> ~Requested("RunByName"))
    <3> DEFINE tests == IF Requested("RunByName") THEN testnames ELSE {}
               result == IF Requested("RunByName") THEN Unset ELSE Parent
    <3>1. /\ tests \in SUBSET Names /\ {} \in SUBSET Files /\ result \in TestResult
          /\ ~result.processIsChild /\ (result.set <=> ~Requested("RunByName"))
      BY <1>1, Results
    <3>2. p = Started(h, "names", {}, tests, result)
      BY <2>2 DEF EnterStage, Started
    <3> HIDE DEF tests, result, p
    <3>3. /\ p \in Process /\ p.stage = "names" /\ p.files = {} /\ p.tests = tests
          /\ p.failures = h.failures /\ p.running = h.running /\ p.result = result
      BY <1>1, <3>1, <3>2, BeginFields
    <3>4. QED BY <3>1, <3>3 DEF tests
  <2> HIDE DEF p
  <2>4. \A n : Dealt(h, n) => Dealt(p, n)
    BY <2>3 DEF Dealt
  <2>5. p.tests \subseteq Wanted \cup Unknown
    BY <1>1, <2>3 DEF Wanted, Unknown
  <2>6. Ahead(p)
    BY <1>2, <2>3, <2>4 DEF Ahead, ByName
  <2>7. Sound(p)
    BY <1>1, <1>2, <2>3, <2>5, <2>6 DEF Sound
  <2>8. QED BY <2>3, <2>7 DEF p
<1>4. CASE h.stage = "names"
  <2>2. p = EnterStage(h, "all", Requested("RunAll"), {}, Registered)
    BY <1>4 DEF NextStage
  <2>3. /\ p \in Process /\ p.stage = "all" /\ p.files = {}
        /\ p.tests = (IF Requested("RunAll") THEN Registered ELSE {})
        /\ p.failures = h.failures /\ p.running = {}
        /\ ~p.result.processIsChild /\ (p.result.set <=> ~Requested("RunAll"))
    <3> DEFINE tests == IF Requested("RunAll") THEN Registered ELSE {}
               result == IF Requested("RunAll") THEN Unset ELSE Parent
    <3>1. /\ tests \in SUBSET Names /\ {} \in SUBSET Files /\ result \in TestResult
          /\ ~result.processIsChild /\ (result.set <=> ~Requested("RunAll"))
      BY <1>1, Results
    <3>2. p = Started(h, "all", {}, tests, result)
      BY <2>2 DEF EnterStage, Started
    <3> HIDE DEF tests, result, p
    <3>3. /\ p \in Process /\ p.stage = "all" /\ p.files = {} /\ p.tests = tests
          /\ p.failures = h.failures /\ p.running = h.running /\ p.result = result
      BY <1>1, <3>1, <3>2, BeginFields
    <3>4. QED BY <3>1, <3>3 DEF tests
  <2> HIDE DEF p
  <2>4. \A n : Dealt(h, n) => Dealt(p, n)
    BY <2>3 DEF Dealt
  <2>5. p.tests \subseteq Wanted \cup Unknown
    BY <1>1, <2>3 DEF Wanted
  <2>6. Ahead(p)
    BY <1>2, <1>4, <2>3, <2>4 DEF Ahead
  <2>7. Sound(p)
    BY <1>1, <1>2, <2>3, <2>5, <2>6 DEF Sound
  <2>8. QED BY <2>3, <2>7 DEF p
<1>5. CASE h.stage = "all"
  <2>2. p = EnterStage(h, "report", FALSE, {}, {})
    BY <1>5 DEF NextStage
  <2>3. /\ p \in Process /\ p.stage = "report" /\ p.files = {} /\ p.tests = {}
        /\ p.failures = h.failures /\ p.running = {}
        /\ ~p.result.processIsChild /\ p.result.set
    <3>1. p = Started(h, "report", {}, {}, Parent)
      BY <2>2 DEF EnterStage, Started
    <3> HIDE DEF p
    <3>2. /\ p \in Process /\ p.stage = "report" /\ p.files = {} /\ p.tests = {}
          /\ p.failures = h.failures /\ p.running = h.running /\ p.result = Parent
      BY <1>1, <3>1, Results, BeginFields
    <3>3. QED BY <3>2, Results
  <2> HIDE DEF p
  <2>4. \A n : Dealt(h, n) => Dealt(p, n)
    BY <2>3 DEF Dealt
  <2>6. Ahead(p)
    BY <1>2, <1>5, <2>3, <2>4 DEF Ahead
  <2>7. Sound(p)
    BY <1>1, <1>2, <2>3, <2>6 DEF Sound
  <2>8. QED BY <2>3, <2>7 DEF p
<1>6. QED BY <1>1, <1>3, <1>4, <1>5

(* The tests of a file are taken up.                                       *)
WithFile(h, f) ==
  [h EXCEPT !.files = @ \ {f}, !.tests = testsByFileName(f),
            !.result = IF testsByFileName(f) = {} THEN Parent ELSE @]

LEMMA SoundNextFile ==
  ASSUME NEW h, Sound(h), h.tests = {}, NEW f \in h.files, h.running = {},
         NEW p, p = WithFile(h, f)
  PROVE  p \in Process /\ Sound(p) /\ p.running = {} /\ p.failures = h.failures
<1> DEFINE tests == testsByFileName(f)
<1>1. /\ h \in Process /\ h.stage = "files" /\ f \in filenames /\ Requested("RunByFile")
      /\ ~h.result.processIsChild /\ h.executed = {}
  BY DEF Sound
<1>2. tests \subseteq Registered /\ tests \subseteq Names /\ \A t \in tests : fileOf[t] = f
  BY HarnessAssumption DEF testsByFileName
<1>3. Parent \in TestResult
  BY Results
<1>4. /\ p \in Process /\ p.stage = "files" /\ p.files = h.files \ {f} /\ p.tests = tests
      /\ p.executed = {} /\ p.failures = h.failures /\ p.running = {}
      /\ ~p.result.processIsChild /\ (p.result.set \/ tests # {})
  <2> DEFINE files == h.files \ {f}
             result == IF tests = {} THEN Parent ELSE h.result
  <2>1. files \in SUBSET Files /\ tests \in SUBSET Names /\ result \in TestResult
    BY <1>1, <1>2, <1>3 DEF Process
  <2>2. p = [h EXCEPT !.files = files, !.tests = tests, !.result = result]
    BY DEF WithFile
  <2> HIDE DEF tests, files, result
  <2>3. /\ p \in Process /\ p.stage = h.stage /\ p.files = files /\ p.tests = tests
        /\ p.executed = h.executed /\ p.failures = h.failures /\ p.running = h.running
        /\ p.result = result
    BY <1>1, <2>1, <2>2 DEF Process
  <2>4. ~result.processIsChild /\ (result.set \/ tests # {})
    BY <1>1, Results DEF result
  <2>5. QED BY <1>1, <2>3, <2>4 DEF files
<1>5. \A n : Dealt(h, n) => Dealt(p, n)
  BY <1>4 DEF Dealt
<1>6. tests \subseteq Wanted
  BY <1>1, <1>2 DEF Wanted
<1>7. Ahead(p)
  <2>1. ASSUME NEW t \in Registered, ByFile(t)
        PROVE  Dealt(p, t) \/ t \in p.tests \/ fileOf[t] \in p.files
    <3>1. Dealt(h, t) \/ fileOf[t] \in h.files
      BY <2>1 DEF Sound, Ahead
    <3>2. fileOf[t] = f => t \in tests
      BY DEF testsByFileName
    <3>3. QED BY <1>4, <1>5, <3>1, <3>2
  <2>2. QED BY <1>4, <2>1 DEF Ahead
<1>8. QED BY <1>1, <1>4, <1>6, <1>7 DEF Sound
-----------------------------------------------------------------------------
(* Each step keeps the invariant.                                          *)

LEMMA RunForms ==
  ASSUME RunnerInv, phase = "run"
  PROVE  \/ \E h \in Process : processes = <<h>> /\ Alone(h)
         \/ \E h, c \in Process : processes = <<h, c>> /\ Waiting(h, c)
BY StackForms DEF RunnerInv, RunTypes, Stacked

LEMMA ExitForm ==
  ASSUME RunnerInv, phase = "exited"
  PROVE  \E h \in Process : /\ processes = <<h>> /\ top = h /\ Alone(h) /\ h.stage = "report"
                            /\ status = Cardinality(h.failures) % ExitCodes
<1>1. /\ processes = <<processes[1]>> /\ processes[1] \in Process /\ Alone(processes[1])
      /\ processes[1].stage = "report"
      /\ status = Cardinality(processes[1].failures) % ExitCodes
  BY StackForms DEF RunnerInv, RunTypes, Stacked
<1>2. top = processes[1]
  BY <1>1, OneProcess
<1>3. QED BY <1>1, <1>2

LEMMA AloneAgain ==
  ASSUME NEW h \in Process, phase' = "run", processes' = <<h>>, Alone(h)'
  PROVE  processes' \in Seq(Process) /\ Stacked'
<1>1. processes' \in Seq(Process) /\ Len(processes') = 1 /\ processes'[1] = h
  BY NewStacks
<1>2. QED BY <1>1 DEF Stacked

LEMMA WaitingAgain ==
  ASSUME NEW h \in Process, NEW c \in Process, phase' = "run", processes' = <<h, c>>,
         Waiting(h, c)'
  PROVE  processes' \in Seq(Process) /\ Stacked'
<1>1. /\ processes' \in Seq(Process) /\ Len(processes') = 2
      /\ processes'[1] = h /\ processes'[2] = c
  BY NewStacks
<1>2. QED BY <1>1 DEF Stacked

(* A child has left the loop, so it is the harness that goes on with it.   *)
LEMMA HarnessLoops ==
  ASSUME RunnerInv, Looping
  PROVE  \E h \in Process : processes = <<h>> /\ Alone(h) /\ top = h /\ phase = "run"
<1>1. phase = "run" /\ top.running = {} /\ ~top.result.processIsChild
  BY DEF Looping, Runs, LeavesLoop
<1>2. ASSUME NEW h \in Process, NEW c \in Process, processes = <<h, c>>, Waiting(h, c)
      PROVE  FALSE
  <2>1. top = c
    BY <1>2, TwoProcesses
  <2>2. QED BY <1>1, <1>2, <2>1 DEF Waiting
<1>3. PICK h \in Process : processes = <<h>> /\ Alone(h)
  BY <1>1, <1>2, RunForms
<1>4. top = h
  BY <1>3, OneProcess
<1>5. QED BY <1>1, <1>3, <1>4

LEMMA NextFileKeeps ==
  ASSUME RunnerInv, NEW f \in Files, NextFile(f)
  PROVE  RunnerInv'
<1>1. PICK h \in Process : processes = <<h>> /\ Alone(h) /\ top = h /\ phase = "run"
  BY HarnessLoops DEF NextFile
<1>p. PICK p : p = WithFile(h, f)
  OBVIOUS
<1>2. /\ h.tests = {} /\ f \in h.files /\ Become(p)
      /\ UNCHANGED <<phase, argVars, status, ran, broken>>
  BY <1>1, <1>p DEF NextFile, WithFile
<1>3. p \in Process /\ Sound(p) /\ p.running = {} /\ p.failures = h.failures
  <2>1. Sound(h) /\ h.running = {}
    BY <1>1 DEF Alone
  <2>2. QED BY <1>p, <1>2, <2>1, SoundNextFile
<1>4. processes' = <<p>>
  BY <1>1, <1>2, OneProcess
<1>5. UNCHANGED Asks
  BY <1>2 DEF Asks, argVars
<1>6. Alone(p)'
  BY <1>1, <1>2, <1>3, <1>5, SoundSame DEF Alone
<1>7. processes' \in Seq(Process) /\ Stacked'
  BY <1>1, <1>2, <1>3, <1>4, <1>6, AloneAgain
<1>8. QED BY <1>2, <1>5, <1>7, AsksSame DEF RunnerInv, RunTypes

(* A name that no test has is a failure.                                   *)
LEMMA NotFoundKeeps ==
  ASSUME RunnerInv, NEW t \in Names, NotFound(t)
  PROVE  RunnerInv'
<1>1. PICK h \in Process : processes = <<h>> /\ Alone(h) /\ top = h /\ phase = "run"
  BY HarnessLoops DEF NotFound, Due
<1> DEFINE p == [h EXCEPT !.tests = @ \ {t}, !.failures = @ \cup {t}, !.result = Parent]
<1>2. /\ t \in h.tests /\ t \notin Registered /\ Become(p)
      /\ UNCHANGED <<phase, argVars, status, ran, broken>>
  BY <1>1 DEF NotFound, Due
<1>3. /\ p \in Process /\ p.stage = h.stage /\ p.files = h.files /\ p.executed = h.executed
      /\ p.tests = h.tests \ {t} /\ p.failures = h.failures \cup {t}
      /\ p.running = h.running /\ p.result = Parent
  BY <1>1, Results DEF Process
<1> HIDE DEF p
<1>4. processes' = <<p>>
  BY <1>1, <1>2, OneProcess
<1>5. UNCHANGED Asks
  BY <1>2 DEF Asks, argVars
<1>6. t \in Unknown
  BY <1>1, <1>2 DEF Alone, Sound, Wanted
<1>7. Sound(p)'
  <2>1. p.failures \subseteq (broken \cup Unknown)'
    BY <1>1, <1>2, <1>3, <1>5, <1>6, AsksSame DEF Alone, Sound
  <2>2. Dealt(p, t)'
    BY <1>2, <1>3 DEF Dealt
  <2>3. QED BY <1>1, <1>2, <1>3, <1>5, <2>1, <2>2, Results, SoundAfterTest DEF Alone
<1>8. Alone(p)'
  BY <1>1, <1>2, <1>3, <1>7 DEF Alone
<1>9. processes' \in Seq(Process) /\ Stacked'
  BY <1>1, <1>2, <1>3, <1>4, <1>8, AloneAgain
<1>10. QED BY <1>2, <1>5, <1>9, AsksSame DEF RunnerInv, RunTypes

(* The child starts with its parent's state, inside of the test.           *)
LEMMA ForkKeeps ==
  ASSUME RunnerInv, NEW t \in Names, Fork(t)
  PROVE  RunnerInv'
<1>1. PICK h \in Process : processes = <<h>> /\ Alone(h) /\ top = h /\ phase = "run"
  BY HarnessLoops DEF Fork, Due
<1> DEFINE p == [h EXCEPT !.tests = @ \ {t}, !.running = {t}]
<1>2. /\ t \in h.tests /\ t \in Registered
      /\ processes' = Append(Front(processes), p) \o <<p>>
      /\ ran' = [ran EXCEPT ![t] = @ + 1]
      /\ UNCHANGED <<phase, argVars, status, broken>>
  BY <1>1 DEF Fork, Due
<1>3. /\ p \in Process /\ p.stage = h.stage /\ p.files = h.files /\ p.executed = h.executed
      /\ p.tests = h.tests \ {t} /\ p.failures = h.failures
      /\ p.running = {t} /\ p.result = h.result
  BY <1>1, <1>2 DEF Process
<1> HIDE DEF p
<1>4. processes' = <<p, p>>
  BY <1>1, <1>2, OneProcess
<1>5. UNCHANGED Asks
  BY <1>2 DEF Asks, argVars
<1>6. /\ ran' \in [Registered -> Nat] /\ ran'[t] > 0
      /\ \A u \in Registered : ran[u] > 0 => ran'[u] > 0
      /\ \A u \in Registered : u # t => ran'[u] = ran[u]
  BY <1>2 DEF RunnerInv, RunTypes
<1>7. Sound(p)'
  <2>1. p.failures \subseteq (broken \cup Unknown)'
    BY <1>1, <1>2, <1>3, <1>5, AsksSame DEF Alone, Sound
  <2>2. Dealt(p, t)'
    BY <1>2, <1>6 DEF Dealt
  <2>3. ~p.result.processIsChild
    BY <1>1, <1>3 DEF Alone, Sound
  <2>4. QED BY <1>1, <1>2, <1>3, <1>5, <1>6, <2>1, <2>2, <2>3, SoundAfterTest DEF Alone
<1>8. Waiting(p, p)'
  <2>1. h.stage # "report"
    BY <1>1, <1>2 DEF Alone, Sound
  <2>2. broken' \subseteq p.failures
    BY <1>1, <1>2, <1>3 DEF Alone
  <2>3. QED BY <1>2, <1>3, <1>6, <1>7, <2>1, <2>2 DEF Waiting
<1>9. processes' \in Seq(Process) /\ Stacked'
  BY <1>1, <1>2, <1>3, <1>4, <1>8, WaitingAgain
<1>10. t \in Wanted
  BY <1>1, <1>2 DEF Alone, Sound, Unknown
<1>11. QED BY <1>2, <1>5, <1>6, <1>9, <1>10, AsksSame DEF RunnerInv, RunTypes

(* A verdict reaches the harness: from a child it waited for, or because   *)
(* there is none.                                                          *)
LEMMA VerdictKeeps ==
  ASSUME RunnerInv, NEW h \in Process, Sound(h), NEW t \in Registered, NEW failed \in BOOLEAN,
         h.running \subseteq {t}, phase' = "run", processes' = <<Judged(h, t, failed)>>,
         UNCHANGED <<argVars, status, ran>>,
         broken' \subseteq Registered, broken \subseteq broken',
         broken' \subseteq h.failures \cup (IF failed THEN {t} ELSE {}),
         failed => t \in broken', ran[t] > 0 \/ t \in broken'
  PROVE  RunnerInv'
<1> DEFINE p == Judged(h, t, failed)
<1>1. /\ p \in Process /\ p.stage = h.stage /\ p.files = h.files
      /\ p.executed = h.executed \/ h.stage # "files"
      /\ p.tests = h.tests \ {t} /\ p.running = {}
      /\ p.failures = (IF failed THEN h.failures \cup {t} ELSE h.failures)
      /\ p.result = Result(failed, FALSE)
  <2>1. t \in Names
    BY HarnessAssumption
  <2> DEFINE q == Executed(h, t)
             failures == IF failed THEN q.failures \cup {t} ELSE q.failures
             result == Result(failed, FALSE)
  <2>2. /\ q \in Process /\ q.stage = h.stage /\ q.files = h.files /\ q.tests = h.tests
        /\ q.failures = h.failures
        /\ q.executed = h.executed \/ h.stage = "names"
    BY <2>1 DEF Executed, Process
  <2>3. p = [q EXCEPT !.tests = @ \ {t}, !.running = {}, !.result = result,
                      !.failures = failures]
    BY DEF Judged
  <2>4. result \in TestResult /\ failures \in SUBSET Names
    BY <2>1, <2>2, Results DEF Process
  <2> HIDE DEF p, q, result, failures
  <2>6. /\ p \in Process /\ p.stage = q.stage /\ p.files = q.files /\ p.executed = q.executed
        /\ p.tests = q.tests \ {t} /\ p.running = {} /\ p.failures = failures
        /\ p.result = result
    BY <2>2, <2>3, <2>4 DEF Process
  <2>7. failures = (IF failed THEN h.failures \cup {t} ELSE h.failures)
    BY <2>2 DEF failures
  <2>8. p.executed = h.executed \/ h.stage # "files"
    BY <2>2, <2>6
  <2>9. p.stage = h.stage /\ p.files = h.files /\ p.tests = h.tests \ {t}
    BY <2>2, <2>6
  <2>10. QED BY <2>6, <2>7, <2>8, <2>9 DEF result
<1> HIDE DEF p
<1>2. UNCHANGED Asks /\ Wanted' = Wanted /\ Unknown' = Unknown
  BY AsksSame DEF Asks, argVars
<1>3. Sound(p)'
  <2>1. p.failures \subseteq (broken \cup Unknown)'
    BY <1>1, <1>2 DEF Sound
  <2>2. Dealt(p, t)'
    BY DEF Dealt
  <2>3. ~p.result.processIsChild /\ p.result.set
    BY <1>1, Results
  <2>4. t \in Names
    BY HarnessAssumption
  <2>5. h.failures \subseteq p.failures
    BY <1>1
  <2>6. QED BY <1>1, <1>2, <2>1, <2>2, <2>3, <2>4, <2>5, SoundAfterTest
<1>4. Alone(p)'
  BY <1>1, <1>3 DEF Alone
<1>5. processes' \in Seq(Process) /\ Stacked'
  BY <1>1, <1>4, AloneAgain DEF p
<1>6. QED BY <1>2, <1>5 DEF RunnerInv, RunTypes

LEMMA ForkFailsKeeps ==
  ASSUME RunnerInv, NEW t \in Names, ForkFails(t)
  PROVE  RunnerInv'
<1>1. PICK h \in Process : processes = <<h>> /\ Alone(h) /\ top = h /\ phase = "run"
  BY HarnessLoops DEF ForkFails, Due
<1>2. /\ t \in Registered /\ Become(Judged(h, t, TRUE)) /\ broken' = broken \cup {t}
      /\ UNCHANGED <<phase, argVars, status, ran>>
  BY <1>1 DEF ForkFails
<1>3. processes' = <<Judged(h, t, TRUE)>>
  BY <1>1, <1>2, OneProcess
<1>4. broken' \subseteq Registered /\ broken' \subseteq h.failures \cup {t}
  BY <1>1, <1>2 DEF RunnerInv, RunTypes, Alone
<1>5. QED BY <1>1, <1>2, <1>3, <1>4, VerdictKeeps DEF Alone

(* The child is inside of its test, and comes out of it with a verdict.    *)
LEMMA TestReturnsKeeps ==
  ASSUME RunnerInv, NEW failed \in BOOLEAN, TestReturns(failed)
  PROVE  RunnerInv'
<1>1. phase = "run" /\ Len(processes) > 1
  BY DEF TestReturns, IsChild
<1>2. PICK h \in Process, c \in Process : processes = <<h, c>> /\ Waiting(h, c)
  <2>1. ASSUME NEW h, processes = <<h>> PROVE FALSE
    BY <1>1, <2>1
  <2>2. QED BY <1>1, <2>1, RunForms
<1>3. top = c
  BY <1>2, TwoProcesses
<1>4. PICK t \in Registered :
        /\ h.running = {t} /\ ran[t] > 0 /\ c.running = {t} /\ broken \subseteq h.failures
  BY <1>2, <1>3 DEF TestReturns, Waiting
<1> DEFINE p == [Executed(c, t) EXCEPT !.running = {}, !.result = Result(failed, TRUE)]
<1>5. /\ Become(p) /\ broken' = IF failed THEN broken \cup {t} ELSE broken
      /\ UNCHANGED <<phase, argVars, status, ran>>
  BY <1>3, <1>4 DEF TestReturns
<1>6. p \in Process /\ p.stage = c.stage /\ p.running = {} /\ p.result = Result(failed, TRUE)
  <2>1. t \in Names
    BY HarnessAssumption
  <2> DEFINE q == Executed(c, t)
             result == Result(failed, TRUE)
  <2>2. q \in Process /\ q.stage = c.stage
    BY <2>1 DEF Executed, Process
  <2>3. result \in TestResult
    BY Results
  <2>4. p = [q EXCEPT !.running = {}, !.result = result]
    OBVIOUS
  <2> HIDE DEF p, q, result
  <2>5. p \in Process /\ p.stage = q.stage /\ p.running = {} /\ p.result = result
    BY <2>2, <2>3, <2>4 DEF Process
  <2>6. QED BY <2>2, <2>5 DEF result
<1> HIDE DEF p
<1>7. processes' = <<h, p>>
  BY <1>2, <1>5, TwoProcesses
<1>8. UNCHANGED Asks /\ Wanted' = Wanted /\ Unknown' = Unknown
  BY <1>5, AsksSame DEF Asks, argVars
<1>9. Sound(h)'
  <2>1. Sound(h)
    BY <1>2 DEF Waiting
  <2>2. Ahead(h)'
    <3>1. \A n : Dealt(h, n) => Dealt(h, n)'
      BY <1>5 DEF Dealt
    <3>2. /\ \A r : Requested(r)' <=> Requested(r)
          /\ \A u : (ByFile(u)' <=> ByFile(u)) /\ (ByName(u)' <=> ByName(u))
      BY <1>8, AsksSame
    <3>3. QED BY <2>1, <3>1, <3>2 DEF Sound, Ahead
  <2>3. filenames' = filenames /\ \A r : Requested(r)' <=> Requested(r)
    BY <1>8, AsksSame
  <2>4. QED BY <1>5, <1>8, <2>1, <2>2, <2>3 DEF Sound
<1>10. Waiting(h, p)'
  <2>1. /\ p.result.set /\ p.result.processIsChild /\ p.result.failed = failed
    BY <1>6, Results
  <2>2. c.stage # "report"
    BY <1>2 DEF Waiting
  <2>3. QED BY <1>4, <1>5, <1>6, <1>9, <2>1, <2>2 DEF Waiting
<1>11. processes' \in Seq(Process) /\ Stacked'
  BY <1>1, <1>5, <1>6, <1>7, <1>10, WaitingAgain
<1>12. broken' \subseteq Registered
  BY <1>5 DEF RunnerInv, RunTypes
<1>13. QED BY <1>5, <1>8, <1>11, <1>12 DEF RunnerInv, RunTypes

LEMMA CrashesKeeps ==
  ASSUME RunnerInv, Crashes
  PROVE  RunnerInv'
<1>1. /\ phase = "run" /\ Len(processes) > 1 /\ WaitReturns("signalled")
      /\ broken' = broken \cup processes[Len(processes) - 1].running
      /\ UNCHANGED <<phase, argVars, status, ran>>
  BY DEF Crashes, IsChild
<1>2. PICK h \in Process, c \in Process : processes = <<h, c>> /\ Waiting(h, c)
  <2>1. ASSUME NEW h, processes = <<h>> PROVE FALSE
    BY <1>1, <2>1
  <2>2. QED BY <1>1, <2>1, RunForms
<1>3. PICK t \in Registered :
        /\ h.running = {t} /\ ran[t] > 0
        /\ broken \subseteq h.failures \cup {t}
  BY <1>2 DEF Waiting
<1>4. processes' = <<Judged(h, t, TRUE)>> /\ broken' = broken \cup {t}
  <2>1. processes[Len(processes) - 1] = h
    BY <1>2, TwoProcesses
  <2>2. ChildFailed("signalled")
    BY DEF ChildFailed
  <2>3. Judged(h, t, ChildFailed("signalled")) = Judged(h, t, TRUE)
    BY <2>2 DEF Judged, Result
  <2>4. processes' = Append(Front(Front(processes)), Judged(h, t, ChildFailed("signalled")))
    BY <1>1, <1>3, <2>1 DEF WaitReturns
  <2>5. QED BY <1>1, <1>2, <1>3, <2>1, <2>3, <2>4, TwoProcesses
<1>5. broken' \subseteq Registered /\ Sound(h)
  BY <1>2, <1>4 DEF RunnerInv, RunTypes, Waiting
<1>6. QED BY <1>1, <1>3, <1>4, <1>5, VerdictKeeps

(* The harness goes on to the next stage, or a child leaves main with its  *)
(* verdict.                                                                *)
LEMMA DecideKeeps ==
  ASSUME ArgsInv, RunnerInv, Decide
  PROVE  RunnerInv'
<1>1. /\ phase = "run" /\ top.running = {} /\ top.stage # "report"
      /\ LeavesLoop(top) \/ (top.files = {} /\ top.tests = {})
      /\ UNCHANGED <<argVars, ran, broken>>
  BY DEF Decide, LoopOver, Runs
<1>2. PICK r \in Readings(top.result) :
        \/ r.processIsChild /\ LeaveMain(IF r.failed THEN 1 ELSE 0)
        \/ ~r.processIsChild /\ Become(NextStage(top)) /\ UNCHANGED <<phase, status>>
  BY DEF Decide
<1>3. UNCHANGED Asks /\ Wanted' = Wanted
  BY <1>1, AsksSame DEF Asks, argVars
<1>4. ASSUME NEW h \in Process, processes = <<h>>, Alone(h) PROVE RunnerInv'
  <2>1. top = h
    BY <1>4, OneProcess
  <2>2. h.files = {} /\ h.tests = {} /\ h.result.set /\ ~h.result.processIsChild
    BY <1>1, <1>4, <2>1 DEF Alone, Sound, LeavesLoop
  <2>3. Become(NextStage(h)) /\ UNCHANGED <<phase, status>>
    BY <1>2, <2>1, <2>2 DEF Readings
  <2> PICK p : p = NextStage(h)
    OBVIOUS
  <2>4. p \in Process /\ Sound(p) /\ p.running = {} /\ p.failures = h.failures
    BY <1>1, <1>4, <2>1, <2>2, SoundNextStage DEF Alone
  <2>5. processes' = <<p>>
    BY <1>4, <2>3, OneProcess
  <2>6. Alone(p)'
    BY <1>1, <1>3, <1>4, <2>4, SoundSame DEF Alone
  <2>7. processes' \in Seq(Process) /\ Stacked'
    BY <1>1, <2>3, <2>4, <2>5, <2>6, AloneAgain
  <2>8. QED BY <1>1, <1>3, <2>3, <2>7 DEF RunnerInv, RunTypes
<1>5. ASSUME NEW h \in Process, NEW c \in Process, processes = <<h, c>>, Waiting(h, c)
      PROVE  RunnerInv'
  <2>1. top = c /\ Len(processes) = 2 /\ processes[Len(processes) - 1] = h
    BY <1>5, TwoProcesses
  <2>2. PICK t \in Registered :
          /\ h.running = {t} /\ ran[t] > 0
          /\ c.result.set /\ c.result.processIsChild
          /\ c.result.failed => t \in broken
          /\ broken \subseteq h.failures \cup (IF c.result.failed THEN {t} ELSE {})
    BY <1>1, <1>5, <2>1 DEF Waiting
  <2>3. c.result.failed \in BOOLEAN
    <3>1. c.result \in TestResult /\ c.result # Unset
      BY <1>5, <2>2, Results DEF Process
    <3>2. QED BY <3>1 DEF TestResult
  <2> PICK failed : failed = c.result.failed
    OBVIOUS
  <2>4. LeaveMain(IF failed THEN 1 ELSE 0)
    BY <1>2, <2>1, <2>2 DEF Readings
  <2>5. PICK how : /\ how = IF failed THEN "exit 1" ELSE "exit 0"
                   /\ WaitReturns(how) /\ UNCHANGED <<status, phase>>
    <3>1. ASSUME failed PROVE WaitReturns("exit 1") /\ UNCHANGED <<status, phase>>
      <4>1. LeaveMain(1)
        BY <2>4, <3>1
      <4>2. (IF 1 = 0 THEN "exit 0" ELSE "exit 1") = "exit 1"
        OBVIOUS
      <4>3. Len(processes) # 1
        BY <2>1
      <4>4. QED BY <4>1, <4>2, <4>3, Zenon DEF LeaveMain
    <3>2. ASSUME ~failed PROVE WaitReturns("exit 0") /\ UNCHANGED <<status, phase>>
      <4>1. LeaveMain(0)
        BY <2>4, <3>2
      <4>2. (IF 0 = 0 THEN "exit 0" ELSE "exit 1") = "exit 0"
        OBVIOUS
      <4>3. Len(processes) # 1
        BY <2>1
      <4>4. QED BY <4>1, <4>2, <4>3, Zenon DEF LeaveMain
    <3>3. QED BY <3>1, <3>2
  <2>6. ChildFailed(how) = failed
    BY <2>3, <2>5 DEF ChildFailed
  <2>7. Judged(h, t, ChildFailed(how)) = Judged(h, t, failed)
    BY <2>6
  <2>8. processes' = <<Judged(h, t, failed)>>
    <3>1. processes' = Append(Front(Front(processes)), Judged(h, t, ChildFailed(how)))
      BY <2>1, <2>2, <2>5 DEF WaitReturns
    <3>2. QED BY <1>5, <2>7, <3>1, TwoProcesses
  <2>9. broken' \subseteq Registered /\ Sound(h)
    BY <1>1, <1>5 DEF RunnerInv, RunTypes, Waiting
  <2>10. QED BY <1>1, <2>2, <2>3, <2>5, <2>8, <2>9, VerdictKeeps
<1>6. QED BY <1>1, <1>4, <1>5, RunForms

(* Only the harness reports.                                               *)
LEMMA ReportKeeps ==
  ASSUME RunnerInv, ArgsInv, Report
  PROVE  RunnerInv'
<1>1. /\ phase = "run" /\ top.stage = "report"
      /\ LeaveMain(Cardinality(top.failures) % ExitCodes)
      /\ UNCHANGED <<argVars, ran, broken>>
  BY DEF Report, Runs
<1>2. ASSUME NEW h, NEW c, processes = <<h, c>>, Waiting(h, c) PROVE FALSE
  BY <1>1, <1>2, TwoProcesses DEF Waiting
<1>3. PICK h \in Process : processes = <<h>> /\ Alone(h)
  BY <1>1, <1>2, RunForms
<1>4. top = h /\ Len(processes) = 1
  BY <1>3, OneProcess
<1>5. /\ status' = Cardinality(h.failures) % ExitCodes /\ phase' = "exited"
      /\ processes' = processes
  BY <1>1, <1>4 DEF LeaveMain
<1>6. IsFiniteSet(h.failures)
  <2>1. h.failures \in SUBSET (Registered \cup testnames)
    BY <1>3 DEF RunnerInv, RunTypes, Alone, Sound, Unknown
  <2>2. IsFiniteSet(Registered \cup testnames)
    BY HarnessAssumption, FS_Union DEF ArgsInv, ArgTypes
  <2>3. QED BY <2>1, <2>2, FS_Subset
<1>7. status' \in 0 .. (ExitCodes - 1)
  <2>1. Cardinality(h.failures) \in Nat
    BY <1>6, FS_CardinalityType
  <2>2. QED BY <1>5, <2>1, HarnessAssumption
<1>8. UNCHANGED Asks /\ Wanted' = Wanted
  BY <1>1, AsksSame DEF Asks, argVars
<1>9. Alone(h)'
  BY <1>1, <1>3, <1>8, SoundSame DEF Alone
<1>10. processes'[1] = h
  BY <1>3, <1>5
<1>11. Stacked'
  BY <1>1, <1>4, <1>5, <1>9, <1>10 DEF Stacked
<1>12. QED BY <1>1, <1>5, <1>7, <1>8, <1>11 DEF RunnerInv, RunTypes

(* The first stage.                                                        *)
LEMMA StartRunKeeps ==
  ASSUME ArgsInv, RunnerInv, StartRun
  PROVE  RunnerInv'
<1> DEFINE zero == [stage |-> "", files |-> {}, tests |-> {}, executed |-> {},
                    copy |-> {}, failures |-> {}, result |-> Unset, running |-> {}]
<1> PICK files : files = IF Requested("RunByFile") THEN filenames ELSE {}
  OBVIOUS
<1> PICK result : result = IF Requested("RunByFile") THEN Unset ELSE Parent
  OBVIOUS
<1> PICK p : p = Started(zero, "files", files, {}, result)
  OBVIOUS
<1>1. /\ phase = "parsed" /\ phase' = "run"
      /\ UNCHANGED <<Asks, status, ran, broken>>
      /\ processes' = <<EnterStage(zero, "files", Requested("RunByFile"), filenames, {})>>
  BY DEF StartRun, Asks
<1>2. EnterStage(zero, "files", Requested("RunByFile"), filenames, {}) = p
  <2> HIDE DEF zero
  <2>1. (IF Requested("RunByFile") THEN {} ELSE {}) = {}
    OBVIOUS
  <2>2. QED BY <2>1 DEF EnterStage, Started
<1>3. /\ filenames \subseteq Files /\ (Requested("RunByFile") => filenames # {})
      /\ broken = {} /\ \A t \in Registered : ran[t] = 0
  BY <1>1 DEF ArgsInv, ArgTypes, RequestsBacked, RunnerInv, Stacked
<1>4. files \in SUBSET Files /\ result \in TestResult /\ ~result.processIsChild
      /\ (result.set \/ files # {})
  BY <1>3, Results
<1>5. /\ p \in Process /\ p.stage = "files" /\ p.files = files /\ p.tests = {}
      /\ p.executed = {} /\ p.failures = {} /\ p.running = {} /\ p.result = result
  <2>1. zero \in StageOrNone
    BY Results DEF StageOrNone
  <2>2. zero.executed = {} /\ zero.failures = {} /\ zero.running = {}
    OBVIOUS
  <2> HIDE DEF zero
  <2>3. {} \in SUBSET Names
    OBVIOUS
  <2>4. QED BY <1>4, <2>1, <2>2, <2>3, StartedFields
<1>6. processes' = <<p>>
  BY <1>1, <1>2
<1>7. Ahead(p)
  <2>1. ASSUME NEW t \in Registered, ByFile(t) PROVE fileOf[t] \in p.files
    BY <1>5, <2>1 DEF ByFile
  <2>2. QED BY <1>5, <2>1 DEF Ahead
<1>8. Sound(p)
  BY <1>3, <1>4, <1>5, <1>7 DEF Sound
<1>9. Alone(p)'
  BY <1>1, <1>3, <1>5, <1>8, SoundSame DEF Alone
<1>10. processes' \in Seq(Process) /\ Stacked'
  BY <1>1, <1>5, <1>6, <1>9, AloneAgain
<1>11. QED BY <1>1, <1>10, AsksSame DEF RunnerInv, RunTypes

LEMMA RunInvInit == HarnessInit => RunInv
<1> SUFFICES ASSUME HarnessInit PROVE RunInv
  OBVIOUS
<1>1. ArgsInv
  BY ArgsInvInit DEF HarnessInit
<1>2. phase = "parse"
  BY DEF HarnessInit, ArgsInit
<1>3. RunTypes
  BY HarnessAssumption DEF HarnessInit, RunTypes
<1>4. Stacked
  BY <1>2 DEF HarnessInit, Stacked
<1>5. QED BY <1>1, <1>3, <1>4 DEF HarnessInit, RunInv, RunnerInv

LEMMA RunInvStep == RunInv /\ [HarnessNext]_harnessVars => RunInv'
<1> SUFFICES ASSUME RunInv, [HarnessNext]_harnessVars PROVE RunInv'
  OBVIOUS
<1>1. ArgsInv /\ ArgsInv' /\ RunnerInv
  BY ArgsStep DEF RunInv
<1> SUFFICES RunnerInv'
  BY <1>1 DEF RunInv
<1>2. ASSUME UNCHANGED <<Asks, runVars>>,
             UNCHANGED phase \/ {phase, phase'} \subseteq {"parse", "parsed"}
      PROVE  RunnerInv'
  <2>1. UNCHANGED <<processes, status, ran, broken>> /\ UNCHANGED Asks
    BY <1>2 DEF runVars
  <2>2. \A h : Sound(h)' <=> Sound(h)
    BY <2>1, SoundSame
  <2>3. Stacked'
    BY <1>1, <1>2, <2>1, <2>2 DEF RunnerInv, Stacked, Alone, Waiting
  <2>4. QED BY <1>1, <2>1, <2>3, AsksSame DEF RunnerInv, RunTypes
<1>3. CASE UNCHANGED harnessVars \/ HarnessOver
  <2>1. UNCHANGED harnessVars
    BY <1>3 DEF HarnessOver
  <2>2. UNCHANGED phase /\ UNCHANGED Asks /\ UNCHANGED runVars
    BY <2>1 DEF harnessVars, argVars, Asks
  <2>3. QED BY <1>2, <2>2
<1>4. CASE parseArgs /\ UNCHANGED runVars
  <2>1. phase = "parse" /\ phase' \in {"parse", "parsed"}
    BY <1>4 DEF parseArgs, Help, List, Count, File, Name, MissingOperand, Unrecognised,
                EndOfLine, Read
  <2>2. UNCHANGED <<processes, status, ran, broken>>
    BY <1>4 DEF runVars
  <2>3. processes = <<>> /\ broken = {} /\ \A t \in Registered : ran[t] = 0
    BY <1>1, <2>1 DEF RunnerInv, Stacked
  <2>4. Stacked'
    BY <2>1, <2>2, <2>3 DEF Stacked
  <2>5. RunTypes'
    BY <1>1, <2>2 DEF RunnerInv, RunTypes
  <2>6. QED BY <2>2, <2>3, <2>4, <2>5 DEF RunnerInv
<1>5. CASE Answer
  <2>1. /\ phase = "parsed" /\ phase' = "answered" /\ status' \in {0, 1}
        /\ UNCHANGED <<processes, ran, broken>> /\ UNCHANGED Asks
    BY <1>5 DEF Answer, argVars, Asks
  <2>2. status' \in 0 .. (ExitCodes - 1)
    BY <2>1, HarnessAssumption
  <2>3. Stacked'
    BY <1>1, <2>1 DEF RunnerInv, Stacked
  <2>4. Wanted' = Wanted
    BY <2>1, AsksSame
  <2>5. QED BY <1>1, <2>1, <2>2, <2>3, <2>4 DEF RunnerInv, RunTypes
<1>6. CASE StartRun
  BY <1>1, <1>6, StartRunKeeps
<1>7. CASE RunTests
  <2>1. ASSUME NEW f \in Files, NextFile(f) PROVE RunnerInv'
    BY <1>1, <2>1, NextFileKeeps
  <2>2. ASSUME NEW t \in Names, NotFound(t) PROVE RunnerInv'
    BY <1>1, <2>2, NotFoundKeeps
  <2>3. ASSUME NEW t \in Names, Fork(t) PROVE RunnerInv'
    BY <1>1, <2>3, ForkKeeps
  <2>4. ASSUME NEW t \in Names, ForkFails(t) PROVE RunnerInv'
    BY <1>1, <2>4, ForkFailsKeeps
  <2>5. ASSUME NEW failed \in BOOLEAN, TestReturns(failed) PROVE RunnerInv'
    BY <1>1, <2>5, TestReturnsKeeps
  <2>6. CASE Crashes
    BY <1>1, <2>6, CrashesKeeps
  <2>7. CASE Decide
    BY <1>1, <2>7, DecideKeeps
  <2>8. CASE Report
    BY <1>1, <2>8, ReportKeeps
  <2>9. QED BY <1>7, <2>1, <2>2, <2>3, <2>4, <2>5, <2>6, <2>7, <2>8 DEF RunTests
<1>8. QED BY <1>3, <1>4, <1>5, <1>6, <1>7 DEF HarnessNext
-----------------------------------------------------------------------------
(* The harness knows of every test what became of it, at every step.       *)
THEOREM RunInvAlways == HarnessSpec => []RunInv
<1>1. QED BY RunInvInit, RunInvStep, PTL DEF HarnessSpec

(* Below the harness nobody forks, and a child that is out of its test     *)
(* only leaves; and every variable has its type.                           *)
THEOREM ChildrenOnlyLeaveAlways == HarnessSpec => []ChildrenOnlyLeave
<1>1. ASSUME RunInv PROVE ChildrenOnlyLeave
  <2>1. ArgTypes /\ RunTypes /\ RunnerInv
    BY <1>1 DEF RunInv, ArgsInv, RunnerInv
  <2>2. Len(processes) <= 2
    <3>1. CASE phase = "run"
      <4>1. ASSUME NEW h, processes = <<h>> PROVE Len(processes) <= 2
        BY <4>1
      <4>2. ASSUME NEW h, NEW c, processes = <<h, c>> PROVE Len(processes) <= 2
        BY <4>2
      <4>3. QED BY <2>1, <3>1, <4>1, <4>2, RunForms
    <3>2. CASE phase = "exited"
      <4>1. PICK h \in Process : processes = <<h>>
        BY <2>1, <3>2, ExitForm
      <4>2. QED BY <4>1
    <3>3. CASE phase \notin {"run", "exited"}
      <4>1. processes = <<>>
        BY <2>1, <3>3 DEF RunnerInv, Stacked
      <4>2. QED BY <4>1
    <3>4. QED BY <3>1, <3>2, <3>3
  <2>3. HarnessTypeOK
    BY <2>1, <2>2 DEF HarnessTypeOK, ArgTypes, RunTypes, Arguments
  <2>4. ASSUME phase = "run", Len(processes) > 1
        PROVE  /\ Len(processes) = 2
               /\ top.running = {} => top.result.set /\ top.result.processIsChild
    <3>1. ASSUME NEW h, processes = <<h>> PROVE FALSE
      BY <2>4, <3>1
    <3>2. PICK h \in Process, c \in Process : processes = <<h, c>> /\ Waiting(h, c)
      BY <2>1, <2>4, <3>1, RunForms
    <3>3. QED BY <3>2, TwoProcesses DEF Waiting
  <2>5. QED BY <2>3, <2>4 DEF ChildrenOnlyLeave
<1>2. QED BY <1>1, RunInvAlways, PTL

(* No process takes a branch on a TestResult without a value.              *)
THEOREM ResultIsKnownAlways == HarnessSpec => []ResultIsKnown
<1>1. ASSUME RunInv PROVE ResultIsKnown
  <2>1. SUFFICES ASSUME phase = "run", LoopOver PROVE top.result.set
    BY DEF ResultIsKnown
  <2>2. /\ top.running = {}
        /\ top.result.processIsChild \/ (top.files = {} /\ top.tests = {})
    BY <2>1 DEF LoopOver, Runs, LeavesLoop
  <2>3. ASSUME NEW h \in Process, processes = <<h>>, Alone(h) PROVE top.result.set
    <3>1. top = h
      BY <2>3, OneProcess
    <3>2. QED BY <2>2, <2>3, <3>1 DEF Alone, Sound
  <2>4. ASSUME NEW h \in Process, NEW c \in Process, processes = <<h, c>>, Waiting(h, c)
        PROVE  top.result.set
    <3>1. top = c
      BY <2>4, TwoProcesses
    <3>2. QED BY <2>2, <2>4, <3>1 DEF Waiting
  <2>5. QED BY <1>1, <2>1, <2>3, <2>4, RunForms DEF RunInv
<1>2. QED BY <1>1, RunInvAlways, PTL

(* The failures reported are those that happened, and no test ran that was *)
(* not asked for.                                                          *)
THEOREM ReportIsTrueAlways == HarnessSpec => []ReportIsTrue
<1>1. ASSUME RunInv PROVE ReportIsTrue
  <2>1. SUFFICES ASSUME phase = "exited"
                 PROVE  top.failures = broken \cup Unknown
    BY <1>1 DEF ReportIsTrue, RunInv, RunnerInv
  <2>2. PICK h \in Process : top = h /\ Alone(h) /\ h.stage = "report"
    BY <1>1, <2>1, ExitForm DEF RunInv
  <2>3. h.failures \subseteq broken \cup Unknown /\ broken \subseteq h.failures
    BY <2>2 DEF Alone, Sound
  <2>4. Unknown \subseteq h.failures
    <3>1. SUFFICES ASSUME NEW n \in Unknown PROVE n \in h.failures
      OBVIOUS
    <3>2. n \in Names /\ n \notin Registered /\ ByName(n)
      BY <1>1 DEF Unknown, ByName, RunInv, ArgsInv, ArgTypes
    <3>3. Dealt(h, n)
      BY <2>2, <3>2 DEF Alone, Sound, Ahead
    <3>4. QED BY <3>2, <3>3 DEF Dealt
  <2>5. QED BY <2>2, <2>3, <2>4
<1>2. QED BY <1>1, RunInvAlways, PTL

(* A harness that exits with 0 has run every test asked for, and none      *)
(* failed, unless the number of failures does not fit the exit status.     *)
THEOREM ZeroMeansPassedAlways == HarnessSpec => []ZeroMeansPassed
<1>1. ASSUME RunInv PROVE ZeroMeansPassed
  <2>1. SUFFICES ASSUME phase = "exited", status = 0, Cardinality(top.failures) < ExitCodes
                 PROVE  Unknown = {} /\ \A t \in Wanted : ran[t] > 0 /\ t \notin broken
    BY DEF ZeroMeansPassed
  <2>2. PICK h \in Process : /\ top = h /\ Alone(h) /\ h.stage = "report"
                             /\ status = Cardinality(h.failures) % ExitCodes
    BY <1>1, <2>1, ExitForm DEF RunInv
  <2>3. IsFiniteSet(h.failures)
    <3>1. h.failures \in SUBSET (Registered \cup testnames)
      BY <1>1, <2>2 DEF RunInv, RunnerInv, RunTypes, Alone, Sound, Unknown
    <3>2. IsFiniteSet(Registered \cup testnames)
      BY <1>1, HarnessAssumption, FS_Union DEF RunInv, ArgsInv, ArgTypes
    <3>3. QED BY <3>1, <3>2, FS_Subset
  <2>4. h.failures = {}
    <3>1. Cardinality(h.failures) \in Nat
      BY <2>3, FS_CardinalityType
    <3>2. Cardinality(h.failures) = 0
      BY <2>1, <2>2, <3>1, HarnessAssumption
    <3>3. QED BY <2>3, <3>2, FS_EmptySet
  <2>5. broken = {}
    BY <2>2, <2>4 DEF Alone
  <2>6. Unknown = {}
    <3>1. ASSUME NEW n \in Unknown PROVE FALSE
      <4>1. n \in Names /\ n \notin Registered /\ ByName(n)
        BY <1>1 DEF Unknown, ByName, RunInv, ArgsInv, ArgTypes
      <4>2. Dealt(h, n)
        BY <2>2, <4>1 DEF Alone, Sound, Ahead
      <4>3. QED BY <2>4, <4>1, <4>2 DEF Dealt
    <3>2. QED BY <3>1
  <2>7. ASSUME NEW t \in Wanted PROVE ran[t] > 0
    <3>1. t \in Registered /\ t \in Names
      BY HarnessAssumption DEF Wanted
    <3>2. ByFile(t) \/ ByName(t) \/ Requested("RunAll")
      BY DEF Wanted, ByFile, ByName
    <3>3. h.files = {} /\ h.tests = {}
      BY <2>2 DEF Alone, Sound
    <3>4. Dealt(h, t)
      BY <2>2, <3>1, <3>2, <3>3 DEF Alone, Sound, Ahead
    <3>5. QED BY <2>5, <3>1, <3>4 DEF Dealt
  <2>8. QED BY <2>5, <2>6, <2>7
<1>2. QED BY <1>1, RunInvAlways, PTL
=============================================================================
