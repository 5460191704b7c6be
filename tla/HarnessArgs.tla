---------------------------- MODULE HarnessArgs ----------------------------
(***************************************************************************)
(* The command line of the test harness (parseArgs and ArgParseResult of   *)
(* src/test/harness/run_v8monkey_tests.cpp).                               *)
(*                                                                         *)
(* The line is read from left to right, one turn of the loop a step; what  *)
(* stands on it is decided when it is read.  Only what tells requests      *)
(* apart is kept of an argument: its option, and the operand of -f and -n. *)
(*                                                                         *)
(* A definition Name_Slip, always just above Name, is Name with a slip a   *)
(* maintainer could make; no specification uses it.                        *)
(***************************************************************************)
EXTENDS Naturals, Sequences

CONSTANTS
  Files,      \* operands of -f
  Names,      \* operands of -n, without the brackets of a test listing
  MaxArgs     \* bound on the turns of the loop

ASSUME ArgsAssumption == MaxArgs \in Nat

VARIABLES
  phase,       \* "parse" until parseArgs returns
  line,        \* what has been read: [option, operand]
  request1,
  request2,
  filenames,
  testnames

argVars == <<line, request1, request2, filenames, testnames>>

Requests == {"None", "Usage", "TestList", "RegisteredTestCount", "RunByFile",
             "RunByName", "RunAll", "BadArg", "FileError", "NameError"}
Errors   == {"BadArg", "FileError", "NameError"}
Options  == {"-h", "-l", "-c", "-f", "-n", "other"}

ArgsInit ==
  /\ phase = "parse"
  /\ line = <<>>
  /\ request1 = "None"
  /\ request2 = "None"
  /\ filenames = {}
  /\ testnames = {}

Requested(r) == request1 = r \/ request2 = r

canRequestTestList == ~Requested("Usage")
canRequestTestCount_AfterList == ~Requested("Usage")
canRequestTestCount == ~Requested("Usage") /\ ~Requested("TestList")
canRequestByFileOrName ==
  ~Requested("Usage") /\ ~Requested("TestList") /\ ~Requested("RegisteredTestCount")

(* Both requests become r, and no file and no test is asked for any more.  *)
setTo_KeepsNames(r) ==
  /\ request1' = r
  /\ request2' = r
  /\ UNCHANGED <<filenames, testnames>>
setTo(r) ==
  /\ request1' = r
  /\ request2' = r
  /\ filenames' = {}
  /\ testnames' = {}

setNext_Second(r) == request2' = r /\ UNCHANGED request1
setNext(r) ==
  \/ request1 = "None" /\ request1' = r /\ UNCHANGED request2
  \/ request1 # "None" /\ request2' = r /\ UNCHANGED request1

-----------------------------------------------------------------------------
Read(option, operand) ==
  /\ phase = "parse"
  /\ Len(line) < MaxArgs
  /\ line' = Append(line, [option |-> option, operand |-> operand])

Help == Read("-h", "none") /\ setTo("Usage") /\ UNCHANGED phase

List ==
  /\ canRequestTestList
  /\ Read("-l", "none")
  /\ setTo("TestList")
  /\ UNCHANGED phase

Count ==
  /\ canRequestTestCount
  /\ Read("-c", "none")
  /\ setTo("RegisteredTestCount")
  /\ UNCHANGED phase

File(f) ==
  /\ canRequestByFileOrName
  /\ Read("-f", f)
  /\ filenames' = filenames \cup {f}
  /\ setNext("RunByFile")
  /\ UNCHANGED <<phase, testnames>>

Name(n) ==
  /\ canRequestByFileOrName
  /\ Read("-n", n)
  /\ testnames' = testnames \cup {n}
  /\ setNext("RunByName")
  /\ UNCHANGED <<phase, filenames>>

(* The option is the last argument, or another option follows it.          *)
MissingOperand(option, error) ==
  /\ canRequestByFileOrName
  /\ Read(option, "none")
  /\ setTo(error)
  /\ phase' = "parsed"

(* No other branch takes the argument: it is not an option, or not one     *)
(* that may still be given.                                                *)
Unrecognised(option) ==
  /\ option # "-h"
  /\ option = "-l" => ~canRequestTestList
  /\ option = "-c" => ~canRequestTestCount
  /\ option \in {"-f", "-n"} => ~canRequestByFileOrName
  /\ Read(option, "none")
  /\ setTo("BadArg")
  /\ phase' = "parsed"

EndOfLine ==
  /\ phase = "parse"
  /\ \/ /\ request1 = "None" /\ request2 = "None"
        /\ setNext("RunAll")
     \/ /\ request1 # "None" \/ request2 # "None"
        /\ UNCHANGED <<request1, request2>>
  /\ phase' = "parsed"
  /\ UNCHANGED <<line, filenames, testnames>>

parseArgs ==
  \/ Help
  \/ List
  \/ Count
  \/ \E f \in Files : File(f)
  \/ \E n \in Names : Name(n)
  \/ MissingOperand("-f", "FileError")
  \/ MissingOperand("-n", "NameError")
  \/ \E option \in Options : Unrecognised(option)
  \/ EndOfLine

-----------------------------------------------------------------------------
Asked(option) == \E k \in DOMAIN line : line[k].option = option

Operands(option) ==
  {line[k].operand : k \in {j \in DOMAIN line : line[j].option = option}}

(* Unless an error is reported, what parseArgs returns is what the comment *)
(* above it says of the whole line: a request for help overrides all, one  *)
(* for the listing overrides the count, files and names, one for the count *)
(* files and names; and otherwise every operand was collected, and all     *)
(* tests are run only if none was named.                                   *)
PrecedenceHolds ==
  phase = "parsed" /\ {request1, request2} \cap Errors = {} =>
    CASE Asked("-h") -> {request1, request2} = {"Usage"}
      [] ~Asked("-h") /\ Asked("-l") -> {request1, request2} = {"TestList"}
      [] ~Asked("-h") /\ ~Asked("-l") /\ Asked("-c") ->
           {request1, request2} = {"RegisteredTestCount"}
      [] OTHER ->
           /\ filenames = Operands("-f") /\ testnames = Operands("-n")
           /\ Requested("RunAll") <=> line = <<>>

(* A run is asked for with something to run, and nothing else is asked for *)
(* with something left to run: the loops of the runner read a TestResult   *)
(* that only their turns give a value.                                     *)
RequestsBacked ==
  /\ Requested("RunByFile") => filenames # {}
  /\ Requested("RunByName") => testnames # {}
  /\ filenames \cup testnames # {} =>
       {request1, request2} \subseteq {"RunByFile", "RunByName", "None"}

(* "Specific file and specific test requests are NOT considered mutually   *)
(* exclusive": the files and the tests that were named are asked for.      *)
NoRequestDropped ==
  phase = "parsed" =>
    /\ filenames # {} => Requested("RunByFile")
    /\ testnames # {} => Requested("RunByName")
=============================================================================
