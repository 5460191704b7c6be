---------------------------- MODULE ThreadStacks ----------------------------
(***************************************************************************)
(* What the API promises of isolates (the class Isolate of                 *)
(* src/include/v8.h): every thread has a stack of the isolates it has      *)
(* entered, leaving one restores the one below, and an isolate is disposed *)
(* of only while no thread has it anywhere on its stack.                   *)
(***************************************************************************)
EXTENDS Sequences, Naturals

CONSTANTS Threads, Isolates, Null

VARIABLES
  allocated,    \* the isolates that exist
  stacks,       \* the isolates each thread has entered, innermost last
  current       \* what Isolate::GetCurrent() answers each thread

Top(s) == IF s = <<>> THEN Null ELSE s[Len(s)]

Entered(i) == \E t \in Threads : \E d \in DOMAIN stacks[t] : stacks[t][d] = i

Init ==
  /\ allocated = {}
  /\ stacks = [t \in Threads |-> <<>>]
  /\ current = [t \in Threads |-> Null]

New(i) ==
  /\ i \notin allocated
  /\ allocated' = allocated \cup {i}
  /\ UNCHANGED <<stacks, current>>

(* The stack of t becomes s, and the isolate on top of it the current one. *)
Switch(t, s) ==
  /\ stacks' = [stacks EXCEPT ![t] = s]
  /\ current' = [current EXCEPT ![t] = Top(s)]
  /\ UNCHANGED allocated

Enter(t, i) == i \in allocated /\ Switch(t, Append(stacks[t], i))

Exit(t) ==
  /\ stacks[t] # <<>>
  /\ Switch(t, SubSeq(stacks[t], 1, Len(stacks[t]) - 1))

Dispose(i) ==
  /\ i \in allocated
  /\ ~Entered(i)
  /\ allocated' = allocated \ {i}
  /\ UNCHANGED <<stacks, current>>

Next ==
  \/ \E i \in Isolates : New(i) \/ Dispose(i)
  \/ \E t \in Threads : Exit(t) \/ \E i \in Isolates : Enter(t, i)

Spec == Init /\ [][Next]_<<allocated, stacks, current>>
=============================================================================
