--------------------------- MODULE EngineLifecycle ---------------------------
(***************************************************************************)
(* What SpiderMonkey demands of whoever drives it, as the comment at the   *)
(* head of src/src/utils/SpiderMonkeyUtils.cpp states it: it is            *)
(* initialized once, threads acquire and release runtimes while it is up,  *)
(* and it is shut down once, when no runtime is left.                      *)
(***************************************************************************)
CONSTANT Threads

VARIABLES
  phase,    \* "down", "up" or "shut"
  owners    \* the threads that own a runtime

Init == phase = "down" /\ owners = {}

Start == phase = "down" /\ phase' = "up" /\ UNCHANGED owners

Acquire(t) ==
  /\ phase = "up"
  /\ t \notin owners
  /\ owners' = owners \cup {t}
  /\ UNCHANGED phase

Release(t) ==
  /\ phase = "up"
  /\ t \in owners
  /\ owners' = owners \ {t}
  /\ UNCHANGED phase

Stop == phase = "up" /\ owners = {} /\ phase' = "shut" /\ UNCHANGED owners

Next == Start \/ Stop \/ \E t \in Threads : Acquire(t) \/ Release(t)

Spec == Init /\ [][Next]_<<phase, owners>>
=============================================================================
