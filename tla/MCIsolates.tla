----------------------------- MODULE MCIsolates -----------------------------
(***************************************************************************)
(* Small instances of IsolateHistory.                                      *)
(***************************************************************************)
EXTENDS IsolateHistory, TLC

CONSTANTS t1, t2, a, b, c

TwoThreads    == {t1, t2}
TwoIsolates   == {a, b}
ThreeIsolates == {a, b, c}

Symmetry == Permutations({t1, t2}) \cup Permutations({a, b, c})
=============================================================================
