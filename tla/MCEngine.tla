------------------------------ MODULE MCEngine ------------------------------
(***************************************************************************)
(* Small instances of EngineClient.                                        *)
(***************************************************************************)
EXTENDS EngineClient

CONSTANTS main, t1, t2, t3

TwoThreads   == {main, t1}
ThreeThreads == {main, t1, t2}
FourThreads  == {main, t1, t2, t3}

NoFailures  == {}
AllFailures == {"init", "runtime", "context"}
=============================================================================
