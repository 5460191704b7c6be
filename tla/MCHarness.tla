----------------------------- MODULE MCHarness -----------------------------
(* Two files with a test each and two tests, a file without tests, and a   *)
(* name no test has.                                                       *)
EXTENDS TestHarness

CONSTANTS a, b, empty, t1, t2, t3, typo

MCFiles      == {a, b, empty}
MCNames      == {t1, t2, t3, typo}
MCRegistered == {t1, t2, t3}
MCfileOf     == (t1 :> a) @@ (t2 :> a) @@ (t3 :> b)
=============================================================================
