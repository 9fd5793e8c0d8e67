----------------------------- MODULE MCMemStats -----------------------------
(***************************************************************************)
(* Instances of MemStats for TLC.                                          *)
(***************************************************************************)
EXTENDS MemStats, TLC

CONSTANTS t1, t2, t3, b1, b2, b3

\* The workers are interchangeable; the thread that runs main() is not.
Symmetry == Permutations({b1, b2, b3}) \cup Permutations({t2, t3})
=============================================================================
