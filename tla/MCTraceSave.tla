----------------------------- MODULE MCTraceSave -----------------------------
(***************************************************************************)
(* Instances of TraceSave for TLC.                                         *)
(***************************************************************************)
EXTENDS TraceSave, TLC

CONSTANTS t1, t2, a1, a2, a3

Symmetry == Permutations({a1, a2, a3})
=============================================================================
