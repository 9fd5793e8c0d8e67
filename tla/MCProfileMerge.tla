---------------------------- MODULE MCProfileMerge ----------------------------
(***************************************************************************)
(* Instances of ProfileMerge for TLC.                                      *)
(***************************************************************************)
EXTENDS ProfileMerge, TLC

CONSTANTS s1, s2, s3, e1, e2

Symmetry == Permutations({s1, s2, s3}) \cup Permutations({e1, e2})
=============================================================================
