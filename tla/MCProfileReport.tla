--------------------------- MODULE MCProfileReport ---------------------------
(***************************************************************************)
(* An instance of ProfileReport for TLC: logs of at most MaxLog records.   *)
(***************************************************************************)
EXTENDS ProfileReport, TLC

CONSTANTS a1, a2, a3, MaxLog

Symmetry == Permutations({a1, a2, a3})

BoundedSpec == ReportInit /\ [][ReportNext /\ Len(log) < MaxLog]_reportVars
=============================================================================
