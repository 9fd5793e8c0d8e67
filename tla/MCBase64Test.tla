----------------------------- MODULE MCBase64Test -----------------------------
(***************************************************************************)
(* An instance of Base64Test for TLC.  Words of -f: the four names, the    *)
(* empty word, `o' (in three names), and one that is in none; of -a: the   *)
(* two names, the empty word, and one that is in none.                     *)
(***************************************************************************)
EXTENDS Base64Test

MCFlagWords ==
    {{name} : name \in FlagNames} \cup {FlagNames, FlagNames \ {"lazy"}, {}}

MCFlags == UNION {[1..n -> MCFlagWords] : n \in 1..2} \cup [1..3 -> {{"now"}, {"lazy"}, FlagNames}]
MCExits == UNION {[1..n -> SUBSET ExitNames] : n \in 1..2}
=============================================================================
