---------------------------- MODULE UniqueLists ----------------------------
(***************************************************************************)
(* How the data analysis window fills its lists                            *)
(* (firstClient/src/dtana_callbacks.cpp): a loop over the combinations     *)
(* takes those that match, searches the list for the value and appends     *)
(* what it did not find.                                                   *)
(***************************************************************************)
EXTENDS Sequences, SequencesExt

(* A flag set by the search, an append if it was not set. *)
AddOnce(l, x) == IF x \in ToSet(l) THEN l ELSE Append(l, x)

(* The combinations of s that are in the domain of value. *)
AddValues(l, s, value) ==
    FoldLeft(LAMBDA acc, x : IF x \in DOMAIN value THEN AddOnce(acc, value[x]) ELSE acc, l, s)
=============================================================================
