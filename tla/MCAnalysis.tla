----------------------------- MODULE MCAnalysis -----------------------------
(* Analysis for model checking.  No package is treated differently from     *)
(* another, so permuting them is a symmetry of the runs that check          *)
(* invariants only.                                                         *)
EXTENDS Analysis, TLC

Symmetry == Permutations(Packages)
=============================================================================
