------------------------------ MODULE MCHabOpen -----------------------------
(***************************************************************************)
(* HabOpen for TLC: the threads of one VM are interchangeable.             *)
(***************************************************************************)
EXTENDS HabOpen

OpenSymmetry == Permutations(FeThreads) \cup Permutations(BeThreads)
=============================================================================
