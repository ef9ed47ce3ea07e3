----------------------------- MODULE MCHabVchan -----------------------------
(***************************************************************************)
(* HabVchan for TLC: the threads of an end are interchangeable.            *)
(***************************************************************************)
EXTENDS HabVchan, TLC

VchanSymmetry == Permutations(AThreads) \cup Permutations(BThreads)
=============================================================================
