----------------------------- MODULE MCHabMimex -----------------------------
(***************************************************************************)
(* HabMimex for TLC: the threads of the importing process are              *)
(* interchangeable.                                                        *)
(***************************************************************************)
EXTENDS HabMimex, TLC

ThreadSymmetry == Permutations(Threads)
=============================================================================
