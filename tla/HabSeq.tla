-------------------------------- MODULE HabSeq -------------------------------
(***************************************************************************)
(* Subsequences, without recursion so that proofs can expand them.         *)
(***************************************************************************)
EXTENDS Naturals, Sequences, FiniteSets

(***************************************************************************)
(* What is left of the sequence s when only the positions "at" are kept.   *)
(***************************************************************************)
SubseqAt(s, at) ==
  [k \in 1 .. Cardinality(at) |->
     s[CHOOSE i \in at : Cardinality({j \in at : j <= i}) = k]]
=============================================================================
