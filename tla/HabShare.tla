------------------------------ MODULE HabShare ------------------------------
(***************************************************************************)
(* What memory sharing promises to its two users, whatever messages the    *)
(* two sides exchange: habmm_export grants a buffer, habmm_import uses a   *)
(* granted buffer, habmm_unimport gives it up, and habmm_unexport or the   *)
(* end of the exporting process releases a buffer nobody uses.             *)
(***************************************************************************)
CONSTANT Buffers

VARIABLES
  held,      \* buffers the exporter keeps in memory for sharing
  imported   \* buffers the importer uses

vars == <<held, imported>>

Init == held = {} /\ imported = {}

Grant(b) ==
  /\ b \notin held
  /\ held' = held \cup {b}
  /\ UNCHANGED imported

Import(b) ==
  /\ b \in held \ imported
  /\ imported' = imported \cup {b}
  /\ UNCHANGED held

GiveUp(b) ==
  /\ b \in imported
  /\ imported' = imported \ {b}
  /\ UNCHANGED held

Release(b) ==
  /\ b \in held \ imported
  /\ held' = held \ {b}
  /\ UNCHANGED imported

Next == \E b \in Buffers : Grant(b) \/ Import(b) \/ GiveUp(b) \/ Release(b)

Spec == Init /\ [][Next]_vars
=============================================================================
