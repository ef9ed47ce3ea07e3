------------------------------- MODULE HabFifo ------------------------------
(***************************************************************************)
(* What one direction of a hab_pipe promises: a bounded byte queue.  What  *)
(* the writer puts in becomes visible to the reader when it is committed;  *)
(* the reader gets the bytes in order, or is told that no message starts   *)
(* here and is moved one byte forward.                                     *)
(***************************************************************************)
EXTENDS Naturals, Sequences

CONSTANTS Bytes, Capacity

VARIABLES
  unread,       \* committed and not yet read
  uncommitted,  \* written and not yet committed
  result        \* what the last read returned

vars == <<unread, uncommitted, result>>

Init == unread = << >> /\ uncommitted = << >> /\ result = << >>

Write(p) ==
  /\ Len(unread) + Len(uncommitted) + Len(p) <= Capacity
  /\ uncommitted' = uncommitted \o p
  /\ UNCHANGED <<unread, result>>

Commit ==
  /\ unread' = unread \o uncommitted
  /\ uncommitted' = << >>
  /\ UNCHANGED result

Read(n) ==
  /\ result' = SubSeq(unread, 1, n)
  /\ unread' = SubSeq(unread, n + 1, Len(unread))
  /\ UNCHANGED uncommitted

Skip ==
  /\ unread # << >>
  /\ result' = << >>
  /\ unread' = Tail(unread)
  /\ UNCHANGED uncommitted

Next ==
  \/ \E n \in 1 .. Capacity : \E p \in [1 .. n -> Bytes] : Write(p)
  \/ Commit
  \/ \E n \in 1 .. Len(unread) : Read(n)
  \/ Skip

Spec == Init /\ [][Next]_vars
=============================================================================
