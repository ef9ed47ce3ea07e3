------------------------------ MODULE HabChannel -----------------------------
(***************************************************************************)
(* What the transport promises to the code above physical_channel_send, in *)
(* one direction: messages are handed to hab_msg_recv in the order they    *)
(* were queued, each once.  Only when the channel was cut may messages be  *)
(* missing, and those that do arrive are still in order.                   *)
(***************************************************************************)
EXTENDS HabSeq, SequencesExt

CONSTANT Msgs

VARIABLES queue, got, cut

vars == <<queue, got, cut>>

Init == queue = << >> /\ got = << >> /\ cut = FALSE

(***************************************************************************)
(* Messages are told apart: none is sent twice.                            *)
(***************************************************************************)
Send(m) ==
  /\ m \notin ToSet(queue \o got)
  /\ queue' = Append(queue, m)
  /\ UNCHANGED <<got, cut>>

Recv ==
  /\ queue # << >>
  /\ got' = Append(got, Head(queue))
  /\ queue' = Tail(queue)
  /\ UNCHANGED cut

(***************************************************************************)
(* The channel is cut, or was: any messages may go.                        *)
(***************************************************************************)
Cut ==
  /\ cut'
  /\ \E keep \in SUBSET DOMAIN queue : queue' = SubseqAt(queue, keep)
  /\ UNCHANGED got

Next == (\E m \in Msgs : Send(m)) \/ Recv \/ Cut

Spec == Init /\ [][Next]_vars
=============================================================================
