----------------------------- MODULE HabSocket ------------------------------
(***************************************************************************)
(* What a virtual channel promises to the two applications that use it     *)
(* (habmm.h: habmm_socket_send, habmm_socket_recv, habmm_socket_close): in *)
(* each direction messages arrive whole, once and in the order in which    *)
(* they were sent, and the end of the stream is reported only when nothing *)
(* that was sent before it is left.                                        *)
(***************************************************************************)
EXTENDS Naturals, Sequences, SequencesExt

CONSTANTS Ends, Peer(_), Messages,
          Lossy       \* TRUE: the receiver may drop a message

VARIABLES q,          \* messages on their way to each end
          phase,      \* "open"; "closing": receives no more, calls under way
                      \* may still send; "closed": sends no more
          eof         \* a receive of this open end has reported the end

vars == <<q, phase, eof>>

Init ==
  /\ q = [e \in Ends |-> << >>]
  /\ phase = [e \in Ends |-> "open"]
  /\ eof = [e \in Ends |-> FALSE]

Send(e, m) ==
  /\ phase[e] # "closed" /\ phase[Peer(e)] = "open"
  /\ q' = [q EXCEPT ![Peer(e)] = Append(@, m)]
  /\ UNCHANGED <<phase, eof>>

Recv(e) ==
  /\ q[e] # << >>
  /\ q' = [q EXCEPT ![e] = Tail(@)]
  /\ UNCHANGED <<phase, eof>>

Lose(e) ==
  /\ Lossy
  /\ \E k \in DOMAIN q[e] : q' = [q EXCEPT ![e] = RemoveAt(@, k)]
  /\ UNCHANGED <<phase, eof>>

EndOfStream(e) ==
  /\ phase[e] = "open" /\ phase[Peer(e)] = "closed" /\ q[e] = << >>
  /\ eof' = [eof EXCEPT ![e] = TRUE]
  /\ UNCHANGED <<q, phase>>

(* What was not handed over yet is given up, the youngest first. *)
GiveUp(e) == \E n \in 0 .. Len(q[e]) : q' = [q EXCEPT ![e] = SubSeq(@, 1, n)]

StartClose(e) ==
  /\ phase[e] = "open"
  /\ phase' = [phase EXCEPT ![e] = "closing"]
  /\ GiveUp(e)
  /\ UNCHANGED eof

Discard(e) ==
  /\ phase[e] # "open"
  /\ GiveUp(e)
  /\ UNCHANGED <<phase, eof>>

FinishClose(e) ==
  /\ phase[e] = "closing"
  /\ phase' = [phase EXCEPT ![e] = "closed"]
  /\ UNCHANGED <<q, eof>>

Next ==
  \E e \in Ends :
    \/ \E m \in Messages : Send(e, m)
    \/ Recv(e) \/ Lose(e) \/ EndOfStream(e)
    \/ StartClose(e) \/ Discard(e) \/ FinishClose(e)

Spec == Init /\ [][Next]_vars
=============================================================================
