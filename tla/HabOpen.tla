------------------------------ MODULE HabOpen -------------------------------
(***************************************************************************)
(* The open handshake of a virtual channel between a front end and a back  *)
(* end VM on one physical channel (frontend_open, backend_listen and       *)
(* hab_vchan_open in hab.c, hab_open.c, the open and close messages of     *)
(* hab_msg_recv, and the allocation of vchans in hab_vchan.c):             *)
(*                                                                         *)
(*     front end          back end                                         *)
(*     send(INIT)         wait(INIT)                                       *)
(*     wait(INIT_ACK)     send(INIT_ACK)                                   *)
(*     send(INIT_DONE)    wait(INIT_DONE)                                  *)
(*                                                                         *)
(* Several threads of each VM may open at once.  What a VM receives goes   *)
(* to the open queue of its device, from which the waiting threads pick    *)
(* what matches (hab_open_request_find).  All threads use one mmid, so     *)
(* sub_id is not kept.  Both VMs have the same HAB_API_VER major and       *)
(* HAB_VER_PROT 1.  pchan->closed is written only before the pchan is in   *)
(* use, ctx->closing never, and pending_open is read only for logging once *)
(* no thread is in a call: the three are left out.                         *)
(***************************************************************************)
EXTENDS Integers, Sequences, FiniteSets, SequencesExt

CONSTANTS
  FeThreads, BeThreads,  \* threads that call habmm_socket_open
  MaxOpens,              \* bound: calls of frontend_open
  MaxListens,            \* bound: calls of backend_listen
  MaxVid,                \* largest vchan id (HAB_VCID_ID_MASK >> shift)
  Faults                 \* which of "signal", "timeout", "stop", "aging",
                         \* "nomem", "send" (a send fails and the caller sees
                         \* it), "unsent" (one fails that nobody looks at)
                         \* can happen

ASSUME OpenAssumption ==
  /\ MaxOpens \in Nat /\ MaxListens \in Nat /\ MaxVid \in Nat \ {0}
  /\ FeThreads \cap BeThreads = {}
  /\ IsFiniteSet(FeThreads) /\ IsFiniteSet(BeThreads)
  /\ Faults \subseteq {"signal", "timeout", "stop", "aging", "nomem", "send",
                     "unsent"}

VMs == {"fe", "be"}
Peer(vm) == IF vm = "fe" THEN "be" ELSE "fe"
Threads == FeThreads \cup BeThreads
Vids == 1 .. MaxVid

(***************************************************************************)
(* A virtual channel; session 0: the id is not in vchan_idr.  "dead" is    *)
(* otherend_closed, "open" says that it is in ctx->vchannels, which is     *)
(* where hab_vchan_open leaves it for the application.                     *)
(***************************************************************************)
Chan == [session : 0 .. MaxOpens, other : 0 .. MaxVid, dead : BOOLEAN,
         open : BOOLEAN]
NoChan == [session |-> 0, other |-> 0, dead |-> FALSE, open |-> FALSE]

(***************************************************************************)
(* struct hab_open_send_data of a message or a queue node, with its type;  *)
(* CLOSE has the other end's vchan id and the session in the header.       *)
(***************************************************************************)
OpenTypes == {"INIT", "INIT_ACK", "INIT_DONE", "INIT_CANCEL"}
Msgs == [type : OpenTypes \cup {"CLOSE"}, vid : 0 .. MaxVid,
         open : 0 .. MaxOpens, proto : {0, 1}]

VARIABLES
  chan,       \* vchan_idr of each VM's pchan
  openq,      \* dev->openq_list of each VM
  wire,       \* messages on their way to each VM
  proto,      \* pchan->mem_proto of each VM
  forbidden,  \* the mmid is in ctx->forbidden_chans of each VM
  ref,        \* pchan->refcount of each VM
  pc,         \* "idle", "wait_ack" (front end), "wait_init", "wait_done" (back end)
  mine,       \* open id and vchan id of the open in progress of each thread
  opens,      \* open_id_counter
  listens     \* number of calls of backend_listen

vars == <<chan, openq, wire, proto, forbidden, ref, pc, mine, opens, listens>>

TypeOK ==
  /\ chan \in [VMs -> [Vids -> Chan]]
  /\ openq \in [VMs -> Seq(Msgs)]
  /\ wire \in [VMs -> Seq(Msgs)]
  /\ proto \in [VMs -> {0, 1}]
  /\ forbidden \in [VMs -> BOOLEAN]
  /\ ref \in [VMs -> Int]
  /\ pc \in [Threads -> {"idle", "wait_ack", "wait_init", "wait_done"}]
  /\ mine \in [Threads -> [open : 0 .. MaxOpens, vid : 0 .. MaxVid]]
  /\ opens \in 0 .. MaxOpens
  /\ listens \in 0 .. MaxListens

Init ==
  /\ chan = [vm \in VMs |-> [v \in Vids |-> NoChan]]
  /\ openq = [vm \in VMs |-> << >>]
  /\ wire = [vm \in VMs |-> << >>]
  /\ proto = [vm \in VMs |-> 0]
  /\ forbidden = [vm \in VMs |-> FALSE]
  /\ ref = [vm \in VMs |-> 1]
  /\ pc = [t \in Threads |-> "idle"]
  /\ mine = [t \in Threads |-> [open |-> 0, vid |-> 0]]
  /\ opens = 0
  /\ listens = 0
-----------------------------------------------------------------------------
(* Helpers *)

(***************************************************************************)
(* hab_open_request_init: ver_proto is always HAB_VER_PROT.                *)
(***************************************************************************)
Request(type, vid, open) == [type |-> type, vid |-> vid, open |-> open, proto |-> 1]

(***************************************************************************)
(* hab_open_request_send, hab_send_close_msg.                              *)
(***************************************************************************)
Send(vm, m) == wire' = [wire EXCEPT ![Peer(vm)] = Append(@, m)]

(***************************************************************************)
(* A send whose failure is only logged, or not even that: every cancel and *)
(* every CLOSE.                                                            *)
(***************************************************************************)
SendUnchecked(vm, m) ==
  Send(vm, m) \/ ("unsent" \in Faults /\ UNCHANGED wire)

(***************************************************************************)
(* idr_alloc takes the smallest free id; hab_vchan_alloc fails without one.*)
(***************************************************************************)
IsNextVid(vm, v) ==
  /\ v \in Vids /\ chan[vm][v] = NoChan
  /\ \A w \in 1 .. v - 1 : chan[vm][w] # NoChan
IdrFull(vm) == \A v \in Vids : chan[vm][v] # NoChan

Alloc(vm, v, session, other) ==
  chan' = [chan EXCEPT ![vm][v] = [session |-> session, other |-> other,
                                   dead |-> FALSE, open |-> FALSE]]
(***************************************************************************)
(* The last hab_vchan_put.                                                 *)
(***************************************************************************)
Free(vm, v) == chan' = [chan EXCEPT ![vm][v] = NoChan]

(***************************************************************************)
(* hab_open_request_find: a thread takes the first node of the type it     *)
(* waits for, or the first INIT_CANCEL; open id 0 matches every open id.   *)
(***************************************************************************)
Awaited(t) == CASE pc[t] = "wait_ack"  -> "INIT_ACK"
                [] pc[t] = "wait_init" -> "INIT"
                [] OTHER               -> "INIT_DONE"
\* Mutant: the open id is not compared.
FoundAnyOpenId(t, n) == n.type \in {Awaited(t), "INIT_CANCEL"}


Found(t, n) ==
  /\ n.type \in {Awaited(t), "INIT_CANCEL"}
  /\ pc[t] = "wait_init" \/ n.open = mine[t].open

VM(t) == IF t \in FeThreads THEN "fe" ELSE "be"
Matches(t) == {k \in DOMAIN openq[VM(t)] : Found(t, openq[VM(t)][k])}

Take(t, k) ==
  /\ k \in Matches(t) /\ \A j \in Matches(t) : k <= j
  /\ openq' = [openq EXCEPT ![VM(t)] = RemoveAt(@, k)]

Refs(vm, n) == ref' = [ref EXCEPT ![vm] = @ + n]
Return(t) == /\ pc' = [pc EXCEPT ![t] = "idle"]
             /\ mine' = [mine EXCEPT ![t] = [open |-> 0, vid |-> 0]]
-----------------------------------------------------------------------------
(* Front end *)

(***************************************************************************)
(* hab_vchan_open and frontend_open up to hab_open_listen.  Three pchan    *)
(* references: one of hab_vchan_open, which nothing gives back, one of     *)
(* frontend_open and one of the vchan.                                     *)
(***************************************************************************)
FrontendOpen(t) ==
  /\ pc[t] = "idle" /\ ~forbidden["fe"]
  /\ opens < MaxOpens
  /\ opens' = opens + 1
  /\ \E v \in Vids :
       /\ IsNextVid("fe", v)
       /\ Alloc("fe", v, opens', 0)
       /\ Send("fe", Request("INIT", v, opens'))
       /\ mine' = [mine EXCEPT ![t] = [open |-> opens', vid |-> v]]
  /\ pc' = [pc EXCEPT ![t] = "wait_ack"]
  /\ Refs("fe", 3)
  /\ UNCHANGED <<openq, proto, forbidden, listens>>

(***************************************************************************)
(* frontend_open fails before the wait: no vchan id, or INIT is not sent.  *)
(***************************************************************************)
FrontendOpenFail(t) ==
  /\ pc[t] = "idle" /\ ~forbidden["fe"]
  /\ opens < MaxOpens
  /\ opens' = opens + 1
  /\ IdrFull("fe") \/ "send" \in Faults
  /\ Refs("fe", 1)
  /\ UNCHANGED <<chan, openq, wire, proto, forbidden, pc, mine, listens>>

\* Mutant: INIT_DONE is not sent.
FrontendAckSilent(t) ==
  /\ pc[t] = "wait_ack"
  /\ \E k \in Matches(t) :
       /\ Take(t, k)
       /\ proto' = [proto EXCEPT !["fe"] = openq["fe"][k].proto]
       /\ chan' = [chan EXCEPT !["fe"][mine[t].vid].other = openq["fe"][k].vid,
                               !["fe"][mine[t].vid].open = TRUE]
  /\ Refs("fe", -2)
  /\ Return(t)
  /\ UNCHANGED <<wire, forbidden, opens, listens>>

(***************************************************************************)
(* frontend_open finds a request in the queue: the channel is open, unless *)
(* INIT_DONE cannot be sent.  A ctx stopped meanwhile cancels the open and *)
(* forgets the request it has taken.                                       *)
(***************************************************************************)
FrontendAck(t) ==
  /\ pc[t] = "wait_ack"
  /\ \E k \in Matches(t) :
       LET n == openq["fe"][k]
           v == mine[t].vid
       IN /\ Take(t, k)
          /\ \/ /\ ~forbidden["fe"]
                /\ proto' = [proto EXCEPT !["fe"] = n.proto]
                /\ chan' = [chan EXCEPT !["fe"][v].other = n.vid,
                                        !["fe"][v].open = TRUE]
                /\ Send("fe", Request("INIT_DONE", 0, mine[t].open))
                /\ Refs("fe", -2)
             \/ /\ ~forbidden["fe"] /\ "send" \in Faults
                /\ proto' = [proto EXCEPT !["fe"] = n.proto]
                /\ Free("fe", v)
                /\ Refs("fe", -3)
                /\ UNCHANGED wire
             \/ /\ forbidden["fe"]
                /\ SendUnchecked("fe", Request("INIT_CANCEL", v, mine[t].open))
                /\ Free("fe", v)
                /\ Refs("fe", -2)
                /\ UNCHANGED proto
  /\ Return(t)
  /\ UNCHANGED <<forbidden, opens, listens>>

(***************************************************************************)
(* frontend_open waits no longer: a signal, or hab_stop.                   *)
(***************************************************************************)
FrontendGiveUp(t) ==
  /\ pc[t] = "wait_ack"
  /\ Matches(t) = {}
  /\ "signal" \in Faults \/ forbidden["fe"]
  /\ SendUnchecked("fe", Request("INIT_CANCEL", mine[t].vid, mine[t].open))
  /\ Free("fe", mine[t].vid)
  /\ Refs("fe", -2)
  /\ Return(t)
  /\ UNCHANGED <<openq, proto, forbidden, opens, listens>>
-----------------------------------------------------------------------------
(* Back end *)

BackendListen(t) ==
  /\ pc[t] = "idle" /\ ~forbidden["be"]
  /\ listens < MaxListens
  /\ listens' = listens + 1
  /\ pc' = [pc EXCEPT ![t] = "wait_init"]
  /\ Refs("be", 1)
  /\ UNCHANGED <<chan, openq, wire, proto, forbidden, mine, opens>>

(***************************************************************************)
(* backend_listen without a request: the caller's timeout, a signal, or    *)
(* hab_stop.                                                               *)
(***************************************************************************)
BackendListenEnd(t) ==
  /\ pc[t] = "wait_init"
  /\ Matches(t) = {}
  /\ {"timeout", "signal"} \cap Faults # {} \/ forbidden["be"]
  /\ Return(t)
  /\ UNCHANGED <<chan, openq, wire, proto, forbidden, ref, opens, listens>>

(***************************************************************************)
(* backend_listen takes what it found for an INIT and answers INIT_ACK.    *)
(***************************************************************************)
BackendInit(t) ==
  /\ pc[t] = "wait_init"
  /\ \E k \in Matches(t) :
       LET n == openq["be"][k]
       IN /\ Take(t, k)
          /\ \/ /\ ~forbidden["be"]
                /\ proto' = [proto EXCEPT !["be"] = n.proto]
                /\ \E v \in Vids :
                     /\ IsNextVid("be", v)
                     /\ Alloc("be", v, n.open, n.vid)
                     /\ Send("be", Request("INIT_ACK", v, n.open))
                     /\ mine' = [mine EXCEPT ![t] = [open |-> n.open, vid |-> v]]
                /\ pc' = [pc EXCEPT ![t] = "wait_done"]
                /\ Refs("be", 1)
             \/ /\ ~forbidden["be"]
                /\ IdrFull("be") \/ "send" \in Faults
                /\ proto' = [proto EXCEPT !["be"] = n.proto]
                /\ Refs("be", -1)
                /\ Return(t)
                /\ UNCHANGED <<chan, wire>>
             \/ /\ forbidden["be"]
                /\ Return(t)
                /\ UNCHANGED <<chan, wire, proto, ref>>
  /\ UNCHANGED <<forbidden, opens, listens>>

(***************************************************************************)
(* backend_listen finds INIT_DONE or INIT_CANCEL for its open id.  The     *)
(* test for INIT_CANCEL asks for a nonzero return code of hab_open_listen  *)
(* as well, which comes with a request only after hab_stop.                *)
(***************************************************************************)
BackendDone(t) ==
  /\ pc[t] = "wait_done"
  /\ \E k \in Matches(t) :
       LET n == openq["be"][k]
           v == mine[t].vid
       IN /\ Take(t, k)
          /\ \/ /\ ~forbidden["be"]
                /\ chan' = [chan EXCEPT !["be"][v].open = TRUE]
                /\ UNCHANGED wire
             \/ /\ forbidden["be"] /\ n.type = "INIT_CANCEL"
                /\ SendUnchecked("be", Request("INIT_CANCEL", v, mine[t].open))
                /\ Free("be", v)
             \/ /\ forbidden["be"] /\ n.type # "INIT_CANCEL"
                /\ Free("be", v)
                /\ UNCHANGED wire
  /\ Refs("be", -2)
  /\ Return(t)
  /\ UNCHANGED <<proto, forbidden, opens, listens>>

(***************************************************************************)
(* backend_listen: HAB_HS_TIMEOUT without an answer to INIT_ACK.           *)
(***************************************************************************)
BackendRetry(t) ==
  /\ "timeout" \in Faults
  /\ pc[t] = "wait_done"
  /\ Matches(t) = {} /\ ~forbidden["be"]
  /\ SendUnchecked("be", Request("INIT_CANCEL", mine[t].vid, mine[t].open))
  /\ Free("be", mine[t].vid)
  /\ Refs("be", -2)
  /\ pc' = [pc EXCEPT ![t] = "wait_init"]
  /\ mine' = [mine EXCEPT ![t] = [open |-> 0, vid |-> 0]]
  /\ UNCHANGED <<openq, proto, forbidden, opens, listens>>

(***************************************************************************)
(* backend_listen: a signal or hab_stop while it waits for INIT_DONE.      *)
(***************************************************************************)
BackendAbort(t) ==
  /\ pc[t] = "wait_done"
  /\ Matches(t) = {}
  /\ "signal" \in Faults \/ forbidden["be"]
  /\ Free("be", mine[t].vid)
  /\ Refs("be", -2)
  /\ Return(t)
  /\ UNCHANGED <<openq, wire, proto, forbidden, opens, listens>>
-----------------------------------------------------------------------------
(* Both *)

(***************************************************************************)
(* hab_open_request_find passes a request older than                       *)
(* HAB_OPEN_REQ_EXPIRE_TIME_S; any may have reached that age.              *)
(***************************************************************************)
ExpireRequest(t) ==
  /\ "aging" \in Faults
  /\ pc[t] # "idle"
  /\ \E k \in DOMAIN openq[VM(t)] :
       /\ \A j \in Matches(t) : k < j
       /\ openq' = [openq EXCEPT ![VM(t)] = RemoveAt(@, k)]
  /\ Refs(VM(t), -1)
  /\ UNCHANGED <<chan, wire, proto, forbidden, pc, mine, opens, listens>>

(***************************************************************************)
(* hab_stop: habmm_socket_close with the mmid instead of a vcid.           *)
(***************************************************************************)
Stop(vm) ==
  /\ "stop" \in Faults
  /\ ~forbidden[vm]
  /\ forbidden' = [forbidden EXCEPT ![vm] = TRUE]
  /\ UNCHANGED <<chan, openq, wire, proto, ref, pc, mine, opens, listens>>

\* Mutant: CLOSE carries the local vchan id instead of the other end's.
CloseOwnId(vm, v) ==
  /\ chan[vm][v].open
  /\ IF chan[vm][v].dead
       THEN UNCHANGED wire
       ELSE SendUnchecked(vm, [type |-> "CLOSE", vid |-> v,
                               open |-> chan[vm][v].session, proto |-> 0])
  /\ Free(vm, v)
  /\ Refs(vm, -1)
  /\ UNCHANGED <<openq, proto, forbidden, pc, mine, opens, listens>>

(***************************************************************************)
(* hab_vchan_close of a vchan without other users.                         *)
(***************************************************************************)
Close(vm, v) ==
  /\ chan[vm][v].open
  /\ IF chan[vm][v].dead
       THEN UNCHANGED wire
       ELSE SendUnchecked(vm, [type |-> "CLOSE", vid |-> chan[vm][v].other,
                               open |-> chan[vm][v].session, proto |-> 0])
  /\ Free(vm, v)
  /\ Refs(vm, -1)
  /\ UNCHANGED <<openq, proto, forbidden, pc, mine, opens, listens>>

\* Mutant: the queued request takes no reference to the pchan.
RequestAddNoRef(vm, m) ==
  /\ openq' = [openq EXCEPT ![vm] = Append(@, m)]
  /\ UNCHANGED <<chan, ref>>

(***************************************************************************)
(* hab_open_request_add.                                                   *)
(***************************************************************************)
RequestAdd(vm, m) ==
  /\ openq' = [openq EXCEPT ![vm] = Append(@, m)]
  /\ Refs(vm, 1)
  /\ UNCHANGED chan

(***************************************************************************)
(* hab_open_receive_cancel: the INIT or INIT_ACK that is still in the      *)
(* queue is taken back (its pchan reference is not), otherwise the cancel  *)
(* is queued, without ver_proto.                                           *)
(***************************************************************************)
ReceiveCancel(vm, m) ==
  LET unserviced == {k \in DOMAIN openq[vm] :
                       /\ openq[vm][k].type \in {"INIT", "INIT_ACK"}
                       /\ openq[vm][k].open = m.open
                       /\ openq[vm][k].vid = m.vid}
  IN /\ \/ \E k \in unserviced :
             /\ \A j \in unserviced : k <= j
             /\ openq' = [openq EXCEPT ![vm] = RemoveAt(@, k)]
             /\ UNCHANGED ref
        \/ /\ unserviced = {}
           /\ openq' = [openq EXCEPT ![vm] = Append(@, [m EXCEPT !.proto = 0])]
           /\ Refs(vm, 1)
     /\ UNCHANGED chan

\* Mutant: the session id is not compared.
VchanGetAnySession(vm, m) ==
  /\ m.vid \in Vids
  /\ chan[vm][m.vid].other # 0
  /\ ~chan[vm][m.vid].dead

(***************************************************************************)
(* hab_vchan_get on the header of a CLOSE, then hab_vchan_stop.            *)
(***************************************************************************)
VchanGet(vm, m) ==
  /\ m.vid \in Vids
  /\ chan[vm][m.vid].session = m.open
  /\ chan[vm][m.vid].other # 0
  /\ ~chan[vm][m.vid].dead

ReceiveClose(vm, m) ==
  /\ chan' = IF VchanGet(vm, m) THEN [chan EXCEPT ![vm][m.vid].dead = TRUE]
                                ELSE chan
  /\ UNCHANGED <<openq, ref>>

(***************************************************************************)
(* hab_msg_recv.  Without memory a request or a cancel is lost.            *)
(***************************************************************************)
Receive(vm) ==
  /\ wire[vm] # << >>
  /\ wire' = [wire EXCEPT ![vm] = Tail(@)]
  /\ LET m == Head(wire[vm]) IN
       \/ m.type \in {"INIT", "INIT_ACK", "INIT_DONE"} /\ RequestAdd(vm, m)
       \/ m.type = "INIT_CANCEL" /\ ReceiveCancel(vm, m)
       \/ m.type = "CLOSE" /\ ReceiveClose(vm, m)
       \/ /\ "nomem" \in Faults /\ m.type # "CLOSE"
          /\ UNCHANGED <<chan, openq, ref>>
  /\ UNCHANGED <<proto, forbidden, pc, mine, opens, listens>>
-----------------------------------------------------------------------------
Frontend(t) == FrontendOpen(t) \/ FrontendOpenFail(t) \/ FrontendAck(t)
                 \/ FrontendGiveUp(t)

Backend(t) == BackendListen(t) \/ BackendListenEnd(t) \/ BackendInit(t)
                \/ BackendDone(t) \/ BackendRetry(t) \/ BackendAbort(t)

Next ==
  \/ \E t \in FeThreads : Frontend(t)
  \/ \E t \in BeThreads : Backend(t)
  \/ \E t \in Threads : ExpireRequest(t)
  \/ \E vm \in VMs : \/ Stop(vm) \/ Receive(vm)
                     \/ \E v \in Vids : Close(vm, v)

Spec == Init /\ [][Next]_vars

(***************************************************************************)
(* The receive paths run, and a waiting thread that is woken up runs.      *)
(***************************************************************************)
Fairness ==
  /\ \A vm \in VMs : WF_vars(Receive(vm))
  /\ \A t \in FeThreads : WF_vars(FrontendAck(t))
  /\ \A t \in BeThreads : WF_vars(BackendInit(t)) /\ WF_vars(BackendDone(t))

FairSpec == Spec /\ Fairness
-----------------------------------------------------------------------------
(* Properties *)

(***************************************************************************)
(* Two vchans of one session that both believe to be paired are each       *)
(* other's other end, whatever was cancelled, retried, closed and reused   *)
(* before: a message sent on the one arrives at the other.                 *)
(***************************************************************************)
Paired ==
  \A v, w \in Vids :
    /\ chan["fe"][v].session # 0 /\ chan["fe"][v].other # 0
    /\ chan["be"][w].session = chan["fe"][v].session
    => chan["fe"][v].other = w /\ chan["be"][w].other = v

(***************************************************************************)
(* The session id in the header keeps a late CLOSE away from a new vchan   *)
(* that got the old one's id (hab_vchan_get): a vchan hears that its other *)
(* end closed only when its own other end is gone.                         *)
(***************************************************************************)
DeadPeerGone ==
  \A vm \in VMs : \A v, w \in Vids :
    chan[vm][v].dead => chan[Peer(vm)][w].session # chan[vm][v].session

(***************************************************************************)
(* The pchan is not freed while a vchan, a queued request or a thread in   *)
(* the handshake refers to it (hab_pchan_get, hab_pchan_put).              *)
(***************************************************************************)
Referrers(vm) ==
  Cardinality({v \in Vids : chan[vm][v] # NoChan}) + Len(openq[vm])
    + Cardinality({t \in Threads : VM(t) = vm
                                     /\ pc[t] \in {"wait_ack", "wait_done"}})
RefsCoverUse == \A vm \in VMs : ref[vm] >= 1 + Referrers(vm)

(***************************************************************************)
(* A vchan that habmm_socket_open has returned has an other end, knows     *)
(* that it closed, or is about to hear of it.                              *)
(***************************************************************************)
HasPeer(vm, v) ==
  \/ chan[vm][v].dead
  \/ \E w \in Vids : chan[Peer(vm)][w].session = chan[vm][v].session
  \/ \E k \in DOMAIN wire[vm] : /\ wire[vm][k].type = "CLOSE"
                                /\ wire[vm][k].open = chan[vm][v].session
OpenIsMutual == \A vm \in VMs, v \in Vids : chan[vm][v].open => HasPeer(vm, v)

(***************************************************************************)
(* "FE cancels this session. So BE has to cancel its too" (hab.c:569): the *)
(* same of the back end, when the front end may cancel.                    *)
(***************************************************************************)
CancelReachesListener ==
  \A v \in Vids : chan["be"][v].open => HasPeer("be", v)

(***************************************************************************)
(* "cancel should not happen at this moment" (hab.c:488): between two VMs  *)
(* that both speak protocol 1, no handshake sets mem_proto back to 0.      *)
(***************************************************************************)
ProtocolKept ==
  [][\A vm \in VMs : proto[vm] = 1 => proto'[vm] = 1]_vars

(***************************************************************************)
(* Once a listener has answered the request of a front end, both come out  *)
(* of the handshake; there is no timeout in the way of the front end.      *)
(***************************************************************************)
HandshakeEnds ==
  /\ \A t \in BeThreads : pc[t] = "wait_done" ~> pc[t] # "wait_done"
  /\ \A t \in FeThreads :
       (pc[t] = "wait_ack" /\ \E b \in BeThreads : pc[b] = "wait_done"
                                 /\ mine[b].open = mine[t].open)
         ~> pc[t] # "wait_ack"

(***************************************************************************)
(* "add cancel to the openq to let the waiting open bail out"              *)
(* (hab_open.c:236): a front end whose open the back end has cancelled     *)
(* does not go on waiting.                                                 *)
(***************************************************************************)
CancelEndsWait ==
  \A t \in FeThreads :
    (pc[t] = "wait_ack" /\ \E k \in DOMAIN wire["fe"] :
        wire["fe"][k].type = "INIT_CANCEL" /\ wire["fe"][k].open = mine[t].open)
      ~> pc[t] # "wait_ack"
=============================================================================
