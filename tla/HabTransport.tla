----------------------------- MODULE HabTransport ----------------------------
(***************************************************************************)
(* The front end and the back end of a pchan, joined by their virtqueues,  *)
(* and what happens to both when the guest suspends or is started again.   *)
(***************************************************************************)
EXTENDS HabVirtio, HabVhost

vars == <<vqVars, virtioVars, vhostVars>>

ASSUME TransportAssumption ==
  /\ IsFiniteSet(Bufs) /\ NoBuf \notin Bufs
  /\ InBufs \cap OutBufs = {}
  /\ SmallBufs \cap MediumBufs = {} /\ (SmallBufs \cup MediumBufs) \cap LargeBufs = {}
  /\ TxVringSize \in Nat \ {0}
  /\ {MaxMishaps, MaxDevOpens, MaxResets, MaxVOpens} \subseteq Nat
  /\ GuestSize \in Seq(SUBSET Nat) /\ HostSize \in Seq(Nat)

TypeOK ==
  /\ VqTypeOK /\ VirtioTypeOK /\ VhostTypeOK
  /\ mem \in [Bufs -> GuestMsgs \cup HostMsgs \cup {NoMsg}]
  /\ toGuest \in Seq(HostMsgs) /\ toHost \in Seq(GuestMsgs)

Init == VqInit /\ VirtioInit /\ VhostInit

(***************************************************************************)
(* The host does not touch the rings: the VMM stops the device before the  *)
(* guest that drops its rings goes on.                                     *)
(***************************************************************************)
HostStopped == (\A q \in Queues : ~priv[q]) /\ reset = "no"

GuestFreeze == HostStopped /\ Freeze /\ UNCHANGED vhostVars

(***************************************************************************)
(* The guest is started again: its memory is new, the host's state stays.  *)
(***************************************************************************)
Reboot ==
  /\ HostStopped /\ link # "null"
  /\ Mishap
  /\ DelVqs
  /\ mem' = [b \in Bufs |-> NoMsg]
  /\ fresh' = FALSE
  /\ link' = "null"
  /\ list' = [p \in Pools |-> << >>]
  /\ inList' = << >>
  /\ gpc' = [t \in GuestThreads |-> "idle"]
  /\ gmsg' = [t \in GuestThreads |-> NoMsg]
  /\ sched' = FALSE /\ task' = "idle" /\ hd' = NoBuf
  /\ lost' = {}
  /\ gcut' = TRUE
  /\ UNCHANGED <<gnext, toGuest>>
  /\ UNCHANGED vhostVars

Next ==
  \/ VirtioNext /\ UNCHANGED vhostVars
  \/ VhostNext /\ UNCHANGED virtioVars
  \/ GuestFreeze
  \/ Reboot

Spec == Init /\ [][Next]_vars
FairSpec == Spec /\ VirtioFair /\ VhostFair
-----------------------------------------------------------------------------
(* Properties *)

(***************************************************************************)
(* Every buffer of the guest is in exactly one place: free in the list of  *)
(* its pool, in one of the queues, with the host, in the hand of the       *)
(* tasklet, or lost to an error.  A buffer in two places would be filled   *)
(* by one side while the other reads it; one in none is gone for good      *)
(* (get_vh_buf_header, virthab_recv_txq, virthab_recv_rxq, rx_worker).     *)
(***************************************************************************)
Out == list["s"] \o list["m"] \o list["l"]
       \o avail["tx"] \o taken["tx"] \o used["tx"]
In == inList \o avail["rx"] \o taken["rx"] \o used["rx"]
      \o (IF hd = NoBuf THEN << >> ELSE <<hd>>)

BufferInOnePlace ==
  /\ IsInjective(Out \o In \o SetToSeq(lost))
  /\ link \in {"ready", "frozen"} =>
       /\ ToSet(Out) = OutBufs \ lost /\ ToSet(In) = InBufs \ lost
       /\ \A p \in Pools : ToSet(list[p]) \subseteq PoolBufs(p)

(***************************************************************************)
(* Once its private_data is cleared, the host neither takes buffers from a *)
(* queue nor returns any (vhost_hab_stop_vq against the workers): the      *)
(* guest may reuse the memory.                                             *)
(***************************************************************************)
StoppedStaysOut ==
  [][\A q \in Queues :
       ~priv[q] => Len(taken'[q]) <= Len(taken[q]) /\ Len(used'[q]) <= Len(used[q])]_vars

(***************************************************************************)
(* Messages to the host and to the guest arrive in order and once,         *)
(* whatever the senders, callbacks, workers and polls do at the same time; *)
(* they may be missing only after a suspend, a restart, a full ring or a   *)
(* read of the statistics.                                                 *)
(***************************************************************************)
Contents(s) == [i \in DOMAIN s |-> mem[s[i]]]

ToHost == INSTANCE HabChannel WITH
  Msgs <- GuestMsgs, got <- toHost, cut <- gcut,
  queue <- Contents((IF wk = "tx_recv" THEN taken["tx"] ELSE << >>) \o avail["tx"])

ToGuest == INSTANCE HabChannel WITH
  Msgs <- HostMsgs, got <- toGuest, cut <- gcut,
  queue <- Contents((IF task = "recv" THEN <<hd>> ELSE << >>) \o used["rx"]) \o sendList

HostGetsInOrder == ToHost!Spec
GuestGetsInOrder == ToGuest!Spec

(***************************************************************************)
(* While the device is started the send list does not stall: neither       *)
(* messages queued before the start, nor while no in buffer was available, *)
(* nor while the worker was finishing are forgotten.  Excepted are a fault *)
(* on guest memory, after which the host keeps the buffer and ends the     *)
(* round, and a guest that lost all its in buffers.                        *)
(***************************************************************************)
Faulted == wk # "rx_fill" /\ taken["rx"] # << >>

SendListDrains ==
  started /\ sendList # << >>
    ~> sendList = << >> \/ ~started \/ InBufs \subseteq lost \/ Faulted

(***************************************************************************)
(* The tx queue of a started device is emptied although the guest is asked *)
(* not to kick while the worker runs (vhost_disable_notify).               *)
(***************************************************************************)
TxDrains == started /\ avail["tx"] # << >> ~> avail["tx"] = << >> \/ ~started

(***************************************************************************)
(* What was put in the rx queue is received, also when the device stops:   *)
(* the worker signals the buffers it has added (rx_worker, hab_vhost.c).   *)
(***************************************************************************)
RxDrains == used["rx"] # << >> ~> used["rx"] = << >>

(***************************************************************************)
(* A sender that waits for an out buffer does not wait forever, unless the *)
(* host stops or all buffers of its pool are lost (get_vh_buf_header).     *)
(***************************************************************************)
SenderWakes ==
  \A t \in GuestThreads :
    gpc[t] = "sleep"
      ~> gpc[t] # "sleep" \/ ~started \/ PoolBufs(PoolOf(gmsg[t])) \subseteq lost

(***************************************************************************)
(* VHOST_RESET_OWNER ends, provided that every vchan that can become or is *)
(* open was told to stop: the open that fails on a closed pchan, the one   *)
(* that times out and the application that closes all let it go on         *)
(* (vhost_hab_reset_owner, hab_vchans_empty_wait_pchan).                   *)
(***************************************************************************)
AllTold == \A v \in Vchans : vch[v] \in {"ack", "open"} => vstop[v]

ResetEnds == reset = "wait" /\ AllTold ~> reset = "no"

(***************************************************************************)
(* "hab driver is expecting BEs to close all the vchans": every vchan that *)
(* the reset waits for has been told.                                      *)
(***************************************************************************)
ResetTellsAll == reset = "wait" => AllTold
=============================================================================
