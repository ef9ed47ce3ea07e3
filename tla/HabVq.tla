-------------------------------- MODULE HabVq --------------------------------
(***************************************************************************)
(* The two virtqueues of a pchan, as hab_virtio.c and hab_vhost.c use them.*)
(* The queues themselves are code of the kernel (virtio_ring.c, vhost.c),  *)
(* so everything here is external; names of the kernel are kept.           *)
(*                                                                         *)
(* "tx" carries messages from the guest to the host, "rx" from the host to *)
(* the guest.  The guest makes buffers available in both; the host takes   *)
(* an available buffer, reads or fills it and returns it as used.          *)
(***************************************************************************)
EXTENDS HabSeq, SequencesExt

CONSTANTS
  InBufs, SmallBufs, MediumBufs, LargeBufs,  \* the four pools of the guest
  TxVringSize,                               \* descriptors of the tx ring
  MaxMishaps,  \* bound: suspends, restarts, statistics reads and faults together
  NoBuf, NoMsg

Queues == {"tx", "rx"}
OutBufs == SmallBufs \cup MediumBufs \cup LargeBufs
Bufs == InBufs \cup OutBufs

VARIABLES
  avail,   \* buffers the guest made available, by queue
  taken,   \* buffers the host has taken and not returned, the last one in hand
  used,    \* buffers the host returned and the guest has not fetched
  notify,  \* the host wants to be kicked
  kick,    \* the guest kicked and the host has not started to look
  call,    \* the host signalled and the guest's callback has not run
  mem,     \* the message in each buffer
  fresh,   \* the rings were set up and the host has not given them up yet
  mishaps  \* suspends, restarts, statistics reads and faults so far

vqVars == <<avail, taken, used, notify, kick, call, mem, fresh, mishaps>>

VqInit ==
  /\ avail = [q \in Queues |-> << >>]
  /\ taken = [q \in Queues |-> << >>]
  /\ used = [q \in Queues |-> << >>]
  /\ notify = [q \in Queues |-> TRUE]
  /\ kick = [q \in Queues |-> FALSE]
  /\ call = [q \in Queues |-> FALSE]
  /\ mem = [b \in Bufs |-> NoMsg]
  /\ fresh = FALSE
  /\ mishaps = 0

VqTypeOK ==
  /\ avail \in [Queues -> Seq(Bufs)]
  /\ taken \in [Queues -> Seq(Bufs)]
  /\ used \in [Queues -> Seq(Bufs)]
  /\ notify \in [Queues -> BOOLEAN]
  /\ kick \in [Queues -> BOOLEAN]
  /\ call \in [Queues -> BOOLEAN]
  /\ fresh \in BOOLEAN
  /\ mishaps \in 0 .. MaxMishaps
-----------------------------------------------------------------------------
(* The guest's side *)

(***************************************************************************)
(* virtqueue_add_inbuf or _outbuf of the buffers s, then virtqueue_kick,   *)
(* which signals only if the host asked for it.                            *)
(***************************************************************************)
AddAndKick(q, s) ==
  /\ avail' = [avail EXCEPT ![q] = @ \o s]
  /\ kick' = [kick EXCEPT ![q] = @ \/ notify[q]]

VringFull(q) ==
  Len(avail[q]) + Len(taken[q]) + Len(used[q]) >= TxVringSize

(***************************************************************************)
(* virtio_find_vqs makes rings, del_vqs drops them with what is in them.   *)
(***************************************************************************)
RingBufs(q) == ToSet(avail[q]) \cup ToSet(taken[q]) \cup ToSet(used[q])

DelVqs ==
  /\ avail' = [q \in Queues |-> << >>]
  /\ taken' = [q \in Queues |-> << >>]
  /\ used' = [q \in Queues |-> << >>]
  /\ notify' = [q \in Queues |-> TRUE]
  /\ kick' = [q \in Queues |-> FALSE]
  /\ call' = [q \in Queues |-> FALSE]
-----------------------------------------------------------------------------
(* The host's side *)

(***************************************************************************)
(* vhost_get_vq_desc of a queue that is not empty.                         *)
(***************************************************************************)
TakeDesc(q) ==
  /\ avail' = [avail EXCEPT ![q] = Tail(@)]
  /\ taken' = [taken EXCEPT ![q] = Append(@, Head(avail[q]))]

(***************************************************************************)
(* vhost_add_used of the buffer in hand.                                   *)
(***************************************************************************)
InHand(q) == Last(taken[q])

AddUsed(q) ==
  /\ taken' = [taken EXCEPT ![q] = Front(@)]
  /\ used' = [used EXCEPT ![q] = Append(@, InHand(q))]

SetNotify(q, on) == notify' = [notify EXCEPT ![q] = on]
VhostSignal(q) == call' = [call EXCEPT ![q] = TRUE]

Mishap == mishaps < MaxMishaps /\ mishaps' = mishaps + 1
=============================================================================
