------------------------------ MODULE HabVirtio ------------------------------
(***************************************************************************)
(* The virtio front end of a pchan, hab_virtio.c: sending out of pools of  *)
(* buffers, the callback that returns sent buffers to their pool, the      *)
(* tasklet that receives, and the life of the virtqueues from probe to     *)
(* suspend and resume.                                                     *)
(*                                                                         *)
(* lock[TX] and lock[RX] are spinlocks: what happens under one of them is  *)
(* one step here.  The sequence number of a header only serves a log       *)
(* message of the other end and is left out.                               *)
(***************************************************************************)
EXTENDS HabVq

CONSTANTS
  GuestThreads,  \* threads that send
  GuestSize      \* the sizes each message of the guest may have, in the order sent

OUT_SMALL_BUF_SIZE == 512
OUT_MEDIUM_BUF_NUM == 100
OUT_LARGE_BUF_SIZE == 51200

GuestMsgs == DOMAIN GuestSize
Pools == {"s", "m", "l"}

VARIABLES
  link,     \* "null", "linked" while probe runs, "ready", "frozen"; "oops" once undefined
  list,     \* s_list, m_list, l_list: free out buffers, by pool
  inList,   \* in_list
  gpc,      \* senders: "idle", "lock", "sleep" on out_wq
  gmsg,     \* the message a sender has in hand
  gnext,    \* the next message the guest sends
  sched,    \* the tasklet is scheduled
  task,     \* the tasklet: "idle", "run", "recv", "return"
  hd,       \* the buffer the tasklet has in hand
  toGuest,  \* history: what hab_msg_recv was given
  lost,     \* history: buffers nobody will return to a pool or a queue
  gcut      \* history: a message or buffer was dropped on purpose or by an error

virtioVars == <<link, list, inList, gpc, gmsg, gnext, sched, task, hd, toGuest, lost,
                gcut>>

(***************************************************************************)
(* The pchan exists (habvirtio_pchan_create), the virtio device does not.  *)
(***************************************************************************)
VirtioInit ==
  /\ link = "null"
  /\ list = [p \in Pools |-> << >>]
  /\ inList = << >>
  /\ gpc = [t \in GuestThreads |-> "idle"]
  /\ gmsg = [t \in GuestThreads |-> NoMsg]
  /\ gnext = 1
  /\ sched = FALSE
  /\ task = "idle"
  /\ hd = NoBuf
  /\ toGuest = << >>
  /\ lost = {}
  /\ gcut = FALSE
-----------------------------------------------------------------------------
(* Probe, suspend and resume *)

PoolBufs(p) ==
  CASE p = "s" -> SmallBufs [] p = "m" -> MediumBufs [] p = "l" -> LargeBufs

(***************************************************************************)
(* virthab_probe up to virthab_init_vqs_post, which links the queues to    *)
(* the pchan: from here on senders go ahead.                               *)
(***************************************************************************)
ProbeVqs ==
  /\ link = "null"
  /\ link' = "linked"
  /\ UNCHANGED vqVars
  /\ UNCHANGED <<list, inList, gpc, gmsg, gnext, sched, task, hd, toGuest, lost, gcut>>

(***************************************************************************)
(* virthab_queue_inbufs with alloc set: init_pool_list fills the four      *)
(* lists, and all in buffers move from in_list to the queue at once.       *)
(***************************************************************************)
ProbePools ==
  /\ link = "linked"
  /\ link' = "ready"
  /\ list' = [p \in Pools |-> SetToSeq(PoolBufs(p))]
  /\ AddAndKick("rx", SetToSeq(InBufs))
  /\ fresh' = TRUE
  /\ UNCHANGED <<taken, used, notify, call, mem, mishaps>>
  /\ UNCHANGED <<inList, gpc, gmsg, gnext, sched, task, hd, toGuest, lost, gcut>>

(***************************************************************************)
(* virthab_freeze.  The power management core has frozen the senders; the  *)
(* buffers in the rings are not detached.                                  *)
(***************************************************************************)
Freeze ==
  /\ link = "ready"
  /\ Mishap
  /\ task = "idle" /\ \A t \in GuestThreads : gpc[t] = "idle"
  /\ link' = "frozen"
  /\ DelVqs
  /\ lost' = lost \cup RingBufs("tx") \cup RingBufs("rx")
  /\ gcut' = TRUE
  /\ sched' = FALSE
  /\ fresh' = FALSE
  /\ UNCHANGED mem
  /\ UNCHANGED <<list, inList, gpc, gmsg, gnext, task, hd, toGuest>>

(***************************************************************************)
(* virthab_restore: new queues, and virthab_queue_inbufs without alloc,    *)
(* which queues what is in in_list.                                        *)
(***************************************************************************)
Restore ==
  /\ link = "frozen"
  /\ link' = "ready"
  /\ AddAndKick("rx", inList)
  /\ inList' = << >>
  /\ fresh' = TRUE
  /\ UNCHANGED <<taken, used, notify, call, mem, mishaps>>
  /\ UNCHANGED <<list, gpc, gmsg, gnext, sched, task, hd, toGuest, lost, gcut>>
-----------------------------------------------------------------------------
(* physical_channel_send *)

(***************************************************************************)
(* Before the probe, or too large a message: an error, nothing is sent.    *)
(***************************************************************************)
SendRefused ==
  /\ gnext \in GuestMsgs
  /\ link = "null" \/ \E size \in GuestSize[gnext] : size > OUT_LARGE_BUF_SIZE
  /\ gnext' = gnext + 1
  /\ UNCHANGED vqVars
  /\ UNCHANGED <<link, list, inList, gpc, gmsg, sched, task, hd, toGuest, lost, gcut>>

SendStart(t) ==
  /\ gpc[t] = "idle" /\ gnext \in GuestMsgs
  /\ link \in {"linked", "ready"}
  /\ \E size \in GuestSize[gnext] :
       /\ size <= OUT_LARGE_BUF_SIZE
       /\ gmsg' = [gmsg EXCEPT ![t] = [id |-> gnext, size |-> size]]
  /\ gnext' = gnext + 1
  /\ gpc' = [gpc EXCEPT ![t] = "lock"]
  /\ UNCHANGED vqVars
  /\ UNCHANGED <<link, list, inList, sched, task, hd, toGuest, lost, gcut>>

(***************************************************************************)
(* The pool a message is sent from.  The second test compares with the     *)
(* number of medium buffers, not with their size, so it never succeeds.    *)
(***************************************************************************)
PoolOf(m) ==
  IF m.size <= OUT_SMALL_BUF_SIZE THEN "s"
  ELSE IF m.size <= OUT_MEDIUM_BUF_NUM THEN "m"
  ELSE "l"

(***************************************************************************)
(* The probe has linked the queues and not yet filled the pools: the list  *)
(* heads are zero and get_vh_buf_header follows a null pointer, under      *)
(* lock[TX] with interrupts off: the guest is taken to stop there.         *)
(***************************************************************************)
SendOops(t) ==
  /\ gpc[t] = "lock" /\ link = "linked"
  /\ link' = "oops"
  /\ UNCHANGED vqVars
  /\ UNCHANGED <<list, inList, gpc, gmsg, gnext, sched, task, hd, toGuest, lost, gcut>>

(***************************************************************************)
(* get_vh_buf_header finds the list empty and waits without the lock.      *)
(***************************************************************************)
SendSleep(t) ==
  /\ gpc[t] = "lock" /\ link = "ready"
  /\ list[PoolOf(gmsg[t])] = << >>
  /\ gpc' = [gpc EXCEPT ![t] = "sleep"]
  /\ UNCHANGED vqVars
  /\ UNCHANGED <<link, list, inList, gmsg, gnext, sched, task, hd, toGuest, lost, gcut>>

(***************************************************************************)
(* It finds a buffer, which is filled and queued.  When the ring is full   *)
(* the buffer is not returned to its list; the caller gets 0 either way.   *)
(***************************************************************************)
SendQueue(t) ==
  LET p == PoolOf(gmsg[t])
      b == Head(list[p])
  IN
  /\ gpc[t] = "lock" /\ link = "ready"
  /\ list[p] # << >>
  /\ list' = [list EXCEPT ![p] = Tail(@)]
  /\ mem' = [mem EXCEPT ![b] = gmsg[t].id]
  /\ \/ /\ ~VringFull("tx")
        /\ AddAndKick("tx", <<b>>)
        /\ UNCHANGED <<lost, gcut>>
     \/ /\ VringFull("tx")
        /\ lost' = lost \cup {b}
        /\ gcut' = TRUE
        /\ UNCHANGED <<avail, kick>>
  /\ gpc' = [gpc EXCEPT ![t] = "idle"]
  /\ gmsg' = [gmsg EXCEPT ![t] = NoMsg]
  /\ UNCHANGED <<taken, used, notify, call, fresh, mishaps>>
  /\ UNCHANGED <<link, inList, gnext, sched, task, hd, toGuest>>

(***************************************************************************)
(* The buffers of s that belong to the pool p, in their order.             *)
(***************************************************************************)
OfPool(p, s) == SubseqAt(s, {i \in DOMAIN s : s[i] \in PoolBufs(p)})

\* Mutant: no wake_up.
RecvTxqNoWake ==
  /\ call["tx"] /\ link = "ready"
  /\ call' = [call EXCEPT !["tx"] = FALSE]
  /\ used' = [used EXCEPT !["tx"] = << >>]
  /\ list' = [p \in Pools |-> list[p] \o OfPool(p, used["tx"])]
  /\ mem' = [b \in Bufs |-> IF b \in ToSet(used["tx"]) THEN NoMsg ELSE mem[b]]
  /\ UNCHANGED <<avail, taken, notify, kick, fresh, mishaps>>
  /\ UNCHANGED <<link, inList, gpc, gmsg, gnext, sched, task, hd, toGuest, lost, gcut>>

(***************************************************************************)
(* virthab_recv_txq: all used out buffers return, empty, to the list of    *)
(* their pool, and wake_up lets every sleeper look again at its own list.  *)
(***************************************************************************)
RecvTxq ==
  /\ call["tx"] /\ link = "ready"
  /\ call' = [call EXCEPT !["tx"] = FALSE]
  /\ used' = [used EXCEPT !["tx"] = << >>]
  /\ list' = [p \in Pools |-> list[p] \o OfPool(p, used["tx"])]
  /\ gpc' = [t \in GuestThreads |->
               IF gpc[t] = "sleep" /\ list'[PoolOf(gmsg[t])] # << >>
               THEN "lock" ELSE gpc[t]]
  /\ mem' = [b \in Bufs |-> IF b \in ToSet(used["tx"]) THEN NoMsg ELSE mem[b]]
  /\ UNCHANGED <<avail, taken, notify, kick, fresh, mishaps>>
  /\ UNCHANGED <<link, inList, gmsg, gnext, sched, task, hd, toGuest, lost, gcut>>
-----------------------------------------------------------------------------
(* Receiving *)

(***************************************************************************)
(* virthab_recv_rxq_task, the callback of the rx queue.                    *)
(***************************************************************************)
RecvRxqTask ==
  /\ call["rx"] /\ link = "ready"
  /\ call' = [call EXCEPT !["rx"] = FALSE]
  /\ sched' = TRUE
  /\ UNCHANGED <<avail, taken, used, notify, kick, mem, fresh, mishaps>>
  /\ UNCHANGED <<link, list, inList, gpc, gmsg, gnext, task, hd, toGuest, lost, gcut>>

(***************************************************************************)
(* virthab_recv_rxq.  A tasklet runs once at a time and again if it was    *)
(* scheduled meanwhile.  It takes a buffer under lock[RX], hands it to     *)
(* hab_msg_recv without the lock, and makes it available again.            *)
(***************************************************************************)
RxRun ==
  /\ sched /\ task = "idle"
  /\ sched' = FALSE
  /\ task' = "run"
  /\ UNCHANGED vqVars
  /\ UNCHANGED <<link, list, inList, gpc, gmsg, gnext, hd, toGuest, lost, gcut>>

(***************************************************************************)
(* physical_channel_rx_dispatch: a thread in hab_vchan_recv polls, which   *)
(* schedules the tasklet.                                                  *)
(***************************************************************************)
RxDispatch ==
  /\ link = "ready" /\ task = "idle"
  /\ task' = "run"
  /\ UNCHANGED vqVars
  /\ UNCHANGED <<link, list, inList, gpc, gmsg, gnext, sched, hd, toGuest, lost, gcut>>

\* Mutant: the buffer returns to the queue before it was consumed.
RxGetReturns ==
  /\ task = "run" /\ used["rx"] # << >>
  /\ hd' = Head(used["rx"])
  /\ used' = [used EXCEPT !["rx"] = Tail(@)]
  /\ AddAndKick("rx", <<Head(used["rx"])>>)
  /\ task' = "recv"
  /\ UNCHANGED <<taken, notify, call, mem, fresh, mishaps>>
  /\ UNCHANGED <<link, list, inList, gpc, gmsg, gnext, sched, toGuest, lost, gcut>>

RxGet ==
  /\ task = "run"
  /\ \/ /\ used["rx"] = << >>
        /\ task' = "idle"
        /\ UNCHANGED <<used, hd>>
     \/ /\ used["rx"] # << >>
        /\ hd' = Head(used["rx"])
        /\ used' = [used EXCEPT !["rx"] = Tail(@)]
        /\ task' = "recv"
  /\ UNCHANGED <<avail, taken, notify, kick, call, mem, fresh, mishaps>>
  /\ UNCHANGED <<link, list, inList, gpc, gmsg, gnext, sched, toGuest, lost, gcut>>

RxRecv ==
  /\ task = "recv"
  /\ toGuest' = Append(toGuest, mem[hd])
  /\ task' = "return"
  /\ UNCHANGED vqVars
  /\ UNCHANGED <<link, list, inList, gpc, gmsg, gnext, sched, hd, lost, gcut>>

RxReturn ==
  /\ task = "return"
  /\ AddAndKick("rx", <<hd>>)
  /\ mem' = [mem EXCEPT ![hd] = NoMsg]
  /\ hd' = NoBuf
  /\ task' = "run"
  /\ UNCHANGED <<taken, used, notify, call, fresh, mishaps>>
  /\ UNCHANGED <<link, list, inList, gpc, gmsg, gnext, sched, toGuest, lost, gcut>>
-----------------------------------------------------------------------------
(***************************************************************************)
(* hab_stat_log asks both queues for a used buffer, without their locks,   *)
(* and prints its length.                                                  *)
(***************************************************************************)
StatLog ==
  LET fetched(q) == IF used[q] = << >> THEN {} ELSE {Head(used[q])} IN
  /\ link = "ready"
  /\ Mishap
  /\ used' = [q \in Queues |-> IF used[q] = << >> THEN << >> ELSE Tail(used[q])]
  /\ lost' = lost \cup fetched("tx") \cup fetched("rx")
  /\ gcut' = (gcut \/ fetched("tx") \cup fetched("rx") # {})
  /\ UNCHANGED <<avail, taken, notify, kick, call, mem, fresh>>
  /\ UNCHANGED <<link, list, inList, gpc, gmsg, gnext, sched, task, hd, toGuest>>
-----------------------------------------------------------------------------
VirtioSend(t) == SendOops(t) \/ SendSleep(t) \/ SendQueue(t)
VirtioTasklet == RxRun \/ RxGet \/ RxRecv \/ RxReturn

VirtioNext ==
  \/ ProbeVqs \/ ProbePools \/ Restore
  \/ SendRefused
  \/ \E t \in GuestThreads : SendStart(t) \/ VirtioSend(t)
  \/ RecvTxq \/ RecvRxqTask \/ RxDispatch
  \/ VirtioTasklet
  \/ StatLog

VirtioFair ==
  /\ WF_<<vqVars, virtioVars>>(RecvTxq)
  /\ WF_<<vqVars, virtioVars>>(RecvRxqTask)
  /\ WF_<<vqVars, virtioVars>>(VirtioTasklet)
  /\ \A t \in GuestThreads : WF_<<vqVars, virtioVars>>(VirtioSend(t))

VirtioTypeOK ==
  /\ link \in {"null", "linked", "ready", "frozen", "oops"}
  /\ list \in [Pools -> Seq(OutBufs)]
  /\ inList \in Seq(InBufs)
  /\ gpc \in [GuestThreads -> {"idle", "lock", "sleep"}]
  /\ gmsg \in [GuestThreads -> [id : GuestMsgs, size : UNION Range(GuestSize)] \cup {NoMsg}]
  /\ gnext \in 1 .. Len(GuestSize) + 1
  /\ sched \in BOOLEAN
  /\ task \in {"idle", "run", "recv", "return"}
  /\ hd \in InBufs \cup {NoBuf}
  /\ lost \subseteq Bufs
  /\ gcut \in BOOLEAN
=============================================================================
