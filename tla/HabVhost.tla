------------------------------- MODULE HabVhost ------------------------------
(***************************************************************************)
(* The vhost back end of a pchan, hab_vhost.c: the worker that receives    *)
(* from the tx queue and feeds the rx queue from the send list, sending,   *)
(* and the device file by which the virtual machine monitor (VMM) opens,   *)
(* starts, resets and releases the device.  The vchans of the pchan are    *)
(* here as far as the reset waits for them (hab_vchan.c, hab.c).           *)
(*                                                                         *)
(* A device has one worker thread, which runs one work at a time and holds *)
(* vq->mutex over it; vhost_hab_stop_vq and the flush wait for its end.    *)
(***************************************************************************)
EXTENDS HabVq

CONSTANTS
  HostThreads,  \* threads that send
  HostSize,     \* sizes of the host's messages, in the order they are tried
  Vchans,       \* vchans that back end applications may have open
  MaxDevOpens,  \* bound: opens of the device file
  MaxResets,    \* bound: VHOST_RESET_OWNER
  MaxVOpens     \* bound: vchans opened

IN_BUF_SIZE == 5120
HAB_HEADER_SIZE == 20   \* sizeof(struct hab_header)

HostMsgs == DOMAIN HostSize

VARIABLES
  dev,       \* "none" or "open": a struct vhost_hab_dev has the pchan
  priv,      \* vq->private_data is set, by queue
  started,   \* vh_dev->started
  otherend,  \* pchan->otherend_closed
  sendList,  \* send_list
  work,      \* rx_send_work is queued
  wk,        \* the worker: "idle", or what it does next
  added,     \* rx_worker returned buffers in this round
  hpc,       \* senders: "idle", "queue", "oops" once undefined
  hmsg,      \* the message a sender has in hand
  hnext,     \* the next message the host sends
  reset,     \* vhost_hab_reset_owner: "no", "close", "wait", "end"
  vch,       \* vchans: "none", "alloc", "ack" sent and INIT_DONE awaited, "open"
  vstop,     \* vchan->otherend_closed
  toHost,    \* history: what hab_msg_recv was given
  devOpens, resets, vOpens

vhostVars == <<dev, priv, started, otherend, sendList, work, wk, added, hpc, hmsg, hnext,
               reset, vch, vstop, toHost, devOpens, resets, vOpens>>

(***************************************************************************)
(* After habhyp_commdev_alloc: "pchan will not work until                  *)
(* vhost_dev_start_pchans is called".                                      *)
(***************************************************************************)
VhostInit ==
  /\ dev = "none"
  /\ priv = [q \in Queues |-> FALSE]
  /\ started = FALSE
  /\ otherend = TRUE
  /\ sendList = << >>
  /\ work = FALSE
  /\ wk = "idle"
  /\ added = FALSE
  /\ hpc = [t \in HostThreads |-> "idle"]
  /\ hmsg = [t \in HostThreads |-> NoMsg]
  /\ hnext = 1
  /\ reset = "no"
  /\ vch = [v \in Vchans |-> "none"]
  /\ vstop = [v \in Vchans |-> FALSE]
  /\ toHost = << >>
  /\ devOpens = 0 /\ resets = 0 /\ vOpens = 0

devVars == <<dev, priv, started, otherend, reset, devOpens, resets>>
workerVars == <<wk, added, toHost>>
sendVars == <<hpc, hmsg, hnext>>
vchanVars == <<vch, vstop, vOpens>>
-----------------------------------------------------------------------------
(* tx_worker, called for a kick of the tx queue and for tx_recv_work *)

(***************************************************************************)
(* A work that finds no private_data is dropped.                           *)
(***************************************************************************)
TxWork ==
  /\ wk = "idle" /\ dev = "open"
  /\ kick["tx"] /\ kick' = [kick EXCEPT !["tx"] = FALSE]
  /\ \/ ~priv["tx"] /\ UNCHANGED <<notify, wk>>
     \/ priv["tx"] /\ SetNotify("tx", FALSE) /\ wk' = "tx_get"
  /\ UNCHANGED <<avail, taken, used, call, mem, fresh, mishaps>>
  /\ UNCHANGED <<devVars, sendVars, vchanVars, sendList, work, added, toHost>>

(***************************************************************************)
(* physical_channel_rx_dispatch: a thread in hab_vchan_recv polls, which   *)
(* queues tx_recv_work for the same worker.                                *)
(***************************************************************************)
HostDispatch ==
  /\ wk = "idle" /\ dev = "open" /\ priv["tx"]
  /\ SetNotify("tx", FALSE)
  /\ wk' = "tx_get"
  /\ UNCHANGED <<avail, taken, used, kick, call, mem, fresh, mishaps>>
  /\ UNCHANGED <<devVars, sendVars, vchanVars, sendList, work, added, toHost>>

TxGet ==
  /\ wk = "tx_get"
  /\ \/ /\ avail["tx"] # << >>
        /\ TakeDesc("tx")
        /\ wk' = "tx_recv"
     \/ avail["tx"] = << >> /\ wk' = "tx_recheck" /\ UNCHANGED <<avail, taken>>
  /\ UNCHANGED <<used, notify, kick, call, mem, fresh, mishaps>>
  /\ UNCHANGED <<devVars, sendVars, vchanVars, sendList, work, added, toHost>>

\* Mutant: vhost_enable_notify's answer is ignored.
TxRecheckNot ==
  /\ wk = "tx_recheck"
  /\ wk' = "idle" /\ SetNotify("tx", TRUE)
  /\ UNCHANGED <<avail, taken, used, kick, call, mem, fresh, mishaps>>
  /\ UNCHANGED <<devVars, sendVars, vchanVars, sendList, work, added, toHost>>

(***************************************************************************)
(* vhost_enable_notify asks for kicks and looks again; if there is a       *)
(* buffer now, vhost_disable_notify and another round.                     *)
(***************************************************************************)
TxRecheck ==
  /\ wk = "tx_recheck"
  /\ \/ avail["tx"] # << >> /\ wk' = "tx_get" /\ UNCHANGED notify
     \/ avail["tx"] = << >> /\ wk' = "idle" /\ SetNotify("tx", TRUE)
  /\ UNCHANGED <<avail, taken, used, kick, call, mem, fresh, mishaps>>
  /\ UNCHANGED <<devVars, sendVars, vchanVars, sendList, work, added, toHost>>

TxRecv ==
  /\ wk = "tx_recv"
  /\ toHost' = Append(toHost, mem[InHand("tx")])
  /\ wk' = "tx_used"
  /\ UNCHANGED vqVars
  /\ UNCHANGED <<devVars, sendVars, vchanVars, sendList, work, added>>

\* Mutant: past the weight the buffer in hand is given back to the queue.
TxUsedDiscard ==
  /\ wk = "tx_used"
  /\ \/ AddUsed("tx") /\ VhostSignal("tx") /\ wk' = "tx_get" /\ UNCHANGED <<avail, kick>>
     \/ /\ wk' = "idle" /\ kick' = [kick EXCEPT !["tx"] = TRUE]
        /\ avail' = [avail EXCEPT !["tx"] = <<InHand("tx")>> \o @]
        /\ taken' = [taken EXCEPT !["tx"] = Front(@)]
        /\ UNCHANGED <<used, call>>
  /\ UNCHANGED <<notify, mem, fresh, mishaps>>
  /\ UNCHANGED <<devVars, sendVars, vchanVars, sendList, work, added, toHost>>

(***************************************************************************)
(* vhost_add_used_and_signal; past VHOST_HAB_WEIGHT bytes the worker stops *)
(* and vhost_exceeds_weight has queued the work again.                     *)
(***************************************************************************)
TxUsed ==
  /\ wk = "tx_used"
  /\ AddUsed("tx")
  /\ VhostSignal("tx")
  /\ \/ wk' = "tx_get" /\ UNCHANGED kick
     \/ wk' = "idle" /\ kick' = [kick EXCEPT !["tx"] = TRUE]
  /\ UNCHANGED <<avail, notify, mem, fresh, mishaps>>
  /\ UNCHANGED <<devVars, sendVars, vchanVars, sendList, work, added, toHost>>
-----------------------------------------------------------------------------
(* rx_worker, called for a kick of the rx queue and for rx_send_work *)

RxWork ==
  /\ wk = "idle" /\ dev = "open"
  /\ \/ kick["rx"] /\ kick' = [kick EXCEPT !["rx"] = FALSE] /\ UNCHANGED work
     \/ work /\ work' = FALSE /\ UNCHANGED kick
  /\ \/ ~priv["rx"] /\ UNCHANGED <<notify, wk, added>>
     \/ priv["rx"] /\ SetNotify("rx", FALSE) /\ wk' = "rx_next"
  /\ UNCHANGED <<avail, taken, used, call, mem, fresh, mishaps>>
  /\ UNCHANGED <<devVars, sendVars, vchanVars, sendList, added, toHost>>

\* Mutant: no vhost_signal.
RxEndQuiet == wk' = "idle" /\ added' = FALSE /\ UNCHANGED call

(***************************************************************************)
(* The end of rx_worker.                                                   *)
(***************************************************************************)
RxEnd ==
  /\ wk' = "idle"
  /\ call' = [call EXCEPT !["rx"] = @ \/ added]
  /\ added' = FALSE

(***************************************************************************)
(* The first message of the list and a buffer for it, get_rx_buf_locked.   *)
(***************************************************************************)
RxNext ==
  /\ wk = "rx_next"
  /\ \/ sendList = << >> /\ RxEnd /\ UNCHANGED <<avail, taken>>
     \/ /\ sendList # << >> /\ avail["rx"] # << >>
        /\ TakeDesc("rx")
        /\ wk' = "rx_fill"
        /\ UNCHANGED <<call, added>>
     \/ /\ sendList # << >> /\ avail["rx"] = << >>
        /\ wk' = "rx_recheck"
        /\ UNCHANGED <<avail, taken, call, added>>
  /\ UNCHANGED <<used, notify, kick, mem, fresh, mishaps>>
  /\ UNCHANGED <<devVars, sendVars, vchanVars, sendList, work, toHost>>

\* Mutant: vhost_enable_notify's answer is ignored.
RxRecheckNot ==
  /\ wk = "rx_recheck"
  /\ RxEnd /\ SetNotify("rx", TRUE)
  /\ UNCHANGED <<avail, taken, used, kick, mem, fresh, mishaps>>
  /\ UNCHANGED <<devVars, sendVars, vchanVars, sendList, work, toHost>>

RxRecheck ==
  /\ wk = "rx_recheck"
  /\ \/ avail["rx"] # << >> /\ wk' = "rx_next" /\ UNCHANGED <<notify, call, added>>
     \/ avail["rx"] = << >> /\ RxEnd /\ SetNotify("rx", TRUE)
  /\ UNCHANGED <<avail, taken, used, kick, mem, fresh, mishaps>>
  /\ UNCHANGED <<devVars, sendVars, vchanVars, sendList, work, toHost>>

\* Mutant: the message is not deleted from the list.
RxFillKeeps ==
  /\ wk = "rx_fill"
  /\ mem' = [mem EXCEPT ![InHand("rx")] = Head(sendList)]
  /\ AddUsed("rx")
  /\ added' = TRUE
  /\ wk' = "rx_next"
  /\ UNCHANGED <<avail, notify, kick, call, fresh, mishaps>>
  /\ UNCHANGED <<devVars, sendVars, vchanVars, sendList, work, toHost>>

(***************************************************************************)
(* rx_send_one_node_locked fills the buffer and returns it, rx_worker      *)
(* deletes the message from the list.  physical_channel_send admits only   *)
(* messages that fit in one buffer.                                        *)
(***************************************************************************)
RxFill ==
  /\ wk = "rx_fill"
  /\ mem' = [mem EXCEPT ![InHand("rx")] = Head(sendList)]
  /\ AddUsed("rx")
  /\ sendList' = Tail(sendList)
  /\ added' = TRUE
  /\ wk' = "rx_next"
  /\ UNCHANGED <<avail, notify, kick, call, fresh, mishaps>>
  /\ UNCHANGED <<devVars, sendVars, vchanVars, work, toHost>>

(***************************************************************************)
(* The copy to guest memory fails: the message stays first in the list,    *)
(* the buffer is not returned and the worker ends.                         *)
(***************************************************************************)
RxFault ==
  /\ wk = "rx_fill"
  /\ Mishap
  /\ RxEnd
  /\ UNCHANGED <<avail, taken, used, notify, kick, mem, fresh>>
  /\ UNCHANGED <<devVars, sendVars, vchanVars, sendList, work, toHost>>
-----------------------------------------------------------------------------
(* physical_channel_send *)

(***************************************************************************)
(* Refused: the pchan is closed or the message does not fit.  A failed     *)
(* allocation leaves no trace either and is left out.                      *)
(***************************************************************************)
HostRefused ==
  /\ hnext \in HostMsgs
  /\ otherend \/ HostSize[hnext] > IN_BUF_SIZE - HAB_HEADER_SIZE
  /\ hnext' = hnext + 1
  /\ UNCHANGED vqVars
  /\ UNCHANGED <<devVars, workerVars, vchanVars, sendList, work, hpc, hmsg>>

HostSend(t) ==
  /\ hpc[t] = "idle" /\ hnext \in HostMsgs
  /\ ~otherend /\ HostSize[hnext] <= IN_BUF_SIZE - HAB_HEADER_SIZE
  /\ hnext' = hnext + 1
  /\ hmsg' = [hmsg EXCEPT ![t] = hnext]
  /\ hpc' = [hpc EXCEPT ![t] = "queue"]
  /\ UNCHANGED vqVars
  /\ UNCHANGED <<devVars, workerVars, vchanVars, sendList, work>>

(***************************************************************************)
(* The message goes to the list and the work to the device of the queue,   *)
(* which is freed memory once the device is released.                      *)
(***************************************************************************)
HostQueue(t) ==
  /\ hpc[t] = "queue"
  /\ sendList' = Append(sendList, hmsg[t])
  /\ hmsg' = [hmsg EXCEPT ![t] = NoMsg]
  /\ \/ dev = "open" /\ work' = TRUE /\ hpc' = [hpc EXCEPT ![t] = "idle"]
     \/ dev = "none" /\ UNCHANGED work /\ hpc' = [hpc EXCEPT ![t] = "oops"]
  /\ UNCHANGED vqVars
  /\ UNCHANGED <<devVars, workerVars, vchanVars, hnext>>
-----------------------------------------------------------------------------
(* The device file *)

(***************************************************************************)
(* vhost_hab_open: the pchan moves from the global list to the device.     *)
(***************************************************************************)
DevOpen ==
  /\ dev = "none" /\ devOpens < MaxDevOpens
  /\ dev' = "open"
  /\ devOpens' = devOpens + 1
  /\ work' = FALSE
  /\ UNCHANGED vqVars
  /\ UNCHANGED <<workerVars, sendVars, vchanVars, priv, started, otherend, reset, resets,
                 sendList>>

(***************************************************************************)
(* The default branch of vhost_hab_ioctl once the VMM has set the owner,   *)
(* the rings and the event descriptors: vhost_hab_dev_start_pchans, then   *)
(* vhost_hab_run.  The queues in "bad" are not accessible yet; another     *)
(* ioctl tries them again.                                                 *)
(***************************************************************************)
Ioctl(bad) ==
  LET on == [q \in Queues |-> priv[q] \/ q \notin bad]
      all == \A q \in Queues : on[q]
  IN
  /\ dev = "open" /\ reset = "no" /\ fresh
  /\ otherend' = FALSE
  /\ \/ started /\ UNCHANGED <<priv, started, kick>>
     \/ /\ ~started
        /\ priv' = on
        /\ started' = all
        /\ kick' = [q \in Queues |-> kick[q] \/ all]
  /\ UNCHANGED <<avail, taken, used, notify, call, mem, fresh, mishaps>>
  /\ UNCHANGED <<workerVars, sendVars, vchanVars, dev, reset, devOpens, resets, sendList,
                 work>>

\* Mutant: private_data is cleared without vq->mutex, and no flush.
StopNoFlush ==
  /\ priv' = [q \in Queues |-> FALSE]
  /\ started' = FALSE
  /\ fresh' = FALSE
  /\ UNCHANGED <<work, kick>>

(***************************************************************************)
(* vhost_hab_stop and vhost_hab_flush: what is still queued runs without   *)
(* private_data and does nothing.                                          *)
(***************************************************************************)
StopAndFlush ==
  /\ wk = "idle"
  /\ priv' = [q \in Queues |-> FALSE]
  /\ started' = FALSE
  /\ work' = FALSE
  /\ kick' = [q \in Queues |-> FALSE]
  /\ fresh' = FALSE

(***************************************************************************)
(* vhost_hab_reset_owner: hab_vchans_stop, then otherend_closed, then      *)
(* hab_vchans_empty_wait_pchan, then the stop, or an error (no owner, no   *)
(* memory).                                                                *)
(***************************************************************************)
ResetStop ==
  /\ dev = "open" /\ reset = "no" /\ resets < MaxResets
  /\ resets' = resets + 1
  /\ reset' = "close"
  /\ vstop' = [v \in Vchans |-> vch[v] # "none"]
  /\ UNCHANGED vqVars
  /\ UNCHANGED <<workerVars, sendVars, dev, priv, started, otherend, devOpens, vch, vOpens,
                 sendList, work>>

ResetClose ==
  /\ reset = "close"
  /\ otherend' = TRUE
  /\ reset' = "wait"
  /\ UNCHANGED vqVars
  /\ UNCHANGED <<workerVars, sendVars, vchanVars, dev, priv, started, devOpens, resets,
                 sendList, work>>

ResetWait ==
  /\ reset = "wait"
  /\ \A v \in Vchans : vch[v] = "none"
  /\ reset' = "end"
  /\ UNCHANGED vqVars
  /\ UNCHANGED <<workerVars, sendVars, vchanVars, dev, priv, started, otherend, devOpens,
                 resets, sendList, work>>

ResetEnd ==
  /\ reset = "end"
  /\ reset' = "no"
  /\ \/ StopAndFlush
     \/ UNCHANGED <<priv, started, work, kick, fresh>>
  /\ UNCHANGED <<avail, taken, used, notify, call, mem, mishaps>>
  /\ UNCHANGED <<workerVars, sendVars, vchanVars, dev, otherend, devOpens, resets, sendList>>

(***************************************************************************)
(* vhost_hab_release: the pchan returns to the global list.  Neither the   *)
(* send list nor otherend_closed changes.                                  *)
(***************************************************************************)
Release ==
  /\ dev = "open" /\ reset = "no"
  /\ StopAndFlush
  /\ dev' = "none"
  /\ UNCHANGED <<avail, taken, used, notify, call, mem, mishaps>>
  /\ UNCHANGED <<workerVars, sendVars, vchanVars, otherend, reset, devOpens, resets,
                 sendList>>
-----------------------------------------------------------------------------
(* Vchans of back end applications, backend_listen and hab_vchan_close *)

(***************************************************************************)
(* The vchan is freed, and with it its otherend_closed.                    *)
(***************************************************************************)
VFree(v) ==
  /\ vch' = [vch EXCEPT ![v] = "none"]
  /\ vstop' = [vstop EXCEPT ![v] = FALSE]

(***************************************************************************)
(* An INIT of the guest was in the queue: hab_vchan_alloc.                 *)
(***************************************************************************)
VAlloc(v) ==
  /\ vch[v] = "none" /\ vOpens < MaxVOpens /\ devOpens > 0
  /\ vch' = [vch EXCEPT ![v] = "alloc"]
  /\ vOpens' = vOpens + 1
  /\ UNCHANGED vqVars
  /\ UNCHANGED <<devVars, workerVars, sendVars, vstop, sendList, work>>

\* Mutant: otherend_closed is not looked at.
VAckAlways(v) ==
  /\ vch[v] = "alloc"
  /\ vch' = [vch EXCEPT ![v] = "ack"]
  /\ UNCHANGED vqVars
  /\ UNCHANGED <<devVars, workerVars, sendVars, vstop, vOpens, sendList, work>>

(***************************************************************************)
(* INIT_ACK is sent, or the pchan is closed and the open fails.            *)
(***************************************************************************)
VAck(v) ==
  /\ vch[v] = "alloc"
  /\ \/ otherend /\ VFree(v)
     \/ ~otherend /\ vch' = [vch EXCEPT ![v] = "ack"] /\ UNCHANGED vstop
  /\ UNCHANGED vqVars
  /\ UNCHANGED <<devVars, workerVars, sendVars, vOpens, sendList, work>>

(***************************************************************************)
(* INIT_DONE comes, or HAB_HS_TIMEOUT ends the wait.                       *)
(***************************************************************************)
VDone(v) ==
  /\ vch[v] = "ack"
  /\ vch' = [vch EXCEPT ![v] = "open"]
  /\ UNCHANGED vqVars
  /\ UNCHANGED <<devVars, workerVars, sendVars, vstop, vOpens, sendList, work>>

VTimeout(v) ==
  /\ vch[v] = "ack"
  /\ VFree(v)
  /\ UNCHANGED vqVars
  /\ UNCHANGED <<devVars, workerVars, sendVars, vOpens, sendList, work>>

VClose(v) ==
  /\ vch[v] = "open"
  /\ VFree(v)
  /\ UNCHANGED vqVars
  /\ UNCHANGED <<devVars, workerVars, sendVars, vOpens, sendList, work>>
-----------------------------------------------------------------------------
VhostWorker ==
  \/ TxWork \/ TxGet \/ TxRecheck \/ TxRecv \/ TxUsed
  \/ RxWork \/ RxNext \/ RxRecheck \/ RxFill \/ RxFault

VhostReset == ResetClose \/ ResetWait \/ ResetEnd

VhostNext ==
  \/ VhostWorker
  \/ HostRefused \/ HostDispatch
  \/ \E t \in HostThreads : HostSend(t) \/ HostQueue(t)
  \/ DevOpen \/ ResetStop \/ VhostReset \/ Release
  \/ \E bad \in SUBSET Queues : Ioctl(bad)
  \/ \E v \in Vchans : VAlloc(v) \/ VAck(v) \/ VDone(v) \/ VTimeout(v) \/ VClose(v)

(***************************************************************************)
(* The worker thread runs and takes its works in the order they were       *)
(* queued, so each has its turn, polls or not; a call into the driver      *)
(* returns, the wait for INIT_DONE ends, and an application whose vchan    *)
(* was stopped closes it.                                                  *)
(***************************************************************************)
VhostFair ==
  /\ WF_<<vqVars, vhostVars>>(VhostWorker)
  /\ SF_<<vqVars, vhostVars>>(TxWork)
  /\ SF_<<vqVars, vhostVars>>(RxWork)
  /\ \A t \in HostThreads : WF_<<vqVars, vhostVars>>(HostQueue(t))
  /\ WF_<<vqVars, vhostVars>>(VhostReset)
  /\ \A v \in Vchans :
       /\ WF_<<vqVars, vhostVars>>(VAck(v))
       /\ WF_<<vqVars, vhostVars>>(VDone(v) \/ VTimeout(v))
       /\ WF_<<vqVars, vhostVars>>(vstop[v] /\ VClose(v))

VhostTypeOK ==
  /\ dev \in {"none", "open"}
  /\ priv \in [Queues -> BOOLEAN]
  /\ started \in BOOLEAN /\ otherend \in BOOLEAN /\ work \in BOOLEAN /\ added \in BOOLEAN
  /\ sendList \in Seq(HostMsgs)
  /\ wk \in {"idle", "tx_get", "tx_recheck", "tx_recv", "tx_used",
             "rx_next", "rx_recheck", "rx_fill"}
  /\ hpc \in [HostThreads -> {"idle", "queue", "oops"}]
  /\ hmsg \in [HostThreads -> HostMsgs \cup {NoMsg}]
  /\ hnext \in 1 .. Len(HostSize) + 1
  /\ reset \in {"no", "close", "wait", "end"}
  /\ vch \in [Vchans -> {"none", "alloc", "ack", "open"}]
  /\ vstop \in [Vchans -> BOOLEAN]
  /\ devOpens \in 0 .. MaxDevOpens /\ resets \in 0 .. MaxResets
  /\ vOpens \in 0 .. MaxVOpens
=============================================================================
