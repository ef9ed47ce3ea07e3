------------------------------ MODULE HabVchan ------------------------------
(***************************************************************************)
(* Messages over an open virtual channel and the end of its life:          *)
(* hab_vchan_send, hab_vchan_recv and hab_vchan_close (hab.c), the message *)
(* queue and the receive path (hab_msg.c), and the reference count and the *)
(* freeing of the vchan (hab_vchan.c), for both ends at once.              *)
(*                                                                         *)
(* The two vchans are paired and in the ctx list of their application      *)
(* (HabOpen).  Several threads of an application call into a vchan at the  *)
(* same time; each end has one receive path, a tasklet or a worker, which  *)
(* hab_vchan_recv can only schedule (physical_channel_rx_dispatch).        *)
(* A message is its number; its size matters in two places, where a        *)
(* receive buffer is too short and where a special message is too small.   *)
(* The reason why a wait ended selects the error code only.                *)
(***************************************************************************)
EXTENDS Integers, Sequences, FiniteSets, SequencesExt

CONSTANTS
  AThreads, BThreads,  \* threads of the applications at end "a" and end "b"
  MaxSends,            \* bound: messages sent, from both ends together
  WireCap,             \* messages that physical_channel_send takes before -EAGAIN
  Faults               \* which of "nomem", "send", "interrupt", "short",
                       \* "badsize" can happen

ASSUME VchanAssumption ==
  /\ MaxSends \in Nat /\ WireCap \in Nat \ {0}
  /\ AThreads \cap BThreads = {}
  /\ IsFiniteSet(AThreads) /\ IsFiniteSet(BThreads)
  /\ Faults \subseteq {"nomem", "send", "interrupt", "short", "badsize"}

Ends == {"a", "b"}
Peer(e) == IF e = "a" THEN "b" ELSE "a"
Threads == AThreads \cup BThreads
End(t) == IF t \in AThreads THEN "a" ELSE "b"
Local(e) == IF e = "a" THEN AThreads ELSE BThreads

Messages == 1 .. MaxSends
CLOSE == 0             \* HAB_PAYLOAD_TYPE_CLOSE
Items == Messages \cup {CLOSE}

(***************************************************************************)
(* "closed" goes with leaving ctx->vchannels, both are written under       *)
(* ctx_lock; "dead" is otherend_closed; "idr" says that the vchan is still *)
(* in pchan->vchan_idr, which ends just before it is freed.                *)
(***************************************************************************)
Chan == [closed : BOOLEAN, dead : BOOLEAN, ref : Int, idr : BOOLEAN]

VARIABLES
  vc,      \* the vchan of each end
  rx,      \* vchan->rx_list of each end
  wire,    \* messages on their way to each end
  path,    \* receive path of each end: <<>> or <<stage, item>> while it holds a reference
  pc,      \* "idle", "send", "wait", "dequeue", "notify", "stop"
  sent,    \* number of messages sent from each end
  hup,     \* history: this end's CLOSE is out, or was not needed
  eof      \* history: a receive has returned -ENODEV before this end closed

vars == <<vc, rx, wire, path, pc, sent, hup, eof>>

TypeOK ==
  /\ vc \in [Ends -> Chan]
  /\ rx \in [Ends -> Seq(Messages)]
  /\ wire \in [Ends -> Seq(Items)]
  /\ path \in [Ends -> {<< >>} \cup ({"got", "handle"} \X Items)]
  /\ pc \in [Threads -> {"idle", "send", "wait", "dequeue", "notify", "stop"}]
  /\ sent \in [Ends -> 0 .. MaxSends]
  /\ hup \in [Ends -> BOOLEAN]
  /\ eof \in [Ends -> BOOLEAN]

Init ==
  /\ vc = [e \in Ends |-> [closed |-> FALSE, dead |-> FALSE, ref |-> 1, idr |-> TRUE]]
  /\ rx = [e \in Ends |-> << >>]
  /\ wire = [e \in Ends |-> << >>]
  /\ path = [e \in Ends |-> << >>]
  /\ pc = [t \in Threads |-> "idle"]
  /\ sent = [e \in Ends |-> 0]
  /\ hup = [e \in Ends |-> FALSE]
  /\ eof = [e \in Ends |-> FALSE]
-----------------------------------------------------------------------------
(* Helpers *)

CanSend == sent["a"] + sent["b"] < MaxSends
Goto(t, l) == pc' = [pc EXCEPT ![t] = l]

(***************************************************************************)
(* hab_get_vchan_fromvcid: the vchan is in the ctx list, is not closed and *)
(* its count is not zero.                                                  *)
(***************************************************************************)
Get(e) ==
  /\ ~vc[e].closed /\ vc[e].ref > 0
  /\ vc' = [vc EXCEPT ![e].ref = @ + 1]

(***************************************************************************)
(* hab_vchan_put; hab_vchan_free follows when the count is zero.           *)
(***************************************************************************)
Put(e) == vc' = [vc EXCEPT ![e].ref = @ - 1]

(***************************************************************************)
(* Who holds a reference: the ctx list or, after it, the thread that       *)
(* closes, the threads in a call and the receive path.                     *)
(***************************************************************************)
InCall(e) == {t \in Local(e) : pc[t] # "idle"}
Holders(e) ==
  Cardinality(InCall(e)) + (IF vc[e].closed THEN 0 ELSE 1)
                         + (IF path[e] = << >> THEN 0 ELSE 1)
-----------------------------------------------------------------------------
(* hab_vchan_send *)

(***************************************************************************)
(* The lookup, which also refuses a vchan whose other end has closed.      *)
(***************************************************************************)
SendBegin(t) ==
  /\ pc[t] = "idle" /\ CanSend
  /\ ~vc[End(t)].dead
  /\ Get(End(t))
  /\ Goto(t, "send")
  /\ UNCHANGED <<rx, wire, path, sent, hup, eof>>

(***************************************************************************)
(* physical_channel_send succeeds; nothing looks at closed any more.       *)
(***************************************************************************)
SendMsg(t) ==
  LET e == End(t) IN
  /\ pc[t] = "send" /\ CanSend
  /\ Len(wire[Peer(e)]) < WireCap
  /\ sent' = [sent EXCEPT ![e] = @ + 1]
  /\ wire' = [wire EXCEPT ![Peer(e)] = Append(@, sent'[e])]
  /\ Put(e)
  /\ Goto(t, "idle")
  /\ UNCHANGED <<rx, path, hup, eof>>

(***************************************************************************)
(* It does not: the other end closed, an error, or -EAGAIN for a caller    *)
(* that does not block; who blocks goes round the loop.  The last disjunct *)
(* is the bound MaxSends.                                                  *)
(***************************************************************************)
SendFail(t) ==
  /\ pc[t] = "send"
  /\ \/ vc[End(t)].dead
     \/ "send" \in Faults
     \/ Len(wire[Peer(End(t))]) >= WireCap
     \/ ~CanSend
  /\ Put(End(t))
  /\ Goto(t, "idle")
  /\ UNCHANGED <<rx, wire, path, sent, hup, eof>>

(***************************************************************************)
(* A message with a special flag that is smaller than its type allows:     *)
(* hab_vchan_send returns -EINVAL and keeps its reference.  Bound: once.    *)
(***************************************************************************)
SendTooSmall(t) ==
  /\ "badsize" \in Faults
  /\ pc[t] = "send" /\ \A e \in Ends : vc[e].ref = Holders(e)
  /\ Goto(t, "idle")
  /\ UNCHANGED <<vc, rx, wire, path, sent, hup, eof>>
-----------------------------------------------------------------------------
(* hab_vchan_recv *)

(***************************************************************************)
(* The lookup, and the first look of hab_msg_dequeue at the queue: a       *)
(* caller that does not block, or finds a message, does not wait.          *)
(***************************************************************************)
RecvBegin(t) ==
  LET e == End(t) IN
  /\ pc[t] = "idle"
  /\ Get(e)
  /\ \/ Goto(t, "dequeue")
     \/ rx[e] = << >> /\ Goto(t, "wait")
  /\ UNCHANGED <<rx, wire, path, sent, hup, eof>>

(***************************************************************************)
(* wait_event_interruptible_timeout: its condition holds, or a signal or   *)
(* the timeout ends it.                                                    *)
(***************************************************************************)
WaitEnds(t) ==
  /\ pc[t] = "wait"
  /\ rx[End(t)] # << >> \/ vc[End(t)].dead
  /\ Goto(t, "dequeue")
  /\ UNCHANGED <<vc, rx, wire, path, sent, hup, eof>>

WaitInterrupted(t) ==
  /\ "interrupt" \in Faults
  /\ pc[t] = "wait"
  /\ Goto(t, "dequeue")
  /\ UNCHANGED <<vc, rx, wire, path, sent, hup, eof>>

\* Mutant: no hab_vchan_put on the error paths.
DequeueNoPut(t) ==
  LET e == End(t) IN
  /\ pc[t] = "dequeue"
  /\ \/ /\ rx[e] # << >>
        /\ rx' = [rx EXCEPT ![e] = Tail(@)]
        /\ UNCHANGED eof
        /\ Put(e)
     \/ /\ "short" \in Faults /\ rx[e] # << >>
        /\ UNCHANGED <<rx, eof>>
        /\ Put(e)
     \/ /\ rx[e] = << >>
        /\ eof' = [eof EXCEPT ![e] = @ \/ (vc[e].dead /\ ~vc[e].closed)]
        /\ UNCHANGED <<rx, vc>>
  /\ Goto(t, "idle")
  /\ UNCHANGED <<wire, path, sent, hup>>

(***************************************************************************)
(* The rest of hab_msg_dequeue, under rx_lock, and hab_vchan_put: a        *)
(* message, which the caller copies out and frees; -EOVERFLOW, which       *)
(* leaves it in the queue; or, without one, -ENODEV if the other end has   *)
(* closed and otherwise -EINTR, -ETIMEDOUT or -EAGAIN.                     *)
(***************************************************************************)
Dequeue(t) ==
  LET e == End(t) IN
  /\ pc[t] = "dequeue"
  /\ \/ /\ rx[e] # << >>
        /\ rx' = [rx EXCEPT ![e] = Tail(@)]
        /\ UNCHANGED eof
     \/ /\ "short" \in Faults /\ rx[e] # << >>
        /\ UNCHANGED <<rx, eof>>
     \/ /\ rx[e] = << >>
        /\ eof' = [eof EXCEPT ![e] = @ \/ (vc[e].dead /\ ~vc[e].closed)]
        /\ UNCHANGED rx
  /\ Put(e)
  /\ Goto(t, "idle")
  /\ UNCHANGED <<wire, path, sent, hup>>
-----------------------------------------------------------------------------
(* hab_vchan_close, and the loop of hab_release over the vchans of a ctx *)

(***************************************************************************)
(* Under ctx_lock: closed, and out of the list.  The thread takes over the *)
(* reference of the list.                                                  *)
(***************************************************************************)
CloseBegin(t) ==
  /\ pc[t] = "idle" /\ ~vc[End(t)].closed
  /\ vc' = [vc EXCEPT ![End(t)].closed = TRUE]
  /\ Goto(t, "notify")
  /\ UNCHANGED <<rx, wire, path, sent, hup, eof>>

(***************************************************************************)
(* hab_send_close_msg: not if the other end has closed already.  Whether   *)
(* the message was sent is not looked at.                                  *)
(***************************************************************************)
CloseNotify(t) ==
  LET e == End(t) full == Len(wire[Peer(e)]) >= WireCap IN
  /\ pc[t] = "notify"
  /\ \/ /\ vc[e].dead
        /\ hup' = [hup EXCEPT ![e] = TRUE]
        /\ UNCHANGED wire
     \/ /\ ~vc[e].dead /\ ~full
        /\ wire' = [wire EXCEPT ![Peer(e)] = Append(@, CLOSE)]
        /\ hup' = [hup EXCEPT ![e] = TRUE]
     \/ /\ ~vc[e].dead /\ (full \/ "send" \in Faults)
        /\ UNCHANGED <<wire, hup>>
  /\ Goto(t, "stop")
  /\ UNCHANGED <<vc, rx, path, sent, eof>>

\* Mutant: the local waiters are not told.
CloseStopQuietly(t) ==
  /\ pc[t] = "stop"
  /\ vc' = [vc EXCEPT ![End(t)].ref = @ - 1]
  /\ Goto(t, "idle")
  /\ UNCHANGED <<rx, wire, path, sent, hup, eof>>

(***************************************************************************)
(* hab_vchan_stop wakes the local waiters, then hab_vchan_put.             *)
(***************************************************************************)
CloseStop(t) ==
  /\ pc[t] = "stop"
  /\ vc' = [vc EXCEPT ![End(t)].dead = TRUE, ![End(t)].ref = @ - 1]
  /\ Goto(t, "idle")
  /\ UNCHANGED <<rx, wire, path, sent, hup, eof>>
-----------------------------------------------------------------------------
(* The receive path, hab_msg_recv *)

(***************************************************************************)
(* hab_vchan_get, under vid_lock: only a vchan that is open on both ends   *)
(* and whose count is not zero.                                            *)
(***************************************************************************)
Gettable(e) == vc[e].idr /\ ~vc[e].dead /\ ~vc[e].closed /\ vc[e].ref > 0

\* Mutant: no reference is taken.
RxGetNoRef(e) ==
  /\ path[e] = << >> /\ wire[e] # << >> /\ Gettable(e)
  /\ path' = [path EXCEPT ![e] = <<"got", Head(wire[e])>>]
  /\ wire' = [wire EXCEPT ![e] = Tail(@)]
  /\ UNCHANGED <<vc, rx, pc, sent, hup, eof>>

RxGet(e) ==
  /\ path[e] = << >> /\ wire[e] # << >> /\ Gettable(e)
  /\ vc' = [vc EXCEPT ![e].ref = @ + 1]
  /\ path' = [path EXCEPT ![e] = <<"got", Head(wire[e])>>]
  /\ wire' = [wire EXCEPT ![e] = Tail(@)]
  /\ UNCHANGED <<rx, pc, sent, hup, eof>>

(***************************************************************************)
(* No such vchan: hab_msg_drop.                                            *)
(***************************************************************************)
RxNoVchan(e) ==
  /\ path[e] = << >> /\ wire[e] # << >> /\ ~Gettable(e)
  /\ wire' = [wire EXCEPT ![e] = Tail(@)]
  /\ UNCHANGED <<vc, rx, path, pc, sent, hup, eof>>

(***************************************************************************)
(* otherend_closed once more, without a lock.                              *)
(***************************************************************************)
RxCheck(e) ==
  /\ path[e] # << >> /\ path[e][1] = "got"
  /\ IF vc[e].dead
     THEN path' = [path EXCEPT ![e] = << >>] /\ Put(e)
     ELSE path' = [path EXCEPT ![e] = <<"handle", @[2]>>] /\ UNCHANGED vc
  /\ UNCHANGED <<rx, wire, pc, sent, hup, eof>>

(***************************************************************************)
(* hab_msg_alloc may find no memory, not even page by page.                *)
(***************************************************************************)
MsgAllocFails == "nomem" \in Faults

(***************************************************************************)
(* hab_msg_queue.                                                          *)
(***************************************************************************)
MsgQueue(e, m) == rx' = [rx EXCEPT ![e] = Append(@, m)]

Handling(e) == path[e] # << >> /\ path[e][1] = "handle"
PathDone(e) == path' = [path EXCEPT ![e] = << >>]

\* Mutant: list_add instead of list_add_tail.
RxMsgFirst(e) ==
  /\ Handling(e) /\ path[e][2] # CLOSE
  /\ rx' = [rx EXCEPT ![e] = <<path[e][2]>> \o @]
  /\ Put(e)
  /\ PathDone(e)
  /\ UNCHANGED <<wire, pc, sent, hup, eof>>

(***************************************************************************)
(* A message of any type is queued; then hab_vchan_put.                    *)
(***************************************************************************)
RxMsg(e) ==
  /\ Handling(e) /\ path[e][2] # CLOSE
  /\ MsgQueue(e, path[e][2])
  /\ Put(e)
  /\ PathDone(e)
  /\ UNCHANGED <<wire, pc, sent, hup, eof>>

(***************************************************************************)
(* A scheduler message, or its ack, without room for the time stamp: the   *)
(* sender does not check these, the receiver drops them.                   *)
(***************************************************************************)
MsgTooShort == "badsize" \in Faults

MayLose == MsgAllocFails \/ MsgTooShort

(***************************************************************************)
(* The message is lost and nobody is told.                                 *)
(***************************************************************************)
RxMsgLost(e) ==
  /\ MayLose
  /\ Handling(e) /\ path[e][2] # CLOSE
  /\ Put(e)
  /\ PathDone(e)
  /\ UNCHANGED <<rx, wire, pc, sent, hup, eof>>

(***************************************************************************)
(* CLOSE: hab_vchan_stop.                                                  *)
(***************************************************************************)
RxClose(e) ==
  /\ Handling(e) /\ path[e][2] = CLOSE
  /\ vc' = [vc EXCEPT ![e].dead = TRUE, ![e].ref = @ - 1]
  /\ PathDone(e)
  /\ UNCHANGED <<rx, wire, pc, sent, hup, eof>>

(***************************************************************************)
(* hab_vchan_free, in the thread that put the last reference: first the    *)
(* messages, at the end the id and the vchan itself.                       *)
(***************************************************************************)
FreeMessages(e) ==
  /\ vc[e].ref = 0 /\ vc[e].idr /\ rx[e] # << >>
  /\ rx' = [rx EXCEPT ![e] = << >>]
  /\ UNCHANGED <<vc, wire, path, pc, sent, hup, eof>>

FreeVchan(e) ==
  /\ vc[e].ref = 0 /\ vc[e].idr /\ rx[e] = << >>
  /\ vc' = [vc EXCEPT ![e].idr = FALSE]
  /\ UNCHANGED <<rx, wire, path, pc, sent, hup, eof>>
-----------------------------------------------------------------------------
Call(t) ==
  \/ SendBegin(t) \/ RecvBegin(t) \/ CloseBegin(t)
  \/ SendTooSmall(t) \/ WaitInterrupted(t)

Step(t) ==
  \/ SendMsg(t) \/ SendFail(t)
  \/ WaitEnds(t) \/ Dequeue(t)
  \/ CloseNotify(t) \/ CloseStop(t)

Rx(e) ==
  \/ RxGet(e) \/ RxNoVchan(e) \/ RxCheck(e)
  \/ RxMsg(e) \/ RxMsgLost(e) \/ RxClose(e)

Free(e) == FreeMessages(e) \/ FreeVchan(e)

Next ==
  \/ \E t \in Threads : Call(t) \/ Step(t)
  \/ \E e \in Ends : Rx(e) \/ Free(e)

Spec == Init /\ [][Next]_vars

(***************************************************************************)
(* A thread inside a call, the tasklet and the end of a put go on; no      *)
(* application has to call anything, and no signal has to come.            *)
(***************************************************************************)
FairSpec ==
  /\ Spec
  /\ \A t \in Threads : WF_vars(Step(t))
  /\ \A e \in Ends : WF_vars(Rx(e)) /\ WF_vars(Free(e))
-----------------------------------------------------------------------------
(* Properties *)

(***************************************************************************)
(* A vchan is not freed under a thread, the receive path or the ctx list   *)
(* that still uses it, and nothing is queued on a freed one, whatever send,*)
(* receive, close and the receive path do at the same time (hab_vchan_put, *)
(* hab_vchan_get, hab_get_vchan_fromvcid).                                 *)
(***************************************************************************)
HeldWhileUsed ==
  \A e \in Ends :
    /\ Holders(e) <= vc[e].ref
    /\ ~vc[e].idr => vc[e].ref = 0 /\ rx[e] = << >>

(***************************************************************************)
(* hab.c:291 on hab_get_vchan_fromvcid: "caller needs to call vchan_put()  *)
(* afterwards": every reference belongs to a user that will put it.        *)
(***************************************************************************)
NoRefLeak == \A e \in Ends : vc[e].ref <= Holders(e)

(***************************************************************************)
(* A thread that waits for a message returns once its own application      *)
(* closes the vchan, or the CLOSE of the other end is under way            *)
(* (hab_vchan_stop, "wake up local waiting Q").                            *)
(***************************************************************************)
RecvReturns ==
  \A t \in Threads :
    (/\ pc[t] = "wait"
     /\ vc[End(t)].closed \/ CLOSE \in Range(wire[End(t)]))
      ~> (pc[t] # "wait")

(***************************************************************************)
(* A closed vchan is freed once its last user is gone, so that             *)
(* hab_vchans_empty_wait_pchan ends; sends that still run may leak.        *)
(***************************************************************************)
FreedEventually ==
  \A e \in Ends :
    (/\ vc[e].closed /\ vc[e].ref = Holders(e)
     /\ \A t \in Local(e) : pc[t] # "send")
      ~> ~vc[e].idr

(***************************************************************************)
(* The vchans implement HabSocket: what was sent is received whole, once   *)
(* and in order by however many threads, and a receiver hears of the close *)
(* only after everything that was sent before it ("return all the received *)
(* messages before the remote close", hab_msg_dequeue).                    *)
(***************************************************************************)
BeforeClose(s) ==
  IF CLOSE \in Range(s) THEN SubSeq(s, 1, SelectInSeq(s, LAMBDA m : m = CLOSE) - 1)
                        ELSE s
InPath(e) ==
  IF path[e] = << >> \/ (path[e] # << >> /\ path[e][2] = CLOSE) THEN << >>
  ELSE IF path[e][1] = "got" /\ vc[e].dead THEN << >> ELSE << path[e][2] >>

Socket == INSTANCE HabSocket WITH
  Lossy <- MayLose,
  q <- [e \in Ends |->
          rx[e] \o InPath(e) \o
               (IF vc[e].closed \/ vc[e].dead
                   \/ (path[e] # << >> /\ path[e][2] = CLOSE)
                THEN << >> ELSE BeforeClose(wire[e]))],
  phase <- [e \in Ends |-> IF hup[e] THEN "closed"
                           ELSE IF vc[e].closed THEN "closing" ELSE "open"]
IsSocket == Socket!Spec
=============================================================================
