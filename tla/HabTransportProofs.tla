-------------------------- MODULE HabTransportProofs -------------------------
(***************************************************************************)
(* Proofs about HabTransport, for any buffers, threads, messages, vchans   *)
(* and bounds:                                                             *)
(*  - a stopped device leaves the queues of the guest alone;               *)
(*  - every buffer of the guest is in exactly one place;                   *)
(*  - messages arrive in order and once, to the host and to the guest.     *)
(***************************************************************************)
EXTENDS HabTransport, FiniteSetTheorems, SequenceTheorems, TLAPS

(***************************************************************************)
(* The worker is in a queue only while private_data of that queue is set.  *)
(***************************************************************************)
TxStates == {"tx_get", "tx_recheck", "tx_recv", "tx_used"}
RxStates == {"rx_next", "rx_recheck", "rx_fill"}

WorkerHasQueue ==
  /\ wk \in {"idle"} \cup TxStates \cup RxStates
  /\ wk \in TxStates => priv["tx"] = TRUE
  /\ wk \in RxStates => priv["rx"] = TRUE

(***************************************************************************)
(* What the proof needs of the types: rings are sequences, of anything.    *)
(***************************************************************************)
IsRing(s) == \E S : s \in Seq(S)

RingsTyped ==
  /\ DOMAIN taken = Queues /\ DOMAIN used = Queues
  /\ \A q \in Queues : IsRing(taken[q]) /\ IsRing(used[q])
  /\ priv \in [Queues -> BOOLEAN]

StopInv == RingsTyped /\ WorkerHasQueue

(***************************************************************************)
(* What StoppedStaysOut says of one step.                                  *)
(***************************************************************************)
LeftAlone ==
  \A q \in Queues :
    ~priv[q] => Len(taken'[q]) <= Len(taken[q]) /\ Len(used'[q]) <= Len(used[q])

-----------------------------------------------------------------------------
(* Rings *)

(***************************************************************************)
(* The empty ring of DelVqs and of virthab_recv_txq.                       *)
(***************************************************************************)
LEMMA EmptyRing ==
  ASSUME NEW s, IsRing(s)
  PROVE  IsRing(<< >>) /\ Len(<< >>) <= Len(s)
<1>1. PICK S : s \in Seq(S)
  BY DEF IsRing
<1>2. << >> \in Seq(S) /\ Len(<< >>) = 0
  OBVIOUS
<1>3. Len(s) \in Nat
  BY <1>1
<1>4. QED
  BY <1>2, <1>3 DEF IsRing

(***************************************************************************)
(* vhost_get_vq_desc and vhost_add_used put a buffer in a ring.            *)
(***************************************************************************)
LEMMA AppendRing ==
  ASSUME NEW s, IsRing(s), NEW x
  PROVE  IsRing(Append(s, x))
<1>1. PICK S : s \in Seq(S)
  BY DEF IsRing
<1>2. s \in Seq(S \cup {x})
  BY <1>1
<1>3. Append(s, x) \in Seq(S \cup {x})
  BY <1>2
<1>4. QED
  BY <1>3 DEF IsRing

(***************************************************************************)
(* virtqueue_get_buf takes the first buffer of a ring.                     *)
(***************************************************************************)
LEMMA TailRing ==
  ASSUME NEW s, IsRing(s), s # << >>
  PROVE  IsRing(Tail(s)) /\ Len(Tail(s)) <= Len(s)
<1>1. PICK S : s \in Seq(S)
  BY DEF IsRing
<1>2. Tail(s) \in Seq(S) /\ Len(Tail(s)) = Len(s) - 1 /\ Len(s) \in Nat
  BY <1>1
<1>3. QED
  BY <1>2 DEF IsRing

(***************************************************************************)
(* vhost_add_used takes the buffer in hand out of the host's.              *)
(***************************************************************************)
LEMMA FrontRing ==
  ASSUME NEW s, IsRing(s)
  PROVE  IsRing(Front(s))
<1>1. PICK S : s \in Seq(S)
  BY DEF IsRing
<1>2. SubSeq(s, 1, Len(s) - 1) \in Seq(S)
  BY <1>1
<1>3. QED
  BY <1>2 DEF IsRing, Front
-----------------------------------------------------------------------------
(* The steps *)

(***************************************************************************)
(* At the start nothing is in the rings and the worker is idle.            *)
(***************************************************************************)
LEMMA StopInit == Init => StopInv
<1>1. IsRing(<< >>)
  <2>1. << >> \in Seq({})
    OBVIOUS
  <2>2. QED
    BY <2>1 DEF IsRing
<1>2. QED
  BY <1>1 DEF Init, VqInit, VhostInit, StopInv, RingsTyped, WorkerHasQueue, Queues,
              TxStates, RxStates

(***************************************************************************)
(* Rings have a length.                                                    *)
(***************************************************************************)
LEMMA RingLengths ==
  ASSUME StopInv
  PROVE  \A q \in Queues : Len(taken[q]) \in Nat /\ Len(used[q]) \in Nat
<1>1. SUFFICES ASSUME NEW s, IsRing(s) PROVE Len(s) \in Nat
  BY DEF StopInv, RingsTyped
<1>2. PICK S : s \in Seq(S)
  BY <1>1 DEF IsRing
<1>3. QED
  BY <1>2

(***************************************************************************)
(* A step that leaves the rings, private_data and the worker alone.        *)
(***************************************************************************)
LEMMA StopUnchanged ==
  ASSUME StopInv, UNCHANGED <<taken, used, priv, wk>>
  PROVE  StopInv' /\ LeftAlone
<1>1. StopInv'
  BY DEF StopInv, RingsTyped, WorkerHasQueue
<1>2. \A q \in Queues : Len(taken[q]) \in Nat /\ Len(used[q]) \in Nat
  BY RingLengths
<1>3. LeftAlone
  BY <1>2 DEF LeftAlone
<1>4. QED
  BY <1>1, <1>3

(***************************************************************************)
(* A step of the worker inside the queue q, which has its private_data:    *)
(* the other queue is left alone.                                          *)
(***************************************************************************)
LEMMA StopInQueue ==
  ASSUME StopInv, NEW q \in Queues, priv[q] = TRUE, UNCHANGED priv, WorkerHasQueue',
         DOMAIN taken' = Queues, DOMAIN used' = Queues,
         IsRing(taken'[q]), IsRing(used'[q]),
         \A r \in Queues \ {q} : taken'[r] = taken[r] /\ used'[r] = used[r]
  PROVE  StopInv' /\ LeftAlone
<1>1. \A r \in Queues : Len(taken[r]) \in Nat /\ Len(used[r]) \in Nat
  BY RingLengths
<1>2. StopInv'
  BY DEF StopInv, RingsTyped
<1>3. LeftAlone
  BY <1>1 DEF LeftAlone
<1>4. QED
  BY <1>2, <1>3

(***************************************************************************)
(* The worker, hab_vhost.c: every step past the check of private_data is   *)
(* in a queue that has it.                                                 *)
(***************************************************************************)
LEMMA WorkerStep ==
  ASSUME StopInv, VhostWorker \/ HostDispatch, UNCHANGED virtioVars
  PROVE  StopInv' /\ LeftAlone
<1> USE DEF Queues
<1>1. CASE TxWork
  <2>1. WorkerHasQueue'
    BY <1>1 DEF TxWork, devVars, StopInv, WorkerHasQueue, TxStates, RxStates, RingsTyped
  <2>2. CASE priv["tx"] = TRUE
    BY <1>1, <2>1, <2>2, StopInQueue DEF TxWork, devVars, StopInv, RingsTyped
  <2>3. CASE priv["tx"] = FALSE
    BY <1>1, <2>3, StopUnchanged DEF TxWork, devVars
  <2>4. QED
    BY <2>2, <2>3 DEF StopInv, RingsTyped
<1>2. CASE HostDispatch
  <2>1. WorkerHasQueue' /\ priv["tx"] = TRUE
    BY <1>2 DEF HostDispatch, devVars, StopInv, WorkerHasQueue, TxStates, RxStates, RingsTyped
  <2>2. QED
    BY <1>2, <2>1, StopInQueue DEF HostDispatch, devVars, StopInv, RingsTyped
<1>3. CASE TxGet
  <2>1. WorkerHasQueue' /\ priv["tx"] = TRUE
    BY <1>3 DEF TxGet, devVars, StopInv, WorkerHasQueue, TxStates, RxStates, RingsTyped
  <2>2. IsRing(Append(taken["tx"], Head(avail["tx"])))
    BY AppendRing DEF StopInv, RingsTyped
  <2>3. QED
    BY <1>3, <2>1, <2>2, StopInQueue DEF TxGet, TakeDesc, devVars, StopInv, RingsTyped
<1>4. CASE TxRecheck
  <2>1. WorkerHasQueue' /\ priv["tx"] = TRUE
    BY <1>4 DEF TxRecheck, devVars, StopInv, WorkerHasQueue, TxStates, RxStates, RingsTyped
  <2>2. QED
    BY <1>4, <2>1, StopInQueue DEF TxRecheck, devVars, StopInv, RingsTyped
<1>5. CASE TxRecv
  <2>1. WorkerHasQueue' /\ priv["tx"] = TRUE
    BY <1>5 DEF TxRecv, devVars, StopInv, WorkerHasQueue, TxStates, RxStates, RingsTyped
  <2>2. QED
    BY <1>5, <2>1, StopInQueue DEF TxRecv, vqVars, devVars, StopInv, RingsTyped
<1>6. CASE TxUsed
  <2>1. WorkerHasQueue' /\ priv["tx"] = TRUE
    BY <1>6 DEF TxUsed, devVars, StopInv, WorkerHasQueue, TxStates, RxStates, RingsTyped
  <2>2. IsRing(Front(taken["tx"])) /\ IsRing(Append(used["tx"], InHand("tx")))
    BY AppendRing, FrontRing DEF StopInv, RingsTyped
  <2>3. QED
    BY <1>6, <2>1, <2>2, StopInQueue DEF TxUsed, AddUsed, devVars, StopInv, RingsTyped
<1>7. CASE RxWork
  <2>1. WorkerHasQueue'
    BY <1>7 DEF RxWork, devVars, StopInv, WorkerHasQueue, TxStates, RxStates, RingsTyped
  <2>2. CASE priv["rx"] = TRUE
    BY <1>7, <2>1, <2>2, StopInQueue DEF RxWork, devVars, StopInv, RingsTyped
  <2>3. CASE priv["rx"] = FALSE
    BY <1>7, <2>3, StopUnchanged DEF RxWork, devVars
  <2>4. QED
    BY <2>2, <2>3 DEF StopInv, RingsTyped
<1>8. CASE RxNext
  <2>1. WorkerHasQueue' /\ priv["rx"] = TRUE
    BY <1>8 DEF RxNext, RxEnd, devVars, StopInv, WorkerHasQueue, TxStates, RxStates, RingsTyped
  <2>2. IsRing(Append(taken["rx"], Head(avail["rx"])))
    BY AppendRing DEF StopInv, RingsTyped
  <2>3. QED
    BY <1>8, <2>1, <2>2, StopInQueue DEF RxNext, TakeDesc, devVars, StopInv, RingsTyped
<1>9. CASE RxRecheck
  <2>1. WorkerHasQueue' /\ priv["rx"] = TRUE
    BY <1>9 DEF RxRecheck, RxEnd, devVars, StopInv, WorkerHasQueue, TxStates, RxStates, RingsTyped
  <2>2. QED
    BY <1>9, <2>1, StopInQueue DEF RxRecheck, devVars, StopInv, RingsTyped
<1>10. CASE RxFill
  <2>1. WorkerHasQueue' /\ priv["rx"] = TRUE
    BY <1>10 DEF RxFill, devVars, StopInv, WorkerHasQueue, TxStates, RxStates, RingsTyped
  <2>2. IsRing(Front(taken["rx"])) /\ IsRing(Append(used["rx"], InHand("rx")))
    BY AppendRing, FrontRing DEF StopInv, RingsTyped
  <2>3. QED
    BY <1>10, <2>1, <2>2, StopInQueue DEF RxFill, AddUsed, devVars, StopInv, RingsTyped
<1>11. CASE RxFault
  <2>1. WorkerHasQueue' /\ priv["rx"] = TRUE
    BY <1>11 DEF RxFault, RxEnd, devVars, StopInv, WorkerHasQueue, TxStates, RxStates, RingsTyped
  <2>2. QED
    BY <1>11, <2>1, StopInQueue DEF RxFault, devVars, StopInv, RingsTyped
<1>12. QED
  BY <1>1, <1>2, <1>3, <1>4, <1>5, <1>6, <1>7, <1>8, <1>9, <1>10, <1>11 DEF VhostWorker

(***************************************************************************)
(* The device file, senders and vchans of the host: only a start sets      *)
(* private_data, and only a stop, which waits for the worker, clears it.   *)
(***************************************************************************)
LEMMA HostStep ==
  ASSUME StopInv, VhostNext, UNCHANGED virtioVars
  PROVE  StopInv' /\ LeftAlone
<1>1. CASE VhostWorker \/ HostDispatch
  BY <1>1, WorkerStep
<1>2. ASSUME StopAndFlush \/ UNCHANGED priv, UNCHANGED <<taken, used, wk>>
      PROVE  StopInv' /\ LeftAlone
  <2>1. StopInv'
    BY <1>2 DEF StopAndFlush, StopInv, RingsTyped, WorkerHasQueue, TxStates, RxStates
  <2>2. LeftAlone
    BY <1>2, RingLengths DEF LeftAlone
  <2>3. QED
    BY <2>1, <2>2
<1>3. CASE ResetEnd
  BY <1>3, <1>2 DEF ResetEnd, workerVars
<1>4. CASE Release
  BY <1>4, <1>2 DEF Release, workerVars
<1>5. ASSUME NEW bad \in SUBSET Queues, Ioctl(bad)
      PROVE  StopInv' /\ LeftAlone
  <2>1. /\ priv' \in [Queues -> BOOLEAN]
        /\ \A q \in Queues : priv[q] = TRUE => priv'[q] = TRUE
    BY <1>5 DEF Ioctl, StopInv, RingsTyped
  <2>2. StopInv'
    BY <1>5, <2>1 DEF Ioctl, workerVars, StopInv, RingsTyped, WorkerHasQueue, Queues
  <2>3. LeftAlone
    BY <1>5, RingLengths DEF Ioctl, LeftAlone
  <2>4. QED
    BY <2>2, <2>3
<1>6. CASE HostRefused \/ \E t \in HostThreads : HostSend(t) \/ HostQueue(t)
  BY <1>6, StopUnchanged
     DEF HostRefused, HostSend, HostQueue, vqVars, devVars, workerVars
<1>7. CASE DevOpen \/ ResetStop \/ ResetClose \/ ResetWait
  BY <1>7, StopUnchanged DEF DevOpen, ResetStop, ResetClose, ResetWait, vqVars, workerVars
<1>8. CASE \E v \in Vchans : VAlloc(v) \/ VAck(v) \/ VDone(v) \/ VTimeout(v) \/ VClose(v)
  BY <1>8, StopUnchanged
     DEF VAlloc, VAck, VDone, VTimeout, VClose, vqVars, devVars, workerVars
<1>9. QED
  BY <1>1, <1>3, <1>4, <1>5, <1>6, <1>7, <1>8 DEF VhostNext, VhostReset

(***************************************************************************)
(* A step of the guest only takes from the used rings.                     *)
(***************************************************************************)
LEMMA StopGuestTakes ==
  ASSUME StopInv, UNCHANGED <<taken, priv, wk>>, DOMAIN used' = Queues,
         \A q \in Queues : \/ used'[q] = used[q]
                           \/ used'[q] = << >>
                           \/ used[q] # << >> /\ used'[q] = Tail(used[q])
  PROVE  StopInv' /\ LeftAlone
<1>1. \A q \in Queues : IsRing(used'[q]) /\ Len(used'[q]) <= Len(used[q])
  <2>1. SUFFICES ASSUME NEW q \in Queues
                 PROVE  IsRing(used'[q]) /\ Len(used'[q]) <= Len(used[q])
    OBVIOUS
  <2>2. IsRing(used[q]) /\ Len(used[q]) \in Nat
    BY RingLengths DEF StopInv, RingsTyped
  <2>3. CASE used'[q] = used[q]
    BY <2>2, <2>3
  <2>4. CASE used'[q] = << >>
    BY <2>2, <2>4, EmptyRing
  <2>5. CASE used[q] # << >> /\ used'[q] = Tail(used[q])
    BY <2>2, <2>5, TailRing
  <2>6. QED
    BY <2>3, <2>4, <2>5
<1>2. StopInv'
  BY <1>1 DEF StopInv, RingsTyped, WorkerHasQueue
<1>3. LeftAlone
  BY <1>1, RingLengths DEF LeftAlone
<1>4. QED
  BY <1>2, <1>3

(***************************************************************************)
(* The front end, hab_virtio.c.                                            *)
(***************************************************************************)
LEMMA GuestStep ==
  ASSUME StopInv, VirtioNext, UNCHANGED vhostVars
  PROVE  StopInv' /\ LeftAlone
<1> USE DEF vhostVars
<1>1. CASE ProbeVqs \/ ProbePools \/ Restore
  BY <1>1, StopUnchanged DEF ProbeVqs, ProbePools, Restore, vqVars
<1>2. CASE SendRefused \/ \E t \in GuestThreads : SendStart(t) \/ VirtioSend(t)
  BY <1>2, StopUnchanged
     DEF SendRefused, SendStart, VirtioSend, SendOops, SendSleep, SendQueue, vqVars
<1>3. CASE RecvTxq
  <2>1. /\ DOMAIN used' = Queues
        /\ \A q \in Queues : used'[q] = used[q] \/ used'[q] = << >>
    BY <1>3 DEF RecvTxq, StopInv, RingsTyped
  <2>2. QED
    BY <1>3, <2>1, StopGuestTakes DEF RecvTxq
<1>4. CASE RecvRxqTask \/ RxDispatch \/ RxRun \/ RxRecv \/ RxReturn
  BY <1>4, StopUnchanged DEF RecvRxqTask, RxDispatch, RxRun, RxRecv, RxReturn, vqVars
<1>5. CASE RxGet
  <2>1. /\ DOMAIN used' = Queues
        /\ \A q \in Queues : \/ used'[q] = used[q]
                             \/ used[q] # << >> /\ used'[q] = Tail(used[q])
    BY <1>5 DEF RxGet, StopInv, RingsTyped
  <2>2. QED
    BY <1>5, <2>1, StopGuestTakes DEF RxGet
<1>6. CASE StatLog
  <2>1. /\ DOMAIN used' = Queues
        /\ \A q \in Queues : \/ used'[q] = << >>
                             \/ used[q] # << >> /\ used'[q] = Tail(used[q])
    BY <1>6 DEF StatLog, StopInv, RingsTyped
  <2>2. QED
    BY <1>6, <2>1, StopGuestTakes DEF StatLog
<1>7. QED
  BY <1>1, <1>2, <1>3, <1>4, <1>5, <1>6 DEF VirtioNext, VirtioTasklet

(***************************************************************************)
(* The guest drops its rings, by a suspend or a restart, while the device  *)
(* is stopped.                                                             *)
(***************************************************************************)
LEMMA DropStep ==
  ASSUME StopInv, GuestFreeze \/ Reboot
  PROVE  StopInv' /\ LeftAlone
<1>1. /\ UNCHANGED <<priv, wk>>
      /\ taken' = [q \in Queues |-> << >>] /\ used' = [q \in Queues |-> << >>]
  BY DEF GuestFreeze, Freeze, Reboot, DelVqs, vhostVars
<1>2. \A q \in Queues : /\ IsRing(<< >>)
                        /\ Len(<< >>) <= Len(taken[q]) /\ Len(<< >>) <= Len(used[q])
  BY EmptyRing DEF StopInv, RingsTyped
<1>3. StopInv'
  BY <1>1, <1>2 DEF StopInv, RingsTyped, WorkerHasQueue
<1>4. LeftAlone
  BY <1>1, <1>2 DEF LeftAlone
<1>5. QED
  BY <1>3, <1>4
-----------------------------------------------------------------------------
(***************************************************************************)
(* The worker is inside a queue only while vhost_hab_stop has not cleared  *)
(* its private_data.                                                       *)
(***************************************************************************)
THEOREM WorkerInStartedQueue == Spec => []StopInv
<1>1. Init => StopInv
  BY StopInit
<1>2. StopInv /\ [Next]_vars => StopInv'
  BY HostStep, GuestStep, DropStep, StopUnchanged
     DEF Next, vars, vqVars, vhostVars
<1>3. QED
  BY <1>1, <1>2, PTL DEF Spec

(***************************************************************************)
(* Once its private_data is cleared, the host neither takes buffers from a *)
(* queue nor returns any, whatever the guest, the VMM and the applications *)
(* do (vhost_hab_stop against tx_worker and rx_worker).                    *)
(***************************************************************************)
THEOREM StoppedDeviceStaysOut == Spec => StoppedStaysOut
<1>1. StopInv /\ [Next]_vars => [LeftAlone]_vars
  BY HostStep, GuestStep, DropStep DEF Next
<1>2. Spec => []StopInv
  BY WorkerInStartedQueue
<1>3. (LeftAlone <=> \A q \in Queues :
         ~priv[q] => Len(taken'[q]) <= Len(taken[q]) /\ Len(used'[q]) <= Len(used[q]))
  BY DEF LeftAlone
<1>4. QED
  BY <1>1, <1>2, <1>3, PTL DEF Spec, StoppedStaysOut
-----------------------------------------------------------------------------
(* Sequences *)

(***************************************************************************)
(* The kept positions up to p.                                             *)
(***************************************************************************)
UpTo(at, p) == {j \in at : j <= p}

(***************************************************************************)
(* SubseqAt lists the kept positions in their order: one after the other,  *)
(* the k-th of them at k.                                                  *)
(***************************************************************************)
LEMMA SubseqOrder ==
  ASSUME NEW S, NEW s \in Seq(S), NEW at \in SUBSET DOMAIN s
  PROVE  /\ Cardinality(at) \in Nat
         /\ \E f \in [1 .. Cardinality(at) -> at] :
              /\ \A i, j \in 1 .. Cardinality(at) : i < j => f[i] < f[j]
              /\ \A p \in at : \E k \in 1 .. Cardinality(at) : f[k] = p
              /\ \A p \in at : f[Cardinality(UpTo(at, p))] = p
              /\ SubseqAt(s, at) = [k \in 1 .. Cardinality(at) |-> s[f[k]]]
<1> DEFINE n == Cardinality(at)
           upto(i) == {j \in at : j <= i}
           rank == [i \in at |-> Cardinality(upto(i))]
           f == [k \in 1 .. n |-> CHOOSE i \in at : Cardinality(upto(i)) = k]
<1>1. at \subseteq Nat /\ IsFiniteSet(at) /\ n \in Nat
  <2>1. DOMAIN s = 1 .. Len(s) /\ Len(s) \in Nat
    BY LenProperties
  <2>2. IsFiniteSet(1 .. Len(s))
    BY <2>1, FS_Interval
  <2>3. IsFiniteSet(at)
    BY <2>1, <2>2, FS_Subset
  <2>4. QED
    BY <2>1, <2>3, FS_CardinalityType
<1>2. \A i \in at : IsFiniteSet(upto(i)) /\ Cardinality(upto(i)) \in 1 .. n
  <2>1. SUFFICES ASSUME NEW i \in at
                 PROVE  IsFiniteSet(upto(i)) /\ Cardinality(upto(i)) \in 1 .. n
    OBVIOUS
  <2>2. upto(i) \in SUBSET at /\ i \in upto(i)
    BY <1>1
  <2>3. IsFiniteSet(upto(i)) /\ Cardinality(upto(i)) <= n
    BY <1>1, <2>2, FS_Subset
  <2>4. Cardinality(upto(i)) \in Nat /\ Cardinality(upto(i)) # 0
    BY <2>2, <2>3, FS_CardinalityType, FS_EmptySet
  <2>5. QED
    BY <1>1, <2>3, <2>4
<1>a. PICK r \in [at -> 1 .. n] : \A i \in at : r[i] = Cardinality(upto(i))
  <2>1. rank \in [at -> 1 .. n] /\ \A i \in at : rank[i] = Cardinality(upto(i))
    BY <1>2
  <2>2. QED
    BY <2>1
<1>3. ASSUME NEW i \in at, NEW j \in at, i < j PROVE r[i] < r[j]
  <2>2. upto(i) \in SUBSET upto(j) /\ j \in upto(j) /\ j \notin upto(i)
    BY <1>1, <1>3
  <2>3. upto(i) # upto(j)
    BY <2>2
  <2>4. /\ Cardinality(upto(i)) <= Cardinality(upto(j))
        /\ Cardinality(upto(j)) # Cardinality(upto(i))
    BY <1>2, <2>2, <2>3, FS_Subset
  <2>5. r[i] \in Nat /\ r[j] \in Nat /\ r[i] <= r[j] /\ r[i] # r[j]
    <3>1. r[i] \in 1 .. n /\ r[j] \in 1 .. n
      OBVIOUS
    <3>2. QED
      BY <1>1, <1>a, <2>4, <3>1
  <2>6. QED
    BY <2>5
<1> HIDE DEF n
<1>4. ASSUME NEW i \in at, NEW j \in at, r[i] = r[j] PROVE i = j
  <2>1. i \in Nat /\ j \in Nat /\ r[i] \in Nat /\ r[j] \in Nat
    BY <1>1
  <2>2. ~(i < j) /\ ~(j < i)
    BY <1>3, <1>4, <2>1
  <2>3. QED
    BY <2>1, <2>2
<1>5. r \in Surjection(at, 1 .. n)
  <2>1. r \in Injection(at, 1 .. n)
    BY <1>4 DEF Injection, IsInjective
  <2>2. IsFiniteSet(1 .. n) /\ Cardinality(1 .. n) = n
    BY <1>1, FS_Interval
  <2>3. QED
    BY <2>1, <2>2, FS_Injection DEF n
<1>6. \A k \in 1 .. n : \E i \in at : Cardinality(upto(i)) = k
  BY <1>5, <1>a DEF Surjection
<1>7. \A k \in 1 .. n : f[k] \in at /\ r[f[k]] = k
  BY <1>6, <1>a
<1>8. f \in [1 .. n -> at]
  BY <1>7
<1>9. SubseqAt(s, at) = [k \in 1 .. n |-> s[f[k]]]
  BY DEF SubseqAt, n
<1> HIDE DEF f
<1>10. ASSUME NEW i \in 1 .. n, NEW j \in 1 .. n, i < j PROVE f[i] < f[j]
  <2>1. f[i] \in Nat /\ f[j] \in Nat /\ i \in Nat /\ j \in Nat
    BY <1>1, <1>8
  <2>2. ~(f[j] < f[i]) /\ f[i] # f[j]
    BY <1>3, <1>7, <1>10, <2>1
  <2>3. QED
    BY <2>1, <2>2
<1>11. ASSUME NEW p \in at
       PROVE  Cardinality(upto(p)) \in 1 .. n /\ f[Cardinality(upto(p))] = p
  <2>1. r[p] \in 1 .. n /\ r[f[r[p]]] = r[p] /\ f[r[p]] \in at
    BY <1>7
  <2>2. f[r[p]] = p
    BY <1>4, <2>1
  <2>3. QED
    BY <1>a, <2>1, <2>2
<1>12. QED
  BY <1>1, <1>8, <1>9, <1>10, <1>11 DEF n, UpTo

(***************************************************************************)
(* A sequence without its first element.                                   *)
(***************************************************************************)
LEMMA TailIs ==
  ASSUME NEW S, NEW s \in Seq(S), s # << >>
  PROVE  /\ Len(s) \in Nat \ {0} /\ Head(s) = s[1] /\ Head(s) \in S
         /\ Tail(s) \in Seq(S) /\ Len(Tail(s)) = Len(s) - 1
         /\ DOMAIN s = 1 .. Len(s) /\ DOMAIN Tail(s) = 1 .. Len(s) - 1
         /\ \A i \in 1 .. Len(s) - 1 : Tail(s)[i] = s[i + 1]
<1>1. Len(s) \in Nat \ {0}
  BY EmptySeq
<1>2. /\ Tail(s) \in Seq(S) /\ Len(Tail(s)) = Len(s) - 1
      /\ \A i \in 1 .. Len(Tail(s)) : Tail(s)[i] = s[i + 1]
      /\ Head(s) \in S
  BY HeadTailProperties
<1>3. Head(s) = s[1]
  OBVIOUS
<1>4. DOMAIN s = 1 .. Len(s) /\ DOMAIN Tail(s) = 1 .. Len(Tail(s))
  BY <1>2, LenProperties
<1>5. QED
  BY <1>1, <1>2, <1>3, <1>4

(***************************************************************************)
(* A sequence without its last element.                                    *)
(***************************************************************************)
LEMMA FrontIs ==
  ASSUME NEW S, NEW s \in Seq(S), s # << >>
  PROVE  /\ Len(s) \in Nat \ {0} /\ Last(s) = s[Len(s)] /\ Last(s) \in S
         /\ Front(s) \in Seq(S) /\ Len(Front(s)) = Len(s) - 1
         /\ DOMAIN s = 1 .. Len(s) /\ DOMAIN Front(s) = 1 .. Len(s) - 1
         /\ \A i \in 1 .. Len(s) - 1 : Front(s)[i] = s[i]
<1>1. Len(s) \in Nat \ {0}
  BY EmptySeq
<1>2. \A i \in 1 .. Len(s) : s[i] \in S
  BY ElementOfSeq
<1>3. Len(s) - 1 \in Int /\ 1 \in Int /\ \A i \in 1 .. Len(s) - 1 : s[i] \in S
  BY <1>1, <1>2
<1>4. /\ Front(s) \in Seq(S)
      /\ Len(Front(s)) = IF 1 <= Len(s) - 1 THEN (Len(s) - 1) - 1 + 1 ELSE 0
      /\ \A i \in 1 .. (Len(s) - 1) - 1 + 1 : Front(s)[i] = s[1 + i - 1]
  BY <1>3, SubSeqProperties DEF Front
<1>5. Len(Front(s)) = Len(s) - 1 /\ \A i \in 1 .. Len(s) - 1 : Front(s)[i] = s[i]
  <2>1. Len(Front(s)) = Len(s) - 1
    <3>0. ASSUME NEW n \in Nat \ {0}
          PROVE  (n - 1) - 1 + 1 = n - 1 /\ (~(1 <= n - 1) => n - 1 = 0)
      OBVIOUS
    <3>1. (Len(s) - 1) - 1 + 1 = Len(s) - 1 /\ (~(1 <= Len(s) - 1) => Len(s) - 1 = 0)
      BY <1>1, <3>0
    <3>2. QED
      BY <1>4, <3>1, Zenon
  <2>2. ASSUME NEW i \in 1 .. Len(s) - 1 PROVE Front(s)[i] = s[i]
    <3>1. i \in 1 .. (Len(s) - 1) - 1 + 1 /\ 1 + i - 1 = i
      BY <1>1
    <3>2. Front(s)[i] = s[1 + i - 1]
      BY <1>4, <3>1
    <3>3. QED
      BY <3>1, <3>2
  <2>3. QED
    BY <2>1, <2>2
<1>6. Last(s) = s[Len(s)] /\ Last(s) \in S
  BY <1>1, <1>2 DEF Last
<1>7. DOMAIN s = 1 .. Len(s) /\ DOMAIN Front(s) = 1 .. Len(Front(s))
  BY <1>4, LenProperties
<1>8. QED
  BY <1>1, <1>4, <1>5, <1>6, <1>7

(***************************************************************************)
(* A sequence with one element more.                                       *)
(***************************************************************************)
LEMMA AppendIs ==
  ASSUME NEW S, NEW s \in Seq(S), NEW b \in S
  PROVE  /\ Append(s, b) \in Seq(S) /\ Len(s) \in Nat
         /\ DOMAIN s = 1 .. Len(s) /\ DOMAIN Append(s, b) = 1 .. Len(s) + 1
         /\ \A i \in 1 .. Len(s) : Append(s, b)[i] = s[i]
         /\ Append(s, b)[Len(s) + 1] = b
         /\ s \o <<b>> = Append(s, b)
<1>1. /\ Append(s, b) \in Seq(S) /\ Len(Append(s, b)) = Len(s) + 1
      /\ \A i \in 1 .. Len(s) : Append(s, b)[i] = s[i]
      /\ Append(s, b)[Len(s) + 1] = b
  BY AppendProperties
<1>2. DOMAIN s = 1 .. Len(s) /\ Len(s) \in Nat /\ DOMAIN Append(s, b) = 1 .. Len(Append(s, b))
  BY <1>1, LenProperties
<1>3. QED
  BY <1>1, <1>2, AppendIsConcat

(***************************************************************************)
(* One sequence after another.                                             *)
(***************************************************************************)
LEMMA ConcatIs ==
  ASSUME NEW S, NEW s \in Seq(S), NEW t \in Seq(S)
  PROVE  /\ s \o t \in Seq(S) /\ Len(s) \in Nat /\ Len(t) \in Nat
         /\ DOMAIN s = 1 .. Len(s) /\ DOMAIN t = 1 .. Len(t)
         /\ Len(s \o t) = Len(s) + Len(t)
         /\ DOMAIN (s \o t) = 1 .. Len(s) + Len(t)
         /\ \A i \in 1 .. Len(s) : (s \o t)[i] = s[i]
         /\ \A i \in 1 .. Len(t) : (s \o t)[Len(s) + i] = t[i]
<1>1. /\ s \o t \in Seq(S) /\ Len(s \o t) = Len(s) + Len(t)
      /\ \A i \in 1 .. Len(s) + Len(t) :
           (s \o t)[i] = IF i <= Len(s) THEN s[i] ELSE t[i - Len(s)]
  BY ConcatProperties
<1>2. DOMAIN s = 1 .. Len(s) /\ Len(s) \in Nat /\ DOMAIN t = 1 .. Len(t) /\ Len(t) \in Nat
      /\ DOMAIN (s \o t) = 1 .. Len(s \o t)
  BY <1>1, LenProperties
<1>3. \A i \in 1 .. Len(s) : (s \o t)[i] = s[i]
  BY <1>1, <1>2
<1>4. ASSUME NEW i \in 1 .. Len(t) PROVE (s \o t)[Len(s) + i] = t[i]
  <2>1. Len(s) + i \in 1 .. Len(s) + Len(t) /\ ~(Len(s) + i <= Len(s)) /\ (Len(s) + i) - Len(s) = i
    BY <1>2
  <2>2. (s \o t)[Len(s) + i] = t[(Len(s) + i) - Len(s)]
    BY <1>1, <2>1
  <2>3. QED
    BY <2>1, <2>2
<1>5. QED
  BY <1>1, <1>2, <1>3, <1>4

(***************************************************************************)
(* SetToSeq lists a finite set, each element once.                         *)
(***************************************************************************)
LEMMA SetToSeqIs ==
  ASSUME NEW T, IsFiniteSet(T)
  PROVE  /\ SetToSeq(T) \in Seq(T) /\ IsInjective(SetToSeq(T))
         /\ ToSet(SetToSeq(T)) = T
<1> DEFINE n == Cardinality(T)
<1>1. n \in Nat /\ \E f \in [1 .. n -> T] : IsInjective(f)
  <2>1. n \in Nat /\ ExistsBijection(1 .. n, T)
    BY FS_CardinalityType
  <2>2. PICK f \in Bijection(1 .. n, T) : TRUE
    BY <2>1 DEF ExistsBijection
  <2>3. QED
    BY <2>1, <2>2 DEF Bijection, Injection
<1>2. SetToSeq(T) \in [1 .. n -> T] /\ IsInjective(SetToSeq(T))
  BY <1>1 DEF SetToSeq
<1>3. SetToSeq(T) \in Injection(1 .. n, T)
  BY <1>2 DEF Injection
<1>4. IsFiniteSet(1 .. n) /\ Cardinality(1 .. n) = n
  BY <1>1, FS_Interval
<1>5. SetToSeq(T) \in Surjection(1 .. n, T)
  BY <1>3, <1>4, FS_Injection
<1>6. SetToSeq(T) \in Seq(T)
  BY <1>1, <1>2, SeqDef
<1>7. ToSet(SetToSeq(T)) = T
  BY <1>2, <1>5 DEF ToSet, Surjection
<1>8. QED
  BY <1>2, <1>6, <1>7

(***************************************************************************)
(* A sequence of one element, the tx buffer the worker has in hand.        *)
(***************************************************************************)
LEMMA SeqOne ==
  ASSUME NEW S, NEW s \in Seq(S), Len(s) = 1
  PROVE  s = <<s[1]>> /\ s[1] \in S /\ Last(s) = s[1]
<1>1. s[1] \in S
  BY ElementOfSeq
<1>2. s = <<s[1]>>
  <2>1. PICK u : u = <<s[1]>>
    OBVIOUS
  <2>2. u \in Seq(S) /\ Len(u) = 1 /\ u[1] = s[1]
    BY <1>1, <2>1
  <2>3. \A i \in 1 .. Len(s) : s[i] = u[i]
    BY <2>2
  <2>4. s = u
    BY <2>2, <2>3, SeqEqual
  <2>5. QED
    BY <2>1, <2>4
<1>3. QED
  BY <1>1, <1>2 DEF Last

(***************************************************************************)
(* A sequence is its first element and the rest, as vhost_get_vq_desc and  *)
(* virtqueue_get_buf take it apart.                                        *)
(***************************************************************************)
LEMMA HeadFirst ==
  ASSUME NEW S, NEW s \in Seq(S), s # << >>
  PROVE  Append(<< >>, Head(s)) \o Tail(s) = s
<1>1. PICK b, r : b = Head(s) /\ r = Tail(s)
  OBVIOUS
<1>2. /\ Len(s) \in Nat \ {0} /\ b = s[1] /\ b \in S /\ r \in Seq(S) /\ Len(r) = Len(s) - 1
      /\ \A i \in 1 .. Len(s) - 1 : r[i] = s[i + 1]
  BY <1>1, TailIs
<1>3. PICK u : u = <<b>> \o r
  OBVIOUS
<1>4. <<b>> \in Seq(S) /\ Len(<<b>>) = 1 /\ <<b>>[1] = b /\ Append(<< >>, b) = <<b>>
  BY <1>2
<1>5. /\ u \in Seq(S) /\ Len(u) = 1 + Len(r)
      /\ \A i \in 1 .. 1 + Len(r) : u[i] = IF i <= 1 THEN <<b>>[i] ELSE r[i - 1]
  BY <1>2, <1>3, <1>4, ConcatProperties
<1>6. Len(u) = Len(s)
  BY <1>2, <1>5
<1>7. \A i \in 1 .. Len(s) : u[i] = s[i]
  <2>1. SUFFICES ASSUME NEW i \in 1 .. Len(s) PROVE u[i] = s[i]
    OBVIOUS
  <2>2. CASE i = 1
    BY <1>2, <1>4, <1>5, <2>2
  <2>3. CASE i # 1
    <3>1. i - 1 \in 1 .. Len(s) - 1 /\ (i - 1) + 1 = i /\ ~(i <= 1) /\ i \in 1 .. 1 + Len(r)
      BY <1>2, <2>1, <2>3
    <3>2. QED
      BY <1>2, <1>5, <3>1
  <2>4. QED
    BY <2>2, <2>3
<1>8. u = s
  BY <1>5, <1>6, <1>7, SeqEqual
<1>9. QED
  BY <1>1, <1>3, <1>4, <1>8

(***************************************************************************)
(* What is in a sequence after an append, and after its first element is   *)
(* gone.                                                                   *)
(***************************************************************************)
LEMMA ToSets ==
  ASSUME NEW S, NEW s \in Seq(S), NEW x \in S
  PROVE  /\ \A y : y \in ToSet(Append(s, x)) <=> y \in ToSet(s) \/ y = x
         /\ s # << >> => /\ Head(s) \in ToSet(s) /\ Tail(s) \in Seq(S) /\ Head(s) \in S
                         /\ \A y \in ToSet(Tail(s)) : y \in ToSet(s)
<1>1. \A y : y \in ToSet(Append(s, x)) <=> y \in ToSet(s) \/ y = x
  <2>1. PICK u, n : u = Append(s, x) /\ n = Len(s)
    OBVIOUS
  <2>2. /\ n \in Nat /\ DOMAIN s = 1 .. n /\ DOMAIN u = 1 .. n + 1
        /\ \A i \in 1 .. n : u[i] = s[i]
        /\ u[n + 1] = x
    BY <2>1, AppendIs
  <2>3. \A i \in 1 .. n + 1 : i \in 1 .. n \/ i = n + 1
    BY <2>2
  <2>4. \A y : y \in ToSet(u) <=> \E i \in 1 .. n + 1 : u[i] = y
    BY <2>2 DEF ToSet
  <2>5. \A y : y \in ToSet(s) <=> \E i \in 1 .. n : s[i] = y
    BY <2>2 DEF ToSet
  <2>6. \A i \in 1 .. n : i \in 1 .. n + 1
    BY <2>2
  <2>7. n + 1 \in 1 .. n + 1
    BY <2>2
  <2>8. \A y : y \in ToSet(u) <=> y \in ToSet(s) \/ y = x
    BY <2>2, <2>3, <2>4, <2>5, <2>6, <2>7
  <2>9. QED
    BY <2>1, <2>8
<1>2. ASSUME s # << >>
      PROVE  /\ Head(s) \in ToSet(s) /\ Tail(s) \in Seq(S) /\ Head(s) \in S
             /\ \A y \in ToSet(Tail(s)) : y \in ToSet(s)
  <2>1. PICK u, n : u = Tail(s) /\ n = Len(s)
    OBVIOUS
  <2>2. /\ n \in Nat \ {0} /\ Head(s) = s[1] /\ Head(s) \in S /\ u \in Seq(S)
        /\ DOMAIN s = 1 .. n /\ DOMAIN u = 1 .. n - 1
        /\ \A i \in 1 .. n - 1 : u[i] = s[i + 1]
    BY <1>2, <2>1, TailIs
  <2>3. Head(s) \in ToSet(s)
    BY <2>2 DEF ToSet
  <2>4. \A i \in 1 .. n - 1 : i + 1 \in 1 .. n
    BY <2>2
  <2>5. \A y \in ToSet(u) : y \in ToSet(s)
    BY <2>2, <2>4 DEF ToSet
  <2>6. QED
    BY <2>1, <2>2, <2>3, <2>5
<1>3. QED
  BY <1>1, <1>2

(***************************************************************************)
(* The first element of s goes to the end of d: t and e are what they      *)
(* become.                                                                 *)
(***************************************************************************)
FirstMoved(s, d, t, e) == s # << >> /\ t = Tail(s) /\ e = Append(d, Head(s))

(***************************************************************************)
(* Nothing new is in the two sequences between which the first message     *)
(* moves.                                                                  *)
(***************************************************************************)
LEMMA MoveFirst ==
  ASSUME NEW V, NEW s \in Seq(V), NEW d \in Seq(V), NEW t, NEW e, FirstMoved(s, d, t, e)
  PROVE  /\ t \in Seq(V) /\ e \in Seq(V)
         /\ \A y : y \in ToSet(t) \/ y \in ToSet(e) => y \in ToSet(s) \/ y \in ToSet(d)
<1>1. PICK h : h = Head(s) /\ s # << >> /\ t = Tail(s) /\ e = Append(d, h)
  BY DEF FirstMoved
<1>2. h \in V
  BY <1>1, TailIs
<1>3. t \in Seq(V) /\ h \in ToSet(s) /\ \A y \in ToSet(t) : y \in ToSet(s)
  BY <1>1, <1>2, ToSets
<1>4. \A y : y \in ToSet(Append(d, h)) <=> y \in ToSet(d) \/ y = h
  BY <1>2, ToSets
<1>5. Append(d, h) \in Seq(V)
  BY <1>2
<1>6. QED
  BY <1>1, <1>2, <1>3, <1>4, <1>5

(***************************************************************************)
(* A queue made of two parts: an append to the second is one to the queue, *)
(* and the queue is the same when the first element of the second part     *)
(* moves to the first.                                                     *)
(***************************************************************************)
LEMMA QueueSeqs ==
  ASSUME NEW V, NEW g \in Seq(V), NEW s \in Seq(V)
  PROVE  /\ \A v \in V : g \o Append(s, v) = Append(g \o s, v)
         /\ s # << >> => Append(g, Head(s)) \o Tail(s) = g \o s
         /\ << >> \o s = s
<1>1. ASSUME NEW v \in V PROVE g \o Append(s, v) = Append(g \o s, v)
  <2>1. PICK c : c = <<v>>
    OBVIOUS
  <2>2. c \in Seq(V)
    BY <2>1
  <2>3. s \o c = Append(s, v) /\ g \o s \in Seq(V)
    BY <2>1, AppendIs, ConcatIs
  <2>4. (g \o s) \o c = Append(g \o s, v)
    <3>1. PICK u : u = g \o s
      OBVIOUS
    <3>2. u \o <<v>> = Append(u, v)
      BY <2>3, <3>1, AppendIs
    <3>3. QED
      BY <2>1, <3>1, <3>2
  <2>5. (g \o s) \o c = g \o (s \o c)
    BY <2>2, ConcatAssociative
  <2>6. QED
    BY <2>3, <2>4, <2>5
<1>2. ASSUME s # << >> PROVE Append(g, Head(s)) \o Tail(s) = g \o s
  <2>1. PICK h, t, c : h = Head(s) /\ t = Tail(s) /\ c = <<h>>
    OBVIOUS
  <2>2. h \in V /\ t \in Seq(V)
    BY <1>2, <2>1, TailIs
  <2>3. c \in Seq(V) /\ Append(<< >>, h) = c
    BY <2>1, <2>2
  <2>4. c \o t = s
    BY <1>2, <2>1, <2>3, HeadFirst
  <2>5. g \o c = Append(g, h)
    BY <2>1, <2>2, AppendIs
  <2>6. (g \o c) \o t = g \o (c \o t)
    BY <2>2, <2>3, ConcatAssociative
  <2>7. QED
    BY <2>1, <2>4, <2>5, <2>6
<1>3. << >> \o s = s
  BY ConcatEmptySeq
<1>4. QED
  BY <1>1, <1>2, <1>3

(***************************************************************************)
(* The first element of the first part is the first of the queue.          *)
(***************************************************************************)
LEMMA ConcatTail ==
  ASSUME NEW V, NEW g \in Seq(V), NEW s \in Seq(V), g # << >>
  PROVE  g \o s # << >> /\ Head(g \o s) = Head(g) /\ Tail(g \o s) = Tail(g) \o s
<1>1. PICK h, t, c : h = Head(g) /\ t = Tail(g) /\ c = <<h>>
  OBVIOUS
<1>2. h \in V /\ t \in Seq(V)
  BY <1>1, TailIs
<1>3. c \in Seq(V)
  BY <1>1, <1>2
<1>4. c \o t = g
  <2>1. Append(<< >>, h) = c
    BY <1>1, <1>2
  <2>2. QED
    BY <1>1, <2>1, HeadFirst
<1>5. PICK u, q : u = t \o s /\ q = c \o u
  OBVIOUS
<1>6. u \in Seq(V)
  BY <1>2, <1>5, ConcatIs
<1>7. g \o s = q
  <2>1. (c \o t) \o s = c \o (t \o s)
    BY <1>2, <1>3, ConcatAssociative
  <2>2. QED
    BY <1>4, <1>5, <2>1
<1>8. /\ q \in Seq(V) /\ Len(c) = 1 /\ Len(u) \in Nat /\ DOMAIN q = 1 .. 1 + Len(u)
      /\ \A i \in 1 .. 1 : q[i] = c[i]
      /\ \A i \in 1 .. Len(u) : q[1 + i] = u[i]
  <2>1. Len(c) = 1
    BY <1>1
  <2>2. /\ q \in Seq(V) /\ Len(u) \in Nat /\ DOMAIN q = 1 .. Len(c) + Len(u)
        /\ \A i \in 1 .. Len(c) : q[i] = c[i]
        /\ \A i \in 1 .. Len(u) : q[Len(c) + i] = u[i]
    BY <1>3, <1>5, <1>6, ConcatIs
  <2>3. QED
    BY <2>1, <2>2
<1>9. q # << >> /\ Len(q) = 1 + Len(u)
  <2>1. Len(q) = 1 + Len(u)
    BY <1>8, LenProperties
  <2>2. QED
    BY <1>8, <2>1
<1>10. q[1] = h
  BY <1>1, <1>8
<1>11. /\ Head(q) = q[1] /\ Tail(q) \in Seq(V) /\ Len(Tail(q)) = Len(u)
       /\ \A i \in 1 .. Len(u) : Tail(q)[i] = q[i + 1]
  <2>1. /\ Head(q) = q[1] /\ Tail(q) \in Seq(V) /\ Len(Tail(q)) = Len(q) - 1
        /\ \A i \in 1 .. Len(q) - 1 : Tail(q)[i] = q[i + 1]
    BY <1>8, <1>9, TailIs
  <2>2. Len(q) - 1 = Len(u)
    BY <1>8, <1>9
  <2>3. QED
    BY <2>1, <2>2
<1>12. \A i \in 1 .. Len(u) : Tail(q)[i] = u[i]
  <2>1. \A i \in 1 .. Len(u) : i + 1 = 1 + i
    BY <1>8
  <2>2. QED
    BY <1>8, <1>11, <2>1
<1>13. Tail(q) = u
  <2>1. PICK w : w = Tail(q)
    OBVIOUS
  <2>2. w = u
    BY <1>6, <1>11, <1>12, <2>1, SeqEqual
  <2>3. QED
    BY <2>1, <2>2
<1>14. QED
  BY <1>1, <1>5, <1>7, <1>9, <1>10, <1>11, <1>13

(***************************************************************************)
(* What was numbered before the next message is still numbered before the  *)
(* one after it.                                                           *)
(***************************************************************************)
LEMMA WiderSeq ==
  ASSUME NEW n \in Nat \ {0}, NEW s \in Seq(1 .. n - 1)
  PROVE  s \in Seq(1 .. (n + 1) - 1)
<1>1. 1 .. n - 1 \subseteq 1 .. (n + 1) - 1
  OBVIOUS
<1>2. QED
  BY <1>1, SeqMonotonic

-----------------------------------------------------------------------------
(* Places that hold buffers *)

(***************************************************************************)
(* Places that hold buffers, one sequence each: no buffer is held twice.   *)
(***************************************************************************)
Once(A) ==
  \A p, q \in DOMAIN A : \A i \in DOMAIN A[p], j \in DOMAIN A[q] :
    A[p][i] = A[q][j] => p = q /\ i = j

Holds(A, b) == \E p \in DOMAIN A : \E i \in DOMAIN A[p] : A[p][i] = b

(***************************************************************************)
(* The buffer b, first or last of the place p, moves to the end of the     *)
(* place q.                                                                *)
(***************************************************************************)
Moved(A, B, p, q, b) ==
  /\ p # q /\ A[p] # << >>
  /\ \/ b = Head(A[p]) /\ B[p] = Tail(A[p])
     \/ b = Last(A[p]) /\ B[p] = Front(A[p])
  /\ B[q] = Append(A[q], b)
  /\ \A r \in DOMAIN A : r # p /\ r # q => B[r] = A[r]

(***************************************************************************)
(* A move keeps every buffer in at most one place and loses none.          *)
(***************************************************************************)
LEMMA MoveKeeps ==
  ASSUME NEW P, NEW S, NEW A, NEW B, A \in [P -> Seq(S)], B \in [P -> Seq(S)], Once(A),
         NEW p \in P, NEW q \in P, NEW b \in S, Moved(A, B, p, q, b)
  PROVE  Once(B) /\ \A x : Holds(B, x) <=> Holds(A, x)
<1> SUFFICES ASSUME p # q, A[p] # << >>,
                    \/ b = Head(A[p]) /\ B[p] = Tail(A[p])
                    \/ b = Last(A[p]) /\ B[p] = Front(A[p]),
                    B[q] = Append(A[q], b),
                    \A r \in P : r # p /\ r # q => B[r] = A[r]
             PROVE  Once(B) /\ \A x : Holds(B, x) <=> Holds(A, x)
  BY DEF Moved
<1> DEFINE n == Len(A[p])  m == Len(A[q])
<1>1. DOMAIN A = P /\ DOMAIN B = P
  OBVIOUS
<1>2. /\ n \in Nat \ {0} /\ DOMAIN A[p] = 1 .. n /\ DOMAIN B[p] = 1 .. n - 1
      /\ \E d \in {0, 1} : /\ \A i \in 1 .. n - 1 : B[p][i] = A[p][i + d]
                           /\ d = 1 => b = A[p][1]
                           /\ d = 0 => b = A[p][n]
  <2>1. CASE b = Head(A[p]) /\ B[p] = Tail(A[p])
    BY <2>1, TailIs
  <2>2. CASE b = Last(A[p]) /\ B[p] = Front(A[p])
    <3>1. /\ n \in Nat \ {0} /\ DOMAIN A[p] = 1 .. n /\ DOMAIN B[p] = 1 .. n - 1
          /\ \A i \in 1 .. n - 1 : B[p][i] = A[p][i]
          /\ b = A[p][n]
      BY <2>2, FrontIs
    <3>2. \A i \in 1 .. n - 1 : B[p][i] = A[p][i + 0]
      BY <3>1
    <3>3. QED
      BY <3>1, <3>2
  <2>3. QED
    BY <2>1, <2>2
<1>3. /\ m \in Nat /\ DOMAIN A[q] = 1 .. m /\ DOMAIN B[q] = 1 .. m + 1
      /\ \A i \in 1 .. m : B[q][i] = A[q][i]
      /\ B[q][m + 1] = b
  BY AppendIs
<1> HIDE DEF n, m
<1>4. PICK d \in {0, 1} : /\ \A i \in 1 .. n - 1 : B[p][i] = A[p][i + d]
                          /\ d = 1 => b = A[p][1]
                          /\ d = 0 => b = A[p][n]
  BY <1>2
<1>5. PICK k \in 1 .. n : b = A[p][k] /\ (d = 1 => k = 1) /\ (d = 0 => k = n)
  BY <1>2, <1>4
<1>6. /\ \A i \in DOMAIN B[p] : /\ i + d \in DOMAIN A[p] /\ i + d # k
                                /\ B[p][i] = A[p][i + d]
      /\ k \in DOMAIN A[p]
  <2>1. CASE d = 0
    <3>1. \A i \in 1 .. n - 1 : i + 0 = i /\ i \in 1 .. n /\ i # n
      BY <1>2
    <3>2. QED
      BY <1>2, <1>4, <1>5, <2>1, <3>1
  <2>2. CASE d = 1
    BY <1>2, <1>4, <1>5, <2>2
  <2>3. QED
    BY <2>1, <2>2
<1>7. \A r \in P \ {p} : \A i \in DOMAIN B[r] :
        \/ r = q /\ i = m + 1 /\ B[r][i] = A[p][k]
        \/ i \in DOMAIN A[r] /\ B[r][i] = A[r][i] /\ (r = q => i # m + 1)
  <2>1. ASSUME NEW r \in P \ {p}, NEW i \in DOMAIN B[r]
        PROVE  \/ r = q /\ i = m + 1 /\ B[r][i] = A[p][k]
               \/ i \in DOMAIN A[r] /\ B[r][i] = A[r][i] /\ (r = q => i # m + 1)
    <3>1. CASE r = q /\ i = m + 1
      BY <1>3, <1>5, <3>1
    <3>2. CASE r = q /\ i # m + 1
      BY <1>3, <2>1, <3>2
    <3>3. CASE r # q
      BY <2>1, <3>3
    <3>4. QED
      BY <3>1, <3>2, <3>3
  <2>2. QED
    BY <2>1
<1>8. ASSUME NEW r \in P, NEW t \in P, NEW i \in DOMAIN B[r], NEW j \in DOMAIN B[t],
             B[r][i] = B[t][j]
      PROVE  r = t /\ i = j
  <2>1. CASE r = p /\ t = p
    <3>1. i \in Nat /\ j \in Nat
      BY <1>2, <1>8, <2>1
    <3>2. i + d = j + d
      BY <1>1, <1>6, <1>8, <2>1 DEF Once
    <3>3. QED
      BY <2>1, <3>1, <3>2
  <2>2. CASE r = p /\ t # p
    BY <1>1, <1>6, <1>7, <1>8, <2>2 DEF Once
  <2>3. CASE r # p /\ t = p
    BY <1>1, <1>6, <1>7, <1>8, <2>3 DEF Once
  <2>4. CASE r # p /\ t # p
    <3>1. CASE r = q /\ i = m + 1 /\ B[r][i] = A[p][k]
      <4>1. \/ t = q /\ j = m + 1
            \/ j \in DOMAIN A[t] /\ B[t][j] = A[t][j]
        BY <1>7, <1>8, <2>4
      <4>2. QED
        BY <1>1, <1>6, <1>8, <2>4, <3>1, <4>1 DEF Once
    <3>2. CASE i \in DOMAIN A[r] /\ B[r][i] = A[r][i] /\ (r = q => i # m + 1)
      <4>1. \/ t = q /\ j = m + 1 /\ B[t][j] = A[p][k]
            \/ j \in DOMAIN A[t] /\ B[t][j] = A[t][j]
        BY <1>7, <1>8, <2>4
      <4>2. QED
        BY <1>1, <1>6, <1>8, <2>4, <3>2, <4>1 DEF Once
    <3>3. QED
      BY <1>7, <1>8, <2>4, <3>1, <3>2
  <2>5. QED
    BY <2>1, <2>2, <2>3, <2>4
<1>9. Once(B)
  BY <1>1, <1>8 DEF Once
<1>10. ASSUME NEW x, Holds(B, x) PROVE Holds(A, x)
  <2>1. PICK r \in P : \E i \in DOMAIN B[r] : B[r][i] = x
    BY <1>1, <1>10 DEF Holds
  <2>2. PICK i \in DOMAIN B[r] : B[r][i] = x
    BY <2>1
  <2>3. \E t \in P : \E j \in DOMAIN A[t] : A[t][j] = x
    BY <1>6, <1>7, <2>2
  <2>4. QED
    BY <1>1, <2>3 DEF Holds
<1>11. ASSUME NEW x, Holds(A, x) PROVE Holds(B, x)
  <2>0. PICK r \in P : \E i \in DOMAIN A[r] : A[r][i] = x
    BY <1>1, <1>11 DEF Holds
  <2>1. PICK i \in DOMAIN A[r] : A[r][i] = x
    BY <2>0
  <2>2. CASE r = p /\ i = k
    <3>1. m + 1 \in DOMAIN B[q] /\ B[q][m + 1] = x
      BY <1>3, <1>5, <2>1, <2>2
    <3>2. QED
      BY <1>1, <3>1 DEF Holds
  <2>3. CASE r = p /\ i # k
    <3>1. i - d \in DOMAIN B[p] /\ (i - d) + d = i
      BY <1>2, <1>5, <2>1, <2>3
    <3>2. B[p][i - d] = x
      BY <1>2, <1>4, <2>1, <2>3, <3>1
    <3>3. QED
      BY <1>1, <3>1, <3>2 DEF Holds
  <2>4. CASE r = q
    <3>1. i \in DOMAIN B[q] /\ B[q][i] = x
      BY <1>3, <2>1, <2>4
    <3>2. QED
      BY <1>1, <3>1 DEF Holds
  <2>5. CASE r # p /\ r # q
    BY <1>1, <2>1, <2>5 DEF Holds
  <2>6. QED
    BY <2>2, <2>3, <2>4, <2>5
<1>12. QED
  BY <1>9, <1>10, <1>11

(***************************************************************************)
(* Places lose their first buffer or all of them.                          *)
(***************************************************************************)
Gone(s, t) == {s[i] : i \in DOMAIN s} \ {t[i] : i \in DOMAIN t}

Dropped(A, B) ==
  \A p \in DOMAIN A : \/ B[p] = A[p]
                      \/ B[p] = << >>
                      \/ A[p] # << >> /\ B[p] = Tail(A[p])

(***************************************************************************)
(* What is dropped is held nowhere any more, and the rest is where it was. *)
(***************************************************************************)
LEMMA DropKeeps ==
  ASSUME NEW P, NEW S, NEW A, NEW B, A \in [P -> Seq(S)], B \in [P -> Seq(S)], Once(A),
         Dropped(A, B)
  PROVE  /\ Once(B)
         /\ \A x : Holds(B, x) <=> Holds(A, x) /\ ~\E p \in P : x \in Gone(A[p], B[p])
<1> SUFFICES ASSUME \A p \in P : \/ B[p] = A[p]
                                 \/ B[p] = << >>
                                 \/ A[p] # << >> /\ B[p] = Tail(A[p])
             PROVE  /\ Once(B)
                    /\ \A x : Holds(B, x) <=>
                              Holds(A, x) /\ ~\E p \in P : x \in Gone(A[p], B[p])
  BY DEF Dropped
<1>1. DOMAIN A = P /\ DOMAIN B = P
  OBVIOUS
<1>2. ASSUME NEW p \in P
      PROVE  /\ DOMAIN B[p] \subseteq Nat /\ DOMAIN A[p] \subseteq Nat
             /\ \E d \in {0, 1} :
                  \A i \in DOMAIN B[p] : i + d \in DOMAIN A[p] /\ B[p][i] = A[p][i + d]
  <2>1. DOMAIN A[p] = 1 .. Len(A[p]) /\ Len(A[p]) \in Nat /\ A[p] \in Seq(S)
    BY LenProperties
  <2>2. CASE B[p] = A[p]
    <3>1. \A i \in DOMAIN B[p] : i + 0 \in DOMAIN A[p] /\ B[p][i] = A[p][i + 0]
      BY <2>1, <2>2
    <3>2. QED
      BY <2>1, <2>2, <3>1
  <2>3. CASE B[p] = << >>
    BY <2>1, <2>3
  <2>4. CASE A[p] # << >> /\ B[p] = Tail(A[p])
    <3>1. \A i \in DOMAIN B[p] : i + 1 \in DOMAIN A[p] /\ B[p][i] = A[p][i + 1]
      BY <2>1, <2>4, TailIs
    <3>2. QED
      BY <2>1, <2>4, <3>1, TailIs
  <2>5. QED
    BY <2>2, <2>3, <2>4
<1>4. ASSUME NEW p \in P, NEW q \in P, NEW i \in DOMAIN B[p], NEW j \in DOMAIN B[q],
             B[p][i] = B[q][j]
      PROVE  p = q /\ i = j
  <2>1. PICK d \in {0, 1} :
          \A k \in DOMAIN B[p] : k + d \in DOMAIN A[p] /\ B[p][k] = A[p][k + d]
    BY <1>2
  <2>2. PICK e \in {0, 1} :
          \A k \in DOMAIN B[q] : k + e \in DOMAIN A[q] /\ B[q][k] = A[q][k + e]
    BY <1>2
  <2>3. p = q /\ i + d = j + e
    BY <1>1, <1>4, <2>1, <2>2 DEF Once
  <2>4. B[p][i] = A[p][i + d] /\ B[p][j] = A[p][j + d] /\ i + d \in DOMAIN A[p] /\ j + d \in DOMAIN A[p]
    BY <1>4, <2>1, <2>3
  <2>5. i + d = j + d
    BY <1>1, <1>4, <2>3, <2>4 DEF Once
  <2>6. i \in Nat /\ j \in Nat
    BY <1>2, <1>4
  <2>7. QED
    BY <2>3, <2>5, <2>6
<1>5. Once(B)
  BY <1>1, <1>4 DEF Once
<1>6. ASSUME NEW p \in P, NEW i \in DOMAIN B[p]
      PROVE  \E j \in DOMAIN A[p] : A[p][j] = B[p][i]
  BY <1>2, <1>6
<1>7. ASSUME NEW x, Holds(B, x)
      PROVE  Holds(A, x) /\ ~\E p \in P : x \in Gone(A[p], B[p])
  <2>0. PICK q \in P : \E i \in DOMAIN B[q] : B[q][i] = x
    BY <1>1, <1>7 DEF Holds
  <2>1. PICK i \in DOMAIN B[q] : B[q][i] = x
    BY <2>0
  <2>2. PICK j \in DOMAIN A[q] : A[q][j] = x
    BY <1>6, <2>1
  <2>3. ASSUME NEW p \in P, x \in Gone(A[p], B[p]) PROVE FALSE
    <3>1. PICK k \in DOMAIN A[p] : A[p][k] = x
      BY <2>3 DEF Gone
    <3>2. p = q
      BY <1>1, <2>2, <3>1 DEF Once
    <3>3. QED
      BY <2>1, <2>3, <3>2 DEF Gone
  <2>4. QED
    BY <1>1, <2>2, <2>3 DEF Holds
<1>8. ASSUME NEW x, Holds(A, x), ~\E p \in P : x \in Gone(A[p], B[p])
      PROVE  Holds(B, x)
  <2>0. PICK p \in P : \E i \in DOMAIN A[p] : A[p][i] = x
    BY <1>1, <1>8 DEF Holds
  <2>1. PICK i \in DOMAIN A[p] : A[p][i] = x
    BY <2>0
  <2>2. x \in {B[p][k] : k \in DOMAIN B[p]}
    BY <1>8, <2>1 DEF Gone
  <2>3. QED
    BY <1>1, <2>2 DEF Holds
<1>9. QED
  BY <1>5, <1>7, <1>8

(***************************************************************************)
(* o lists the elements of s that are in X.                                *)
(***************************************************************************)
IsPart(o, s, X) == o = SubseqAt(s, {i \in DOMAIN s : s[i] \in X})

(***************************************************************************)
(* A part of s has exactly the elements of s in X, each as often as s has  *)
(* it.                                                                     *)
(***************************************************************************)
LEMMA PartIs ==
  ASSUME NEW S, NEW s \in Seq(S), NEW X, NEW o, IsPart(o, s, X)
  PROVE  /\ o \in Seq(S \cap X)
         /\ IsInjective(s) => IsInjective(o)
         /\ \A x : x \in ToSet(o) <=> x \in ToSet(s) /\ x \in X
<1>0. PICK at \in SUBSET DOMAIN s :
        (\A i \in DOMAIN s : i \in at <=> s[i] \in X) /\ o = SubseqAt(s, at)
  <2>1. {i \in DOMAIN s : s[i] \in X} \in SUBSET DOMAIN s
    OBVIOUS
  <2>2. QED
    BY <2>1 DEF IsPart
<1> DEFINE n == Cardinality(at)
<1>1. n \in Nat /\ DOMAIN s \subseteq Nat /\ s \in [DOMAIN s -> S]
  BY SubseqOrder, LenProperties
<1>2. PICK f \in [1 .. n -> at] :
        /\ \A i, j \in 1 .. n : i < j => f[i] < f[j]
        /\ \A p \in at : \E k \in 1 .. n : f[k] = p
        /\ SubseqAt(s, at) = [k \in 1 .. n |-> s[f[k]]]
  BY SubseqOrder
<1> HIDE DEF n
<1>3. o = [k \in 1 .. n |-> s[f[k]]]
  BY <1>0, <1>2
<1>4. \A k \in 1 .. n : f[k] \in DOMAIN s /\ s[f[k]] \in X /\ s[f[k]] \in S
  BY <1>0, <1>1, <1>2
<1>5. o \in Seq(S \cap X)
  <2>1. o \in [1 .. n -> S \cap X]
    BY <1>3, <1>4
  <2>2. QED
    BY <1>1, <2>1, SeqDef
<1>6. ASSUME IsInjective(s) PROVE IsInjective(o)
  <2>1. ASSUME NEW i \in 1 .. n, NEW j \in 1 .. n, s[f[i]] = s[f[j]]
        PROVE  i = j
    <3>1. f[i] = f[j]
      BY <1>4, <1>6, <2>1 DEF IsInjective
    <3>2. f[i] \in Nat /\ ~(f[i] < f[i]) /\ ~(f[j] < f[i])
      BY <1>1, <1>4, <3>1
    <3>3. ~(i < j) /\ ~(j < i)
      BY <1>2, <3>1, <3>2
    <3>4. QED
      BY <3>3
  <2>2. QED
    BY <1>3, <2>1 DEF IsInjective
<1>7. ToSet(o) = ToSet(s) \cap X
  <2>1. ASSUME NEW x \in ToSet(o) PROVE x \in ToSet(s) \cap X
    BY <1>3, <1>4, <2>1 DEF ToSet
  <2>2. ASSUME NEW x \in ToSet(s) \cap X PROVE x \in ToSet(o)
    <3>1. PICK i \in DOMAIN s : s[i] = x
      BY <2>2 DEF ToSet
    <3>2. PICK k \in 1 .. n : f[k] = i
      BY <1>0, <1>2, <2>2, <3>1
    <3>3. o[k] = x /\ DOMAIN o = 1 .. n
      BY <1>3, <3>1, <3>2
    <3>4. QED
      BY <3>2, <3>3 DEF ToSet
  <2>3. QED
    BY <2>1, <2>2
<1>8. QED
  BY <1>5, <1>6, <1>7

(***************************************************************************)
(* t is s followed by o.                                                   *)
(***************************************************************************)
Joined(t, s, o) ==
  \E m, n \in Nat :
    /\ DOMAIN s = 1 .. m /\ DOMAIN o = 1 .. n /\ DOMAIN t = 1 .. m + n
    /\ \A i \in 1 .. m : t[i] = s[i]
    /\ \A i \in 1 .. n : t[m + i] = o[i]

(***************************************************************************)
(* A concatenation joins its two parts.                                    *)
(***************************************************************************)
LEMMA JoinedIs ==
  ASSUME NEW S, NEW s \in Seq(S), NEW o \in Seq(S)
  PROVE  Joined(s \o o, s, o)
<1>1. PICK t : t = s \o o
  OBVIOUS
<1>2. /\ Len(s) \in Nat /\ Len(o) \in Nat /\ DOMAIN s = 1 .. Len(s) /\ DOMAIN o = 1 .. Len(o)
      /\ DOMAIN t = 1 .. Len(s) + Len(o)
      /\ \A i \in 1 .. Len(s) : t[i] = s[i]
      /\ \A i \in 1 .. Len(o) : t[Len(s) + i] = o[i]
  BY <1>1, ConcatIs
<1>3. Joined(t, s, o)
  BY <1>2 DEF Joined
<1>4. QED
  BY <1>1, <1>3

(***************************************************************************)
(* What is in a joined sequence is in one of its parts, and each           *)
(* occurrence is in one of them.                                           *)
(***************************************************************************)
LEMMA JoinedParts ==
  ASSUME NEW t, NEW s, NEW o, Joined(t, s, o)
  PROVE  /\ \A i \in DOMAIN s : i \in DOMAIN t /\ t[i] = s[i]
         /\ \A k \in DOMAIN o : \E i \in DOMAIN t : t[i] = o[k]
         /\ \A i \in DOMAIN t : \/ i \in DOMAIN s
                                \/ \E k \in DOMAIN o : t[i] = o[k]
         /\ IsInjective(o) =>
              \A i, j \in DOMAIN t \ DOMAIN s : t[i] = t[j] => i = j
<1>1. PICK m \in Nat, n \in Nat :
        /\ DOMAIN s = 1 .. m /\ DOMAIN o = 1 .. n /\ DOMAIN t = 1 .. m + n
        /\ \A i \in 1 .. m : t[i] = s[i]
        /\ \A i \in 1 .. n : t[m + i] = o[i]
  BY DEF Joined
<1>2. ASSUME NEW i \in DOMAIN s PROVE i \in DOMAIN t /\ t[i] = s[i]
  BY <1>1
<1>3. ASSUME NEW k \in DOMAIN o PROVE \E i \in DOMAIN t : t[i] = o[k]
  <2>1. m + k \in DOMAIN t /\ t[m + k] = o[k]
    BY <1>1
  <2>2. QED
    BY <2>1
<1>4. ASSUME NEW i \in DOMAIN t \ DOMAIN s
      PROVE  \E k \in DOMAIN o : t[i] = o[k] /\ i = m + k
  <2>1. i - m \in 1 .. n /\ m + (i - m) = i
    BY <1>1
  <2>2. t[m + (i - m)] = o[i - m]
    BY <1>1, <2>1
  <2>3. QED
    BY <1>1, <2>1, <2>2
<1>5. ASSUME IsInjective(o), NEW i \in DOMAIN t \ DOMAIN s, NEW j \in DOMAIN t \ DOMAIN s,
             t[i] = t[j]
      PROVE  i = j
  <2>1. PICK k \in DOMAIN o : t[i] = o[k] /\ i = m + k
    BY <1>4
  <2>2. PICK l \in DOMAIN o : t[j] = o[l] /\ j = m + l
    BY <1>4
  <2>3. k = l
    BY <1>5, <2>1, <2>2 DEF IsInjective
  <2>4. QED
    BY <2>1, <2>2, <2>3
<1>6. QED
  BY <1>2, <1>3, <1>4, <1>5

(***************************************************************************)
(* The buffers of the place u are sorted into the places Q, each into the  *)
(* one whose set X it is in (virthab_recv_txq).                            *)
(***************************************************************************)
Sorted(t, s, u, X) ==
  \E o : IsInjective(o) /\ ToSet(o) = ToSet(u) \cap X /\ Joined(t, s, o)

SortedOut(A, B, u, Q, X) ==
  /\ u \in DOMAIN A /\ Q \subseteq DOMAIN A \ {u}
  /\ \A p, q \in Q : p # q => X[p] \cap X[q] = {}
  /\ \A i \in DOMAIN A[u] : \E p \in Q : A[u][i] \in X[p]
  /\ \A p \in Q : Sorted(B[p], A[p], A[u], X[p])
  /\ B[u] = << >>
  /\ \A p \in DOMAIN A \ Q : p # u => B[p] = A[p]

(***************************************************************************)
(* A place after it was given its part of u.                               *)
(***************************************************************************)
LEMMA SortedParts ==
  ASSUME NEW t, NEW s, NEW u, NEW X, Sorted(t, s, u, X)
  PROVE  /\ \A i \in DOMAIN s : i \in DOMAIN t /\ t[i] = s[i]
         /\ \A k \in DOMAIN u : u[k] \in X => \E i \in DOMAIN t : t[i] = u[k]
         /\ \A i \in DOMAIN t : \/ i \in DOMAIN s
                                \/ t[i] \in X /\ \E k \in DOMAIN u : t[i] = u[k]
         /\ \A i, j \in DOMAIN t \ DOMAIN s : t[i] = t[j] => i = j
<1>1. PICK o : IsInjective(o) /\ ToSet(o) = ToSet(u) \cap X /\ Joined(t, s, o)
  BY DEF Sorted
<1>2. /\ \A i \in DOMAIN s : i \in DOMAIN t /\ t[i] = s[i]
      /\ \A k \in DOMAIN o : \E i \in DOMAIN t : t[i] = o[k]
      /\ \A i \in DOMAIN t : i \in DOMAIN s \/ \E k \in DOMAIN o : t[i] = o[k]
      /\ \A i, j \in DOMAIN t \ DOMAIN s : t[i] = t[j] => i = j
  BY <1>1, JoinedParts
<1>3. ASSUME NEW k \in DOMAIN u, u[k] \in X PROVE \E i \in DOMAIN t : t[i] = u[k]
  <2>1. u[k] \in ToSet(o)
    BY <1>1, <1>3 DEF ToSet
  <2>2. PICK l \in DOMAIN o : o[l] = u[k]
    BY <2>1 DEF ToSet
  <2>3. QED
    BY <1>2, <2>2
<1>4. ASSUME NEW i \in DOMAIN t, i \notin DOMAIN s
      PROVE  t[i] \in X /\ \E k \in DOMAIN u : t[i] = u[k]
  <2>1. t[i] \in ToSet(o)
    BY <1>2, <1>4 DEF ToSet
  <2>2. t[i] \in ToSet(u) \cap X
    BY <1>1, <2>1
  <2>3. QED
    BY <2>2 DEF ToSet
<1>5. QED
  BY <1>2, <1>3, <1>4

(***************************************************************************)
(* Sorting a place out keeps every buffer in at most one place and loses   *)
(* none, when the sets X are disjoint and cover it.                        *)
(***************************************************************************)
LEMMA SortKeeps ==
  ASSUME NEW P, NEW A, NEW B, DOMAIN A = P, DOMAIN B = P, Once(A),
         NEW u, NEW Q, NEW X, SortedOut(A, B, u, Q, X)
  PROVE  Once(B) /\ \A x : Holds(B, x) <=> Holds(A, x)
<1> SUFFICES ASSUME u \in P, Q \subseteq P \ {u},
                    \A p, q \in Q : p # q => X[p] \cap X[q] = {},
                    \A i \in DOMAIN A[u] : \E p \in Q : A[u][i] \in X[p],
                    \A p \in Q : Sorted(B[p], A[p], A[u], X[p]),
                    B[u] = << >>,
                    \A p \in P \ Q : p # u => B[p] = A[p]
             PROVE  Once(B) /\ \A x : Holds(B, x) <=> Holds(A, x)
  BY DEF SortedOut
<1>1. \A p \in Q :
        /\ \A i \in DOMAIN A[p] : i \in DOMAIN B[p] /\ B[p][i] = A[p][i]
        /\ \A k \in DOMAIN A[u] : A[u][k] \in X[p] => \E i \in DOMAIN B[p] : B[p][i] = A[u][k]
        /\ \A i \in DOMAIN B[p] : \/ i \in DOMAIN A[p]
                                  \/ B[p][i] \in X[p] /\ \E k \in DOMAIN A[u] : B[p][i] = A[u][k]
        /\ \A i, j \in DOMAIN B[p] \ DOMAIN A[p] : B[p][i] = B[p][j] => i = j
  BY SortedParts
<1>2. ASSUME NEW p \in P, NEW i \in DOMAIN B[p]
      PROVE  \/ p # u /\ i \in DOMAIN A[p] /\ B[p][i] = A[p][i]
             \/ /\ p \in Q /\ B[p][i] \in X[p] /\ i \notin DOMAIN A[p]
                /\ \E j \in DOMAIN A[u] : B[p][i] = A[u][j]
  <2>1. CASE p \in Q
    BY <1>1, <1>2, <2>1
  <2>2. CASE p = u
    BY <1>2, <2>2
  <2>3. CASE p \notin Q /\ p # u
    BY <1>2, <2>3
  <2>4. QED
    BY <2>1, <2>2, <2>3
<1>0. DOMAIN A = P /\ DOMAIN B = P
  OBVIOUS
<1>a. ASSUME NEW p \in P, NEW q \in P, NEW i \in DOMAIN A[p], NEW j \in DOMAIN A[q],
             A[p][i] = A[q][j]
      PROVE  p = q /\ i = j
  BY <1>0, <1>a DEF Once
<1>3. ASSUME NEW p \in P, NEW q \in P, NEW i \in DOMAIN B[p], NEW j \in DOMAIN B[q],
             B[p][i] = B[q][j]
      PROVE  p = q /\ i = j
  <2>1. CASE p # u /\ i \in DOMAIN A[p] /\ B[p][i] = A[p][i]
    <3>1. CASE q # u /\ j \in DOMAIN A[q] /\ B[q][j] = A[q][j]
      <4>1. A[p][i] = A[q][j]
        BY <1>3, <2>1, <3>1
      <4>2. QED
        BY <1>a, <2>1, <3>1, <4>1
    <3>2. CASE \E k \in DOMAIN A[u] : B[q][j] = A[u][k]
      <4>1. PICK k \in DOMAIN A[u] : A[p][i] = A[u][k]
        BY <1>3, <2>1, <3>2
      <4>2. QED
        BY <1>a, <2>1, <4>1
    <3>3. QED
      BY <1>2, <3>1, <3>2
  <2>2. CASE /\ p \in Q /\ B[p][i] \in X[p] /\ i \notin DOMAIN A[p]
             /\ \E k \in DOMAIN A[u] : B[p][i] = A[u][k]
    <3>1. CASE q # u /\ j \in DOMAIN A[q] /\ B[q][j] = A[q][j]
      <4>1. PICK k \in DOMAIN A[u] : A[q][j] = A[u][k]
        BY <1>3, <2>2, <3>1
      <4>2. QED
        BY <1>a, <3>1, <4>1
    <3>2. CASE q \in Q /\ B[q][j] \in X[q] /\ j \notin DOMAIN A[q]
      <4>1. p = q
        BY <1>3, <2>2, <3>2
      <4>2. /\ \A k, l \in DOMAIN B[p] \ DOMAIN A[p] : B[p][k] = B[p][l] => k = l
            /\ i \in DOMAIN B[p] \ DOMAIN A[p] /\ j \in DOMAIN B[p] \ DOMAIN A[p]
        BY <1>1, <1>3, <2>2, <3>2, <4>1
      <4>3. QED
        BY <1>3, <4>1, <4>2
    <3>3. QED
      BY <1>2, <3>1, <3>2
  <2>3. QED
    BY <1>2, <2>1, <2>2
<1>4. Once(B)
  BY <1>3 DEF Once
<1>5. ASSUME NEW x, Holds(B, x) PROVE Holds(A, x)
  BY <1>2, <1>5 DEF Holds
<1>6. ASSUME NEW x, Holds(A, x) PROVE Holds(B, x)
  <2>1. PICK p \in P : \E i \in DOMAIN A[p] : A[p][i] = x
    BY <1>6 DEF Holds
  <2>2. \E q \in P : \E j \in DOMAIN B[q] : B[q][j] = x
    <3>1. CASE p = u
      BY <1>1, <2>1, <3>1
    <3>2. CASE p \in Q
      BY <1>1, <2>1, <3>2
    <3>3. CASE p \notin Q /\ p # u
      BY <2>1, <3>3
    <3>4. QED
      BY <3>1, <3>2, <3>3
  <2>3. QED
    BY <2>2 DEF Holds
<1>7. QED
  BY <1>4, <1>5, <1>6

(***************************************************************************)
(* Empty places filled with disjoint sets hold each element once.          *)
(***************************************************************************)
LEMMA FillKeeps ==
  ASSUME NEW B, NEW X,
         \A p \in DOMAIN B : IsFiniteSet(X[p]) /\ B[p] = SetToSeq(X[p]),
         \A p, q \in DOMAIN B : p # q => X[p] \cap X[q] = {}
  PROVE  Once(B) /\ \A x : Holds(B, x) <=> \E p \in DOMAIN B : x \in X[p]
<1>1. ASSUME NEW p \in DOMAIN B
      PROVE  /\ IsInjective(B[p])
             /\ \A x : x \in X[p] <=> \E i \in DOMAIN B[p] : B[p][i] = x
  <2>1. IsInjective(B[p]) /\ ToSet(B[p]) = X[p]
    BY SetToSeqIs
  <2>2. QED
    BY <2>1 DEF ToSet
<1>2. Once(B)
  BY <1>1 DEF Once, IsInjective
<1>3. QED
  BY <1>1, <1>2 DEF Holds

(***************************************************************************)
(* Two sequences share no element.                                         *)
(***************************************************************************)
Apart(s, t) == \A x : ~(x \in ToSet(s) /\ x \in ToSet(t))

(***************************************************************************)
(* The elements of a concatenation, and when it is injective.              *)
(***************************************************************************)
LEMMA JoinApart ==
  ASSUME NEW S, NEW s \in Seq(S), NEW t \in Seq(S)
  PROVE  /\ s \o t \in Seq(S)
         /\ \A x : x \in ToSet(s \o t) <=> x \in ToSet(s) \/ x \in ToSet(t)
         /\ IsInjective(s) /\ IsInjective(t) /\ Apart(s, t) => IsInjective(s \o t)
<1>1. PICK u : u = s \o t
  OBVIOUS
<1>2. u \in Seq(S) /\ Joined(u, s, t)
  BY <1>1, JoinedIs, ConcatProperties
<1>3. /\ \A i \in DOMAIN s : i \in DOMAIN u /\ u[i] = s[i]
      /\ \A k \in DOMAIN t : \E i \in DOMAIN u : u[i] = t[k]
      /\ \A i \in DOMAIN u : i \in DOMAIN s \/ \E k \in DOMAIN t : u[i] = t[k]
      /\ IsInjective(t) => \A i, j \in DOMAIN u \ DOMAIN s : u[i] = u[j] => i = j
  BY <1>2, JoinedParts
<1>4. \A x : x \in ToSet(u) <=> x \in ToSet(s) \/ x \in ToSet(t)
  <2>1. ASSUME NEW x, x \in ToSet(u) PROVE x \in ToSet(s) \/ x \in ToSet(t)
    <3>1. PICK i \in DOMAIN u : u[i] = x
      BY <2>1 DEF ToSet
    <3>2. QED
      BY <1>3, <3>1 DEF ToSet
  <2>2. ASSUME NEW x, x \in ToSet(s) \/ x \in ToSet(t) PROVE x \in ToSet(u)
    <3>1. \E i \in DOMAIN u : u[i] = x
      BY <1>3, <2>2 DEF ToSet
    <3>2. QED
      BY <3>1 DEF ToSet
  <2>3. QED
    BY <2>1, <2>2
<1>5. ASSUME IsInjective(s), IsInjective(t), Apart(s, t) PROVE IsInjective(u)
  <2>1. SUFFICES ASSUME NEW i \in DOMAIN u, NEW j \in DOMAIN u, u[i] = u[j] PROVE i = j
    BY DEF IsInjective
  <2>2. CASE i \in DOMAIN s /\ j \in DOMAIN s
    BY <1>3, <1>5, <2>1, <2>2 DEF IsInjective
  <2>3. CASE i \notin DOMAIN s /\ j \notin DOMAIN s
    BY <1>3, <1>5, <2>1, <2>3
  <2>4. ASSUME NEW k \in DOMAIN u, NEW l \in DOMAIN u, k \in DOMAIN s, l \notin DOMAIN s
        PROVE  u[k] # u[l]
    <3>1. u[k] \in ToSet(s)
      BY <1>3, <2>4 DEF ToSet
    <3>2. u[l] \in ToSet(t)
      BY <1>3, <2>4 DEF ToSet
    <3>3. QED
      BY <1>5, <3>1, <3>2 DEF Apart
  <2>5. QED
    BY <2>1, <2>2, <2>3, <2>4
<1>6. QED
  BY <1>1, <1>2, <1>4, <1>5

-----------------------------------------------------------------------------
(* The places of this transport *)

(***************************************************************************)
(* Where a buffer of the guest can be: free in its pool, in a virtqueue,   *)
(* or in the hand of the tasklet.                                          *)
(***************************************************************************)
Places == Pools \cup {"tx_avail", "tx_taken", "tx_used", "rx_avail", "rx_taken", "rx_used",
                      "hand"}

Place ==
  [p \in Places |->
     CASE p \in Pools -> list[p]
       [] p = "tx_avail" -> avail["tx"]
       [] p = "tx_taken" -> taken["tx"]
       [] p = "tx_used" -> used["tx"]
       [] p = "rx_avail" -> avail["rx"]
       [] p = "rx_taken" -> taken["rx"]
       [] p = "rx_used" -> used["rx"]
       [] p = "hand" -> IF hd = NoBuf THEN << >> ELSE <<hd>>]

(***************************************************************************)
(* Pools hold their own buffers, tx queues out buffers and rx queues in    *)
(* buffers; in_list is empty but within virthab_queue_inbufs.              *)
(***************************************************************************)
BufferTypes ==
  /\ DOMAIN list = Pools /\ \A p \in Pools : list[p] \in Seq(PoolBufs(p))
  /\ DOMAIN avail = Queues /\ DOMAIN taken = Queues /\ DOMAIN used = Queues
  /\ {avail["tx"], taken["tx"], used["tx"]} \subseteq Seq(OutBufs)
  /\ {avail["rx"], taken["rx"], used["rx"]} \subseteq Seq(InBufs)
  /\ inList = << >> /\ hd \in InBufs \cup {NoBuf} /\ lost \subseteq Bufs

(***************************************************************************)
(* Who has a buffer in hand: tx_worker exactly one between                 *)
(* vhost_get_vq_desc and vhost_add_used, rx_worker at least one while it   *)
(* fills one, the tasklet between virtqueue_get_buf and                    *)
(* virtqueue_add_inbuf.                                                    *)
(***************************************************************************)
InHandOK ==
  /\ IF wk \in {"tx_recv", "tx_used"} THEN Len(taken["tx"]) = 1 ELSE taken["tx"] = << >>
  /\ wk = "rx_fill" => taken["rx"] # << >>
  /\ task \in {"recv", "return"} <=> hd # NoBuf

(***************************************************************************)
(* The inductive invariant: no buffer is in two places; once the pools are *)
(* filled the lost buffers are exactly those in no place, and before       *)
(* nothing is in a place or lost.                                          *)
(***************************************************************************)
Live == link \in {"ready", "frozen"}

PlacesOK ==
  /\ Once(Place)
  /\ \A b \in Bufs : Holds(Place, b) <=> Live /\ b \notin lost
  /\ ~Live => lost = {}

BufInv == BufferTypes /\ InHandOK /\ PlacesOK

(***************************************************************************)
(* The places by name.                                                     *)
(***************************************************************************)
PlacesAre ==
  /\ DOMAIN Place = Places
  /\ \A p \in Pools : Place[p] = list[p]
  /\ Place["tx_avail"] = avail["tx"]
  /\ Place["tx_taken"] = taken["tx"]
  /\ Place["tx_used"] = used["tx"]
  /\ Place["rx_avail"] = avail["rx"]
  /\ Place["rx_taken"] = taken["rx"]
  /\ Place["rx_used"] = used["rx"]
  /\ Place["hand"] = IF hd = NoBuf THEN << >> ELSE <<hd>>

(***************************************************************************)
(* Each place is the variable it stands for.                               *)
(***************************************************************************)
LEMMA PlaceIs == PlacesAre
  BY DEF PlacesAre, Place, Places, Pools

(***************************************************************************)
(* The same in the next state.                                             *)
(***************************************************************************)
LEMMA PlaceIsPrimed == PlacesAre'
  BY DEF PlacesAre, Place, Places, Pools

(***************************************************************************)
(* The pools share no buffer and make up the out buffers, of which none is *)
(* an in buffer (init_pool_list).                                          *)
(***************************************************************************)
LEMMA PoolsAre ==
  /\ Pools = {"s", "m", "l"}
  /\ PoolBufs("s") = SmallBufs /\ PoolBufs("m") = MediumBufs /\ PoolBufs("l") = LargeBufs
  /\ \A p \in Pools : PoolBufs(p) \subseteq OutBufs /\ IsFiniteSet(PoolBufs(p))
  /\ \A p, q \in Pools : p # q => PoolBufs(p) \cap PoolBufs(q) = {}
  /\ \A b \in OutBufs : \E p \in Pools : b \in PoolBufs(p)
  /\ OutBufs \subseteq Bufs /\ InBufs \subseteq Bufs /\ InBufs \cap OutBufs = {}
  /\ IsFiniteSet(InBufs) /\ NoBuf \notin Bufs
<1>1. /\ Pools = {"s", "m", "l"}
      /\ PoolBufs("s") = SmallBufs /\ PoolBufs("m") = MediumBufs /\ PoolBufs("l") = LargeBufs
  BY DEF Pools, PoolBufs
<1>2. /\ \A p \in Pools : PoolBufs(p) \subseteq OutBufs
      /\ \A p, q \in Pools : p # q => PoolBufs(p) \cap PoolBufs(q) = {}
      /\ \A b \in OutBufs : \E p \in Pools : b \in PoolBufs(p)
  BY <1>1, TransportAssumption DEF OutBufs
<1>3. /\ OutBufs \subseteq Bufs /\ InBufs \subseteq Bufs /\ InBufs \cap OutBufs = {}
      /\ NoBuf \notin Bufs /\ IsFiniteSet(Bufs)
  BY TransportAssumption DEF Bufs
<1>4. ASSUME NEW T, T \subseteq Bufs PROVE IsFiniteSet(T)
  BY <1>3, <1>4, FS_Subset
<1>5. QED
  BY <1>1, <1>2, <1>3, <1>4

(***************************************************************************)
(* Every place is a sequence of buffers.                                   *)
(***************************************************************************)
LEMMA PlacesTyped ==
  ASSUME BufferTypes
  PROVE  Place \in [Places -> Seq(Bufs)]
<1>1. \A p \in Places : Place[p] \in Seq(Bufs)
  <2>1. SUFFICES ASSUME NEW p \in Places PROVE Place[p] \in Seq(Bufs)
    OBVIOUS
  <2>2. CASE p \in Pools
    <3>1. Place[p] \in Seq(PoolBufs(p)) /\ PoolBufs(p) \subseteq Bufs
      BY <2>2, PlaceIs, PoolsAre DEF PlacesAre, BufferTypes
    <3>2. QED
      BY <3>1, SeqMonotonic
  <2>3. CASE p \in {"tx_avail", "tx_taken", "tx_used"}
    <3>1. Place[p] \in Seq(OutBufs) /\ OutBufs \subseteq Bufs
      BY <2>3, PlaceIs, PoolsAre DEF PlacesAre, BufferTypes
    <3>2. QED
      BY <3>1, SeqMonotonic
  <2>4. CASE p \in {"rx_avail", "rx_taken", "rx_used"}
    <3>1. Place[p] \in Seq(InBufs) /\ InBufs \subseteq Bufs
      BY <2>4, PlaceIs, PoolsAre DEF PlacesAre, BufferTypes
    <3>2. QED
      BY <3>1, SeqMonotonic
  <2>5. CASE p = "hand"
    <3>1. Place[p] = IF hd = NoBuf THEN << >> ELSE <<hd>>
      BY <2>5, PlaceIs DEF PlacesAre
    <3>2. CASE hd = NoBuf
      BY <3>1, <3>2
    <3>3. CASE hd # NoBuf
      <4>1. hd \in Bufs
        BY <3>3, PoolsAre DEF BufferTypes
      <4>2. <<hd>> \in Seq(Bufs)
        BY <4>1
      <4>3. QED
        BY <3>1, <3>3, <4>2
    <3>4. QED
      BY <3>2, <3>3
  <2>6. QED
    BY <2>2, <2>3, <2>4, <2>5 DEF Places
<1>2. QED
  BY <1>1 DEF Place

(***************************************************************************)
(* The same in the next state.                                             *)
(***************************************************************************)
LEMMA PlacesTypedPrimed ==
  ASSUME BufferTypes'
  PROVE  Place' \in [Places -> Seq(Bufs)]
<1>1. \A p \in Places : Place'[p] \in Seq(Bufs)
  <2>1. SUFFICES ASSUME NEW p \in Places PROVE Place'[p] \in Seq(Bufs)
    OBVIOUS
  <2>2. CASE p \in Pools
    <3>1. Place'[p] \in Seq(PoolBufs(p)) /\ PoolBufs(p) \subseteq Bufs
      BY <2>2, PlaceIsPrimed, PoolsAre DEF PlacesAre, BufferTypes
    <3>2. QED
      BY <3>1, SeqMonotonic
  <2>3. CASE p \in {"tx_avail", "tx_taken", "tx_used"}
    <3>1. Place'[p] \in Seq(OutBufs) /\ OutBufs \subseteq Bufs
      BY <2>3, PlaceIsPrimed, PoolsAre DEF PlacesAre, BufferTypes
    <3>2. QED
      BY <3>1, SeqMonotonic
  <2>4. CASE p \in {"rx_avail", "rx_taken", "rx_used"}
    <3>1. Place'[p] \in Seq(InBufs) /\ InBufs \subseteq Bufs
      BY <2>4, PlaceIsPrimed, PoolsAre DEF PlacesAre, BufferTypes
    <3>2. QED
      BY <3>1, SeqMonotonic
  <2>5. CASE p = "hand"
    <3>1. Place'[p] = IF hd' = NoBuf THEN << >> ELSE <<hd'>>
      BY <2>5, PlaceIsPrimed DEF PlacesAre
    <3>2. CASE hd' = NoBuf
      BY <3>1, <3>2
    <3>3. CASE hd' # NoBuf
      <4>1. hd' \in Bufs
        BY <3>3, PoolsAre DEF BufferTypes
      <4>2. <<hd'>> \in Seq(Bufs)
        BY <4>1
      <4>3. QED
        BY <3>1, <3>3, <4>2
    <3>4. QED
      BY <3>2, <3>3
  <2>6. QED
    BY <2>2, <2>3, <2>4, <2>5 DEF Places
<1>2. QED
  BY <1>1 DEF Place

(***************************************************************************)
(* The places are unchanged when the variables are.                        *)
(***************************************************************************)
LEMMA SamePlaces ==
  ASSUME BufInv, UNCHANGED <<list, avail, taken, used, hd, lost>>, Live' <=> Live
  PROVE  PlacesOK'
<1>1. Place' = Place
  BY DEF Place
<1>2. QED
  BY <1>1 DEF BufInv, PlacesOK

(***************************************************************************)
(* A step that moves nothing keeps the places.                             *)
(***************************************************************************)
LEMMA PlacesKept ==
  ASSUME PlacesOK, Once(Place'), \A x : Holds(Place', x) <=> Holds(Place, x),
         UNCHANGED lost, Live' <=> Live
  PROVE  PlacesOK'
<1>1. Once(Place)' /\ (~Live' => lost' = {})
  BY DEF PlacesOK
<1>2. ASSUME NEW b \in Bufs PROVE Holds(Place', b) <=> Live' /\ b \notin lost'
  BY DEF PlacesOK
<1>3. QED
  BY <1>1, <1>2 DEF PlacesOK

(***************************************************************************)
(* A step that moves one buffer keeps them.                                *)
(***************************************************************************)
LEMMA Moves ==
  ASSUME BufInv, BufferTypes', NEW p \in Places, NEW q \in Places, NEW b,
         Moved(Place, Place', p, q, b), UNCHANGED <<lost, link>>
  PROVE  PlacesOK'
<1>1. Place \in [Places -> Seq(Bufs)] /\ Place' \in [Places -> Seq(Bufs)]
  BY PlacesTyped, PlacesTypedPrimed DEF BufInv
<1>2. Once(Place) /\ b \in Bufs
  <2>1. Place[p] \in Seq(Bufs)
    BY <1>1
  <2>2. QED
    BY <2>1, TailIs, FrontIs DEF BufInv, PlacesOK, Moved
<1>3. Once(Place') /\ \A x : Holds(Place', x) <=> Holds(Place, x)
  BY <1>1, <1>2, MoveKeeps
<1>4. QED
  <2>1. PlacesOK /\ UNCHANGED lost /\ (Live' <=> Live)
    BY DEF BufInv, Live
  <2>2. QED
    BY <1>3, <2>1, PlacesKept

(***************************************************************************)
(* A step that adds to the lost buffers what it drops from places keeps    *)
(* them.                                                                   *)
(***************************************************************************)
LEMMA Drops ==
  ASSUME BufInv, BufferTypes', Dropped(Place, Place'), Live, Live',
         \A b \in Bufs : b \in lost' <=>
                           b \in lost \/ \E p \in Places : b \in Gone(Place[p], Place'[p])
  PROVE  PlacesOK'
<1>1. Place \in [Places -> Seq(Bufs)] /\ Place' \in [Places -> Seq(Bufs)] /\ Once(Place)
  BY PlacesTyped, PlacesTypedPrimed DEF BufInv, PlacesOK
<1>2. /\ Once(Place')
      /\ \A x : Holds(Place', x) <=>
                  Holds(Place, x) /\ ~\E p \in Places : x \in Gone(Place[p], Place'[p])
  BY <1>1, DropKeeps
<1>3. ASSUME NEW b \in Bufs PROVE Holds(Place', b) <=> Live' /\ b \notin lost'
  BY <1>2, <1>3 DEF BufInv, PlacesOK
<1>4. QED
  BY <1>2, <1>3 DEF PlacesOK

(***************************************************************************)
(* A step that leaves the buffers alone keeps the invariant.               *)
(***************************************************************************)
LEMMA Idle ==
  ASSUME BufInv, UNCHANGED <<list, avail, taken, used, inList, hd, lost>>,
         Live' <=> Live, InHandOK'
  PROVE  BufInv'
<1>1. BufferTypes'
  BY DEF BufInv, BufferTypes
<1>2. PlacesOK'
  BY SamePlaces
<1>3. QED
  BY <1>1, <1>2 DEF BufInv

-----------------------------------------------------------------------------
(* Buffers and the host's steps *)

(***************************************************************************)
(* The host's steps that leave the buffers alone: the worker's rechecks,   *)
(* senders, the device file and the vchans.                                *)
(***************************************************************************)
LEMMA HostIdle ==
  ASSUME BufInv, UNCHANGED virtioVars, UNCHANGED <<avail, taken, used>>, InHandOK'
  PROVE  BufInv'
<1>1. UNCHANGED <<list, avail, taken, used, inList, hd, lost>> /\ (Live' <=> Live)
  BY DEF virtioVars, Live
<1>2. QED
  BY <1>1, Idle

(***************************************************************************)
(* tx_worker takes a buffer (vhost_get_vq_desc).                           *)
(***************************************************************************)
LEMMA TxGetBuffers ==
  ASSUME BufInv, TxGet, UNCHANGED virtioVars
  PROVE  BufInv'
<1>1. CASE avail["tx"] = << >>
  <2>1. UNCHANGED <<avail, taken, used>> /\ InHandOK'
    BY <1>1 DEF TxGet, BufInv, InHandOK, virtioVars
  <2>2. QED
    BY <2>1, HostIdle
<1>2. CASE avail["tx"] # << >>
  <2> DEFINE b == Head(avail["tx"])
  <2>1. /\ DOMAIN avail = Queues /\ DOMAIN taken = Queues /\ taken["tx"] = << >>
        /\ avail["tx"] \in Seq(OutBufs) /\ taken["tx"] \in Seq(OutBufs)
    BY DEF BufInv, BufferTypes, InHandOK, TxGet
  <2>2. /\ avail' = [avail EXCEPT !["tx"] = Tail(avail["tx"])]
        /\ taken' = [taken EXCEPT !["tx"] = Append(taken["tx"], b)]
        /\ UNCHANGED <<used, list, inList, hd, lost, link, task>> /\ wk' = "tx_recv"
    BY <1>2 DEF TxGet, TakeDesc, virtioVars
  <2>3. /\ avail'["tx"] = Tail(avail["tx"]) /\ avail'["rx"] = avail["rx"]
        /\ taken'["tx"] = Append(taken["tx"], b) /\ taken'["rx"] = taken["rx"]
        /\ DOMAIN avail' = Queues /\ DOMAIN taken' = Queues
    BY <2>1, <2>2 DEF Queues
  <2>4. b \in OutBufs /\ Tail(avail["tx"]) \in Seq(OutBufs)
    BY <1>2, <2>1, TailIs
  <2>5. Append(taken["tx"], b) \in Seq(OutBufs) /\ Len(Append(taken["tx"], b)) = 1
    BY <2>1, <2>4
  <2>6. BufferTypes'
    BY <2>2, <2>3, <2>4, <2>5 DEF BufInv, BufferTypes
  <2>7. InHandOK'
    BY <2>2, <2>3, <2>5 DEF BufInv, InHandOK
  <2>8. Moved(Place, Place', "tx_avail", "tx_taken", b)
    BY <1>2, <2>2, <2>3, PlaceIs, PlaceIsPrimed DEF PlacesAre, Moved, Places
  <2>9. PlacesOK'
    BY <2>2, <2>6, <2>8, Moves DEF Places
  <2>10. QED
    BY <2>6, <2>7, <2>9 DEF BufInv
<1>3. QED
  BY <1>1, <1>2

(***************************************************************************)
(* rx_worker takes a buffer for the first message of the list              *)
(* (get_rx_buf_locked).                                                    *)
(***************************************************************************)
LEMMA RxNextBuffers ==
  ASSUME BufInv, RxNext, UNCHANGED virtioVars
  PROVE  BufInv'
<1>1. CASE UNCHANGED <<avail, taken>>
  <2>1. UNCHANGED <<avail, taken, used>> /\ wk' \in {"idle", "rx_recheck", "rx_fill"}
    BY <1>1 DEF RxNext, RxEnd
  <2>2. CASE wk' = "rx_fill"
    <3>1. DOMAIN avail = Queues /\ avail["rx"] \in Seq(InBufs) /\ avail["rx"] # << >>
      BY <2>2 DEF RxNext, RxEnd, BufInv, BufferTypes
    <3>2. Len(Tail(avail["rx"])) # Len(avail["rx"])
      BY <3>1, TailIs
    <3>3. avail'["rx"] = Tail(avail["rx"])
      BY <2>2, <3>1 DEF RxNext, RxEnd, TakeDesc, Queues
    <3>4. QED
      BY <1>1, <3>2, <3>3
  <2>3. CASE wk' # "rx_fill"
    <3>1. InHandOK'
      BY <2>1, <2>3 DEF RxNext, BufInv, InHandOK, virtioVars
    <3>2. QED
      BY <2>1, <3>1, HostIdle
  <2>4. QED
    BY <2>2, <2>3
<1>2. CASE ~UNCHANGED <<avail, taken>>
  <2> DEFINE b == Head(avail["rx"])
  <2>1. /\ DOMAIN avail = Queues /\ DOMAIN taken = Queues
        /\ avail["rx"] \in Seq(InBufs) /\ taken["rx"] \in Seq(InBufs)
    BY DEF BufInv, BufferTypes
  <2>2. /\ avail["rx"] # << >>
        /\ avail' = [avail EXCEPT !["rx"] = Tail(avail["rx"])]
        /\ taken' = [taken EXCEPT !["rx"] = Append(taken["rx"], b)]
        /\ UNCHANGED <<used, list, inList, hd, lost, link, task>> /\ wk' = "rx_fill"
        /\ wk = "rx_next"
    BY <1>2 DEF RxNext, TakeDesc, virtioVars
  <2>3. /\ avail'["rx"] = Tail(avail["rx"]) /\ avail'["tx"] = avail["tx"]
        /\ taken'["rx"] = Append(taken["rx"], b) /\ taken'["tx"] = taken["tx"]
        /\ DOMAIN avail' = Queues /\ DOMAIN taken' = Queues
    BY <2>1, <2>2 DEF Queues
  <2>4. b \in InBufs /\ Tail(avail["rx"]) \in Seq(InBufs)
    BY <2>2, <2>1, TailIs
  <2>5. Append(taken["rx"], b) \in Seq(InBufs) /\ Append(taken["rx"], b) # << >>
    BY <2>1, <2>4
  <2>6. BufferTypes'
    BY <2>2, <2>3, <2>4, <2>5 DEF BufInv, BufferTypes
  <2>7. InHandOK'
    BY <2>2, <2>3, <2>5 DEF BufInv, InHandOK
  <2>8. Moved(Place, Place', "rx_avail", "rx_taken", b)
    BY <2>2, <2>3, PlaceIs, PlaceIsPrimed DEF PlacesAre, Moved, Places
  <2>9. PlacesOK'
    BY <2>2, <2>6, <2>8, Moves DEF Places
  <2>10. QED
    BY <2>6, <2>7, <2>9 DEF BufInv
<1>3. QED
  BY <1>1, <1>2

(***************************************************************************)
(* tx_worker returns the buffer in hand (vhost_add_used_and_signal).       *)
(***************************************************************************)
LEMMA TxUsedBuffers ==
  ASSUME BufInv, TxUsed, UNCHANGED virtioVars
  PROVE  BufInv'
<1> DEFINE b == Last(taken["tx"])
<1>1. /\ DOMAIN used = Queues /\ DOMAIN taken = Queues /\ Len(taken["tx"]) = 1
      /\ used["tx"] \in Seq(OutBufs) /\ taken["tx"] \in Seq(OutBufs)
  BY DEF BufInv, BufferTypes, InHandOK, TxUsed
<1>2. /\ taken' = [taken EXCEPT !["tx"] = Front(taken["tx"])]
      /\ used' = [used EXCEPT !["tx"] = Append(used["tx"], b)]
      /\ UNCHANGED <<avail, list, inList, hd, lost, link, task>> /\ wk' \in {"idle", "tx_get"}
  BY DEF TxUsed, AddUsed, InHand, virtioVars
<1>3. /\ taken'["tx"] = Front(taken["tx"]) /\ taken'["rx"] = taken["rx"]
      /\ used'["tx"] = Append(used["tx"], b) /\ used'["rx"] = used["rx"]
      /\ DOMAIN taken' = Queues /\ DOMAIN used' = Queues
  BY <1>1, <1>2 DEF Queues
<1>4. /\ b \in OutBufs /\ Front(taken["tx"]) \in Seq(OutBufs) /\ Len(Front(taken["tx"])) = 0
      /\ taken["tx"] # << >>
  <2>1. taken["tx"] # << >>
    <3>1. Len(<< >>) = 0
      OBVIOUS
    <3>2. ASSUME taken["tx"] = << >> PROVE Len(taken["tx"]) = 0
      BY <3>1, <3>2
    <3>3. QED
      BY <1>1, <3>2
  <2>2. QED
    BY <2>1, <1>1, FrontIs
<1>5. Append(used["tx"], b) \in Seq(OutBufs) /\ Front(taken["tx"]) = << >>
  BY <1>1, <1>4, EmptySeq
<1>6. BufferTypes'
  BY <1>2, <1>3, <1>4, <1>5 DEF BufInv, BufferTypes
<1>7. InHandOK'
  BY <1>2, <1>3, <1>5 DEF BufInv, InHandOK
<1>8. Moved(Place, Place', "tx_taken", "tx_used", b)
  BY <1>2, <1>3, <1>4, PlaceIs, PlaceIsPrimed DEF PlacesAre, Moved, Places
<1>9. PlacesOK'
  BY <1>2, <1>6, <1>8, Moves DEF Places
<1>10. QED
  BY <1>6, <1>7, <1>9 DEF BufInv

(***************************************************************************)
(* rx_worker returns the buffer it filled (rx_send_one_node_locked).       *)
(***************************************************************************)
LEMMA RxFillBuffers ==
  ASSUME BufInv, RxFill, UNCHANGED virtioVars
  PROVE  BufInv'
<1> DEFINE b == Last(taken["rx"])
<1>1. /\ DOMAIN used = Queues /\ DOMAIN taken = Queues /\ taken["rx"] # << >>
      /\ used["rx"] \in Seq(InBufs) /\ taken["rx"] \in Seq(InBufs) /\ wk = "rx_fill"
  BY DEF BufInv, BufferTypes, InHandOK, RxFill
<1>2. /\ taken' = [taken EXCEPT !["rx"] = Front(taken["rx"])]
      /\ used' = [used EXCEPT !["rx"] = Append(used["rx"], b)]
      /\ UNCHANGED <<avail, list, inList, hd, lost, link, task>> /\ wk' = "rx_next"
  BY DEF RxFill, AddUsed, InHand, virtioVars
<1>3. /\ taken'["rx"] = Front(taken["rx"]) /\ taken'["tx"] = taken["tx"]
      /\ used'["rx"] = Append(used["rx"], b) /\ used'["tx"] = used["tx"]
      /\ DOMAIN taken' = Queues /\ DOMAIN used' = Queues
  BY <1>1, <1>2 DEF Queues
<1>4. b \in InBufs /\ Front(taken["rx"]) \in Seq(InBufs)
  BY <1>1, FrontIs
<1>5. Append(used["rx"], b) \in Seq(InBufs)
  BY <1>1, <1>4
<1>6. BufferTypes'
  BY <1>2, <1>3, <1>4, <1>5 DEF BufInv, BufferTypes
<1>7. InHandOK'
  BY <1>1, <1>2, <1>3 DEF BufInv, InHandOK
<1>8. Moved(Place, Place', "rx_taken", "rx_used", b)
  BY <1>1, <1>2, <1>3, PlaceIs, PlaceIsPrimed DEF PlacesAre, Moved, Places
<1>9. PlacesOK'
  BY <1>2, <1>6, <1>8, Moves DEF Places
<1>10. QED
  BY <1>6, <1>7, <1>9 DEF BufInv

(***************************************************************************)
(* Every step of the host keeps the invariant.                             *)
(***************************************************************************)
LEMMA WorkerBuffers ==
  ASSUME BufInv, VhostNext, UNCHANGED virtioVars
  PROVE  BufInv'
<1>1. CASE TxGet \/ TxUsed \/ RxNext \/ RxFill
  BY <1>1, TxGetBuffers, TxUsedBuffers, RxNextBuffers, RxFillBuffers
<1>2. CASE TxWork \/ HostDispatch \/ TxRecheck \/ RxWork \/ RxRecheck
  <2>1. UNCHANGED <<avail, taken, used>> /\ InHandOK'
    BY <1>2 DEF TxWork, HostDispatch, TxRecheck, RxWork, RxRecheck, RxEnd, BufInv, InHandOK,
                virtioVars
  <2>2. QED
    BY <2>1, HostIdle
<1>3. CASE TxRecv \/ RxFault
  <2>1. UNCHANGED <<avail, taken, used>> /\ InHandOK'
    BY <1>3 DEF TxRecv, RxFault, RxEnd, BufInv, InHandOK, virtioVars, vqVars
  <2>2. QED
    BY <2>1, HostIdle
<1>4. ASSUME UNCHANGED <<avail, taken, used, wk>>
      PROVE  BufInv'
  <2>1. InHandOK'
    BY <1>4 DEF BufInv, InHandOK, virtioVars
  <2>2. QED
    BY <1>4, <2>1, HostIdle
<1>5. CASE ResetEnd \/ Release \/ \E bad \in SUBSET Queues : Ioctl(bad)
  BY <1>5, <1>4 DEF ResetEnd, Release, Ioctl, workerVars
<1>6. CASE HostRefused \/ \E t \in HostThreads : HostSend(t) \/ HostQueue(t)
  BY <1>6, <1>4 DEF HostRefused, HostSend, HostQueue, vqVars, workerVars
<1>7. CASE DevOpen \/ ResetStop \/ ResetClose \/ ResetWait
  BY <1>7, <1>4 DEF DevOpen, ResetStop, ResetClose, ResetWait, vqVars, workerVars
<1>8. CASE \E v \in Vchans : VAlloc(v) \/ VAck(v) \/ VDone(v) \/ VTimeout(v) \/ VClose(v)
  BY <1>8, <1>4 DEF VAlloc, VAck, VDone, VTimeout, VClose, vqVars, workerVars
<1>9. QED
  BY <1>1, <1>2, <1>3, <1>5, <1>6, <1>7, <1>8 DEF VhostNext, VhostReset, VhostWorker

-----------------------------------------------------------------------------
(* Buffers and the guest's steps *)

(***************************************************************************)
(* Before virthab_queue_inbufs has filled the pools no place holds a       *)
(* buffer.                                                                 *)
(***************************************************************************)
LEMMA NothingBeforeProbe ==
  ASSUME BufInv, ~Live
  PROVE  \A p \in Places : Place[p] = << >>
<1>1. SUFFICES ASSUME NEW p \in Places, Place[p] # << >> PROVE FALSE
  OBVIOUS
<1>2. Place[p] \in Seq(Bufs) /\ DOMAIN Place = Places
  BY PlacesTyped DEF BufInv
<1>3. Place[p][1] \in Bufs /\ 1 \in DOMAIN Place[p]
  BY <1>1, <1>2, TailIs
<1>4. Holds(Place, Place[p][1])
  BY <1>2, <1>3 DEF Holds
<1>5. QED
  BY <1>3, <1>4 DEF BufInv, PlacesOK

(***************************************************************************)
(* The probe fills the pools and the rx queue (virthab_queue_inbufs).      *)
(***************************************************************************)
LEMMA ProbePoolsBuffers ==
  ASSUME BufInv, ProbePools, UNCHANGED vhostVars
  PROVE  BufInv'
<1> DEFINE X == [p \in Places |-> IF p \in Pools THEN PoolBufs(p)
                                  ELSE IF p = "rx_avail" THEN InBufs ELSE {}]
<1>1. /\ ~Live /\ Live' /\ UNCHANGED <<lost, taken, used, inList, hd, task, wk>>
      /\ lost = {}
  BY DEF ProbePools, Live, BufInv, PlacesOK, vhostVars
<1>2. \A p \in Places : Place[p] = << >>
  BY <1>1, NothingBeforeProbe
<1>3. /\ avail["rx"] = << >> /\ taken["rx"] = << >> /\ used["rx"] = << >>
      /\ avail["tx"] = << >> /\ taken["tx"] = << >> /\ used["tx"] = << >>
      /\ Place["hand"] = << >>
  BY <1>2, PlaceIs DEF PlacesAre, Places
<1>4. SetToSeq(InBufs) \in Seq(InBufs) /\ SetToSeq({}) \in Seq({})
  BY SetToSeqIs, PoolsAre, FS_EmptySet
<1>5. SetToSeq({}) = << >> /\ << >> \o SetToSeq(InBufs) = SetToSeq(InBufs)
  BY <1>4, EmptySeq, ConcatEmptySeq
<1>6. DOMAIN avail = Queues /\ DOMAIN taken = Queues /\ DOMAIN used = Queues
  BY DEF BufInv, BufferTypes
<1>7. /\ list' = [p \in Pools |-> SetToSeq(PoolBufs(p))]
      /\ DOMAIN avail' = Queues /\ avail'["tx"] = << >> /\ avail'["rx"] = SetToSeq(InBufs)
  <2>1. /\ list' = [p \in Pools |-> SetToSeq(PoolBufs(p))]
        /\ avail' = [avail EXCEPT !["rx"] = avail["rx"] \o SetToSeq(InBufs)]
    BY DEF ProbePools, AddAndKick
  <2>2. avail'["rx"] = << >> \o SetToSeq(InBufs)
    BY <2>1, <1>3, <1>6 DEF Queues
  <2>3. QED
    BY <2>1, <2>2, <1>3, <1>5, <1>6 DEF Queues
<1>8. \A p \in Pools : list'[p] = SetToSeq(PoolBufs(p)) /\ list'[p] \in Seq(PoolBufs(p))
  BY <1>7, SetToSeqIs, PoolsAre
<1>9. BufferTypes'
  <2>1. << >> \in Seq(OutBufs) /\ << >> \in Seq(InBufs)
    OBVIOUS
  <2>2. QED
    BY <1>1, <1>3, <1>4, <1>7, <1>8, <1>6, <2>1 DEF BufInv, BufferTypes
<1>10. InHandOK'
  BY <1>1 DEF BufInv, InHandOK
<1>11. \A p \in DOMAIN Place' : IsFiniteSet(X[p]) /\ Place'[p] = SetToSeq(X[p])
  <2>1. SUFFICES ASSUME NEW p \in Places
                 PROVE  IsFiniteSet(X[p]) /\ Place'[p] = SetToSeq(X[p])
    BY PlaceIsPrimed DEF PlacesAre
  <2>2. CASE p \in Pools
    BY <2>2, <1>8, PlaceIsPrimed, PoolsAre DEF PlacesAre
  <2>3. CASE p = "rx_avail"
    BY <2>3, <1>7, PlaceIsPrimed, PoolsAre DEF PlacesAre, Pools
  <2>4. CASE p \notin Pools /\ p # "rx_avail"
    <3>1. X[p] = {} /\ IsFiniteSet({})
      BY <2>4, FS_EmptySet
    <3>2. Place'[p] = << >>
      <4>1. Place'["hand"] = Place["hand"]
        BY <1>1, PlaceIs, PlaceIsPrimed DEF PlacesAre
      <4>2. QED
        BY <4>1, <1>1, <1>3, <1>7, <2>4, PlaceIsPrimed DEF PlacesAre, Places
    <3>3. QED
      BY <3>1, <3>2, <1>5
  <2>5. QED
    BY <2>2, <2>3, <2>4
<1>12. /\ \A p, q \in DOMAIN Place' : p # q => X[p] \cap X[q] = {}
       /\ DOMAIN Place' = Places
  <2>1. DOMAIN Place' = Places
    BY PlaceIsPrimed DEF PlacesAre
  <2>2. ASSUME NEW p \in Places, NEW q \in Places, p # q
        PROVE  X[p] \cap X[q] = {}
    <3>1. CASE p \in Pools /\ q \in Pools
      BY <3>1, <2>2, PoolsAre
    <3>2. CASE p \in Pools /\ q \notin Pools
      BY <3>2, <2>2, PoolsAre
    <3>3. CASE p \notin Pools /\ q \in Pools
      BY <3>3, <2>2, PoolsAre
    <3>4. CASE p \notin Pools /\ q \notin Pools
      BY <3>4, <2>2
    <3>5. QED
      BY <3>1, <3>2, <3>3, <3>4
  <2>3. QED
    BY <2>1, <2>2
<1> HIDE DEF X
<1>13. Once(Place') /\ \A x : Holds(Place', x) <=> \E p \in DOMAIN Place' : x \in X[p]
  BY <1>11, <1>12, FillKeeps
<1>14. ASSUME NEW b \in Bufs PROVE Holds(Place', b)
  <2>1. CASE b \in OutBufs
    <3>1. PICK p \in Pools : b \in PoolBufs(p)
      BY <2>1, PoolsAre
    <3>2. p \in Places /\ b \in X[p]
      BY <3>1 DEF X, Places
    <3>3. QED
      BY <3>2, <1>13, <1>12
  <2>2. CASE b \in InBufs
    <3>1. "rx_avail" \in Places /\ b \in X["rx_avail"]
      BY <2>2 DEF X, Places, Pools
    <3>2. QED
      BY <3>1, <1>13, <1>12
  <2>3. QED
    BY <2>1, <2>2 DEF Bufs
<1>15. PlacesOK'
  BY <1>13, <1>14, <1>1 DEF PlacesOK
<1>16. QED
  BY <1>9, <1>10, <1>15 DEF BufInv

(***************************************************************************)
(* virthab_restore queues in_list, which is empty.                         *)
(***************************************************************************)
LEMMA RestoreBuffers ==
  ASSUME BufInv, Restore, UNCHANGED vhostVars
  PROVE  BufInv'
<1>1. /\ DOMAIN avail = Queues /\ avail["rx"] \in Seq(InBufs)
      /\ avail' = [avail EXCEPT !["rx"] = avail["rx"] \o << >>]
  BY DEF Restore, AddAndKick, BufInv, BufferTypes
<1>2. avail["rx"] \o << >> = avail["rx"]
  BY <1>1, ConcatEmptySeq
<1>3. /\ \A q \in Queues : avail'[q] = avail[q]
      /\ DOMAIN avail' = Queues
  BY <1>1, <1>2 DEF Queues
<1>4. /\ UNCHANGED <<list, taken, used, hd, lost, task, wk>> /\ (Live' <=> Live)
      /\ inList' = << >>
  BY DEF Restore, Live, vhostVars
<1>5. BufferTypes' /\ InHandOK'
  BY <1>3, <1>4 DEF BufInv, BufferTypes, InHandOK, Queues
<1>6. Place' = Place
  BY <1>3, <1>4 DEF Place, Queues
<1>7. PlacesOK'
  BY <1>4, <1>6 DEF BufInv, PlacesOK
<1>8. QED
  BY <1>5, <1>7 DEF BufInv

(***************************************************************************)
(* What is gone from a place that loses its first buffer is that buffer.   *)
(***************************************************************************)
LEMMA FirstGone ==
  ASSUME NEW S, NEW s \in Seq(S), IsInjective(s), s # << >>
  PROVE  Gone(s, Tail(s)) = {Head(s)}
<1>2. /\ Len(s) \in Nat \ {0} /\ Head(s) = s[1] /\ DOMAIN s = 1 .. Len(s)
      /\ DOMAIN Tail(s) = 1 .. Len(s) - 1
      /\ \A i \in 1 .. Len(s) - 1 : Tail(s)[i] = s[i + 1]
  BY TailIs
<1>3. \A i, j \in DOMAIN s : s[i] = s[j] => i = j
  BY DEF IsInjective
<1>4. ASSUME NEW x \in Gone(s, Tail(s)) PROVE x = s[1]
  <2>1. PICK i \in DOMAIN s : x = s[i]
    BY <1>4 DEF Gone
  <2>2. CASE i = 1
    BY <2>1, <2>2
  <2>3. CASE i # 1
    <3>1. i - 1 \in 1 .. Len(s) - 1 /\ (i - 1) + 1 = i
      BY <1>2, <2>1, <2>3
    <3>2. Tail(s)[i - 1] = x
      BY <1>2, <2>1, <3>1
    <3>3. x \notin Gone(s, Tail(s))
      BY <1>2, <3>1, <3>2 DEF Gone
    <3>4. QED
      BY <1>4, <3>3
  <2>4. QED
    BY <2>2, <2>3
<1>5. s[1] \in Gone(s, Tail(s))
  <2>1. SUFFICES ASSUME NEW i \in 1 .. Len(s) - 1, Tail(s)[i] = s[1] PROVE FALSE
    BY <1>2 DEF Gone
  <2>2. s[i + 1] = s[1] /\ i + 1 \in DOMAIN s /\ 1 \in DOMAIN s
    BY <1>2, <2>1
  <2>3. QED
    BY <1>2, <1>3, <2>2
<1>6. QED
  BY <1>2, <1>4, <1>5

(***************************************************************************)
(* A place lists each of its buffers once.                                 *)
(***************************************************************************)
LEMMA EachOnce ==
  ASSUME BufInv, NEW p \in Places
  PROVE  Place[p] \in Seq(Bufs) /\ IsInjective(Place[p])
<1>1. Place \in [Places -> Seq(Bufs)] /\ Once(Place)
  BY PlacesTyped DEF BufInv, PlacesOK
<1>2. \A i, j \in DOMAIN Place[p] : Place[p][i] = Place[p][j] => i = j
  BY <1>1 DEF Once
<1>3. QED
  BY <1>1, <1>2 DEF IsInjective

(***************************************************************************)
(* A sender takes a buffer from its pool and queues it, or loses it to a   *)
(* full ring (get_vh_buf_header, physical_channel_send).                   *)
(***************************************************************************)
LEMMA SendQueueBuffers ==
  ASSUME BufInv, NEW t \in GuestThreads, SendQueue(t), UNCHANGED vhostVars
  PROVE  BufInv'
<1> DEFINE p == PoolOf(gmsg[t])
           b == Head(list[p])
<1>1. /\ p \in Pools /\ p \in Places /\ p \notin Places \ Pools /\ list[p] # << >>
      /\ DOMAIN list = Pools /\ list[p] \in Seq(PoolBufs(p)) /\ DOMAIN avail = Queues
      /\ avail["tx"] \in Seq(OutBufs)
  BY DEF SendQueue, PoolOf, Pools, Places, BufInv, BufferTypes
<1> HIDE DEF p
<1>2. /\ list' = [list EXCEPT ![p] = Tail(list[p])]
      /\ UNCHANGED <<taken, used, link, inList, task, hd, wk>> /\ Live
  BY DEF SendQueue, vhostVars, Live, p
<1>3. /\ b \in PoolBufs(p) /\ b \in OutBufs /\ b \in Bufs
      /\ Tail(list[p]) \in Seq(PoolBufs(p))
  BY <1>1, TailIs, PoolsAre
<1>4. /\ list'[p] = Tail(list[p]) /\ \A r \in Pools : r # p => list'[r] = list[r]
      /\ DOMAIN list' = Pools
  BY <1>1, <1>2
<1>5. CASE ~VringFull("tx")
  <2>1. avail' = [avail EXCEPT !["tx"] = avail["tx"] \o <<b>>] /\ UNCHANGED lost
    BY <1>5 DEF SendQueue, AddAndKick, p
  <2>2. /\ avail["tx"] \o <<b>> = Append(avail["tx"], b)
        /\ Append(avail["tx"], b) \in Seq(OutBufs)
    BY <1>1, <1>3, AppendIs
  <2>3. /\ avail'["tx"] = Append(avail["tx"], b) /\ avail'["rx"] = avail["rx"]
        /\ DOMAIN avail' = Queues
    BY <1>1, <2>1, <2>2 DEF Queues
  <2>4. BufferTypes'
    BY <1>1, <1>2, <1>3, <1>4, <2>1, <2>2, <2>3 DEF BufInv, BufferTypes
  <2>5. InHandOK'
    BY <1>2 DEF BufInv, InHandOK
  <2>6. Moved(Place, Place', p, "tx_avail", b)
    <3>1. /\ p # "tx_avail" /\ Place[p] # << >> /\ b = Head(Place[p])
          /\ Place'[p] = Tail(Place[p])
      BY <1>1, <1>4, PlaceIs, PlaceIsPrimed DEF PlacesAre, Pools
    <3>2. Place'["tx_avail"] = Append(Place["tx_avail"], b)
      BY <2>3, PlaceIs, PlaceIsPrimed DEF PlacesAre
    <3>3. \A r \in Places : r # p /\ r # "tx_avail" => Place'[r] = Place[r]
      BY <1>2, <1>4, <2>3, PlaceIs, PlaceIsPrimed DEF PlacesAre, Places
    <3>4. DOMAIN Place = Places
      BY PlaceIs DEF PlacesAre
    <3>5. QED
      BY <3>1, <3>2, <3>3, <3>4 DEF Moved
  <2>7. PlacesOK'
    BY <1>1, <1>2, <2>1, <2>4, <2>6, Moves DEF Places
  <2>8. QED
    BY <2>4, <2>5, <2>7 DEF BufInv
<1>6. CASE VringFull("tx")
  <2>1. lost' = lost \cup {b} /\ UNCHANGED avail
    BY <1>6 DEF SendQueue, p
  <2>2. BufferTypes'
    BY <1>1, <1>2, <1>3, <1>4, <2>1 DEF BufInv, BufferTypes
  <2>3. InHandOK'
    BY <1>2 DEF BufInv, InHandOK
  <2>4. /\ Place[p] # << >> /\ Place'[p] = Tail(Place[p]) /\ b = Head(Place[p])
        /\ \A r \in Places : r # p => Place'[r] = Place[r]
        /\ DOMAIN Place = Places
    BY <1>1, <1>2, <1>4, <2>1, PlaceIs, PlaceIsPrimed DEF PlacesAre, Places
  <2>5. Dropped(Place, Place')
    BY <2>4 DEF Dropped
  <2>6. \A x : (\E r \in Places : x \in Gone(Place[r], Place'[r])) <=> x = b
    <3>1. \A r \in Places : r # p => Gone(Place[r], Place'[r]) = {}
      BY <2>4 DEF Gone
    <3>2. Gone(Place[p], Place'[p]) = {b}
      <4>1. Place[p] \in Seq(Bufs) /\ IsInjective(Place[p])
        BY <1>1, EachOnce
      <4>2. Gone(Place[p], Tail(Place[p])) = {Head(Place[p])}
        BY <2>4, <4>1, FirstGone
      <4>3. QED
        BY <2>4, <4>2
    <3>3. QED
      BY <1>1, <3>1, <3>2
  <2>7. \A x \in Bufs : x \in lost' <=>
                          x \in lost \/ \E r \in Places : x \in Gone(Place[r], Place'[r])
    BY <2>1, <2>6
  <2>8. Live'
    BY <1>2 DEF Live
  <2>9. PlacesOK'
    BY <1>2, <2>2, <2>5, <2>7, <2>8, Drops
  <2>10. QED
    BY <2>2, <2>3, <2>9 DEF BufInv
<1>7. QED
  BY <1>5, <1>6

(***************************************************************************)
(* virthab_recv_txq sorts the used out buffers into their pools.           *)
(***************************************************************************)
LEMMA RecvTxqBuffers ==
  ASSUME BufInv, RecvTxq, UNCHANGED vhostVars
  PROVE  BufInv'
<1> DEFINE u == used["tx"]
           X == [p \in Pools |-> PoolBufs(p)]
<1>1. /\ DOMAIN used = Queues /\ u \in Seq(OutBufs) /\ DOMAIN list = Pools
      /\ \A p \in Pools : list[p] \in Seq(PoolBufs(p))
  BY DEF BufInv, BufferTypes
<1>2. /\ used' = [used EXCEPT !["tx"] = << >>]
      /\ list' = [p \in Pools |-> list[p] \o OfPool(p, u)]
      /\ UNCHANGED <<avail, taken, inList, lost, link, hd, task, wk>>
  BY DEF RecvTxq, vhostVars
<1>3. used'["tx"] = << >> /\ used'["rx"] = used["rx"] /\ DOMAIN used' = Queues
  BY <1>1, <1>2 DEF Queues
<1>4. Place \in [Places -> Seq(Bufs)] /\ Once(Place) /\ Place["tx_used"] = u
  BY PlacesTyped, PlaceIs DEF BufInv, PlacesOK, PlacesAre
<1>5. IsInjective(u)
  BY <1>4, EachOnce DEF Places
<1>6. ASSUME NEW p \in Pools
      PROVE  /\ OfPool(p, u) \in Seq(PoolBufs(p))
             /\ IsInjective(OfPool(p, u))
             /\ ToSet(OfPool(p, u)) = ToSet(u) \cap PoolBufs(p)
             /\ list'[p] = list[p] \o OfPool(p, u)
  <2>1. PICK o : o = OfPool(p, u)
    OBVIOUS
  <2>2. o = SubseqAt(u, {i \in DOMAIN u : u[i] \in PoolBufs(p)})
    BY <2>1 DEF OfPool
  <2>3. /\ o \in Seq(OutBufs \cap PoolBufs(p)) /\ IsInjective(o)
        /\ ToSet(o) = ToSet(u) \cap PoolBufs(p)
    <3>1. PICK Y, s : Y = PoolBufs(p) /\ s = u
      OBVIOUS
    <3>2. s \in Seq(OutBufs) /\ IsInjective(s)
      BY <1>1, <1>5, <3>1
    <3>3. IsPart(o, s, Y)
      BY <2>2, <3>1 DEF IsPart
    <3>4. o \in Seq(OutBufs \cap Y) /\ IsInjective(o) /\ ToSet(o) = ToSet(s) \cap Y
      <4>1. o \in Seq(OutBufs \cap Y)
        BY <3>2, <3>3, PartIs
      <4>2. IsInjective(o)
        BY <3>2, <3>3, PartIs
      <4>3. \A x : x \in ToSet(o) <=> x \in ToSet(s) /\ x \in Y
        BY <3>2, <3>3, PartIs
      <4>4. QED
        BY <4>1, <4>2, <4>3
    <3>5. QED
      BY <3>1, <3>4
  <2>4. OutBufs \cap PoolBufs(p) \subseteq PoolBufs(p)
    OBVIOUS
  <2>5. o \in Seq(PoolBufs(p))
    BY <2>3, <2>4, SeqMonotonic
  <2>6. list'[p] = list[p] \o OfPool(p, u)
    BY <1>2
  <2>7. QED
    BY <2>1, <2>3, <2>5, <2>6
<1>7. \A p \in Pools : list'[p] \in Seq(PoolBufs(p)) /\ Sorted(list'[p], list[p], u, X[p])
  <2>1. SUFFICES ASSUME NEW p \in Pools
                 PROVE  list'[p] \in Seq(PoolBufs(p)) /\ Sorted(list'[p], list[p], u, X[p])
    OBVIOUS
  <2>2. list'[p] \in Seq(PoolBufs(p))
    <3>1. PICK a, o : a = list[p] /\ o = OfPool(p, u)
      OBVIOUS
    <3>2. a \in Seq(PoolBufs(p)) /\ o \in Seq(PoolBufs(p)) /\ list'[p] = a \o o
      BY <1>1, <1>6, <3>1
    <3>3. QED
      BY <3>2
  <2>3. Joined(list'[p], list[p], OfPool(p, u))
    BY <1>1, <1>6, JoinedIs
  <2>4. QED
    BY <1>6, <2>2, <2>3 DEF Sorted
<1>8. BufferTypes'
  <2>1. << >> \in Seq(OutBufs) /\ DOMAIN list' = Pools
    BY <1>2
  <2>2. QED
    BY <1>2, <1>3, <1>7, <2>1 DEF BufInv, BufferTypes
<1>9. InHandOK'
  BY <1>2 DEF BufInv, InHandOK
<1>10. SortedOut(Place, Place', "tx_used", Pools, X)
  <2>1. DOMAIN Place = Places /\ "tx_used" \in Places /\ Pools \subseteq Places \ {"tx_used"}
    BY <1>4 DEF Places, Pools
  <2>2. \A p, q \in Pools : p # q => X[p] \cap X[q] = {}
    BY PoolsAre
  <2>3. \A i \in DOMAIN Place["tx_used"] : \E p \in Pools : Place["tx_used"][i] \in X[p]
    <3>1. SUFFICES ASSUME NEW i \in DOMAIN u PROVE \E p \in Pools : u[i] \in X[p]
      BY <1>4
    <3>2. u[i] \in OutBufs
      BY <1>1
    <3>3. QED
      BY <3>2, PoolsAre
  <2>4. \A p \in Pools : Sorted(Place'[p], Place[p], Place["tx_used"], X[p])
    BY <1>4, <1>7, PlaceIs, PlaceIsPrimed DEF PlacesAre
  <2>5. Place'["tx_used"] = << >>
    BY <1>3, PlaceIsPrimed DEF PlacesAre
  <2>6. \A p \in Places \ Pools : p # "tx_used" => Place'[p] = Place[p]
    BY <1>2, <1>3, PlaceIs, PlaceIsPrimed DEF PlacesAre, Places
  <2> HIDE DEF X
  <2>7. QED
    BY <2>1, <2>2, <2>3, <2>4, <2>5, <2>6 DEF SortedOut
<1>11. Once(Place') /\ \A x : Holds(Place', x) <=> Holds(Place, x)
  <2>1. DOMAIN Place' = Places /\ DOMAIN Place = Places
    BY <1>4, PlaceIsPrimed DEF PlacesAre
  <2> HIDE DEF X
  <2>2. QED
    BY <1>4, <1>10, <2>1, SortKeeps
<1>12. PlacesOK'
  <2>1. PlacesOK /\ UNCHANGED lost /\ (Live' <=> Live)
    BY <1>2 DEF BufInv, Live
  <2>2. QED
    BY <1>11, <2>1, PlacesKept
<1>13. QED
  BY <1>8, <1>9, <1>12 DEF BufInv

(***************************************************************************)
(* The tasklet takes a used in buffer (virthab_recv_rxq).                  *)
(***************************************************************************)
LEMMA RxGetBuffers ==
  ASSUME BufInv, RxGet, UNCHANGED vhostVars
  PROVE  BufInv'
<1>1. CASE used["rx"] = << >>
  <2>1. /\ UNCHANGED <<list, avail, taken, used, inList, hd, lost, wk>> /\ (Live' <=> Live)
        /\ task = "run" /\ task' = "idle"
    BY <1>1 DEF RxGet, vhostVars, Live
  <2>2. InHandOK'
    BY <2>1 DEF BufInv, InHandOK
  <2>3. QED
    BY <2>1, <2>2, Idle
<1>2. CASE used["rx"] # << >>
  <2> DEFINE b == Head(used["rx"])
  <2>1. /\ DOMAIN used = Queues /\ used["rx"] \in Seq(InBufs) /\ task = "run"
        /\ hd = NoBuf
    BY DEF BufInv, BufferTypes, InHandOK, RxGet
  <2>2. /\ used' = [used EXCEPT !["rx"] = Tail(used["rx"])]
        /\ hd' = b /\ task' = "recv"
        /\ UNCHANGED <<list, avail, taken, inList, lost, link, wk>>
    BY <1>2 DEF RxGet, vhostVars
  <2>3. /\ used'["rx"] = Tail(used["rx"]) /\ used'["tx"] = used["tx"]
        /\ DOMAIN used' = Queues
    BY <2>1, <2>2 DEF Queues
  <2>4. b \in InBufs /\ b # NoBuf /\ Tail(used["rx"]) \in Seq(InBufs)
    BY <1>2, <2>1, TailIs, PoolsAre
  <2>5. BufferTypes'
    BY <2>2, <2>3, <2>4 DEF BufInv, BufferTypes
  <2>6. InHandOK'
    BY <2>2, <2>4 DEF BufInv, InHandOK
  <2>7. Place["hand"] = << >> /\ Place'["hand"] = <<b>>
    BY <2>1, <2>2, <2>4, PlaceIs, PlaceIsPrimed DEF PlacesAre
  <2>8. Append(<< >>, b) = <<b>>
    OBVIOUS
  <2>9. Moved(Place, Place', "rx_used", "hand", b)
    BY <1>2, <2>2, <2>3, <2>7, <2>8, PlaceIs, PlaceIsPrimed DEF PlacesAre, Moved, Places
  <2>10. PlacesOK'
    BY <2>2, <2>5, <2>9, Moves DEF Places
  <2>11. QED
    BY <2>5, <2>6, <2>10 DEF BufInv
<1>3. QED
  BY <1>1, <1>2

(***************************************************************************)
(* The tasklet makes its buffer available again.                           *)
(***************************************************************************)
LEMMA RxReturnBuffers ==
  ASSUME BufInv, RxReturn, UNCHANGED vhostVars
  PROVE  BufInv'
<1>1. /\ DOMAIN avail = Queues /\ avail["rx"] \in Seq(InBufs) /\ task = "return"
      /\ hd \in InBufs /\ hd # NoBuf
  BY DEF BufInv, BufferTypes, InHandOK, RxReturn
<1>2. /\ avail' = [avail EXCEPT !["rx"] = avail["rx"] \o <<hd>>]
      /\ hd' = NoBuf /\ task' = "run"
      /\ UNCHANGED <<list, used, taken, inList, lost, link, wk>>
  BY DEF RxReturn, AddAndKick, vhostVars
<1>3. avail["rx"] \o <<hd>> = Append(avail["rx"], hd) /\ Append(avail["rx"], hd) \in Seq(InBufs)
  BY <1>1, AppendIs
<1>4. /\ avail'["rx"] = Append(avail["rx"], hd) /\ avail'["tx"] = avail["tx"]
      /\ DOMAIN avail' = Queues
  BY <1>1, <1>2, <1>3 DEF Queues
<1>5. BufferTypes'
  BY <1>2, <1>3, <1>4 DEF BufInv, BufferTypes
<1>6. InHandOK'
  BY <1>2 DEF BufInv, InHandOK
<1>7. Place["hand"] = <<hd>> /\ Place'["hand"] = << >>
  BY <1>1, <1>2, PlaceIs, PlaceIsPrimed DEF PlacesAre
<1>8. <<hd>> # << >> /\ Head(<<hd>>) = hd /\ Tail(<<hd>>) = << >>
  OBVIOUS
<1>9. Moved(Place, Place', "hand", "rx_avail", hd)
  BY <1>2, <1>4, <1>7, <1>8, PlaceIs, PlaceIsPrimed DEF PlacesAre, Moved, Places
<1>10. PlacesOK'
  BY <1>2, <1>5, <1>9, Moves DEF Places
<1>11. QED
  BY <1>5, <1>6, <1>10 DEF BufInv

(***************************************************************************)
(* The guest's steps that leave the buffers alone.                         *)
(***************************************************************************)
LEMMA GuestIdle ==
  ASSUME BufInv, UNCHANGED vhostVars,
         \/ ProbeVqs \/ SendRefused \/ RecvRxqTask \/ RxDispatch \/ RxRun \/ RxRecv
         \/ \E t \in GuestThreads : SendStart(t) \/ SendOops(t) \/ SendSleep(t)
  PROVE  BufInv'
<1>1. UNCHANGED <<list, avail, taken, used, inList, hd, lost, wk>>
  BY DEF ProbeVqs, SendRefused, RecvRxqTask, RxDispatch, RxRun, RxRecv, SendStart, SendOops,
         SendSleep, vqVars, vhostVars
<1>2. Live' <=> Live
  BY DEF ProbeVqs, SendRefused, RecvRxqTask, RxDispatch, RxRun, RxRecv, SendStart, SendOops,
         SendSleep, Live
<1>3. task' \in {"recv", "return"} <=> task \in {"recv", "return"}
  BY DEF ProbeVqs, SendRefused, RecvRxqTask, RxDispatch, RxRun, RxRecv, SendStart, SendOops,
         SendSleep
<1>4. InHandOK'
  BY <1>1, <1>3 DEF BufInv, InHandOK
<1>5. QED
  BY <1>1, <1>2, <1>4, Idle

(***************************************************************************)
(* The elements of a sequence.                                             *)
(***************************************************************************)
Elems(s) == {s[i] : i \in DOMAIN s}

(***************************************************************************)
(* hab_stat_log fetches a used buffer of each queue and forgets it.        *)
(***************************************************************************)
LEMMA StatLogBuffers ==
  ASSUME BufInv, StatLog, UNCHANGED vhostVars
  PROVE  BufInv'
<1> DEFINE F(q) == IF used[q] = << >> THEN {} ELSE {Head(used[q])}
<1>1. /\ DOMAIN used = Queues /\ used["tx"] \in Seq(OutBufs) /\ used["rx"] \in Seq(InBufs)
  BY DEF BufInv, BufferTypes
<1>2. /\ used' = [q \in Queues |-> IF used[q] = << >> THEN << >> ELSE Tail(used[q])]
      /\ lost' = (lost \cup F("tx")) \cup F("rx")
      /\ UNCHANGED <<avail, taken, link, list, inList, task, hd, wk>> /\ Live /\ Live'
  BY DEF StatLog, vhostVars, Live
<1>3. /\ DOMAIN used' = Queues
      /\ used'["tx"] = IF used["tx"] = << >> THEN << >> ELSE Tail(used["tx"])
      /\ used'["rx"] = IF used["rx"] = << >> THEN << >> ELSE Tail(used["rx"])
  BY <1>2 DEF Queues
<1>4. ASSUME NEW S, NEW s \in Seq(S), IsInjective(s), NEW t,
             t = IF s = << >> THEN << >> ELSE Tail(s)
      PROVE  /\ t \in Seq(S) /\ (IF s = << >> THEN {} ELSE {Head(s)}) \subseteq S
             /\ Gone(s, t) = IF s = << >> THEN {} ELSE {Head(s)}
  <2>1. CASE s = << >>
    BY <1>4, <2>1 DEF Gone
  <2>2. CASE s # << >>
    BY <1>4, <2>2, TailIs, FirstGone
  <2>3. QED
    BY <2>1, <2>2
<1>5. /\ Place["tx_used"] = used["tx"] /\ Place["rx_used"] = used["rx"]
      /\ IsInjective(used["tx"]) /\ IsInjective(used["rx"])
  BY EachOnce, PlaceIs DEF PlacesAre, Places
<1>6. /\ used'["tx"] \in Seq(OutBufs) /\ F("tx") \subseteq OutBufs
      /\ used'["rx"] \in Seq(InBufs) /\ F("rx") \subseteq InBufs
      /\ Gone(used["tx"], used'["tx"]) = F("tx")
      /\ Gone(used["rx"], used'["rx"]) = F("rx")
  BY <1>1, <1>3, <1>4, <1>5
<1> HIDE DEF F
<1>7. BufferTypes'
  BY <1>2, <1>3, <1>6, PoolsAre DEF BufInv, BufferTypes
<1>8. InHandOK'
  BY <1>2 DEF BufInv, InHandOK
<1>9. /\ Place'["tx_used"] = used'["tx"] /\ Place'["rx_used"] = used'["rx"]
      /\ \A p \in Places : p \notin {"tx_used", "rx_used"} => Place'[p] = Place[p]
      /\ DOMAIN Place = Places
  BY <1>2, PlaceIs, PlaceIsPrimed DEF PlacesAre, Places
<1>10. Dropped(Place, Place')
  BY <1>3, <1>5, <1>9 DEF Dropped
<1>11. \A x : (\E p \in Places : x \in Gone(Place[p], Place'[p]))
                <=> x \in F("tx") \/ x \in F("rx")
  <2>1. \A p \in Places : p \notin {"tx_used", "rx_used"} => Gone(Place[p], Place'[p]) = {}
    BY <1>9 DEF Gone
  <2>2. "tx_used" \in Places /\ "rx_used" \in Places
    BY DEF Places
  <2>3. Gone(Place["tx_used"], Place'["tx_used"]) = F("tx")
    BY <1>5, <1>6, <1>9
  <2>4. Gone(Place["rx_used"], Place'["rx_used"]) = F("rx")
    BY <1>5, <1>6, <1>9
  <2>5. QED
    BY <2>1, <2>2, <2>3, <2>4
<1>12. \A b \in Bufs : b \in lost' <=>
                         b \in lost \/ \E p \in Places : b \in Gone(Place[p], Place'[p])
  BY <1>2, <1>11
<1>13. PlacesOK'
  BY <1>2, <1>7, <1>10, <1>12, Drops
<1>14. QED
  BY <1>7, <1>8, <1>13 DEF BufInv

(***************************************************************************)
(* virthab_freeze drops the rings with the buffers in them.                *)
(***************************************************************************)
LEMMA FreezeBuffers ==
  ASSUME BufInv, StopInv, GuestFreeze
  PROVE  BufInv'
<1>1. /\ wk \notin {"tx_recv", "tx_used", "rx_fill"} /\ UNCHANGED wk
      /\ UNCHANGED <<list, inList, hd, task>> /\ Live /\ Live'
      /\ avail' = [q \in Queues |-> << >>] /\ taken' = [q \in Queues |-> << >>]
      /\ used' = [q \in Queues |-> << >>]
      /\ lost' = (lost \cup RingBufs("tx")) \cup RingBufs("rx")
      /\ hd = NoBuf
  BY DEF GuestFreeze, HostStopped, Freeze, DelVqs, vhostVars, StopInv, WorkerHasQueue,
         TxStates, RxStates, Live, BufInv, InHandOK, Queues
<1>2. /\ DOMAIN avail' = Queues /\ DOMAIN taken' = Queues /\ DOMAIN used' = Queues
      /\ \A q \in Queues : avail'[q] = << >> /\ taken'[q] = << >> /\ used'[q] = << >>
      /\ Queues = {"tx", "rx"}
  BY <1>1 DEF Queues
<1>3. \A q \in Queues : RingBufs(q) = Elems(avail[q]) \cup Elems(taken[q]) \cup Elems(used[q])
  BY DEF RingBufs, ToSet, Elems
<1>4. \A S : \A s \in Seq(S) : Elems(s) \subseteq S
  BY DEF Elems
<1>5. RingBufs("tx") \subseteq Bufs /\ RingBufs("rx") \subseteq Bufs
  <2>1. /\ Elems(avail["tx"]) \subseteq OutBufs /\ Elems(taken["tx"]) \subseteq OutBufs
        /\ Elems(used["tx"]) \subseteq OutBufs
        /\ Elems(avail["rx"]) \subseteq InBufs /\ Elems(taken["rx"]) \subseteq InBufs
        /\ Elems(used["rx"]) \subseteq InBufs
    BY <1>4 DEF BufInv, BufferTypes
  <2>2. QED
    BY <1>2, <1>3, <2>1, PoolsAre
<1>6. BufferTypes'
  <2>1. << >> \in Seq(OutBufs) /\ << >> \in Seq(InBufs)
    OBVIOUS
  <2>2. QED
    BY <1>1, <1>2, <1>5, <2>1 DEF BufInv, BufferTypes
<1>7. InHandOK'
  BY <1>1, <1>2 DEF BufInv, InHandOK
<1> DEFINE R == {"tx_avail", "tx_taken", "tx_used", "rx_avail", "rx_taken", "rx_used"}
<1>8. /\ R \subseteq Places /\ DOMAIN Place = Places
      /\ \A p \in R : Place'[p] = << >>
      /\ \A p \in Places : p \notin R => Place'[p] = Place[p]
  BY <1>1, <1>2, PlaceIs, PlaceIsPrimed DEF PlacesAre, Places
<1>9. Dropped(Place, Place')
  BY <1>8 DEF Dropped
<1>10. \A x : (\E p \in Places : x \in Gone(Place[p], Place'[p]))
                <=> x \in RingBufs("tx") \/ x \in RingBufs("rx")
  <2>1. \A p \in Places : p \notin R => Gone(Place[p], Place'[p]) = {}
    BY <1>8 DEF Gone
  <2>2. \A p \in R : Gone(Place[p], Place'[p]) = Elems(Place[p])
    BY <1>8 DEF Gone, Elems
  <2>3. \A x : (\E p \in Places : x \in Gone(Place[p], Place'[p])) <=>
                 \E p \in R : x \in Elems(Place[p])
    BY <1>8, <2>1, <2>2
  <2>4. \A x : (\E p \in R : x \in Elems(Place[p])) <=>
                 x \in RingBufs("tx") \/ x \in RingBufs("rx")
    BY <1>2, <1>3, PlaceIs DEF PlacesAre
  <2>5. QED
    BY <2>3, <2>4
<1>11. \A b \in Bufs : b \in lost' <=>
                         b \in lost \/ \E p \in Places : b \in Gone(Place[p], Place'[p])
  BY <1>1, <1>10
<1>12. PlacesOK'
  BY <1>1, <1>6, <1>9, <1>11, Drops
<1>13. QED
  BY <1>6, <1>7, <1>12 DEF BufInv

(***************************************************************************)
(* Every step of the front end keeps the invariant.                        *)
(***************************************************************************)
LEMMA GuestBuffers ==
  ASSUME BufInv, VirtioNext, UNCHANGED vhostVars
  PROVE  BufInv'
<1>1. CASE ProbePools \/ Restore \/ RecvTxq \/ RxGet \/ RxReturn \/ StatLog
  BY <1>1, ProbePoolsBuffers, RestoreBuffers, RecvTxqBuffers, RxGetBuffers, RxReturnBuffers,
     StatLogBuffers
<1>2. CASE \E t \in GuestThreads : SendQueue(t)
  BY <1>2, SendQueueBuffers
<1>3. CASE \/ ProbeVqs \/ SendRefused \/ RecvRxqTask \/ RxDispatch \/ RxRun \/ RxRecv
           \/ \E t \in GuestThreads : SendStart(t) \/ SendOops(t) \/ SendSleep(t)
  BY <1>3, GuestIdle
<1>4. QED
  BY <1>1, <1>2, <1>3 DEF VirtioNext, VirtioSend, VirtioTasklet

(***************************************************************************)
(* No buffer is anywhere: before the probe, and after a restart of the     *)
(* guest.                                                                  *)
(***************************************************************************)
NoBuffers ==
  /\ list = [p \in Pools |-> << >>] /\ inList = << >> /\ hd = NoBuf /\ lost = {}
  /\ avail = [q \in Queues |-> << >>] /\ taken = [q \in Queues |-> << >>]
  /\ used = [q \in Queues |-> << >>]
  /\ link = "null" /\ task = "idle"
  /\ wk \notin {"tx_recv", "tx_used", "rx_fill"}

(***************************************************************************)
(* The invariant holds of no buffers.                                      *)
(***************************************************************************)
LEMMA Nowhere ==
  ASSUME NoBuffers
  PROVE  BufInv
<1>1. << >> \in Seq(OutBufs) /\ << >> \in Seq(InBufs) /\ \A p : << >> \in Seq(PoolBufs(p))
  OBVIOUS
<1>2. BufferTypes
  BY <1>1 DEF NoBuffers, BufferTypes, Queues
<1>3. InHandOK
  BY DEF NoBuffers, InHandOK, Queues
<1>4. DOMAIN Place = Places /\ \A p \in Places : Place[p] = << >>
  BY PlaceIs DEF PlacesAre, NoBuffers, Places, Queues
<1>5. Once(Place) /\ \A b : ~Holds(Place, b)
  BY <1>4 DEF Once, Holds
<1>6. PlacesOK
  BY <1>5 DEF PlacesOK, NoBuffers, Live
<1>7. QED
  BY <1>2, <1>3, <1>6 DEF BufInv

(***************************************************************************)
(* The same in the next state.                                             *)
(***************************************************************************)
LEMMA NowherePrimed ==
  ASSUME NoBuffers'
  PROVE  BufInv'
<1>1. << >> \in Seq(OutBufs) /\ << >> \in Seq(InBufs) /\ \A p : << >> \in Seq(PoolBufs(p))
  OBVIOUS
<1>2. BufferTypes'
  BY <1>1 DEF NoBuffers, BufferTypes, Queues
<1>3. InHandOK'
  BY DEF NoBuffers, InHandOK, Queues
<1>4. DOMAIN Place' = Places /\ \A p \in Places : Place'[p] = << >>
  BY PlaceIsPrimed DEF PlacesAre, NoBuffers, Places, Queues
<1>5. Once(Place') /\ \A b : ~Holds(Place', b)
  BY <1>4 DEF Once, Holds
<1>6. PlacesOK'
  BY <1>5 DEF PlacesOK, NoBuffers, Live
<1>7. QED
  BY <1>2, <1>3, <1>6 DEF BufInv

(***************************************************************************)
(* A guest that is started again begins with no buffers; the worker holds  *)
(* none, since its queues were stopped.                                    *)
(***************************************************************************)
LEMMA RebootBuffers ==
  ASSUME StopInv, Reboot
  PROVE  BufInv'
<1>1. NoBuffers'
  BY DEF NoBuffers, Reboot, HostStopped, DelVqs, vhostVars, StopInv, WorkerHasQueue,
         TxStates, RxStates, Queues
<1>2. QED
  BY <1>1, NowherePrimed

-----------------------------------------------------------------------------
(* Every buffer is in one place *)

(***************************************************************************)
(* Every step of the transport keeps the invariant.                        *)
(***************************************************************************)
LEMMA BuffersStep ==
  ASSUME BufInv, StopInv, [Next]_vars
  PROVE  BufInv'
<1>1. CASE VirtioNext /\ UNCHANGED vhostVars
  BY <1>1, GuestBuffers
<1>2. CASE VhostNext /\ UNCHANGED virtioVars
  BY <1>2, WorkerBuffers
<1>3. CASE GuestFreeze
  BY <1>3, FreezeBuffers
<1>4. CASE Reboot
  BY <1>4, RebootBuffers
<1>5. CASE UNCHANGED vars
  <2>1. UNCHANGED <<list, avail, taken, used, inList, hd, lost, link, task, wk>>
    BY <1>5 DEF vars, vqVars, virtioVars, vhostVars
  <2>2. (Live' <=> Live) /\ InHandOK'
    BY <2>1 DEF Live, BufInv, InHandOK
  <2>3. QED
    BY <2>1, <2>2, Idle
<1>6. QED
  BY <1>1, <1>2, <1>3, <1>4, <1>5 DEF Next

(***************************************************************************)
(* Always no buffer is in two places, and once the probe has filled the    *)
(* pools each is in one or lost (the pools of hab_virtio.c, the virtqueues *)
(* and the workers of hab_vhost.c).                                        *)
(***************************************************************************)
THEOREM BuffersKept == Spec => []BufInv
<1>1. Init => BufInv
  <2>1. Init => NoBuffers
    BY DEF Init, VqInit, VirtioInit, VhostInit, NoBuffers
  <2>2. QED
    BY <2>1, Nowhere
<1>2. BufInv /\ StopInv /\ [Next]_vars => BufInv'
  BY BuffersStep
<1>3. Spec => []StopInv
  BY WorkerInStartedQueue
<1>4. QED
  BY <1>1, <1>2, <1>3, PTL DEF Spec

(***************************************************************************)
(* Different places share no buffer, and none holds one that is lost.      *)
(***************************************************************************)
LEMMA PlacesApart ==
  ASSUME BufInv
  PROVE  /\ \A p \in Places : Place[p] \in Seq(Bufs) /\ IsInjective(Place[p])
         /\ \A p, q \in Places : p # q => Apart(Place[p], Place[q])
         /\ \A p \in Places : \A x \in ToSet(Place[p]) : x \in Bufs /\ x \notin lost
         /\ \A b \in Bufs : Live /\ b \notin lost => \E p \in Places : b \in ToSet(Place[p])
<1>1. \A p \in Places : Place[p] \in Seq(Bufs) /\ IsInjective(Place[p])
  BY EachOnce
<1>2. DOMAIN Place = Places /\ Once(Place)
  BY PlaceIs DEF PlacesAre, BufInv, PlacesOK
<1>3. \A p \in Places : \A x : x \in ToSet(Place[p]) <=> \E i \in DOMAIN Place[p] : Place[p][i] = x
  BY DEF ToSet
<1>4. \A p, q \in Places : p # q => Apart(Place[p], Place[q])
  BY <1>2, <1>3 DEF Once, Apart
<1>5. ASSUME NEW p \in Places, NEW x \in ToSet(Place[p]) PROVE x \in Bufs /\ x \notin lost
  <2>1. PICK i \in DOMAIN Place[p] : Place[p][i] = x
    BY <1>3, <1>5
  <2>2. x \in Bufs
    BY <1>1, <2>1
  <2>3. Holds(Place, x)
    BY <1>2, <2>1 DEF Holds
  <2>4. QED
    BY <2>2, <2>3 DEF BufInv, PlacesOK
<1>6. ASSUME NEW b \in Bufs, Live, b \notin lost
      PROVE  \E p \in Places : b \in ToSet(Place[p])
  <2>1. Holds(Place, b)
    BY <1>6 DEF BufInv, PlacesOK
  <2>2. QED
    BY <1>2, <1>3, <2>1 DEF Holds
<1>7. QED
  BY <1>1, <1>4, <1>5, <1>6

(***************************************************************************)
(* Out lists the buffers of the pools and of the tx queue, each once.      *)
(***************************************************************************)
LEMMA OutIs ==
  ASSUME BufInv
  PROVE  /\ Out \in Seq(Bufs) /\ IsInjective(Out)
         /\ \A x : x \in ToSet(Out) <=>
                     \E p \in Pools \cup {"tx_avail", "tx_taken", "tx_used"} : x \in ToSet(Place[p])
<1>1. PICK s, m, l, a, k, u :
        /\ s = Place["s"] /\ m = Place["m"] /\ l = Place["l"] /\ a = Place["tx_avail"]
        /\ k = Place["tx_taken"] /\ u = Place["tx_used"]
  OBVIOUS
<1>2. {s, m, l, a, k, u} \subseteq Seq(Bufs)
  BY <1>1, PlacesApart DEF Places, Pools
<1>3. /\ IsInjective(s) /\ IsInjective(m) /\ IsInjective(l) /\ IsInjective(a)
      /\ IsInjective(k) /\ IsInjective(u)
  BY <1>1, PlacesApart DEF Places, Pools
<1>4. /\ Apart(s, m) /\ Apart(s, l) /\ Apart(s, a) /\ Apart(s, k) /\ Apart(s, u)
      /\ Apart(m, l) /\ Apart(m, a) /\ Apart(m, k) /\ Apart(m, u)
      /\ Apart(l, a) /\ Apart(l, k) /\ Apart(l, u)
      /\ Apart(a, k) /\ Apart(a, u) /\ Apart(k, u)
  BY <1>1, PlacesApart DEF Places, Pools
<1>5. PICK sm : sm = s \o m
  OBVIOUS
<1>6. /\ sm \in Seq(Bufs) /\ IsInjective(sm)
      /\ \A x : x \in ToSet(sm) <=> x \in ToSet(s) \/ x \in ToSet(m)
  BY <1>2, <1>3, <1>4, <1>5, JoinApart
<1>7. Apart(sm, l) /\ Apart(sm, a) /\ Apart(sm, k) /\ Apart(sm, u)
  BY <1>4, <1>6 DEF Apart
<1>8. PICK sl : sl = sm \o l
  OBVIOUS
<1>9. /\ sl \in Seq(Bufs) /\ IsInjective(sl)
      /\ \A x : x \in ToSet(sl) <=> x \in ToSet(sm) \/ x \in ToSet(l)
  BY <1>2, <1>3, <1>6, <1>7, <1>8, JoinApart
<1>10. Apart(sl, a) /\ Apart(sl, k) /\ Apart(sl, u)
  BY <1>4, <1>7, <1>9 DEF Apart
<1>11. PICK sa : sa = sl \o a
  OBVIOUS
<1>12. /\ sa \in Seq(Bufs) /\ IsInjective(sa)
       /\ \A x : x \in ToSet(sa) <=> x \in ToSet(sl) \/ x \in ToSet(a)
  BY <1>2, <1>3, <1>9, <1>10, <1>11, JoinApart
<1>13. Apart(sa, k) /\ Apart(sa, u)
  BY <1>4, <1>10, <1>12 DEF Apart
<1>14. PICK sk : sk = sa \o k
  OBVIOUS
<1>15. /\ sk \in Seq(Bufs) /\ IsInjective(sk)
       /\ \A x : x \in ToSet(sk) <=> x \in ToSet(sa) \/ x \in ToSet(k)
  BY <1>2, <1>3, <1>12, <1>13, <1>14, JoinApart
<1>16. Apart(sk, u)
  BY <1>4, <1>13, <1>15 DEF Apart
<1>17. PICK su : su = sk \o u
  OBVIOUS
<1>18. /\ su \in Seq(Bufs) /\ IsInjective(su)
       /\ \A x : x \in ToSet(su) <=> x \in ToSet(sk) \/ x \in ToSet(u)
  BY <1>2, <1>3, <1>15, <1>16, <1>17, JoinApart
<1>19. Out = su
  BY <1>1, <1>5, <1>8, <1>11, <1>14, <1>17, PlaceIs DEF PlacesAre, Out, Pools
<1>20. \A x : x \in ToSet(su) <=>
                \E p \in Pools \cup {"tx_avail", "tx_taken", "tx_used"} : x \in ToSet(Place[p])
  BY <1>1, <1>6, <1>9, <1>12, <1>15, <1>18 DEF Pools
<1>21. QED
  BY <1>18, <1>19, <1>20

(***************************************************************************)
(* In lists the buffers of the rx queue and in the tasklet's hand, each    *)
(* once.                                                                   *)
(***************************************************************************)
LEMMA InIs ==
  ASSUME BufInv
  PROVE  /\ In \in Seq(Bufs) /\ IsInjective(In)
         /\ \A x : x \in ToSet(In) <=>
                     \E p \in {"rx_avail", "rx_taken", "rx_used", "hand"} : x \in ToSet(Place[p])
<1>1. PICK a, k, u, h :
        /\ a = Place["rx_avail"] /\ k = Place["rx_taken"] /\ u = Place["rx_used"]
        /\ h = Place["hand"]
  OBVIOUS
<1>2. {a, k, u, h} \subseteq Seq(Bufs)
  BY <1>1, PlacesApart DEF Places
<1>3. IsInjective(a) /\ IsInjective(k) /\ IsInjective(u) /\ IsInjective(h)
  BY <1>1, PlacesApart DEF Places
<1>4. Apart(a, k) /\ Apart(a, u) /\ Apart(a, h) /\ Apart(k, u) /\ Apart(k, h) /\ Apart(u, h)
  BY <1>1, PlacesApart DEF Places
<1>5. << >> \o a = a
  BY <1>2, ConcatEmptySeq
<1>6. PICK ak : ak = a \o k
  OBVIOUS
<1>7. /\ ak \in Seq(Bufs) /\ IsInjective(ak)
      /\ \A x : x \in ToSet(ak) <=> x \in ToSet(a) \/ x \in ToSet(k)
  BY <1>2, <1>3, <1>4, <1>6, JoinApart
<1>8. Apart(ak, u) /\ Apart(ak, h)
  BY <1>4, <1>7 DEF Apart
<1>9. PICK au : au = ak \o u
  OBVIOUS
<1>10. /\ au \in Seq(Bufs) /\ IsInjective(au)
       /\ \A x : x \in ToSet(au) <=> x \in ToSet(ak) \/ x \in ToSet(u)
  BY <1>2, <1>3, <1>7, <1>8, <1>9, JoinApart
<1>11. Apart(au, h)
  BY <1>4, <1>8, <1>10 DEF Apart
<1>12. PICK ah : ah = au \o h
  OBVIOUS
<1>13. /\ ah \in Seq(Bufs) /\ IsInjective(ah)
       /\ \A x : x \in ToSet(ah) <=> x \in ToSet(au) \/ x \in ToSet(h)
  BY <1>2, <1>3, <1>10, <1>11, <1>12, JoinApart
<1>14. In = ah
  <2>1. inList = << >>
    BY DEF BufInv, BufferTypes
  <2>2. QED
    BY <1>1, <1>5, <1>6, <1>9, <1>12, <2>1, PlaceIs DEF PlacesAre, In
<1>15. \A x : x \in ToSet(ah) <=>
                \E p \in {"rx_avail", "rx_taken", "rx_used", "hand"} : x \in ToSet(Place[p])
  BY <1>1, <1>7, <1>10, <1>13
<1>16. QED
  BY <1>13, <1>14, <1>15

(***************************************************************************)
(* Out buffers stay with the pools and the tx queue, in buffers with the   *)
(* rx queue and the tasklet.                                               *)
(***************************************************************************)
LEMMA KindOfPlace ==
  ASSUME BufInv
  PROVE  /\ \A p \in Pools : ToSet(Place[p]) \subseteq PoolBufs(p)
         /\ \A p \in Pools \cup {"tx_avail", "tx_taken", "tx_used"} :
              ToSet(Place[p]) \subseteq OutBufs
         /\ \A p \in {"rx_avail", "rx_taken", "rx_used", "hand"} :
              ToSet(Place[p]) \subseteq InBufs
<1>1. \A S : \A s \in Seq(S) : ToSet(s) \subseteq S
  BY DEF ToSet
<1>2. \A p \in Pools : ToSet(Place[p]) \subseteq PoolBufs(p)
  BY <1>1, PlaceIs DEF PlacesAre, BufInv, BufferTypes
<1>3. \A p \in {"tx_avail", "tx_taken", "tx_used"} : ToSet(Place[p]) \subseteq OutBufs
  BY <1>1, PlaceIs DEF PlacesAre, BufInv, BufferTypes
<1>4. \A p \in {"rx_avail", "rx_taken", "rx_used"} : ToSet(Place[p]) \subseteq InBufs
  BY <1>1, PlaceIs DEF PlacesAre, BufInv, BufferTypes
<1>5. ToSet(Place["hand"]) \subseteq InBufs
  <2>1. hd \in InBufs \cup {NoBuf} /\ Place["hand"] = IF hd = NoBuf THEN << >> ELSE <<hd>>
    BY PlaceIs DEF PlacesAre, BufInv, BufferTypes
  <2>2. Place["hand"] \in Seq(InBufs)
    BY <2>1
  <2>3. QED
    BY <1>1, <2>2
<1>6. QED
  BY <1>2, <1>3, <1>4, <1>5, PoolsAre

(***************************************************************************)
(* The invariant gives BufferInOnePlace.                                   *)
(***************************************************************************)
LEMMA OnePlace == BufInv => BufferInOnePlace
<1>1. SUFFICES ASSUME BufInv PROVE BufferInOnePlace
  OBVIOUS
<1>2. PICK o, i, t : o = Out /\ i = In /\ t = SetToSeq(lost)
  OBVIOUS
<1>3. IsFiniteSet(lost) /\ lost \subseteq Bufs
  BY <1>1, TransportAssumption, FS_Subset DEF BufInv, BufferTypes
<1>4. t \in Seq(Bufs) /\ IsInjective(t) /\ ToSet(t) = lost
  <2>1. t \in Seq(lost) /\ IsInjective(t) /\ ToSet(t) = lost
    BY <1>2, <1>3, SetToSeqIs
  <2>2. QED
    BY <1>3, <2>1, SeqMonotonic
<1>5. /\ o \in Seq(Bufs) /\ IsInjective(o)
      /\ \A x : x \in ToSet(o) <=>
                  \E p \in Pools \cup {"tx_avail", "tx_taken", "tx_used"} : x \in ToSet(Place[p])
  BY <1>1, <1>2, OutIs
<1>6. /\ i \in Seq(Bufs) /\ IsInjective(i)
      /\ \A x : x \in ToSet(i) <=>
                  \E p \in {"rx_avail", "rx_taken", "rx_used", "hand"} : x \in ToSet(Place[p])
  BY <1>1, <1>2, InIs
<1>7. \A p \in Places : \A x \in ToSet(Place[p]) : x \in Bufs /\ x \notin lost
  BY <1>1, PlacesApart
<1>8. Apart(o, i) /\ Apart(o, t) /\ Apart(i, t)
  <2>1. Apart(o, i)
    BY <1>1, <1>5, <1>6, KindOfPlace, PoolsAre DEF Apart
  <2>2. QED
    BY <1>4, <1>5, <1>6, <1>7, <2>1 DEF Apart, Places
<1>9. PICK oi : oi = o \o i
  OBVIOUS
<1>10. /\ oi \in Seq(Bufs) /\ IsInjective(oi)
       /\ \A x : x \in ToSet(oi) <=> x \in ToSet(o) \/ x \in ToSet(i)
  BY <1>5, <1>6, <1>8, <1>9, JoinApart
<1>11. Apart(oi, t)
  BY <1>8, <1>10 DEF Apart
<1>12. IsInjective(oi \o t)
  BY <1>4, <1>10, <1>11, JoinApart
<1>13. IsInjective(Out \o In \o SetToSeq(lost))
  BY <1>2, <1>9, <1>12
<1>14. ASSUME Live
       PROVE  ToSet(o) = OutBufs \ lost /\ ToSet(i) = InBufs \ lost
  <2>1. \A b \in Bufs : b \notin lost => \E p \in Places : b \in ToSet(Place[p])
    BY <1>1, <1>14, PlacesApart
  <2>2. ToSet(o) \subseteq OutBufs \ lost /\ ToSet(i) \subseteq InBufs \ lost
    BY <1>1, <1>5, <1>6, <1>7, KindOfPlace DEF Places
  <2>3. ASSUME NEW b \in OutBufs \ lost PROVE b \in ToSet(o)
    <3>1. PICK p \in Places : b \in ToSet(Place[p])
      BY <2>1, PoolsAre
    <3>2. p \notin {"rx_avail", "rx_taken", "rx_used", "hand"}
      BY <1>1, <3>1, <2>3, KindOfPlace, PoolsAre
    <3>3. p \in Pools \cup {"tx_avail", "tx_taken", "tx_used"}
      BY <3>2 DEF Places
    <3>4. QED
      BY <1>5, <3>1, <3>3
  <2>4. ASSUME NEW b \in InBufs \ lost PROVE b \in ToSet(i)
    <3>1. PICK p \in Places : b \in ToSet(Place[p])
      BY <2>1, PoolsAre
    <3>2. p \notin Pools \cup {"tx_avail", "tx_taken", "tx_used"}
      BY <1>1, <3>1, <2>4, KindOfPlace, PoolsAre
    <3>3. p \in {"rx_avail", "rx_taken", "rx_used", "hand"}
      BY <3>2 DEF Places
    <3>4. QED
      BY <1>6, <3>1, <3>3
  <2>5. QED
    BY <2>2, <2>3, <2>4
<1>15. \A p \in Pools : ToSet(list[p]) \subseteq PoolBufs(p)
  BY <1>1, KindOfPlace, PlaceIs DEF PlacesAre
<1>16. QED
  BY <1>2, <1>13, <1>14, <1>15 DEF BufferInOnePlace, Live

(***************************************************************************)
(* Every buffer of the guest is in exactly one place, whatever senders,    *)
(* callbacks, tasklet and workers do at the same time: none is filled by   *)
(* one side while the other reads it, and none is gone but those counted   *)
(* as lost (get_vh_buf_header, virthab_recv_txq, virthab_recv_rxq,         *)
(* rx_worker).                                                             *)
(***************************************************************************)
THEOREM BuffersCorrect == Spec => []BufferInOnePlace
<1>1. Spec => []BufInv
  BY BuffersKept
<1>2. QED
  BY <1>1, OnePlace, PTL

-----------------------------------------------------------------------------
(* What buffers hold, and what is left of it *)

(***************************************************************************)
(* The contents of the buffers s, when memory is M.                        *)
(***************************************************************************)
Of(M, s) == [i \in DOMAIN s |-> M[s[i]]]

(***************************************************************************)
(* The contents are a sequence as long as s.                               *)
(***************************************************************************)
LEMMA OfIs ==
  ASSUME NEW S, NEW s \in Seq(S), NEW M
  PROVE  /\ Len(s) \in Nat /\ DOMAIN s = 1 .. Len(s) /\ DOMAIN Of(M, s) = 1 .. Len(s)
         /\ \A i \in 1 .. Len(s) : s[i] \in S /\ Of(M, s)[i] = M[s[i]]
         /\ \A V : (\A i \in 1 .. Len(s) : M[s[i]] \in V) => Of(M, s) \in Seq(V)
         /\ \A V : Of(M, s) \in Seq(V) => Len(Of(M, s)) = Len(s)
<1>1. /\ Len(s) \in Nat /\ DOMAIN s = 1 .. Len(s) /\ \A i \in 1 .. Len(s) : s[i] \in S
  BY LenProperties, ElementOfSeq
<1>2. DOMAIN Of(M, s) = 1 .. Len(s) /\ \A i \in 1 .. Len(s) : Of(M, s)[i] = M[s[i]]
  BY <1>1 DEF Of
<1>3. ASSUME NEW V, \A i \in 1 .. Len(s) : M[s[i]] \in V PROVE Of(M, s) \in Seq(V)
  <2>1. Of(M, s) \in [1 .. Len(s) -> V]
    BY <1>1, <1>3 DEF Of
  <2>2. QED
    BY <1>1, <2>1, SeqDef
<1>4. ASSUME NEW V, Of(M, s) \in Seq(V) PROVE Len(Of(M, s)) = Len(s)
  BY <1>1, <1>2, <1>4, LenProperties
<1>5. QED
  BY <1>1, <1>2, <1>3, <1>4

(***************************************************************************)
(* M and N agree on the buffers s.                                         *)
(***************************************************************************)
SameOn(M, N, s) == \A i \in DOMAIN s : N[s[i]] = M[s[i]]

(***************************************************************************)
(* Then the buffers hold the same.                                         *)
(***************************************************************************)
LEMMA OfSame ==
  ASSUME NEW M, NEW N, NEW s, SameOn(M, N, s)
  PROVE  Of(N, s) = Of(M, s)
BY DEF Of, SameOn

(***************************************************************************)
(* A buffer added at the end adds what it holds.                           *)
(***************************************************************************)
LEMMA OfAppend ==
  ASSUME NEW S, NEW s \in Seq(S), NEW b \in S, NEW M, NEW N, NEW V,
         NEW q \in Seq(V), q = Of(M, s), NEW v \in V, v = N[b], SameOn(M, N, s)
  PROVE  Of(N, Append(s, b)) = Append(q, v)
<1>1. PICK t, n : t = Append(s, b) /\ n = Len(s)
  OBVIOUS
<1>2. /\ n \in Nat /\ DOMAIN s = 1 .. n /\ DOMAIN q = 1 .. n /\ Len(q) = n
      /\ \A i \in 1 .. n : q[i] = M[s[i]]
  BY <1>1, OfIs
<1>3. /\ t \in Seq(S) /\ DOMAIN t = 1 .. n + 1 /\ \A i \in 1 .. n : t[i] = s[i]
      /\ t[n + 1] = b
  BY <1>1, AppendIs
<1>4. PICK a : a = Append(q, v)
  OBVIOUS
<1>5. /\ a \in Seq(V) /\ DOMAIN a = 1 .. n + 1
      /\ \A i \in 1 .. n : a[i] = q[i]
      /\ a[n + 1] = N[b]
  BY <1>1, <1>2, <1>4, AppendIs
<1>6. \A i \in 1 .. n + 1 : N[t[i]] = a[i]
  <2>1. SUFFICES ASSUME NEW i \in 1 .. n + 1 PROVE N[t[i]] = a[i]
    OBVIOUS
  <2>2. CASE i = n + 1
    BY <2>2, <1>3, <1>5
  <2>3. CASE i # n + 1
    <3>1. i \in 1 .. n
      BY <1>2, <2>1, <2>3
    <3>2. t[i] = s[i] /\ a[i] = M[s[i]] /\ N[s[i]] = M[s[i]]
      BY <3>1, <1>2, <1>3, <1>5 DEF SameOn
    <3>3. QED
      BY <3>2
  <2>4. QED
    BY <2>2, <2>3
<1>7. Of(N, t) = [i \in 1 .. n + 1 |-> N[t[i]]]
  BY <1>3 DEF Of
<1>8. a = [i \in 1 .. n + 1 |-> a[i]]
  <2>1. a \in [1 .. Len(a) -> V]
    BY <1>5, LenProperties
  <2>2. QED
    BY <1>5, <2>1
<1>9. Of(N, t) = a
  BY <1>6, <1>7, <1>8
<1>10. QED
  BY <1>1, <1>4, <1>9

(***************************************************************************)
(* The first buffer holds the first message.                               *)
(***************************************************************************)
LEMMA OfFirst ==
  ASSUME NEW S, NEW s \in Seq(S), NEW b \in S, NEW M, NEW V, NEW q \in Seq(V),
         q = Of(M, <<b>> \o s)
  PROVE  q # << >> /\ Head(q) = M[b] /\ Tail(q) = Of(M, s)
<1>1. PICK t, n : t = <<b>> \o s /\ n = Len(s)
  OBVIOUS
<1>2. <<b>> \in Seq(S) /\ Len(<<b>>) = 1 /\ <<b>>[1] = b
  OBVIOUS
<1>3. /\ t \in Seq(S) /\ n \in Nat /\ DOMAIN t = 1 .. n + 1 /\ t[1] = b /\ DOMAIN s = 1 .. n
      /\ \A i \in 1 .. n : t[i + 1] = s[i]
  <2>1. /\ t \in Seq(S) /\ n \in Nat /\ DOMAIN s = 1 .. n /\ DOMAIN t = 1 .. 1 + n
        /\ \A i \in 1 .. 1 : t[i] = <<b>>[i]
        /\ \A i \in 1 .. n : t[1 + i] = s[i]
    BY <1>1, <1>2, ConcatIs
  <2>2. QED
    BY <1>2, <2>1
<1>4. q = [i \in 1 .. n + 1 |-> M[t[i]]]
  BY <1>1, <1>3 DEF Of
<1>5. q # << >> /\ DOMAIN q = 1 .. n + 1
  BY <1>3, <1>4
<1>6. /\ Head(q) = q[1] /\ Len(q) = n + 1 /\ DOMAIN Tail(q) = 1 .. n /\ Tail(q) \in Seq(V)
      /\ \A i \in 1 .. n : Tail(q)[i] = q[i + 1]
  <2>1. /\ Len(q) \in Nat \ {0} /\ Head(q) = q[1] /\ DOMAIN q = 1 .. Len(q)
        /\ DOMAIN Tail(q) = 1 .. Len(q) - 1 /\ Tail(q) \in Seq(V)
        /\ \A i \in 1 .. Len(q) - 1 : Tail(q)[i] = q[i + 1]
    BY <1>5, TailIs
  <2>2. Len(q) = n + 1 /\ Len(q) - 1 = n
    BY <1>3, <1>5, <2>1
  <2>3. QED
    BY <2>1, <2>2
<1>7. Head(q) = M[b]
  BY <1>3, <1>4, <1>6
<1>8. \A i \in 1 .. n : Tail(q)[i] = M[s[i]]
  <2>1. SUFFICES ASSUME NEW i \in 1 .. n PROVE Tail(q)[i] = M[s[i]]
    OBVIOUS
  <2>2. i + 1 \in 1 .. n + 1 /\ Tail(q)[i] = q[i + 1]
    BY <1>3, <1>6
  <2>3. q[i + 1] = M[t[i + 1]] /\ t[i + 1] = s[i]
    BY <1>3, <1>4, <2>2
  <2>4. QED
    BY <2>2, <2>3
<1>9. Tail(q) = [i \in 1 .. n |-> Tail(q)[i]]
  <2>1. PICK u : u = Tail(q)
    OBVIOUS
  <2>2. u \in [1 .. Len(u) -> V] /\ DOMAIN u = 1 .. n
    BY <1>6, <2>1, LenProperties
  <2>3. u = [i \in 1 .. n |-> u[i]]
    BY <2>2
  <2>4. QED
    BY <2>1, <2>3
<1>10. Of(M, s) = [i \in 1 .. n |-> M[s[i]]]
  BY <1>3 DEF Of
<1>11. QED
  BY <1>5, <1>7, <1>8, <1>9, <1>10

(***************************************************************************)
(* The size of a set of positions without a stretch in the middle.         *)
(***************************************************************************)
LEMMA CountEnds ==
  ASSUME NEW m \in Nat, NEW l \in Nat, NEW p \in Nat, m <= l, l <= p
  PROVE  Cardinality((1 .. m) \cup (l + 1 .. p)) = m + (p - l)
<1> DEFINE A == 1 .. m
           B == l + 1 .. p
<1>1. /\ IsFiniteSet(A) /\ Cardinality(A) = IF 1 > m THEN 0 ELSE m - 1 + 1
      /\ IsFiniteSet(B) /\ Cardinality(B) = IF l + 1 > p THEN 0 ELSE p - (l + 1) + 1
  BY FS_Interval
<1>2. Cardinality(A) = m /\ Cardinality(B) = p - l
  BY <1>1
<1>3. A \cap B = {}
  OBVIOUS
<1>4. Cardinality(A \cup B) = Cardinality(A) + Cardinality(B) - Cardinality(A \cap B)
  BY <1>1, FS_Union
<1>5. Cardinality(A \cap B) = 0
  BY <1>3, FS_EmptySet
<1> HIDE DEF A, B
<1>6. Cardinality(A \cup B) = m + (p - l)
  BY <1>2, <1>4, <1>5
<1>7. QED
  BY <1>6 DEF A, B

(***************************************************************************)
(* f gives the kept positions in their order.                              *)
(***************************************************************************)
Orders(f, s, at) ==
  /\ \A p \in at : f[Cardinality(UpTo(at, p))] = p
  /\ SubseqAt(s, at) = [k \in 1 .. Cardinality(at) |-> s[f[k]]]

(***************************************************************************)
(* SubseqAt takes the kept positions in their order.                       *)
(***************************************************************************)
LEMMA SubseqOrdered ==
  ASSUME NEW S, NEW s \in Seq(S), NEW at \in SUBSET DOMAIN s
  PROVE  \E f : Orders(f, s, at)
<1>1. \E f \in [1 .. Cardinality(at) -> at] :
        /\ \A p \in at : f[Cardinality(UpTo(at, p))] = p
        /\ SubseqAt(s, at) = [k \in 1 .. Cardinality(at) |-> s[f[k]]]
  BY SubseqOrder
<1>2. QED
  BY <1>1 DEF Orders

(***************************************************************************)
(* s without the positions m + 1 to l.                                     *)
(***************************************************************************)
Ends(s, m, l) ==
  [k \in 1 .. m + (Len(s) - l) |-> s[IF k <= m THEN k ELSE k + (l - m)]]

(***************************************************************************)
(* Dropping a stretch is one of the choices of the channel's Cut.          *)
(***************************************************************************)
LEMMA KeepEnds ==
  ASSUME NEW S, NEW s \in Seq(S), NEW m \in Nat, NEW l \in Nat, m <= l, l <= Len(s)
  PROVE  \E keep \in SUBSET DOMAIN s : SubseqAt(s, keep) = Ends(s, m, l)
<1> DEFINE n == Len(s)
<1>1. n \in Nat /\ DOMAIN s = 1 .. n
  BY LenProperties
<1>2. PICK at \in SUBSET DOMAIN s : at = (1 .. m) \cup (l + 1 .. n)
  <2>1. (1 .. m) \cup (l + 1 .. n) \in SUBSET DOMAIN s
    BY <1>1
  <2>2. QED
    BY <2>1
<1>3. at \subseteq Int
  BY <1>1, <1>2
<1>4. Cardinality(at) = m + (n - l)
  BY <1>1, <1>2, CountEnds
<1>5. PICK f : Orders(f, s, at)
  BY SubseqOrdered
<1>6. ASSUME NEW k \in 1 .. m + (n - l)
      PROVE  f[k] = IF k <= m THEN k ELSE k + (l - m)
  <2>1. CASE k <= m
    <3>1. k \in at /\ UpTo(at, k) = (1 .. k) \cup (k + 1 .. k)
      BY <1>1, <1>2, <1>6, <2>1 DEF UpTo
    <3>2. k \in Nat /\ k <= k
      BY <1>6
    <3>3. Cardinality((1 .. k) \cup (k + 1 .. k)) = k + (k - k)
      BY <3>2, CountEnds
    <3>4. Cardinality(UpTo(at, k)) = k
      BY <3>1, <3>2, <3>3
    <3>5. QED
      BY <1>5, <2>1, <3>1, <3>4 DEF Orders
  <2>2. CASE ~(k <= m)
    <3>1. PICK p \in Nat : p = k + (l - m) /\ l <= p
      BY <1>1, <1>6, <2>2
    <3>2. p \in at /\ UpTo(at, p) = (1 .. m) \cup (l + 1 .. p)
      BY <1>1, <1>2, <1>6, <2>2, <3>1 DEF UpTo
    <3>3. Cardinality((1 .. m) \cup (l + 1 .. p)) = m + (p - l)
      BY <3>1, CountEnds
    <3>4. m + (p - l) = k
      BY <1>1, <1>6, <3>1
    <3>5. f[k] = p
      BY <1>5, <3>2, <3>3, <3>4 DEF Orders
    <3>6. QED
      BY <2>2, <3>1, <3>5
  <2>3. QED
    BY <2>1, <2>2
<1>7. SubseqAt(s, at) = Ends(s, m, l)
  BY <1>4, <1>5, <1>6 DEF Ends, Orders
<1>8. QED
  BY <1>3, <1>7

(***************************************************************************)
(* So are dropping nothing and dropping everything.                        *)
(***************************************************************************)
LEMMA KeepAll ==
  ASSUME NEW S, NEW s \in Seq(S)
  PROVE  /\ \E keep \in SUBSET DOMAIN s : s = SubseqAt(s, keep)
         /\ \E keep \in SUBSET DOMAIN s : << >> = SubseqAt(s, keep)
<1> DEFINE n == Len(s)
<1>1. n \in Nat /\ DOMAIN s = 1 .. n /\ s = [i \in 1 .. n |-> s[i]] /\ 0 \in Nat
  BY LenProperties
<1>0. n <= n /\ 0 <= n /\ n <= Len(s)
  BY <1>1
<1>2. PICK keep \in SUBSET DOMAIN s :
        SubseqAt(s, keep) = Ends(s, n, n)
  BY <1>0, <1>1, KeepEnds
<1>3. SubseqAt(s, keep) = s
  <2>1. 1 .. n + (n - n) = 1 .. n /\ \A k \in 1 .. n : k <= n
    BY <1>1
  <2>2. QED
    BY <1>1, <1>2, <2>1 DEF Ends
<1>4. PICK none \in SUBSET DOMAIN s :
        SubseqAt(s, none) = Ends(s, 0, n)
  BY <1>0, <1>1, KeepEnds
<1>5. SubseqAt(s, none) = << >>
  <2>1. 1 .. 0 + (n - n) = {}
    BY <1>1
  <2>2. QED
    BY <1>4, <2>1 DEF Ends
<1>6. QED
  BY <1>3, <1>5

(***************************************************************************)
(* What is left of a sequence was in it.                                   *)
(***************************************************************************)
LEMMA EndsAre ==
  ASSUME NEW V, NEW s \in Seq(V), NEW m \in Nat, NEW l \in Nat, m <= l, l <= Len(s)
  PROVE  /\ Ends(s, m, l) \in Seq(V) /\ Len(Ends(s, m, l)) = m + (Len(s) - l)
         /\ \A y \in ToSet(Ends(s, m, l)) : y \in ToSet(s)
<1>1. PICK n, e : n = Len(s) /\ e = Ends(s, m, l)
  OBVIOUS
<1>2. n \in Nat /\ DOMAIN s = 1 .. n /\ \A i \in 1 .. n : s[i] \in V
  BY <1>1, LenProperties, ElementOfSeq
<1>3. m + (n - l) \in Nat
  BY <1>1, <1>2
<1>4. \A k \in 1 .. m + (n - l) : (IF k <= m THEN k ELSE k + (l - m)) \in 1 .. n
  BY <1>1, <1>2
<1>5. e = [k \in 1 .. m + (n - l) |-> s[IF k <= m THEN k ELSE k + (l - m)]]
  BY <1>1 DEF Ends
<1>6. e \in [1 .. m + (n - l) -> V]
  BY <1>2, <1>4, <1>5
<1>7. e \in Seq(V)
  BY <1>3, <1>6, SeqDef
<1>8. Len(e) = m + (n - l)
  BY <1>3, <1>6, <1>7, LenProperties
<1>9. \A y \in ToSet(e) : y \in ToSet(s)
  BY <1>2, <1>4, <1>5 DEF ToSet
<1>10. QED
  BY <1>1, <1>7, <1>8, <1>9

(***************************************************************************)
(* A stretch dropped from the first part is dropped from the queue.        *)
(***************************************************************************)
LEMMA ConcatEnds ==
  ASSUME NEW V, NEW g \in Seq(V), NEW s \in Seq(V), NEW m \in Nat, NEW l \in Nat,
         m <= l, l <= Len(g)
  PROVE  Ends(g, m, l) \o s = Ends(g \o s, m, l) /\ l <= Len(g \o s)
<1>1. PICK e, q, n, k : e = Ends(g, m, l) /\ q = g \o s /\ n = Len(g) /\ k = Len(s)
  OBVIOUS
<1>2. /\ n \in Nat /\ k \in Nat /\ q \in Seq(V) /\ Len(q) = n + k
      /\ \A i \in 1 .. n : q[i] = g[i]
      /\ \A i \in 1 .. k : q[n + i] = s[i]
  BY <1>1, ConcatIs
<1>3. l <= Len(q)
  BY <1>1, <1>2
<1>4. e \in Seq(V) /\ Len(e) = m + (n - l)
  BY <1>1, EndsAre
<1>5. PICK u, w : u = e \o s /\ w = Ends(q, m, l)
  OBVIOUS
<1>6. PICK d : d = m + (n - l)
  OBVIOUS
<1>7. /\ d \in Nat /\ u \in Seq(V) /\ Len(u) = d + k
      /\ \A i \in 1 .. d : u[i] = e[i]
      /\ \A i \in 1 .. k : u[d + i] = s[i]
  <2>0. e \in Seq(V)
    BY <1>4
  <2>1. /\ Len(e) \in Nat /\ u \in Seq(V) /\ Len(u) = Len(e) + Len(s)
        /\ \A i \in 1 .. Len(e) : u[i] = e[i]
        /\ \A i \in 1 .. Len(s) : u[Len(e) + i] = s[i]
    <3>1. /\ e \o s \in Seq(V) /\ Len(e) \in Nat /\ Len(e \o s) = Len(e) + Len(s)
          /\ \A i \in 1 .. Len(e) : (e \o s)[i] = e[i]
          /\ \A i \in 1 .. Len(s) : (e \o s)[Len(e) + i] = s[i]
      BY <2>0, ConcatIs
    <3>2. QED
      BY <1>5, <3>1
  <2>2. Len(e) = d /\ Len(s) = k
    BY <1>1, <1>4, <1>6
  <2>3. QED
    BY <2>1, <2>2
<1>8. w \in Seq(V) /\ Len(w) = m + ((n + k) - l)
  <2>1. q \in Seq(V) /\ l <= Len(q)
    BY <1>2, <1>3
  <2>2. Ends(q, m, l) \in Seq(V) /\ Len(Ends(q, m, l)) = m + (Len(q) - l)
    BY <2>1, EndsAre
  <2>3. QED
    BY <1>2, <1>5, <2>2
<1>9. Len(w) = Len(u)
  BY <1>2, <1>6, <1>7, <1>8
<1>10. ASSUME NEW i \in 1 .. Len(u) PROVE u[i] = w[i]
  <2>1. w[i] = q[IF i <= m THEN i ELSE i + (l - m)]
    BY <1>2, <1>5, <1>6, <1>7, <1>10 DEF Ends
  <2>2. CASE i \in 1 .. d
    <3>1. e[i] = g[IF i <= m THEN i ELSE i + (l - m)]
      BY <1>1, <1>6, <2>2 DEF Ends
    <3>2. (IF i <= m THEN i ELSE i + (l - m)) \in 1 .. n
      BY <1>1, <1>2, <1>6, <1>7, <2>2
    <3>3. QED
      BY <1>2, <1>7, <2>1, <2>2, <3>1, <3>2
  <2>3. CASE i \notin 1 .. d
    <3>1. PICK j : j = i - d
      OBVIOUS
    <3>2. j \in 1 .. k /\ i = d + j /\ ~(i <= m) /\ i + (l - m) = n + j
      BY <1>1, <1>2, <1>6, <1>7, <1>10, <2>3, <3>1
    <3>3. QED
      BY <1>2, <1>7, <2>1, <3>2
  <2>4. QED
    BY <2>2, <2>3
<1>11. u = w
  BY <1>7, <1>8, <1>9, <1>10, SeqEqual
<1>12. QED
  BY <1>1, <1>3, <1>5, <1>11

(***************************************************************************)
(* Dropping buffers drops what they hold.                                  *)
(***************************************************************************)
LEMMA OfEnds ==
  ASSUME NEW S, NEW s \in Seq(S), NEW M, NEW V, NEW q \in Seq(V), q = Of(M, s),
         NEW m \in Nat, NEW l \in Nat, m <= l, l <= Len(s)
  PROVE  Of(M, Ends(s, m, l)) = Ends(q, m, l) /\ l <= Len(q)
<1>1. PICK n, e : n = Len(s) /\ e = Ends(s, m, l)
  OBVIOUS
<1>2. n \in Nat /\ DOMAIN s = 1 .. n /\ Len(q) = n /\ \A i \in 1 .. n : q[i] = M[s[i]]
  BY <1>1, OfIs
<1>3. e = [k \in 1 .. m + (n - l) |-> s[IF k <= m THEN k ELSE k + (l - m)]]
  BY <1>1 DEF Ends
<1>4. \A k \in 1 .. m + (n - l) : (IF k <= m THEN k ELSE k + (l - m)) \in 1 .. n
  BY <1>1, <1>2
<1>5. Ends(q, m, l) = [k \in 1 .. m + (n - l) |-> q[IF k <= m THEN k ELSE k + (l - m)]]
  BY <1>2 DEF Ends
<1>6. \A k \in 1 .. m + (n - l) : M[e[k]] = q[IF k <= m THEN k ELSE k + (l - m)]
  BY <1>2, <1>3, <1>4
<1>7. Of(M, e) = [k \in 1 .. m + (n - l) |-> M[e[k]]]
  BY <1>3 DEF Of
<1>8. Of(M, e) = Ends(q, m, l)
  BY <1>5, <1>6, <1>7
<1>9. QED
  BY <1>1, <1>2, <1>8

(***************************************************************************)
(* A queue behind another loses its first element: a stretch of one is     *)
(* dropped.                                                                *)
(***************************************************************************)
LEMMA DropFirst ==
  ASSUME NEW S, NEW h \in Seq(S), NEW s \in Seq(S), s # << >>
  PROVE  h \o Tail(s) = Ends(h \o s, Len(h), Len(h) + 1)
<1>1. PICK m, n, t, q : m = Len(h) /\ n = Len(s) /\ t = Tail(s) /\ q = h \o s
  OBVIOUS
<1>2. /\ n \in Nat \ {0} /\ t \in Seq(S) /\ Len(t) = n - 1
      /\ \A i \in 1 .. n - 1 : t[i] = s[i + 1]
  BY <1>1, TailIs
<1>3. /\ m \in Nat /\ q \in Seq(S) /\ Len(q) = m + n
      /\ \A i \in 1 .. m : q[i] = h[i]
      /\ \A i \in 1 .. n : q[m + i] = s[i]
  BY <1>1, ConcatIs
<1>4. PICK u, w : u = h \o t /\ w = Ends(q, m, m + 1)
  OBVIOUS
<1>5. /\ u \in Seq(S) /\ Len(u) = m + (n - 1)
      /\ \A i \in 1 .. m : u[i] = h[i]
      /\ \A i \in 1 .. n - 1 : u[m + i] = t[i]
  BY <1>1, <1>2, <1>4, ConcatIs
<1>6. m + 1 \in Nat /\ m <= m + 1 /\ m + 1 <= Len(q)
  BY <1>2, <1>3
<1>7. w \in Seq(S) /\ Len(w) = m + ((m + n) - (m + 1))
  <2>1. PICK l \in Nat : l = m + 1
    BY <1>6
  <2>2. Ends(q, m, l) \in Seq(S) /\ Len(Ends(q, m, l)) = m + (Len(q) - l)
    BY <1>3, <1>6, <2>1, EndsAre
  <2>3. QED
    BY <1>3, <1>4, <2>1, <2>2
<1>8. Len(w) = Len(u)
  BY <1>2, <1>3, <1>5, <1>7
<1>9. ASSUME NEW i \in 1 .. Len(u) PROVE u[i] = w[i]
  <2>1. w[i] = q[IF i <= m THEN i ELSE i + ((m + 1) - m)]
    BY <1>2, <1>3, <1>4, <1>5, <1>9 DEF Ends
  <2>2. CASE i <= m
    BY <1>3, <1>5, <1>9, <2>1, <2>2
  <2>3. CASE ~(i <= m)
    <3>1. PICK j : j = i - m
      OBVIOUS
    <3>2. j \in 1 .. n - 1 /\ i = m + j /\ j + 1 \in 1 .. n /\ i + ((m + 1) - m) = m + (j + 1)
      BY <1>2, <1>3, <1>5, <1>9, <2>3, <3>1
    <3>3. u[i] = t[j] /\ t[j] = s[j + 1] /\ q[m + (j + 1)] = s[j + 1]
      BY <1>2, <1>3, <1>5, <3>2
    <3>4. QED
      BY <2>1, <2>3, <3>2, <3>3
  <2>4. QED
    BY <2>2, <2>3
<1>10. u = w
  BY <1>5, <1>7, <1>8, <1>9, SeqEqual
<1>11. QED
  BY <1>1, <1>4, <1>10

(***************************************************************************)
(* A step of HabChannel or a stutter, from queue q, received g and cut c   *)
(* to r, h and d.                                                          *)
(***************************************************************************)
ChannelStep(Ms, q, g, c, r, h, d) ==
  \/ q = r /\ g = h /\ c = d
  \/ \E m \in Ms : m \notin ToSet(q \o g) /\ r = Append(q, m) /\ h = g /\ d = c
  \/ q # << >> /\ h = Append(g, Head(q)) /\ r = Tail(q) /\ d = c
  \/ d /\ (\E keep \in SUBSET DOMAIN q : r = SubseqAt(q, keep)) /\ h = g

(***************************************************************************)
(* Memory stays a function on the buffers.                                 *)
(***************************************************************************)
LEMMA MemIsOfBufs ==
  ASSUME DOMAIN mem = Bufs, [Next]_vars
  PROVE  DOMAIN mem' = Bufs
<1>1. CASE VhostNext
  BY <1>1 DEF VhostNext, VhostWorker, VhostReset, TxWork, TxGet, TxRecheck, TxRecv,
       TxUsed, RxWork, RxNext, RxRecheck, RxFill, RxFault, HostRefused, HostDispatch,
       HostSend, HostQueue, DevOpen, ResetStop, ResetClose, ResetWait, ResetEnd, Release,
       Ioctl, VAlloc, VAck, VDone, VTimeout, VClose, vqVars
<1>2. CASE \E t \in GuestThreads : SendStart(t) \/ VirtioSend(t)
  BY <1>2 DEF VirtioSend, SendStart, SendOops, SendSleep, SendQueue, vqVars
<1>3. CASE \/ ProbeVqs \/ ProbePools \/ Restore \/ SendRefused \/ RecvTxq \/ RecvRxqTask
           \/ RxDispatch \/ VirtioTasklet \/ StatLog
  BY <1>3 DEF ProbeVqs, ProbePools, Restore, SendRefused, RecvTxq, RecvRxqTask, RxDispatch,
       VirtioTasklet, RxRun, RxGet, RxRecv, RxReturn, StatLog, vqVars
<1>4. CASE GuestFreeze \/ Reboot \/ UNCHANGED vars
  BY <1>4 DEF GuestFreeze, Freeze, Reboot, vars, vqVars
<1>5. QED
  BY <1>1, <1>2, <1>3, <1>4 DEF Next, VirtioNext

-----------------------------------------------------------------------------
(* Messages to the host *)

(***************************************************************************)
(* The buffers with messages on their way to the host, the one in          *)
(* tx_worker's hand first, and the messages.                               *)
(***************************************************************************)
HostBufs == (IF wk = "tx_recv" THEN taken["tx"] ELSE << >>) \o avail["tx"]
HostQ == Of(mem, HostBufs)

(***************************************************************************)
(* The inductive invariant to the host: messages are numbered before the   *)
(* next one, and what a sender has in hand is neither on its way nor       *)
(* arrived nor in the hand of another.                                     *)
(***************************************************************************)
SendersOK ==
  \A t \in GuestThreads : gpc[t] # "idle" =>
    /\ gmsg[t].id \in GuestMsgs /\ gmsg[t].id \in 1 .. gnext - 1
    /\ gmsg[t].id \notin ToSet(HostQ) /\ gmsg[t].id \notin ToSet(toHost)
    /\ \A u \in GuestThreads : gpc[u] # "idle" /\ gmsg[u].id = gmsg[t].id => u = t

HostInv ==
  /\ DOMAIN mem = Bufs /\ gnext \in Nat \ {0} /\ gcut \in BOOLEAN
  /\ DOMAIN gpc = GuestThreads /\ DOMAIN gmsg = GuestThreads
  /\ HostQ \in Seq(1 .. gnext - 1) /\ toHost \in Seq(1 .. gnext - 1)
  /\ SendersOK

(***************************************************************************)
(* What a step may do to the messages on their way to the host.            *)
(***************************************************************************)
HostKeeps == HostQ' = HostQ /\ toHost' = toHost /\ (gcut' = gcut \/ gcut' = TRUE)

HostRecvs ==
  /\ HostQ # << >> /\ toHost' = Append(toHost, Head(HostQ)) /\ HostQ' = Tail(HostQ)
  /\ gcut' = gcut

HostCut == HostQ' = << >> /\ toHost' = toHost /\ gcut' = TRUE
HostGets(m) == HostQ' = Append(HostQ, m) /\ toHost' = toHost /\ gcut' = gcut

(***************************************************************************)
(* The buffers on their way to the host are in no other place.             *)
(***************************************************************************)
LEMMA HostBufsAre ==
  ASSUME BufInv
  PROVE  /\ HostBufs \in Seq(OutBufs)
         /\ \A p \in Places : p \notin {"tx_avail", "tx_taken"} =>
              \A i \in DOMAIN HostBufs : HostBufs[i] \notin ToSet(Place[p])
         /\ wk # "tx_recv" => HostBufs = avail["tx"]
         /\ wk = "tx_recv" => HostBufs = taken["tx"] \o avail["tx"]
<1>1. taken["tx"] \in Seq(OutBufs) /\ avail["tx"] \in Seq(OutBufs)
  BY DEF BufInv, BufferTypes
<1>2. PICK t, a : a = avail["tx"] /\ t = IF wk = "tx_recv" THEN taken["tx"] ELSE << >>
  OBVIOUS
<1>3. t \in Seq(OutBufs) /\ a \in Seq(OutBufs) /\ HostBufs = t \o a
  <2>1. << >> \in Seq(OutBufs)
    OBVIOUS
  <2>2. QED
    BY <1>1, <1>2, <2>1 DEF HostBufs
<1>4. HostBufs \in Seq(OutBufs)
  BY <1>3, ConcatProperties
<1>5. \A x : x \in ToSet(HostBufs) <=> x \in ToSet(t) \/ x \in ToSet(a)
  BY <1>3, JoinApart
<1>6. \A x \in ToSet(t) : x \in ToSet(Place["tx_taken"])
  BY <1>2, PlaceIs DEF PlacesAre, ToSet
<1>7. ASSUME NEW p \in Places, p \notin {"tx_avail", "tx_taken"}, NEW i \in DOMAIN HostBufs
      PROVE  HostBufs[i] \notin ToSet(Place[p])
  <2>1. HostBufs[i] \in ToSet(HostBufs)
    BY DEF ToSet
  <2>2. HostBufs[i] \in ToSet(Place["tx_taken"]) \/ HostBufs[i] \in ToSet(Place["tx_avail"])
    BY <1>2, <1>5, <1>6, <2>1, PlaceIs DEF PlacesAre
  <2>3. Apart(Place["tx_taken"], Place[p]) /\ Apart(Place["tx_avail"], Place[p])
    BY <1>7, PlacesApart DEF Places
  <2>4. QED
    BY <2>2, <2>3 DEF Apart
<1>8. wk # "tx_recv" => HostBufs = avail["tx"]
  BY <1>1, ConcatEmptySeq DEF HostBufs
<1>9. wk = "tx_recv" => HostBufs = taken["tx"] \o avail["tx"]
  BY DEF HostBufs
<1>10. QED
  BY <1>4, <1>7, <1>8, <1>9

(***************************************************************************)
(* The queue is as it was when its buffers are, and what they hold.        *)
(***************************************************************************)
LEMMA HostQSame ==
  ASSUME HostBufs' = HostBufs, \A i \in DOMAIN HostBufs : mem'[HostBufs[i]] = mem[HostBufs[i]]
  PROVE  HostQ' = HostQ
<1>1. Of(mem', HostBufs) = Of(mem, HostBufs)
  BY OfSame DEF SameOn
<1>2. QED
  BY <1>1 DEF HostQ

(***************************************************************************)
(* It is when only buffers of another place are written.                   *)
(***************************************************************************)
LEMMA HostQElsewhere ==
  ASSUME BufInv, HostBufs' = HostBufs, NEW p \in Places, p \notin {"tx_avail", "tx_taken"},
         \A b \in Bufs : b \notin ToSet(Place[p]) => mem'[b] = mem[b]
  PROVE  HostQ' = HostQ
<1>1. /\ HostBufs \in Seq(OutBufs) /\ OutBufs \subseteq Bufs
      /\ \A i \in DOMAIN HostBufs : HostBufs[i] \notin ToSet(Place[p])
  BY HostBufsAre, PoolsAre
<1>2. \A i \in DOMAIN HostBufs : HostBufs[i] \in Bufs
  BY <1>1
<1>3. QED
  BY <1>1, <1>2, HostQSame

(***************************************************************************)
(* vhost_get_vq_desc takes the first buffer: the queue is as it was.       *)
(***************************************************************************)
LEMMA TxGetToHost ==
  ASSUME BufInv, TxGet, UNCHANGED virtioVars
  PROVE  HostKeeps
<1>1. wk = "tx_get" /\ UNCHANGED <<mem, toHost, gcut>>
  BY DEF TxGet, virtioVars
<1>2. /\ HostBufs = avail["tx"] /\ avail["tx"] \in Seq(OutBufs) /\ taken["tx"] = << >>
      /\ DOMAIN avail = Queues /\ DOMAIN taken = Queues
  BY <1>1, HostBufsAre DEF BufInv, BufferTypes, InHandOK
<1>3. CASE avail["tx"] = << >>
  <2>1. HostBufs' = HostBufs
    BY <1>1, <1>3 DEF TxGet, HostBufs
  <2>2. QED
    BY <1>1, <2>1, HostQSame DEF HostKeeps
<1>4. CASE avail["tx"] # << >>
  <2>1. /\ wk' = "tx_recv" /\ avail'["tx"] = Tail(avail["tx"])
        /\ taken'["tx"] = Append(<< >>, Head(avail["tx"]))
    BY <1>2, <1>4 DEF TxGet, TakeDesc, Queues
  <2>2. HostBufs' = Append(<< >>, Head(avail["tx"])) \o Tail(avail["tx"])
    BY <2>1 DEF HostBufs
  <2>3. Append(<< >>, Head(avail["tx"])) \o Tail(avail["tx"]) = avail["tx"]
    BY <1>2, <1>4, HeadFirst
  <2>4. HostBufs' = HostBufs
    BY <1>2, <2>2, <2>3
  <2>5. QED
    BY <1>1, <2>4, HostQSame DEF HostKeeps
<1>5. QED
  BY <1>3, <1>4

(***************************************************************************)
(* hab_msg_recv is given the first message of the queue.                   *)
(***************************************************************************)
LEMMA TxRecvToHost ==
  ASSUME BufInv, HostInv, TxRecv, UNCHANGED virtioVars
  PROVE  HostRecvs
<1>1. /\ wk = "tx_recv" /\ wk' = "tx_used" /\ UNCHANGED <<mem, avail, taken, gcut>>
      /\ toHost' = Append(toHost, mem[Last(taken["tx"])])
  BY DEF TxRecv, InHand, vqVars, virtioVars
<1>2. /\ taken["tx"] \in Seq(OutBufs) /\ Len(taken["tx"]) = 1 /\ avail["tx"] \in Seq(OutBufs)
  BY <1>1 DEF BufInv, BufferTypes, InHandOK
<1>3. PICK b, a : b = taken["tx"][1] /\ a = avail["tx"]
  OBVIOUS
<1>4. taken["tx"] = <<b>> /\ Last(taken["tx"]) = b /\ b \in OutBufs /\ a \in Seq(OutBufs)
  BY <1>2, <1>3, SeqOne
<1>5. PICK q : q = HostQ
  OBVIOUS
<1>6. q \in Seq(1 .. gnext - 1) /\ q = Of(mem, <<b>> \o a)
  BY <1>1, <1>3, <1>4, <1>5, HostBufsAre DEF HostInv, HostQ
<1>7. q # << >> /\ Head(q) = mem[b] /\ Tail(q) = Of(mem, a)
  BY <1>4, <1>6, OfFirst
<1>8. HostBufs' = a
  <2>1. HostBufs' = << >> \o a
    BY <1>1, <1>3 DEF HostBufs
  <2>2. << >> \o a = a
    BY <1>4, ConcatEmptySeq
  <2>3. QED
    BY <2>1, <2>2
<1>9. HostQ' = Of(mem, a)
  BY <1>1, <1>8 DEF HostQ
<1>10. QED
  BY <1>1, <1>4, <1>5, <1>7, <1>9 DEF HostRecvs

(***************************************************************************)
(* Every step of the host keeps the queue or receives its first message;   *)
(* rx_worker writes only the buffer in its hand.                           *)
(***************************************************************************)
LEMMA WorkerToHost ==
  ASSUME BufInv, HostInv, VhostNext, UNCHANGED virtioVars
  PROVE  HostKeeps \/ HostRecvs
<1>1. CASE TxGet
  BY <1>1, TxGetToHost
<1>2. CASE TxRecv
  BY <1>2, TxRecvToHost
<1>3. ASSUME HostBufs' = HostBufs, UNCHANGED <<mem, toHost>> PROVE HostKeeps
  BY <1>3, HostQSame DEF HostKeeps, virtioVars
<1>4. CASE TxUsed \/ RxNext
  <2>1. /\ wk # "tx_recv" /\ wk' # "tx_recv" /\ avail'["tx"] = avail["tx"]
        /\ UNCHANGED <<mem, toHost>>
    BY <1>4 DEF TxUsed, RxNext, RxEnd, TakeDesc, BufInv, BufferTypes, Queues
  <2>2. HostBufs' = HostBufs
    BY <2>1 DEF HostBufs
  <2>3. QED
    BY <1>3, <2>1, <2>2
<1>5. CASE RxFill
  <2>1. /\ wk # "tx_recv" /\ wk' # "tx_recv" /\ UNCHANGED avail /\ toHost' = toHost
        /\ mem' = [mem EXCEPT ![Last(taken["rx"])] = Head(sendList)]
        /\ taken["rx"] # << >> /\ taken["rx"] \in Seq(InBufs)
    BY <1>5 DEF RxFill, InHand, BufInv, InHandOK, BufferTypes
  <2>2. HostBufs' = HostBufs
    BY <2>1 DEF HostBufs
  <2>3. Last(taken["rx"]) \in ToSet(Place["rx_taken"])
    <3>1. PICK s : s = taken["rx"]
      OBVIOUS
    <3>2. Len(s) \in Nat \ {0} /\ Last(s) = s[Len(s)] /\ DOMAIN s = 1 .. Len(s)
      BY <2>1, <3>1, FrontIs
    <3>3. Last(s) \in ToSet(s)
      BY <3>2 DEF ToSet
    <3>4. QED
      BY <3>1, <3>3, PlaceIs DEF PlacesAre
  <2>4. \A b \in Bufs : b \notin ToSet(Place["rx_taken"]) => mem'[b] = mem[b]
    BY <2>1, <2>3 DEF HostInv
  <2>5. HostQ' = HostQ
    BY <2>2, <2>4, HostQElsewhere DEF Places
  <2>6. QED
    BY <2>1, <2>5 DEF HostKeeps, virtioVars
<1>6. CASE TxWork \/ HostDispatch \/ TxRecheck \/ RxWork \/ RxRecheck \/ RxFault
  <2>1. wk # "tx_recv" /\ wk' # "tx_recv" /\ UNCHANGED <<avail, taken, mem, toHost>>
    BY <1>6 DEF TxWork, HostDispatch, TxRecheck, RxWork, RxRecheck, RxFault, RxEnd
  <2>2. HostBufs' = HostBufs
    BY <2>1 DEF HostBufs
  <2>3. QED
    BY <1>3, <2>1, <2>2
<1>7. ASSUME UNCHANGED <<avail, taken, mem, wk, toHost>> PROVE HostKeeps
  BY <1>3, <1>7 DEF HostBufs
<1>8. CASE ResetEnd \/ Release \/ \E bad \in SUBSET Queues : Ioctl(bad)
  BY <1>8, <1>7 DEF ResetEnd, Release, Ioctl, workerVars
<1>9. CASE HostRefused \/ \E t \in HostThreads : HostSend(t) \/ HostQueue(t)
  BY <1>9, <1>7 DEF HostRefused, HostSend, HostQueue, vqVars, workerVars
<1>10. CASE DevOpen \/ ResetStop \/ ResetClose \/ ResetWait
  BY <1>10, <1>7 DEF DevOpen, ResetStop, ResetClose, ResetWait, vqVars, workerVars
<1>11. CASE \E v \in Vchans : VAlloc(v) \/ VAck(v) \/ VDone(v) \/ VTimeout(v) \/ VClose(v)
  BY <1>11, <1>7 DEF VAlloc, VAck, VDone, VTimeout, VClose, vqVars, workerVars
<1>12. QED
  BY <1>1, <1>2, <1>4, <1>5, <1>6, <1>8, <1>9, <1>10, <1>11
     DEF VhostNext, VhostReset, VhostWorker

(***************************************************************************)
(* A sender queues its message behind the others, or the ring is full and  *)
(* the channel is cut.                                                     *)
(***************************************************************************)
LEMMA SendQueueToHost ==
  ASSUME BufInv, HostInv, NEW t \in GuestThreads, SendQueue(t), UNCHANGED vhostVars
  PROVE  HostKeeps \/ HostGets(gmsg[t].id)
<1> DEFINE p == PoolOf(gmsg[t])
           m == gmsg[t].id
<1>1. PICK b : b = Head(list[p])
  OBVIOUS
<1>2. p \in Pools /\ p \in Places /\ list[p] # << >> /\ list[p] \in Seq(PoolBufs(p))
  BY DEF SendQueue, PoolOf, Pools, Places, BufInv, BufferTypes
<1>3. /\ mem' = [mem EXCEPT ![b] = m] /\ UNCHANGED <<taken, wk, toHost>> /\ gpc[t] = "lock"
  BY <1>1 DEF SendQueue, vhostVars
<1> HIDE DEF p
<1>4. b \in OutBufs /\ b \in Bufs /\ b \in ToSet(Place[p])
  <2>1. PICK s : s = list[p]
    OBVIOUS
  <2>2. b \in PoolBufs(p) /\ b = s[1] /\ Len(s) \in Nat \ {0} /\ DOMAIN s = 1 .. Len(s)
    BY <1>1, <1>2, <2>1, TailIs
  <2>3. b \in ToSet(s)
    BY <2>2 DEF ToSet
  <2>4. QED
    BY <1>2, <2>1, <2>2, <2>3, PoolsAre, PlaceIs DEF PlacesAre
<1>5. m \in 1 .. gnext - 1
  BY <1>3 DEF HostInv, SendersOK
<1>6. mem'[b] = m /\ \A x \in Bufs : x # b => mem'[x] = mem[x]
  BY <1>3, <1>4 DEF HostInv
<1>7. p \notin {"tx_avail", "tx_taken"}
  BY <1>2 DEF Pools
<1> HIDE DEF m
<1>8. CASE VringFull("tx")
  <2>1. UNCHANGED avail /\ gcut' = TRUE
    BY <1>8 DEF SendQueue
  <2>2. HostBufs' = HostBufs
    BY <1>3, <2>1 DEF HostBufs
  <2>3. HostQ' = HostQ
    BY <1>2, <1>4, <1>6, <1>7, <2>2, HostQElsewhere
  <2>4. QED
    BY <1>3, <2>1, <2>3 DEF HostKeeps
<1>9. CASE ~VringFull("tx")
  <2>1. avail' = [avail EXCEPT !["tx"] = avail["tx"] \o <<b>>] /\ gcut' = gcut
    BY <1>1, <1>9 DEF SendQueue, AddAndKick, p
  <2>2. avail'["tx"] = avail["tx"] \o <<b>> /\ avail["tx"] \in Seq(OutBufs)
        /\ taken["tx"] \in Seq(OutBufs)
    BY <2>1 DEF BufInv, BufferTypes, Queues
  <2>3. HostBufs \in Seq(OutBufs)
    BY HostBufsAre
  <2>4. HostBufs' = Append(HostBufs, b)
    <3>1. PICK k, a, c : /\ k = IF wk = "tx_recv" THEN taken["tx"] ELSE << >>
                         /\ a = avail["tx"] /\ c = <<b>>
      OBVIOUS
    <3>2. << >> \in Seq(OutBufs) /\ c \in Seq(OutBufs)
      BY <1>4, <3>1
    <3>3. k \in Seq(OutBufs) /\ a \in Seq(OutBufs)
      BY <2>2, <3>1, <3>2
    <3>4. HostBufs = k \o a /\ HostBufs' = k \o (a \o c)
      BY <1>3, <2>2, <3>1 DEF HostBufs
    <3>5. k \o (a \o c) = (k \o a) \o c
      BY <3>2, <3>3, ConcatAssociative
    <3>6. HostBufs \o <<b>> = Append(HostBufs, b)
      BY <1>4, <2>3, AppendIs
    <3>7. QED
      BY <3>1, <3>4, <3>5, <3>6
  <2>5. PICK h, q : h = HostBufs /\ q = HostQ
    OBVIOUS
  <2>6. h \in Seq(OutBufs) /\ q = Of(mem, h) /\ q \in Seq(1 .. gnext - 1)
    BY <2>3, <2>5 DEF HostQ, HostInv
  <2>7. \A i \in DOMAIN h : mem'[h[i]] = mem[h[i]]
    <3>1. SUFFICES ASSUME NEW i \in DOMAIN h PROVE mem'[h[i]] = mem[h[i]]
      OBVIOUS
    <3>2. h[i] \in OutBufs
      BY <2>6
    <3>3. h[i] \notin ToSet(Place[p])
      BY <1>2, <1>7, <2>5, HostBufsAre
    <3>4. QED
      BY <1>4, <1>6, <3>2, <3>3, PoolsAre
  <2>8. PICK M, N, V : M = mem /\ N = mem' /\ V = 1 .. gnext - 1
    OBVIOUS
  <2>9. Of(N, Append(h, b)) = Append(q, m)
    <3>1. m \in V /\ m = N[b] /\ q \in Seq(V) /\ q = Of(M, h) /\ SameOn(M, N, h)
      BY <1>5, <1>6, <2>6, <2>7, <2>8 DEF SameOn
    <3>2. QED
      BY <1>4, <2>6, <3>1, OfAppend
  <2>10. HostQ' = Append(HostQ, m)
    BY <1>6, <2>4, <2>5, <2>6, <2>8, <2>9 DEF HostQ
  <2>11. QED
    BY <1>3, <2>1, <2>10 DEF HostGets, m
<1>10. QED
  BY <1>8, <1>9

(***************************************************************************)
(* Every other step of the front end keeps the queue: virthab_recv_txq and *)
(* the tasklet clear buffers that are not in it.                           *)
(***************************************************************************)
LEMMA GuestToHost ==
  ASSUME BufInv, HostInv, VirtioNext, UNCHANGED vhostVars
  PROVE  HostKeeps \/ \E t \in GuestThreads : SendQueue(t) /\ HostGets(gmsg[t].id)
<1>1. CASE \E t \in GuestThreads : SendQueue(t)
  BY <1>1, SendQueueToHost
<1>2. UNCHANGED <<wk, toHost>>
  BY DEF vhostVars
<1>3. ASSUME avail'["tx"] = avail["tx"], taken'["tx"] = taken["tx"]
      PROVE  HostBufs' = HostBufs
  BY <1>2, <1>3 DEF HostBufs
<1>4. CASE ProbePools \/ Restore
  <2>1. avail'["tx"] = avail["tx"] /\ UNCHANGED <<taken, mem, gcut>>
    BY <1>4 DEF ProbePools, Restore, AddAndKick, BufInv, BufferTypes, Queues
  <2>2. QED
    BY <1>2, <1>3, <2>1, HostQSame DEF HostKeeps
<1>5. CASE RecvTxq
  <2>1. /\ UNCHANGED <<avail, taken, gcut>>
        /\ mem' = [b \in Bufs |-> IF b \in ToSet(used["tx"]) THEN NoMsg ELSE mem[b]]
    BY <1>5 DEF RecvTxq
  <2>2. \A b \in Bufs : b \notin ToSet(Place["tx_used"]) => mem'[b] = mem[b]
    BY <2>1, PlaceIs DEF PlacesAre
  <2>3. HostQ' = HostQ
    BY <1>3, <2>1, <2>2, HostQElsewhere DEF Places
  <2>4. QED
    BY <1>2, <2>1, <2>3 DEF HostKeeps
<1>6. CASE RxReturn
  <2>1. /\ avail'["tx"] = avail["tx"] /\ UNCHANGED <<taken, gcut>> /\ hd # NoBuf
        /\ mem' = [mem EXCEPT ![hd] = NoMsg]
    BY <1>6 DEF RxReturn, AddAndKick, BufInv, BufferTypes, InHandOK, Queues
  <2>2. Place["hand"] = <<hd>>
    BY <2>1, PlaceIs DEF PlacesAre
  <2>3. hd \in ToSet(Place["hand"])
    BY <2>2 DEF ToSet
  <2>4. \A b \in Bufs : b \notin ToSet(Place["hand"]) => mem'[b] = mem[b]
    BY <2>1, <2>3 DEF HostInv
  <2>5. HostQ' = HostQ
    BY <1>3, <2>1, <2>4, HostQElsewhere DEF Places
  <2>6. QED
    BY <1>2, <2>1, <2>5 DEF HostKeeps
<1>7. ASSUME UNCHANGED <<avail, taken, mem>>, gcut' = gcut \/ gcut' = TRUE PROVE HostKeeps
  BY <1>2, <1>3, <1>7, HostQSame DEF HostKeeps
<1>8. CASE StatLog
  <2>1. UNCHANGED <<avail, taken, mem>> /\ (gcut' = gcut \/ gcut' = TRUE)
    BY <1>8 DEF StatLog, HostInv
  <2>2. QED
    BY <1>7, <2>1
<1>9. CASE ProbeVqs \/ SendRefused \/ RecvRxqTask \/ RxDispatch \/ RxRun \/ RxRecv \/ RxGet
  BY <1>7, <1>9 DEF ProbeVqs, SendRefused, RecvRxqTask, RxDispatch, RxRun, RxRecv, RxGet, vqVars
<1>10. CASE \E t \in GuestThreads : SendStart(t) \/ SendOops(t) \/ SendSleep(t)
  BY <1>7, <1>10 DEF SendStart, SendOops, SendSleep, vqVars
<1>11. QED
  BY <1>1, <1>4, <1>5, <1>6, <1>8, <1>9, <1>10 DEF VirtioNext, VirtioSend, VirtioTasklet

(***************************************************************************)
(* A suspend or a restart of the guest drops the queue; the worker has     *)
(* none of it in hand, since its queues were stopped.                      *)
(***************************************************************************)
LEMMA DropToHost ==
  ASSUME StopInv, GuestFreeze \/ Reboot
  PROVE  HostCut
<1>1. /\ wk' # "tx_recv" /\ avail' = [q \in Queues |-> << >>]
      /\ toHost' = toHost /\ gcut' = TRUE
  BY DEF GuestFreeze, Freeze, Reboot, HostStopped, DelVqs, vhostVars, StopInv, WorkerHasQueue,
         TxStates, RxStates, Queues
<1>2. HostBufs' = << >>
  <2>1. avail'["tx"] = << >>
    BY <1>1 DEF Queues
  <2>2. HostBufs' = << >> \o << >>
    BY <1>1, <2>1 DEF HostBufs
  <2>3. << >> \o << >> = << >>
    OBVIOUS
  <2>4. QED
    BY <2>2, <2>3
<1>3. HostQ' = << >>
  BY <1>2 DEF HostQ, Of
<1>4. QED
  BY <1>1, <1>3 DEF HostCut

(***************************************************************************)
(* Every step of the transport, seen from the messages to the host.        *)
(***************************************************************************)
LEMMA HostSteps ==
  ASSUME BufInv, StopInv, HostInv, [Next]_vars
  PROVE  \/ HostKeeps \/ HostRecvs \/ HostCut
         \/ \E t \in GuestThreads : SendQueue(t) /\ HostGets(gmsg[t].id)
<1>1. CASE VirtioNext /\ UNCHANGED vhostVars
  BY <1>1, GuestToHost
<1>2. CASE VhostNext /\ UNCHANGED virtioVars
  BY <1>2, WorkerToHost
<1>3. CASE GuestFreeze \/ Reboot
  BY <1>3, DropToHost
<1>4. CASE UNCHANGED vars
  BY <1>4, HostQSame DEF vars, vqVars, virtioVars, vhostVars, HostKeeps, HostBufs
<1>5. QED
  BY <1>1, <1>2, <1>3, <1>4 DEF Next

(***************************************************************************)
(* The messages on their way and those that arrived.                       *)
(***************************************************************************)
Onward(Q, G) == ToSet(Q) \cup ToSet(G)

(***************************************************************************)
(* But for a sender's step no message is new to the queue or to the host.  *)
(***************************************************************************)
LEMMA HostMessages ==
  ASSUME HostInv, HostKeeps \/ HostRecvs \/ HostCut
  PROVE  /\ HostQ' \in Seq(1 .. gnext - 1) /\ toHost' \in Seq(1 .. gnext - 1)
         /\ Onward(HostQ', toHost') \subseteq Onward(HostQ, toHost)
<1>1. PICK V, q, g : V = 1 .. gnext - 1 /\ q = HostQ /\ g = toHost
  OBVIOUS
<1>2. q \in Seq(V) /\ g \in Seq(V)
  BY <1>1 DEF HostInv
<1>3. CASE HostKeeps
  BY <1>1, <1>2, <1>3 DEF HostKeeps
<1>4. CASE HostCut
  <2>1. << >> \in Seq(V) /\ ToSet(<< >>) = {}
    BY DEF ToSet
  <2>2. QED
    BY <1>1, <1>2, <1>4, <2>1 DEF HostCut, Onward
<1>5. CASE HostRecvs
  <2>1. q # << >> /\ toHost' = Append(g, Head(q)) /\ HostQ' = Tail(q)
    BY <1>1, <1>5 DEF HostRecvs
  <2>2. /\ Head(q) \in V /\ Tail(q) \in Seq(V) /\ Head(q) \in ToSet(q)
        /\ \A y \in ToSet(Tail(q)) : y \in ToSet(q)
    <3>1. Head(q) \in V
      BY <1>2, <2>1, TailIs
    <3>2. QED
      BY <1>2, <2>1, <3>1, ToSets
  <2>3. \A y : y \in ToSet(Append(g, Head(q))) <=> y \in ToSet(g) \/ y = Head(q)
    BY <1>2, <2>2, ToSets
  <2>4. Append(g, Head(q)) \in Seq(V)
    BY <1>2, <2>2
  <2>5. QED
    BY <1>1, <2>1, <2>2, <2>3, <2>4 DEF Onward
<1>6. QED
  BY <1>3, <1>4, <1>5

(***************************************************************************)
(* The invariant is kept when senders keep what they have in hand, or have *)
(* nothing.                                                                *)
(***************************************************************************)
LEMMA SendersKeep ==
  ASSUME HostInv, UNCHANGED mem \/ DOMAIN mem' = Bufs,
         gcut' \in BOOLEAN,
         HostQ' \in Seq(1 .. gnext - 1), toHost' \in Seq(1 .. gnext - 1),
         Onward(HostQ', toHost') \subseteq Onward(HostQ, toHost),
         UNCHANGED gmsg, DOMAIN gpc' = GuestThreads,
         \A t \in GuestThreads : gpc'[t] # "idle" => gpc[t] # "idle",
         gnext' \in {gnext, gnext + 1}
  PROVE  HostInv'
<1>1. gnext \in Nat \ {0}
  BY DEF HostInv
<1>2. HostQ' \in Seq(1 .. gnext' - 1) /\ toHost' \in Seq(1 .. gnext' - 1)
  <2>1. CASE gnext' = gnext
    BY <2>1
  <2>2. CASE gnext' = gnext + 1
    BY <1>1, <2>2, WiderSeq
  <2>3. QED
    BY <2>1, <2>2
<1>3. SendersOK'
  <2>1. SUFFICES ASSUME NEW t \in GuestThreads, gpc'[t] # "idle"
                 PROVE  /\ gmsg'[t].id \in GuestMsgs /\ gmsg'[t].id \in 1 .. gnext' - 1
                        /\ gmsg'[t].id \notin ToSet(HostQ') /\ gmsg'[t].id \notin ToSet(toHost')
                        /\ \A u \in GuestThreads :
                             gpc'[u] # "idle" /\ gmsg'[u].id = gmsg'[t].id => u = t
    BY DEF SendersOK
  <2>2. /\ gpc[t] # "idle" /\ gmsg[t].id \in GuestMsgs /\ gmsg[t].id \in 1 .. gnext - 1
        /\ gmsg[t].id \notin ToSet(HostQ) /\ gmsg[t].id \notin ToSet(toHost)
        /\ \A u \in GuestThreads : gpc[u] # "idle" /\ gmsg[u].id = gmsg[t].id => u = t
    BY <2>1 DEF HostInv, SendersOK
  <2>3. gmsg[t].id \in 1 .. gnext' - 1
    BY <1>1, <2>2
  <2>4. gmsg[t].id \notin ToSet(HostQ') /\ gmsg[t].id \notin ToSet(toHost')
    BY <2>2 DEF Onward
  <2>5. QED
    BY <2>2, <2>3, <2>4
<1>4. QED
  BY <1>1, <1>2, <1>3 DEF HostInv

(***************************************************************************)
(* A sender that starts takes a number no message has had.                 *)
(***************************************************************************)
LEMMA SendStartFresh ==
  ASSUME HostInv, NEW t \in GuestThreads, SendStart(t), HostKeeps
  PROVE  HostInv'
<1>1. /\ gnext \in Nat \ {0} /\ gnext \in GuestMsgs /\ gnext' = gnext + 1
      /\ DOMAIN mem = Bufs /\ mem' = mem /\ gcut \in BOOLEAN /\ gcut' \in BOOLEAN
      /\ HostQ' = HostQ /\ toHost' = toHost
      /\ HostQ \in Seq(1 .. gnext - 1) /\ toHost \in Seq(1 .. gnext - 1)
  BY DEF HostInv, SendStart, vqVars, HostKeeps
<1>2. /\ DOMAIN gpc' = GuestThreads /\ DOMAIN gmsg' = GuestThreads
      /\ gmsg'[t].id = gnext
      /\ \A u \in GuestThreads : u # t => gmsg'[u] = gmsg[u] /\ gpc'[u] = gpc[u]
  <2>1. PICK size : gmsg' = [gmsg EXCEPT ![t] = [id |-> gnext, size |-> size]]
    BY DEF SendStart
  <2>2. QED
    BY <2>1 DEF HostInv, SendStart
<1>3. HostQ' \in Seq(1 .. gnext' - 1) /\ toHost' \in Seq(1 .. gnext' - 1)
  BY <1>1, WiderSeq
<1>4. gnext \notin 1 .. gnext - 1 /\ gnext \in 1 .. gnext' - 1
      /\ \A x \in 1 .. gnext - 1 : x \in 1 .. gnext' - 1
  BY <1>1
<1>5. \A x \in ToSet(HostQ) \cup ToSet(toHost) : x \in 1 .. gnext - 1
  <2>1. \A S : \A s \in Seq(S) : ToSet(s) \subseteq S
    BY DEF ToSet
  <2>2. ToSet(HostQ) \subseteq 1 .. gnext - 1 /\ ToSet(toHost) \subseteq 1 .. gnext - 1
    BY <1>1, <2>1
  <2>3. QED
    BY <2>2
<1>6. SendersOK'
  <2>1. SUFFICES ASSUME NEW v \in GuestThreads, gpc'[v] # "idle"
                 PROVE  /\ gmsg'[v].id \in GuestMsgs /\ gmsg'[v].id \in 1 .. gnext' - 1
                        /\ gmsg'[v].id \notin ToSet(HostQ') /\ gmsg'[v].id \notin ToSet(toHost')
                        /\ \A u \in GuestThreads :
                             gpc'[u] # "idle" /\ gmsg'[u].id = gmsg'[v].id => u = v
    BY DEF SendersOK
  <2>2. ASSUME NEW w \in GuestThreads, w # t, gpc'[w] # "idle"
        PROVE  /\ gmsg'[w].id = gmsg[w].id /\ gpc[w] # "idle"
               /\ gmsg[w].id \in GuestMsgs /\ gmsg[w].id \in 1 .. gnext - 1
               /\ gmsg[w].id \notin ToSet(HostQ) /\ gmsg[w].id \notin ToSet(toHost)
               /\ \A u \in GuestThreads : gpc[u] # "idle" /\ gmsg[u].id = gmsg[w].id => u = w
    BY <1>2, <2>2 DEF HostInv, SendersOK
  <2>3. CASE v = t
    <3>1. gmsg'[v].id = gnext /\ gnext \in GuestMsgs /\ gnext \in 1 .. gnext' - 1
          /\ gnext \notin ToSet(HostQ') /\ gnext \notin ToSet(toHost')
      BY <1>1, <1>2, <1>4, <1>5, <2>3
    <3>2. \A u \in GuestThreads : gpc'[u] # "idle" /\ gmsg'[u].id = gmsg'[v].id => u = v
      BY <1>4, <2>2, <2>3, <3>1
    <3>3. QED
      BY <3>1, <3>2
  <2>4. CASE v # t
    <3>1. /\ gmsg'[v].id = gmsg[v].id /\ gpc[v] # "idle"
          /\ gmsg[v].id \in GuestMsgs /\ gmsg[v].id \in 1 .. gnext - 1
          /\ gmsg[v].id \notin ToSet(HostQ) /\ gmsg[v].id \notin ToSet(toHost)
          /\ \A u \in GuestThreads : gpc[u] # "idle" /\ gmsg[u].id = gmsg[v].id => u = v
      BY <2>1, <2>2, <2>4
    <3>2. \A u \in GuestThreads : gpc'[u] # "idle" /\ gmsg'[u].id = gmsg'[v].id => u = v
      BY <1>2, <1>4, <2>2, <3>1
    <3>3. QED
      BY <1>1, <1>4, <3>1, <3>2
  <2>5. QED
    BY <2>3, <2>4
<1>7. QED
  BY <1>1, <1>2, <1>3, <1>6 DEF HostInv

(***************************************************************************)
(* A sender that has queued its message has none in hand.                  *)
(***************************************************************************)
LEMMA SendQueueSenders ==
  ASSUME HostInv, NEW t \in GuestThreads, SendQueue(t), HostKeeps \/ HostGets(gmsg[t].id)
  PROVE  HostInv'
<1> DEFINE m == gmsg[t].id
<1>1. /\ gnext \in Nat \ {0} /\ gnext' = gnext /\ DOMAIN mem = Bufs /\ DOMAIN mem' = Bufs
      /\ gcut' \in BOOLEAN /\ gpc[t] = "lock"
      /\ HostQ \in Seq(1 .. gnext - 1) /\ toHost \in Seq(1 .. gnext - 1) /\ toHost' = toHost
      /\ DOMAIN gpc' = GuestThreads /\ DOMAIN gmsg' = GuestThreads /\ gpc'[t] = "idle"
      /\ \A u \in GuestThreads : u # t => gmsg'[u] = gmsg[u] /\ gpc'[u] = gpc[u]
  BY DEF HostInv, SendQueue, HostKeeps, HostGets
<1>2. m \in 1 .. gnext - 1
  BY <1>1 DEF HostInv, SendersOK
<1>3. /\ HostQ' \in Seq(1 .. gnext - 1)
      /\ \A y : y \in ToSet(HostQ') => y \in ToSet(HostQ) \/ y = m
  <2>1. CASE HostKeeps
    BY <1>1, <2>1 DEF HostKeeps
  <2>2. CASE HostGets(gmsg[t].id)
    <3>1. HostQ' = Append(HostQ, m)
      BY <2>2 DEF HostGets
    <3>2. Append(HostQ, m) \in Seq(1 .. gnext - 1)
      BY <1>1, <1>2
    <3>3. \A y : y \in ToSet(Append(HostQ, m)) <=> y \in ToSet(HostQ) \/ y = m
      BY <1>1, <1>2, ToSets
    <3>4. QED
      BY <3>1, <3>2, <3>3
  <2>3. QED
    BY <2>1, <2>2
<1>4. SendersOK'
  <2>1. SUFFICES ASSUME NEW v \in GuestThreads, gpc'[v] # "idle"
                 PROVE  /\ gmsg'[v].id \in GuestMsgs /\ gmsg'[v].id \in 1 .. gnext' - 1
                        /\ gmsg'[v].id \notin ToSet(HostQ') /\ gmsg'[v].id \notin ToSet(toHost')
                        /\ \A u \in GuestThreads :
                             gpc'[u] # "idle" /\ gmsg'[u].id = gmsg'[v].id => u = v
    BY DEF SendersOK
  <2>2. v # t /\ gpc[v] # "idle" /\ gmsg'[v] = gmsg[v]
    BY <1>1, <2>1
  <2>3. /\ gmsg[v].id \in GuestMsgs /\ gmsg[v].id \in 1 .. gnext - 1
        /\ gmsg[v].id \notin ToSet(HostQ) /\ gmsg[v].id \notin ToSet(toHost)
        /\ \A u \in GuestThreads : gpc[u] # "idle" /\ gmsg[u].id = gmsg[v].id => u = v
    BY <2>2 DEF HostInv, SendersOK
  <2>4. gmsg[v].id # m
    BY <1>1, <2>2, <2>3
  <2>5. \A u \in GuestThreads : gpc'[u] # "idle" /\ gmsg'[u].id = gmsg'[v].id => u = v
    BY <1>1, <2>2, <2>3
  <2>6. QED
    BY <1>1, <1>3, <2>2, <2>3, <2>4, <2>5
<1>5. QED
  BY <1>1, <1>3, <1>4 DEF HostInv

(***************************************************************************)
(* Every step of the transport keeps the invariant to the host.            *)
(***************************************************************************)
LEMMA HostInvStep ==
  ASSUME BufInv, StopInv, HostInv, [Next]_vars
  PROVE  HostInv'
<1>1. CASE \E t \in GuestThreads : SendQueue(t)
  <2>1. PICK t \in GuestThreads : SendQueue(t)
    BY <1>1
  <2>2. CASE UNCHANGED vhostVars
    BY <2>1, <2>2, SendQueueToHost, SendQueueSenders
  <2>3. CASE ~UNCHANGED vhostVars
    <3>1. UNCHANGED virtioVars
      BY <2>3 DEF Next, GuestFreeze, Reboot, vars
    <3>2. gpc' = gpc /\ gpc' = [gpc EXCEPT ![t] = "idle"] /\ gpc[t] = "lock"
      BY <2>1, <3>1 DEF SendQueue, virtioVars
    <3>3. QED
      BY <3>2 DEF HostInv
  <2>4. QED
    BY <2>2, <2>3
<1>2. CASE (\E t \in GuestThreads : SendStart(t)) /\ ~\E t \in GuestThreads : SendQueue(t)
  <2>1. PICK t \in GuestThreads : SendStart(t)
    BY <1>2
  <2>2. \/ HostKeeps \/ HostRecvs \/ HostCut
    BY <1>2, HostSteps
  <2>3. HostKeeps
    <3>1. gnext' # gnext /\ gnext \in Nat
      BY <2>1 DEF SendStart, HostInv
    <3>2. VirtioNext /\ UNCHANGED vhostVars
      BY <3>1 DEF Next, GuestFreeze, Freeze, Reboot, vars, virtioVars
    <3>3. QED
      BY <1>2, <3>2, GuestToHost
  <2>4. QED
    BY <2>1, <2>3, SendStartFresh
<1>3. CASE (~\E t \in GuestThreads : SendStart(t)) /\ ~\E t \in GuestThreads : SendQueue(t)
  <2>1. HostKeeps \/ HostRecvs \/ HostCut
    BY <1>3, HostSteps
  <2>2. /\ HostQ' \in Seq(1 .. gnext - 1) /\ toHost' \in Seq(1 .. gnext - 1)
        /\ Onward(HostQ', toHost') \subseteq Onward(HostQ, toHost)
    BY <2>1, HostMessages
  <2>3. gcut' \in BOOLEAN
    BY <2>1 DEF HostKeeps, HostRecvs, HostCut, HostInv
  <2>4. DOMAIN mem' = Bufs
    BY MemIsOfBufs DEF HostInv
  <2>5. /\ UNCHANGED gmsg \/ gpc' = [t \in GuestThreads |-> "idle"]
        /\ DOMAIN gpc' = GuestThreads /\ DOMAIN gmsg' = GuestThreads
        /\ \A t \in GuestThreads : gpc'[t] # "idle" => gpc[t] # "idle"
        /\ gnext' \in {gnext, gnext + 1}
    <3>1. DOMAIN gpc = GuestThreads /\ DOMAIN gmsg = GuestThreads
      BY DEF HostInv
    <3>2. CASE UNCHANGED virtioVars
      BY <3>1, <3>2 DEF virtioVars
    <3>3. CASE VirtioNext
      <4>1. CASE \E t \in GuestThreads : SendOops(t) \/ SendSleep(t)
        BY <3>1, <4>1 DEF SendOops, SendSleep
      <4>2. CASE RecvTxq
        BY <3>1, <4>2 DEF RecvTxq
      <4>3. CASE SendRefused
        BY <3>1, <4>3 DEF SendRefused
      <4>4. CASE \/ ProbeVqs \/ ProbePools \/ Restore \/ RecvRxqTask \/ RxDispatch \/ RxRun
                 \/ RxGet \/ RxRecv \/ RxReturn \/ StatLog
        BY <3>1, <4>4 DEF ProbeVqs, ProbePools, Restore, RecvRxqTask, RxDispatch, RxRun, RxGet,
             RxRecv, RxReturn, StatLog
      <4>5. QED
        BY <1>3, <3>3, <4>1, <4>2, <4>3, <4>4 DEF VirtioNext, VirtioSend, VirtioTasklet
    <3>4. CASE GuestFreeze \/ Reboot
      BY <3>1, <3>4 DEF GuestFreeze, Freeze, Reboot
    <3>5. QED
      BY <3>2, <3>3, <3>4 DEF Next, vars
  <2>6. CASE UNCHANGED gmsg
    BY <2>2, <2>3, <2>4, <2>5, <2>6, SendersKeep
  <2>7. CASE gpc' = [t \in GuestThreads |-> "idle"]
    <3>1. SendersOK'
      BY <2>7 DEF SendersOK
    <3>2. gnext' \in Nat \ {0} /\ (gnext' = gnext \/ gnext' = gnext + 1) /\ gnext \in Nat \ {0}
      BY <2>5 DEF HostInv
    <3>3. HostQ' \in Seq(1 .. gnext' - 1) /\ toHost' \in Seq(1 .. gnext' - 1)
      <4>1. CASE gnext' = gnext
        BY <2>2, <4>1
      <4>2. CASE gnext' = gnext + 1
        BY <2>2, <3>2, <4>2, WiderSeq
      <4>3. QED
        BY <3>2, <4>1, <4>2
    <3>4. QED
      BY <2>3, <2>4, <2>5, <3>1, <3>2, <3>3 DEF HostInv
  <2>8. QED
    BY <2>5, <2>6, <2>7
<1>4. QED
  BY <1>1, <1>2, <1>3

(***************************************************************************)
(* It holds at the start, when the channel is empty.                       *)
(***************************************************************************)
LEMMA HostInit == Init => HostInv /\ ToHost!Init
<1>1. SUFFICES ASSUME Init PROVE HostInv /\ ToHost!Init
  OBVIOUS
<1>2. HostBufs = << >>
  <2>1. avail["tx"] = << >> /\ wk # "tx_recv"
    BY <1>1 DEF Init, VqInit, VhostInit, Queues
  <2>2. HostBufs = << >> \o << >>
    BY <2>1 DEF HostBufs
  <2>3. << >> \o << >> = << >>
    OBVIOUS
  <2>4. QED
    BY <2>2, <2>3
<1>3. HostQ = << >> /\ toHost = << >> /\ gcut = FALSE
  BY <1>1, <1>2 DEF HostQ, Of, Init, VirtioInit, VhostInit
<1>4. << >> \in Seq(1 .. gnext - 1)
  OBVIOUS
<1>5. HostInv
  <2>1. DOMAIN mem = Bufs /\ gnext = 1 /\ gpc = [t \in GuestThreads |-> "idle"]
        /\ DOMAIN gmsg = GuestThreads
    BY <1>1 DEF Init, VqInit, VirtioInit
  <2>2. SendersOK
    BY <2>1 DEF SendersOK
  <2>3. HostQ \in Seq(1 .. gnext - 1) /\ toHost \in Seq(1 .. gnext - 1)
    BY <1>3, <1>4
  <2>4. gcut \in BOOLEAN
    BY <1>3
  <2>5. DOMAIN gpc = GuestThreads /\ gnext \in Nat \ {0}
    BY <2>1
  <2>6. QED
    BY <2>1, <2>2, <2>3, <2>4, <2>5 DEF HostInv
<1>6. ToHost!Init
  BY <1>3 DEF HostQ, HostBufs, Of, Contents, ToHost!Init
<1>7. QED
  BY <1>5, <1>6

(***************************************************************************)
(* Every step of the transport is a step of the channel to the host.       *)
(***************************************************************************)
LEMMA HostChannelStep ==
  ASSUME BufInv, StopInv, HostInv, [Next]_vars
  PROVE  ChannelStep(GuestMsgs, HostQ, toHost, gcut, HostQ', toHost', gcut')
<1>1. PICK V, q, g : V = 1 .. gnext - 1 /\ q = HostQ /\ g = toHost
  OBVIOUS
<1>2. q \in Seq(V) /\ g \in Seq(V)
  BY <1>1 DEF HostInv
<1>3. /\ \E keep \in SUBSET DOMAIN q : q = SubseqAt(q, keep)
      /\ \E keep \in SUBSET DOMAIN q : << >> = SubseqAt(q, keep)
  BY <1>2, KeepAll
<1>4. CASE HostKeeps
  BY <1>1, <1>3, <1>4 DEF HostKeeps, ChannelStep
<1>5. CASE HostCut
  BY <1>1, <1>3, <1>5 DEF HostCut, ChannelStep
<1>6. CASE HostRecvs
  BY <1>6 DEF HostRecvs, ChannelStep
<1>7. ASSUME NEW t \in GuestThreads, SendQueue(t), HostGets(gmsg[t].id)
      PROVE  ChannelStep(GuestMsgs, HostQ, toHost, gcut, HostQ', toHost', gcut')
  <2>1. /\ gmsg[t].id \in GuestMsgs
        /\ gmsg[t].id \notin ToSet(HostQ) /\ gmsg[t].id \notin ToSet(toHost)
    BY <1>7 DEF HostInv, SendersOK, SendQueue
  <2>2. \A x : x \in ToSet(q \o g) <=> x \in ToSet(q) \/ x \in ToSet(g)
    BY <1>2, JoinApart
  <2>3. QED
    BY <1>1, <1>7, <2>1, <2>2 DEF HostGets, ChannelStep
<1>8. QED
  BY <1>4, <1>5, <1>6, <1>7, HostSteps

(***************************************************************************)
(* And the channel is the one HostGetsInOrder names.                       *)
(***************************************************************************)
LEMMA ToHostChannel ==
  ASSUME ChannelStep(GuestMsgs, HostQ, toHost, gcut, HostQ', toHost', gcut')
  PROVE  [ToHost!Next]_ToHost!vars
<1>1. HostQ = Contents((IF wk = "tx_recv" THEN taken["tx"] ELSE << >>) \o avail["tx"])
  BY DEF HostQ, HostBufs, Of, Contents
<1>2. HostQ' = Contents((IF wk = "tx_recv" THEN taken["tx"] ELSE << >>) \o avail["tx"])'
  BY DEF HostQ, HostBufs, Of, Contents
<1>3. /\ \A s : ToHost!ToSet(s) = ToSet(s)
      /\ \A s, at : ToHost!SubseqAt(s, at) = SubseqAt(s, at)
  <2>2. \A s, at : ToHost!SubseqAt(s, at) = SubseqAt(s, at)
    BY DEF ToHost!SubseqAt, SubseqAt, ToHost!Cardinality, Cardinality
  <2>3. QED
    BY <2>2 DEF ToHost!ToSet, ToSet
<1>4. QED
  BY <1>1, <1>2, <1>3
  DEF ChannelStep, ToHost!Next, ToHost!Send, ToHost!Recv, ToHost!Cut, ToHost!vars

(***************************************************************************)
(* The tx path implements the channel HabChannel: messages are handed to   *)
(* hab_msg_recv of the host in the order they were queued and each once,   *)
(* and are missing only after a suspend, a restart or a full ring,         *)
(* whatever senders, callbacks and tx_worker do at the same time           *)
(* (physical_channel_send and virthab_recv_txq of hab_virtio.c, tx_worker  *)
(* of hab_vhost.c).                                                        *)
(***************************************************************************)
THEOREM HostInOrder == Spec => HostGetsInOrder
<1>1. Init => HostInv /\ ToHost!Init
  BY HostInit
<1>2. BufInv /\ StopInv /\ HostInv /\ [Next]_vars => HostInv'
  BY HostInvStep
<1>3. BufInv /\ StopInv /\ HostInv /\ [Next]_vars => [ToHost!Next]_ToHost!vars
  BY HostChannelStep, ToHostChannel
<1>4. Spec => []BufInv /\ []StopInv
  BY BuffersKept, WorkerInStartedQueue
<1>5. QED
  BY <1>1, <1>2, <1>3, <1>4, PTL DEF Spec, HostGetsInOrder, ToHost!Spec

-----------------------------------------------------------------------------
(* Messages to the guest *)

(***************************************************************************)
(* The buffers with messages on their way to the guest, the one in the     *)
(* tasklet's hand first; then the messages that wait in the send list.     *)
(***************************************************************************)
GuestHand == IF task = "recv" THEN <<hd>> ELSE << >>
GuestBufs == GuestHand \o used["rx"]
GuestRead == Of(mem, GuestBufs)
GuestQ == GuestRead \o sendList

(***************************************************************************)
(* The inductive invariant to the guest: messages are numbered before the  *)
(* next one, what a sender has in hand is neither on its way nor arrived   *)
(* nor in the hand of another, and rx_worker has a buffer to fill only     *)
(* while the send list has a message for it.                               *)
(***************************************************************************)
HostSendersOK ==
  \A t \in HostThreads : hpc[t] = "queue" =>
    /\ hmsg[t] \in HostMsgs /\ hmsg[t] \in 1 .. hnext - 1
    /\ hmsg[t] \notin ToSet(GuestRead) /\ hmsg[t] \notin ToSet(sendList)
    /\ hmsg[t] \notin ToSet(toGuest)
    /\ \A u \in HostThreads : hpc[u] = "queue" /\ hmsg[u] = hmsg[t] => u = t

GuestInv ==
  /\ DOMAIN mem = Bufs /\ hnext \in Nat \ {0} /\ gcut \in BOOLEAN
  /\ DOMAIN hpc = HostThreads /\ DOMAIN hmsg = HostThreads
  /\ GuestRead \in Seq(1 .. hnext - 1) /\ sendList \in Seq(1 .. hnext - 1)
  /\ toGuest \in Seq(1 .. hnext - 1)
  /\ wk = "rx_fill" => sendList # << >>
  /\ HostSendersOK

(***************************************************************************)
(* What a step may do to the messages on their way to the guest.           *)
(***************************************************************************)
GuestKeeps ==
  /\ GuestRead' = GuestRead /\ sendList' = sendList /\ toGuest' = toGuest
  /\ gcut' = gcut \/ gcut' = TRUE

GuestFills ==
  /\ sendList # << >> /\ sendList' = Tail(sendList)
  /\ GuestRead' = Append(GuestRead, Head(sendList))
  /\ toGuest' = toGuest /\ gcut' = gcut

GuestRecvs ==
  /\ GuestRead # << >> /\ GuestRead' = Tail(GuestRead) /\ sendList' = sendList
  /\ toGuest' = Append(toGuest, Head(GuestRead)) /\ gcut' = gcut

GuestDrops ==
  /\ \E m, l \in Nat : m <= l /\ l <= Len(GuestRead) /\ GuestRead' = Ends(GuestRead, m, l)
  /\ sendList' = sendList /\ toGuest' = toGuest /\ gcut' = TRUE

GuestGets(m) ==
  /\ sendList' = Append(sendList, m)
  /\ GuestRead' = GuestRead /\ toGuest' = toGuest /\ gcut' = gcut

(***************************************************************************)
(* The buffers on their way to the guest are in no other place.            *)
(***************************************************************************)
LEMMA GuestBufsAre ==
  ASSUME BufInv
  PROVE  /\ GuestBufs \in Seq(InBufs) /\ GuestHand \in Seq(InBufs) /\ used["rx"] \in Seq(InBufs)
         /\ task = "recv" => hd \in InBufs
         /\ \A p \in Places : p # "rx_used" /\ (p = "hand" => task # "recv") =>
              \A i \in DOMAIN GuestBufs : GuestBufs[i] \notin ToSet(Place[p])
         /\ task # "recv" => GuestBufs = used["rx"]
         /\ task = "recv" => GuestBufs = <<hd>> \o used["rx"]
<1>1. used["rx"] \in Seq(InBufs) /\ (task = "recv" => hd \in InBufs /\ hd # NoBuf)
  BY DEF BufInv, BufferTypes, InHandOK
<1>2. PICK h, u : h = GuestHand /\ u = used["rx"]
  OBVIOUS
<1>3. h \in Seq(InBufs) /\ u \in Seq(InBufs) /\ GuestBufs = h \o u
  <2>1. << >> \in Seq(InBufs)
    OBVIOUS
  <2>2. task = "recv" => <<hd>> \in Seq(InBufs)
    BY <1>1
  <2>3. QED
    BY <1>1, <1>2, <2>1, <2>2 DEF GuestBufs, GuestHand
<1>4. GuestBufs \in Seq(InBufs)
  BY <1>3, ConcatProperties
<1>5. \A x : x \in ToSet(GuestBufs) <=> x \in ToSet(h) \/ x \in ToSet(u)
  BY <1>3, JoinApart
<1>6. \A x \in ToSet(h) : task = "recv" /\ x \in ToSet(Place["hand"])
  <2>1. CASE task = "recv"
    BY <1>1, <1>2, <2>1, PlaceIs DEF PlacesAre, GuestHand
  <2>2. CASE task # "recv"
    BY <1>2, <2>2 DEF GuestHand, ToSet
  <2>3. QED
    BY <2>1, <2>2
<1>7. ASSUME NEW p \in Places, p # "rx_used", p = "hand" => task # "recv",
             NEW i \in DOMAIN GuestBufs
      PROVE  GuestBufs[i] \notin ToSet(Place[p])
  <2>1. GuestBufs[i] \in ToSet(GuestBufs)
    BY DEF ToSet
  <2>2. \/ task = "recv" /\ GuestBufs[i] \in ToSet(Place["hand"])
        \/ GuestBufs[i] \in ToSet(Place["rx_used"])
    BY <1>2, <1>5, <1>6, <2>1, PlaceIs DEF PlacesAre
  <2>3. Apart(Place["rx_used"], Place[p])
    BY <1>7, PlacesApart DEF Places
  <2>4. task = "recv" => Apart(Place["hand"], Place[p])
    BY <1>7, PlacesApart DEF Places
  <2>5. QED
    BY <2>2, <2>3, <2>4 DEF Apart
<1>8. task # "recv" => GuestBufs = used["rx"]
  BY <1>1, ConcatEmptySeq DEF GuestBufs, GuestHand
<1>9. task = "recv" => GuestBufs = <<hd>> \o used["rx"]
  BY DEF GuestBufs, GuestHand
<1>10. GuestHand \in Seq(InBufs)
  BY <1>2, <1>3
<1>11. QED
  BY <1>1, <1>4, <1>7, <1>8, <1>9, <1>10

(***************************************************************************)
(* What the buffers hold is as it was when they are and their contents     *)
(* are.                                                                    *)
(***************************************************************************)
LEMMA GuestReadSame ==
  ASSUME GuestBufs' = GuestBufs,
         \A i \in DOMAIN GuestBufs : mem'[GuestBufs[i]] = mem[GuestBufs[i]]
  PROVE  GuestRead' = GuestRead
<1>1. Of(mem', GuestBufs) = Of(mem, GuestBufs)
  BY OfSame DEF SameOn
<1>2. QED
  BY <1>1 DEF GuestRead

(***************************************************************************)
(* It is when only buffers of another place are written.                   *)
(***************************************************************************)
LEMMA GuestReadElsewhere ==
  ASSUME BufInv, GuestBufs' = GuestBufs, NEW p \in Places, p # "rx_used",
         p = "hand" => task # "recv",
         \A b \in Bufs : b \notin ToSet(Place[p]) => mem'[b] = mem[b]
  PROVE  GuestRead' = GuestRead
<1>1. /\ GuestBufs \in Seq(InBufs) /\ InBufs \subseteq Bufs
      /\ \A i \in DOMAIN GuestBufs : GuestBufs[i] \notin ToSet(Place[p])
  BY GuestBufsAre, PoolsAre
<1>2. \A i \in DOMAIN GuestBufs : GuestBufs[i] \in Bufs
  BY <1>1
<1>3. QED
  BY <1>1, <1>2, GuestReadSame

(***************************************************************************)
(* The tasklet takes the first used buffer: the queue is as it was.        *)
(***************************************************************************)
LEMMA RxGetToGuest ==
  ASSUME BufInv, RxGet, UNCHANGED vhostVars
  PROVE  GuestKeeps
<1>1. task = "run" /\ UNCHANGED <<mem, toGuest, gcut, sendList>>
  BY DEF RxGet, vhostVars
<1>2. /\ GuestBufs = used["rx"] /\ used["rx"] \in Seq(InBufs) /\ DOMAIN used = Queues
  BY <1>1, GuestBufsAre DEF BufInv, BufferTypes
<1>3. CASE used["rx"] = << >>
  <2>1. GuestBufs' = GuestBufs
    BY <1>1, <1>3 DEF RxGet, GuestBufs, GuestHand
  <2>2. QED
    BY <1>1, <2>1, GuestReadSame DEF GuestKeeps
<1>4. CASE used["rx"] # << >>
  <2>1. /\ task' = "recv" /\ used'["rx"] = Tail(used["rx"]) /\ hd' = Head(used["rx"])
    BY <1>2, <1>4 DEF RxGet, Queues
  <2>2. GuestBufs' = <<Head(used["rx"])>> \o Tail(used["rx"])
    BY <2>1 DEF GuestBufs, GuestHand
  <2>3. Append(<< >>, Head(used["rx"])) \o Tail(used["rx"]) = used["rx"]
    BY <1>2, <1>4, HeadFirst
  <2>4. Append(<< >>, Head(used["rx"])) = <<Head(used["rx"])>>
    OBVIOUS
  <2>5. GuestBufs' = GuestBufs
    BY <1>2, <2>2, <2>3, <2>4
  <2>6. QED
    BY <1>1, <2>5, GuestReadSame DEF GuestKeeps
<1>5. QED
  BY <1>3, <1>4

(***************************************************************************)
(* hab_msg_recv is given the first message of the queue.                   *)
(***************************************************************************)
LEMMA RxRecvToGuest ==
  ASSUME BufInv, GuestInv, RxRecv, UNCHANGED vhostVars
  PROVE  GuestRecvs
<1>1. /\ task = "recv" /\ task' = "return" /\ UNCHANGED <<mem, used, gcut, sendList>>
      /\ toGuest' = Append(toGuest, mem[hd])
  BY DEF RxRecv, vqVars, vhostVars
<1>2. PICK b, a : b = hd /\ a = used["rx"]
  OBVIOUS
<1>3. b \in InBufs /\ a \in Seq(InBufs)
  BY <1>1, <1>2, GuestBufsAre
<1>4. PICK q : q = GuestRead
  OBVIOUS
<1>5. q \in Seq(1 .. hnext - 1) /\ q = Of(mem, <<b>> \o a)
  BY <1>1, <1>2, <1>4, GuestBufsAre DEF GuestInv, GuestRead
<1>6. q # << >> /\ Head(q) = mem[b] /\ Tail(q) = Of(mem, a)
  BY <1>3, <1>5, OfFirst
<1>7. GuestBufs' = a
  <2>1. GuestBufs' = << >> \o a
    BY <1>1, <1>2 DEF GuestBufs, GuestHand
  <2>2. << >> \o a = a
    BY <1>3, ConcatEmptySeq
  <2>3. QED
    BY <2>1, <2>2
<1>8. GuestRead' = Of(mem, a)
  BY <1>1, <1>7 DEF GuestRead
<1>9. QED
  BY <1>1, <1>2, <1>4, <1>6, <1>8 DEF GuestRecvs

(***************************************************************************)
(* hab_stat_log takes the first used buffer, behind the one in the         *)
(* tasklet's hand: the channel is cut.                                     *)
(***************************************************************************)
LEMMA StatLogToGuest ==
  ASSUME BufInv, GuestInv, StatLog, UNCHANGED vhostVars
  PROVE  GuestKeeps \/ GuestDrops
<1>1. UNCHANGED <<mem, task, hd, toGuest, sendList>> /\ GuestHand' = GuestHand
  BY DEF StatLog, vhostVars, GuestHand
<1>2. /\ GuestHand \in Seq(InBufs) /\ used["rx"] \in Seq(InBufs)
  BY GuestBufsAre
<1>3. CASE used["rx"] = << >>
  <2>1. used'["rx"] = used["rx"] /\ (gcut' = gcut \/ gcut' = TRUE)
    BY <1>3 DEF StatLog, Queues, GuestInv
  <2>2. GuestBufs' = GuestBufs
    BY <1>1, <2>1 DEF GuestBufs
  <2>3. QED
    BY <1>1, <2>1, <2>2, GuestReadSame DEF GuestKeeps
<1>4. CASE used["rx"] # << >>
  <2>1. used'["rx"] = Tail(used["rx"]) /\ gcut' = TRUE
    <3>1. used'["rx"] = Tail(used["rx"])
      BY <1>4 DEF StatLog, Queues
    <3>2. gcut'
      BY <1>4 DEF StatLog
    <3>3. gcut' \in BOOLEAN
      BY DEF StatLog, GuestInv
    <3>4. QED
      BY <3>1, <3>2, <3>3
  <2>2. PICK h, u, s : h = GuestHand /\ u = used["rx"] /\ s = GuestBufs
    OBVIOUS
  <2>3. s = h \o u /\ GuestBufs' = h \o Tail(u) /\ u # << >>
    BY <1>1, <1>4, <2>1, <2>2 DEF GuestBufs
  <2>4. h \in Seq(InBufs) /\ u \in Seq(InBufs)
    BY <1>2, <2>2
  <2>5. PICK m, l : m = Len(h) /\ l = Len(h) + 1
    OBVIOUS
  <2>6. GuestBufs' = Ends(s, m, l)
    BY <2>3, <2>4, <2>5, DropFirst
  <2>7. m \in Nat /\ l \in Nat /\ m <= l /\ l <= Len(s) /\ s \in Seq(InBufs)
    <3>1. Len(u) \in Nat \ {0}
      BY <2>3, <2>4, TailIs
    <3>2. Len(s) = Len(h) + Len(u) /\ Len(h) \in Nat /\ s \in Seq(InBufs)
      BY <2>3, <2>4, ConcatIs
    <3>3. QED
      BY <2>5, <3>1, <3>2
  <2>8. PICK V, q : V = 1 .. hnext - 1 /\ q = GuestRead
    OBVIOUS
  <2>9. q \in Seq(V) /\ q = Of(mem, s)
    BY <2>2, <2>8 DEF GuestInv, GuestRead
  <2>10. Of(mem, Ends(s, m, l)) = Ends(q, m, l) /\ l <= Len(q)
    BY <2>7, <2>9, OfEnds
  <2>11. GuestRead' = Ends(q, m, l)
    BY <1>1, <2>6, <2>10 DEF GuestRead
  <2>12. QED
    BY <1>1, <2>1, <2>7, <2>8, <2>10, <2>11 DEF GuestDrops
<1>5. QED
  BY <1>3, <1>4

(***************************************************************************)
(* Every other step of the front end keeps the queue: senders,             *)
(* virthab_recv_txq and the tasklet write buffers that are not in it.      *)
(***************************************************************************)
LEMMA GuestToGuest ==
  ASSUME BufInv, GuestInv, VirtioNext, UNCHANGED vhostVars
  PROVE  GuestKeeps \/ GuestRecvs \/ GuestDrops
<1>1. CASE RxGet \/ RxRecv \/ StatLog
  BY <1>1, RxGetToGuest, RxRecvToGuest, StatLogToGuest
<1>2. UNCHANGED sendList
  BY DEF vhostVars
<1>3. ASSUME used'["rx"] = used["rx"], GuestHand' = GuestHand
      PROVE  GuestBufs' = GuestBufs
  BY <1>3 DEF GuestBufs
<1>4. ASSUME used' = used, GuestHand' = GuestHand, UNCHANGED <<mem, toGuest, gcut>>
      PROVE  GuestKeeps
  BY <1>2, <1>3, <1>4, GuestReadSame DEF GuestKeeps
<1>5. CASE ProbePools \/ Restore \/ ProbeVqs \/ SendRefused \/ RecvRxqTask \/ RxDispatch \/ RxRun
  <2>1. /\ UNCHANGED <<used, mem, toGuest, gcut>>
        /\ UNCHANGED <<task, hd>> \/ (task = "idle" /\ task' = "run")
    BY <1>5 DEF ProbePools, Restore, ProbeVqs, SendRefused, RecvRxqTask, RxDispatch, RxRun, vqVars
  <2>2. GuestHand' = GuestHand
    BY <2>1 DEF GuestHand
  <2>3. QED
    BY <1>4, <2>1, <2>2
<1>6. CASE \E t \in GuestThreads : SendStart(t) \/ SendOops(t) \/ SendSleep(t)
  <2>1. UNCHANGED <<used, mem, toGuest, gcut, task, hd>>
    BY <1>6 DEF SendStart, SendOops, SendSleep, vqVars
  <2>2. QED
    BY <1>4, <2>1 DEF GuestHand
<1>7. CASE RecvTxq
  <2>1. /\ used'["rx"] = used["rx"] /\ UNCHANGED <<task, hd, toGuest, gcut>>
        /\ mem' = [b \in Bufs |-> IF b \in ToSet(used["tx"]) THEN NoMsg ELSE mem[b]]
    BY <1>7 DEF RecvTxq, BufInv, BufferTypes, Queues
  <2>2. \A b \in Bufs : b \notin ToSet(Place["tx_used"]) => mem'[b] = mem[b]
    BY <2>1, PlaceIs DEF PlacesAre
  <2>3. GuestRead' = GuestRead
    <3>1. GuestBufs' = GuestBufs
      BY <1>3, <2>1 DEF GuestHand
    <3>2. QED
      BY <2>2, <3>1, GuestReadElsewhere DEF Places
  <2>4. QED
    BY <1>2, <2>1, <2>3 DEF GuestKeeps
<1>8. CASE RxReturn
  <2>1. /\ used' = used /\ UNCHANGED <<toGuest, gcut>> /\ hd # NoBuf
        /\ task = "return" /\ task' = "run" /\ mem' = [mem EXCEPT ![hd] = NoMsg]
    BY <1>8 DEF RxReturn, BufInv, InHandOK
  <2>2. Place["hand"] = <<hd>>
    BY <2>1, PlaceIs DEF PlacesAre
  <2>3. hd \in ToSet(Place["hand"])
    BY <2>2 DEF ToSet
  <2>4. \A b \in Bufs : b \notin ToSet(Place["hand"]) => mem'[b] = mem[b]
    BY <2>1, <2>3 DEF GuestInv
  <2>5. GuestBufs' = GuestBufs
    BY <1>3, <2>1 DEF GuestHand
  <2>6. GuestRead' = GuestRead
    BY <2>1, <2>4, <2>5, GuestReadElsewhere DEF Places
  <2>7. QED
    BY <1>2, <2>1, <2>6 DEF GuestKeeps
<1>9. CASE \E t \in GuestThreads : SendQueue(t)
  <2>1. PICK t \in GuestThreads : SendQueue(t)
    BY <1>9
  <2> DEFINE p == PoolOf(gmsg[t])
  <2>2. PICK s, b : s = list[p] /\ b = Head(s)
    OBVIOUS
  <2>3. p \in Pools /\ p \in Places /\ s # << >> /\ s \in Seq(PoolBufs(p))
    BY <2>1, <2>2 DEF SendQueue, PoolOf, Pools, Places, BufInv, BufferTypes
  <2>4. /\ mem' = [mem EXCEPT ![b] = gmsg[t].id] /\ UNCHANGED <<used, task, hd, toGuest>>
        /\ gcut' = gcut \/ gcut' = TRUE
    BY <2>1, <2>2 DEF SendQueue
  <2> HIDE DEF p
  <2>5. b \in ToSet(Place[p])
    <3>1. b = s[1] /\ Len(s) \in Nat \ {0} /\ DOMAIN s = 1 .. Len(s)
      BY <2>2, <2>3, TailIs
    <3>2. b \in ToSet(s)
      BY <3>1 DEF ToSet
    <3>3. QED
      BY <2>2, <2>3, <3>2, PlaceIs DEF PlacesAre
  <2>6. \A x \in Bufs : x \notin ToSet(Place[p]) => mem'[x] = mem[x]
    BY <2>4, <2>5 DEF GuestInv
  <2>7. p # "rx_used" /\ p # "hand"
    BY <2>3 DEF Pools
  <2>8. GuestRead' = GuestRead
    <3>1. GuestBufs' = GuestBufs
      BY <1>3, <2>4 DEF GuestHand
    <3>2. QED
      BY <2>3, <2>6, <2>7, <3>1, GuestReadElsewhere
  <2>9. QED
    BY <1>2, <2>4, <2>8 DEF GuestKeeps
<1>10. QED
  BY <1>1, <1>5, <1>6, <1>7, <1>8, <1>9 DEF VirtioNext, VirtioSend, VirtioTasklet

(***************************************************************************)
(* rx_worker moves the first message of the send list into the buffer in   *)
(* its hand, behind those the guest has not fetched.                       *)
(***************************************************************************)
LEMMA RxFillToGuest ==
  ASSUME BufInv, GuestInv, RxFill, UNCHANGED virtioVars
  PROVE  GuestFills
<1>1. PICK k, u, b : k = taken["rx"] /\ u = used["rx"] /\ b = Last(taken["rx"])
  OBVIOUS
<1>2. /\ wk = "rx_fill" /\ sendList # << >> /\ sendList' = Tail(sendList)
      /\ mem' = [mem EXCEPT ![b] = Head(sendList)] /\ used' = [used EXCEPT !["rx"] = Append(@, b)]
      /\ UNCHANGED <<task, hd, toGuest, gcut>>
  BY <1>1 DEF RxFill, AddUsed, InHand, virtioVars, GuestInv
<1>3. k # << >> /\ k \in Seq(InBufs) /\ u \in Seq(InBufs) /\ DOMAIN used = Queues
  BY <1>1, <1>2 DEF BufInv, InHandOK, BufferTypes
<1>4. b \in InBufs /\ b \in ToSet(Place["rx_taken"])
  <2>1. Len(k) \in Nat \ {0} /\ b = k[Len(k)] /\ DOMAIN k = 1 .. Len(k) /\ b \in InBufs
    BY <1>1, <1>3, FrontIs
  <2>2. b \in ToSet(k)
    BY <2>1 DEF ToSet
  <2>3. QED
    BY <1>1, <2>1, <2>2, PlaceIs DEF PlacesAre
<1>5. GuestHand' = GuestHand /\ used'["rx"] = Append(u, b)
  BY <1>1, <1>2, <1>3 DEF GuestHand, Queues
<1>6. PICK h, s : h = GuestHand /\ s = GuestBufs
  OBVIOUS
<1>7. h \in Seq(InBufs) /\ s \in Seq(InBufs) /\ s = h \o u
  BY <1>1, <1>6, GuestBufsAre DEF GuestBufs
<1>8. GuestBufs' = Append(s, b)
  <2>1. GuestBufs' = h \o Append(u, b)
    BY <1>5, <1>6 DEF GuestBufs
  <2>2. h \o Append(u, b) = Append(h \o u, b)
    BY <1>3, <1>4, <1>7, QueueSeqs
  <2>3. QED
    BY <1>7, <2>1, <2>2
<1>9. PICK M, N, V, q, v : /\ M = mem /\ N = mem' /\ V = 1 .. hnext - 1 /\ q = GuestRead
                           /\ v = Head(sendList)
  OBVIOUS
<1>10. q \in Seq(V) /\ q = Of(M, s) /\ sendList \in Seq(V)
  BY <1>6, <1>9 DEF GuestInv, GuestRead
<1>11. v \in V
  BY <1>2, <1>9, <1>10, TailIs
<1>12. v = N[b] /\ \A x \in Bufs : x # b => N[x] = M[x]
  BY <1>2, <1>4, <1>9, PoolsAre DEF GuestInv
<1>13. SameOn(M, N, s)
  <2>1. SUFFICES ASSUME NEW i \in DOMAIN s PROVE N[s[i]] = M[s[i]]
    BY DEF SameOn
  <2>2. s[i] \in InBufs
    BY <1>7
  <2>3. s[i] \notin ToSet(Place["rx_taken"])
    BY <1>6, GuestBufsAre DEF Places
  <2>4. QED
    BY <1>4, <1>12, <2>2, <2>3, PoolsAre
<1>14. Of(N, Append(s, b)) = Append(q, v)
  <2>1. q \in Seq(V) /\ q = Of(M, s) /\ v \in V /\ v = N[b] /\ s \in Seq(InBufs)
    BY <1>7, <1>10, <1>11, <1>12
  <2>2. QED
    BY <1>4, <1>13, <2>1, OfAppend
<1>15. GuestRead' = Append(q, v)
  BY <1>8, <1>9, <1>14 DEF GuestRead
<1>16. QED
  BY <1>2, <1>9, <1>15 DEF GuestFills

(***************************************************************************)
(* A sender appends its message to the send list.                          *)
(***************************************************************************)
LEMMA HostQueueToGuest ==
  ASSUME NEW t \in HostThreads, HostQueue(t), UNCHANGED virtioVars
  PROVE  GuestGets(hmsg[t])
<1>1. UNCHANGED <<used, mem, task, hd, toGuest, gcut>> /\ sendList' = Append(sendList, hmsg[t])
  BY DEF HostQueue, vqVars, virtioVars
<1>2. GuestBufs' = GuestBufs
  BY <1>1 DEF GuestBufs, GuestHand
<1>3. QED
  BY <1>1, <1>2, GuestReadSame DEF GuestGets

(***************************************************************************)
(* Every step of the host keeps the queue, fills a buffer or appends a     *)
(* message.                                                                *)
(***************************************************************************)
LEMMA WorkerToGuest ==
  ASSUME BufInv, GuestInv, VhostNext, UNCHANGED virtioVars
  PROVE  \/ GuestKeeps \/ GuestFills
         \/ \E t \in HostThreads : HostQueue(t) /\ GuestGets(hmsg[t])
<1>1. CASE RxFill
  BY <1>1, RxFillToGuest
<1>2. CASE \E t \in HostThreads : HostQueue(t)
  BY <1>2, HostQueueToGuest
<1>3. ASSUME used'["rx"] = used["rx"], UNCHANGED <<mem, sendList>> PROVE GuestKeeps
  <2>1. UNCHANGED <<task, hd, toGuest, gcut>>
    BY DEF virtioVars
  <2>2. GuestBufs' = GuestBufs
    BY <1>3, <2>1 DEF GuestBufs, GuestHand
  <2>3. QED
    BY <1>3, <2>1, <2>2, GuestReadSame DEF GuestKeeps
<1>4. CASE TxUsed
  BY <1>3, <1>4 DEF TxUsed, AddUsed, BufInv, BufferTypes, Queues
<1>5. CASE TxWork \/ HostDispatch \/ TxGet \/ TxRecheck \/ TxRecv
  BY <1>3, <1>5 DEF TxWork, HostDispatch, TxGet, TxRecheck, TxRecv, vqVars
<1>6. CASE RxWork \/ RxNext \/ RxRecheck \/ RxFault
  BY <1>3, <1>6 DEF RxWork, RxNext, RxRecheck, RxFault
<1>7. CASE HostRefused \/ \E t \in HostThreads : HostSend(t)
  BY <1>3, <1>7 DEF HostRefused, HostSend, vqVars
<1>8. CASE DevOpen \/ ResetStop \/ ResetClose \/ ResetWait \/ ResetEnd \/ Release
           \/ \E bad \in SUBSET Queues : Ioctl(bad)
  BY <1>3, <1>8 DEF DevOpen, ResetStop, ResetClose, ResetWait, ResetEnd, Release, Ioctl, vqVars
<1>9. CASE \E v \in Vchans : VAlloc(v) \/ VAck(v) \/ VDone(v) \/ VTimeout(v) \/ VClose(v)
  BY <1>3, <1>9 DEF VAlloc, VAck, VDone, VTimeout, VClose, vqVars
<1>10. QED
  BY <1>1, <1>2, <1>4, <1>5, <1>6, <1>7, <1>8, <1>9 DEF VhostNext, VhostReset, VhostWorker

(***************************************************************************)
(* A suspend or a restart of the guest drops what is in buffers; the send  *)
(* list stays.                                                             *)
(***************************************************************************)
LEMMA DropToGuest ==
  ASSUME GuestInv, GuestFreeze \/ Reboot
  PROVE  GuestDrops
<1>1. /\ task' # "recv" /\ used' = [q \in Queues |-> << >>]
      /\ toGuest' = toGuest /\ gcut' = TRUE /\ sendList' = sendList
  BY DEF GuestFreeze, Freeze, Reboot, DelVqs, vhostVars
<1>2. GuestBufs' = << >>
  <2>1. used'["rx"] = << >>
    BY <1>1 DEF Queues
  <2>2. GuestBufs' = << >> \o << >>
    BY <1>1, <2>1 DEF GuestBufs, GuestHand
  <2>3. << >> \o << >> = << >>
    OBVIOUS
  <2>4. QED
    BY <2>2, <2>3
<1>3. GuestRead' = << >>
  BY <1>2 DEF GuestRead, Of
<1>4. PICK q, n : q = GuestRead /\ n = Len(q)
  OBVIOUS
<1>5. n \in Nat
  BY <1>4, LenProperties DEF GuestInv
<1>6. Ends(q, 0, n) = << >>
  <2>1. 1 .. 0 + (n - n) = {}
    BY <1>5
  <2>2. QED
    BY <1>4, <2>1 DEF Ends
<1>7. 0 \in Nat /\ 0 <= n /\ n <= n
  BY <1>5
<1>8. QED
  BY <1>1, <1>3, <1>4, <1>5, <1>6, <1>7 DEF GuestDrops

(***************************************************************************)
(* Every step of the transport, seen from the messages to the guest.       *)
(***************************************************************************)
LEMMA GuestSteps ==
  ASSUME BufInv, GuestInv, [Next]_vars
  PROVE  \/ GuestKeeps \/ GuestFills \/ GuestRecvs \/ GuestDrops
         \/ \E t \in HostThreads : HostQueue(t) /\ GuestGets(hmsg[t])
<1>1. CASE VirtioNext /\ UNCHANGED vhostVars
  BY <1>1, GuestToGuest
<1>2. CASE VhostNext /\ UNCHANGED virtioVars
  BY <1>2, WorkerToGuest
<1>3. CASE GuestFreeze \/ Reboot
  BY <1>3, DropToGuest
<1>4. CASE UNCHANGED vars
  BY <1>4, GuestReadSame
     DEF vars, vqVars, virtioVars, vhostVars, GuestKeeps, GuestBufs, GuestHand
<1>5. QED
  BY <1>1, <1>2, <1>3, <1>4 DEF Next

(***************************************************************************)
(* The messages on their way and those that arrived.                       *)
(***************************************************************************)
OnwardToGuest == ToSet(GuestRead) \cup ToSet(sendList) \cup ToSet(toGuest)

(***************************************************************************)
(* But for a sender's step no message is new to the queue or to the guest. *)
(***************************************************************************)
LEMMA GuestMessagesKept ==
  ASSUME GuestInv, GuestKeeps \/ GuestFills \/ GuestRecvs \/ GuestDrops,
         NEW V, V = 1 .. hnext - 1
  PROVE  /\ GuestRead' \in Seq(V) /\ sendList' \in Seq(V) /\ toGuest' \in Seq(V)
         /\ OnwardToGuest' \subseteq OnwardToGuest
<1>1. PICK q, s, g : q = GuestRead /\ s = sendList /\ g = toGuest
  OBVIOUS
<1>2. q \in Seq(V) /\ s \in Seq(V) /\ g \in Seq(V)
  BY <1>1 DEF GuestInv
<1>3. CASE GuestKeeps
  BY <1>1, <1>2, <1>3 DEF GuestKeeps, OnwardToGuest
<1>4. CASE GuestFills
  <2>1. s # << >> /\ sendList' = Tail(s) /\ GuestRead' = Append(q, Head(s)) /\ toGuest' = g
    BY <1>1, <1>4 DEF GuestFills
  <2>2. PICK t, e : t = sendList' /\ e = GuestRead'
    OBVIOUS
  <2>3. FirstMoved(s, q, t, e)
    BY <2>1, <2>2 DEF FirstMoved
  <2>4. /\ t \in Seq(V) /\ e \in Seq(V)
        /\ \A y : y \in ToSet(t) \/ y \in ToSet(e) => y \in ToSet(s) \/ y \in ToSet(q)
    BY <1>2, <2>3, MoveFirst
  <2>5. /\ OnwardToGuest = ToSet(q) \cup ToSet(s) \cup ToSet(g)
        /\ OnwardToGuest' = ToSet(e) \cup ToSet(t) \cup ToSet(g)
    BY <1>1, <2>1, <2>2 DEF OnwardToGuest
  <2>6. OnwardToGuest' \subseteq OnwardToGuest
    BY <2>4, <2>5
  <2>7. QED
    BY <1>2, <2>1, <2>2, <2>4, <2>6
<1>5. CASE GuestRecvs
  <2>1. q # << >> /\ GuestRead' = Tail(q) /\ toGuest' = Append(g, Head(q)) /\ sendList' = s
    BY <1>1, <1>5 DEF GuestRecvs
  <2>2. PICK t, e : t = GuestRead' /\ e = toGuest'
    OBVIOUS
  <2>3. FirstMoved(q, g, t, e)
    BY <2>1, <2>2 DEF FirstMoved
  <2>4. /\ t \in Seq(V) /\ e \in Seq(V)
        /\ \A y : y \in ToSet(t) \/ y \in ToSet(e) => y \in ToSet(q) \/ y \in ToSet(g)
    BY <1>2, <2>3, MoveFirst
  <2>5. /\ OnwardToGuest = ToSet(q) \cup ToSet(s) \cup ToSet(g)
        /\ OnwardToGuest' = ToSet(t) \cup ToSet(s) \cup ToSet(e)
    BY <1>1, <2>1, <2>2 DEF OnwardToGuest
  <2>6. OnwardToGuest' \subseteq OnwardToGuest
    BY <2>4, <2>5
  <2>7. QED
    BY <1>2, <2>1, <2>2, <2>4, <2>6
<1>6. CASE GuestDrops
  <2>1. PICK m \in Nat, l \in Nat : m <= l /\ l <= Len(q) /\ GuestRead' = Ends(q, m, l)
    BY <1>1, <1>6 DEF GuestDrops
  <2>2. Ends(q, m, l) \in Seq(V) /\ \A y \in ToSet(Ends(q, m, l)) : y \in ToSet(q)
    BY <1>2, <2>1, EndsAre
  <2>3. QED
    BY <1>1, <1>2, <1>6, <2>1, <2>2 DEF GuestDrops, OnwardToGuest
<1>7. QED
  BY <1>3, <1>4, <1>5, <1>6

(***************************************************************************)
(* rx_worker takes a buffer only for a message, and no one else takes from *)
(* the send list.                                                          *)
(***************************************************************************)
LEMMA FillHasMessage ==
  ASSUME GuestInv, [Next]_vars, wk' = "rx_fill"
  PROVE  sendList' # << >>
<1>1. CASE wk = "rx_fill" /\ sendList' = sendList
  BY <1>1 DEF GuestInv
<1>2. CASE UNCHANGED vhostVars
  BY <1>1, <1>2 DEF vhostVars
<1>3. CASE RxNext
  BY <1>3 DEF RxNext, RxEnd
<1>4. CASE \E t \in HostThreads : HostQueue(t)
  <2>1. PICK t \in HostThreads : HostQueue(t)
    BY <1>4
  <2>2. sendList' = Append(sendList, hmsg[t])
    BY <2>1 DEF HostQueue
  <2>3. Append(sendList, hmsg[t]) # << >>
    <3>1. PICK V, s, m : V = 1 .. hnext - 1 /\ s = sendList /\ m = hmsg[t]
      OBVIOUS
    <3>2. m \in V /\ s \in Seq(V)
      BY <2>1, <3>1 DEF GuestInv, HostSendersOK, HostQueue
    <3>3. Append(s, m) # << >>
      BY <3>2, AppendProperties
    <3>4. QED
      BY <3>1, <3>3
  <2>4. QED
    BY <2>2, <2>3
<1>5. CASE \/ TxWork \/ TxGet \/ TxRecheck \/ TxRecv \/ TxUsed \/ HostDispatch
           \/ RxWork \/ RxRecheck \/ RxFill \/ RxFault
  BY <1>1, <1>5 DEF TxWork, TxGet, TxRecheck, TxRecv, TxUsed, HostDispatch, RxWork, RxRecheck,
       RxFill, RxFault, RxEnd
<1>6. CASE HostRefused \/ \E t \in HostThreads : HostSend(t)
  BY <1>1, <1>6 DEF HostRefused, HostSend, workerVars
<1>7. CASE DevOpen \/ ResetStop \/ ResetClose \/ ResetWait \/ ResetEnd \/ Release
           \/ \E bad \in SUBSET Queues : Ioctl(bad)
  BY <1>1, <1>7 DEF DevOpen, ResetStop, ResetClose, ResetWait, ResetEnd, Release, Ioctl,
       workerVars
<1>8. CASE \E v \in Vchans : VAlloc(v) \/ VAck(v) \/ VDone(v) \/ VTimeout(v) \/ VClose(v)
  BY <1>1, <1>8 DEF VAlloc, VAck, VDone, VTimeout, VClose, workerVars
<1>9. QED
  BY <1>2, <1>3, <1>4, <1>5, <1>6, <1>7, <1>8
     DEF Next, GuestFreeze, Reboot, vars, VhostNext, VhostReset, VhostWorker

(***************************************************************************)
(* Senders keep what they have in hand, or have nothing.                   *)
(***************************************************************************)
HostSendersSame ==
  /\ \A t \in HostThreads : hpc'[t] = "queue" => hpc[t] = "queue" /\ hmsg'[t] = hmsg[t]
  /\ DOMAIN hpc' = HostThreads /\ DOMAIN hmsg' = HostThreads
  /\ hnext' \in {hnext, hnext + 1}

(***************************************************************************)
(* What was numbered stays numbered.                                       *)
(***************************************************************************)
LEMMA WiderSeqs ==
  ASSUME hnext \in Nat \ {0}, hnext' \in {hnext, hnext + 1},
         NEW s \in Seq(1 .. hnext - 1)
  PROVE  s \in Seq(1 .. hnext' - 1)
<1>1. CASE hnext' = hnext
  BY <1>1
<1>2. CASE hnext' = hnext + 1
  BY <1>2, WiderSeq
<1>3. QED
  BY <1>1, <1>2

(***************************************************************************)
(* The invariant of the senders is kept when they keep what they have in   *)
(* hand.                                                                   *)
(***************************************************************************)
LEMMA HostSendersKeep ==
  ASSUME GuestInv, HostSendersSame, OnwardToGuest' \subseteq OnwardToGuest
  PROVE  HostSendersOK'
<1>1. SUFFICES ASSUME NEW t \in HostThreads, hpc'[t] = "queue"
               PROVE  /\ hmsg'[t] \in HostMsgs /\ hmsg'[t] \in 1 .. hnext' - 1
                      /\ hmsg'[t] \notin ToSet(GuestRead') /\ hmsg'[t] \notin ToSet(sendList')
                      /\ hmsg'[t] \notin ToSet(toGuest')
                      /\ \A u \in HostThreads : hpc'[u] = "queue" /\ hmsg'[u] = hmsg'[t] => u = t
  BY DEF HostSendersOK
<1>2. /\ hpc[t] = "queue" /\ hmsg'[t] = hmsg[t]
      /\ hmsg[t] \in HostMsgs /\ hmsg[t] \in 1 .. hnext - 1
      /\ hmsg[t] \notin ToSet(GuestRead) /\ hmsg[t] \notin ToSet(sendList)
      /\ hmsg[t] \notin ToSet(toGuest)
      /\ \A u \in HostThreads : hpc[u] = "queue" /\ hmsg[u] = hmsg[t] => u = t
  BY <1>1 DEF HostSendersSame, GuestInv, HostSendersOK
<1>3. hmsg[t] \in 1 .. hnext' - 1
  BY <1>2 DEF HostSendersSame, GuestInv
<1>4. hmsg[t] \notin OnwardToGuest'
  BY <1>2 DEF OnwardToGuest
<1>5. hmsg[t] \notin ToSet(GuestRead') /\ hmsg[t] \notin ToSet(sendList')
      /\ hmsg[t] \notin ToSet(toGuest')
  BY <1>4 DEF OnwardToGuest
<1>6. \A u \in HostThreads : hpc'[u] = "queue" /\ hmsg'[u] = hmsg'[t] => u = t
  BY <1>2 DEF HostSendersSame
<1>7. QED
  BY <1>2, <1>3, <1>5, <1>6

(***************************************************************************)
(* A sender that starts takes a number no message has had.                 *)
(***************************************************************************)
LEMMA HostSendFresh ==
  ASSUME GuestInv, NEW t \in HostThreads, HostSend(t), OnwardToGuest' \subseteq OnwardToGuest
  PROVE  HostSendersOK'
<1>1. /\ hnext \in Nat \ {0} /\ hnext \in HostMsgs /\ hnext' = hnext + 1
      /\ hmsg' = [hmsg EXCEPT ![t] = hnext] /\ hpc' = [hpc EXCEPT ![t] = "queue"]
      /\ DOMAIN hpc = HostThreads /\ DOMAIN hmsg = HostThreads
  BY DEF GuestInv, HostSend
<1>2. /\ hmsg'[t] = hnext
      /\ \A u \in HostThreads : u # t => hmsg'[u] = hmsg[u] /\ hpc'[u] = hpc[u]
  BY <1>1
<1>3. hnext \notin 1 .. hnext - 1 /\ hnext \in 1 .. hnext' - 1
      /\ \A x \in 1 .. hnext - 1 : x \in 1 .. hnext' - 1
  BY <1>1
<1>4. OnwardToGuest \subseteq 1 .. hnext - 1
  <2>1. \A S : \A s \in Seq(S) : ToSet(s) \subseteq S
    BY DEF ToSet
  <2>2. /\ ToSet(GuestRead) \subseteq 1 .. hnext - 1 /\ ToSet(sendList) \subseteq 1 .. hnext - 1
        /\ ToSet(toGuest) \subseteq 1 .. hnext - 1
    BY <2>1 DEF GuestInv
  <2>3. QED
    BY <2>2 DEF OnwardToGuest
<1>5. hnext \notin OnwardToGuest'
  BY <1>3, <1>4
<1>6. ASSUME NEW w \in HostThreads, w # t, hpc'[w] = "queue"
      PROVE  /\ hmsg'[w] = hmsg[w] /\ hmsg[w] \in HostMsgs /\ hmsg[w] \in 1 .. hnext - 1
             /\ hmsg[w] \notin OnwardToGuest'
             /\ \A u \in HostThreads : hpc[u] = "queue" /\ hmsg[u] = hmsg[w] => u = w
  BY <1>2, <1>6 DEF GuestInv, HostSendersOK, OnwardToGuest
<1>7. ASSUME NEW v \in HostThreads, hpc'[v] = "queue"
      PROVE  /\ hmsg'[v] \in HostMsgs /\ hmsg'[v] \in 1 .. hnext' - 1
             /\ hmsg'[v] \notin OnwardToGuest'
             /\ \A u \in HostThreads : hpc'[u] = "queue" /\ hmsg'[u] = hmsg'[v] => u = v
  <2>1. CASE v = t
    <3>1. \A u \in HostThreads : hpc'[u] = "queue" /\ hmsg'[u] = hnext => u = t
      BY <1>3, <1>6
    <3>2. QED
      BY <1>1, <1>2, <1>3, <1>5, <2>1, <3>1
  <2>2. CASE v # t
    <3>1. /\ hmsg'[v] = hmsg[v] /\ hmsg[v] \in HostMsgs /\ hmsg[v] \in 1 .. hnext - 1
          /\ hmsg[v] \notin OnwardToGuest'
          /\ \A u \in HostThreads : hpc[u] = "queue" /\ hmsg[u] = hmsg[v] => u = v
      BY <1>6, <1>7, <2>2
    <3>2. \A u \in HostThreads : hpc'[u] = "queue" /\ hmsg'[u] = hmsg'[v] => u = v
      BY <1>2, <1>3, <3>1
    <3>3. QED
      BY <1>3, <3>1, <3>2
  <2>3. QED
    BY <2>1, <2>2
<1>8. QED
  BY <1>7 DEF HostSendersOK, OnwardToGuest

(***************************************************************************)
(* A sender that has queued its message has none in hand.                  *)
(***************************************************************************)
LEMMA HostQueueSenders ==
  ASSUME GuestInv, NEW t \in HostThreads, HostQueue(t), GuestGets(hmsg[t])
  PROVE  /\ HostSendersOK' /\ hnext' = hnext /\ sendList' \in Seq(1 .. hnext - 1)
         /\ DOMAIN hpc' = HostThreads /\ DOMAIN hmsg' = HostThreads
<1>1. PICK m, s, V : m = hmsg[t] /\ s = sendList /\ V = 1 .. hnext - 1
  OBVIOUS
<1>2. /\ hpc[t] = "queue" /\ hnext' = hnext
      /\ DOMAIN hpc' = HostThreads /\ DOMAIN hmsg' = HostThreads /\ hpc'[t] # "queue"
      /\ \A u \in HostThreads : u # t => hmsg'[u] = hmsg[u] /\ hpc'[u] = hpc[u]
  BY DEF GuestInv, HostQueue
<1>3. m \in V /\ s \in Seq(V)
  BY <1>1, <1>2 DEF GuestInv, HostSendersOK
<1>4. sendList' = Append(s, m) /\ GuestRead' = GuestRead /\ toGuest' = toGuest
  BY <1>1 DEF GuestGets
<1>5. /\ Append(s, m) \in Seq(V)
      /\ \A y : y \in ToSet(Append(s, m)) <=> y \in ToSet(s) \/ y = m
  <2>1. \A y : y \in ToSet(Append(s, m)) <=> y \in ToSet(s) \/ y = m
    BY <1>3, ToSets
  <2>2. Append(s, m) \in Seq(V)
    BY <1>3
  <2>3. QED
    BY <2>1, <2>2
<1>6. \A y : y \in ToSet(sendList') <=> y \in ToSet(sendList) \/ y = m
  BY <1>1, <1>4, <1>5
<1>7. ASSUME NEW v \in HostThreads, hpc'[v] = "queue"
      PROVE  /\ hmsg'[v] \in HostMsgs /\ hmsg'[v] \in 1 .. hnext' - 1
             /\ hmsg'[v] \notin ToSet(GuestRead') /\ hmsg'[v] \notin ToSet(sendList')
             /\ hmsg'[v] \notin ToSet(toGuest')
             /\ \A u \in HostThreads : hpc'[u] = "queue" /\ hmsg'[u] = hmsg'[v] => u = v
  <2>1. v # t /\ hpc[v] = "queue" /\ hmsg'[v] = hmsg[v]
    BY <1>2, <1>7
  <2>2. /\ hmsg[v] \in HostMsgs /\ hmsg[v] \in 1 .. hnext - 1
        /\ hmsg[v] \notin ToSet(GuestRead) /\ hmsg[v] \notin ToSet(sendList)
        /\ hmsg[v] \notin ToSet(toGuest)
        /\ \A u \in HostThreads : hpc[u] = "queue" /\ hmsg[u] = hmsg[v] => u = v
    BY <2>1 DEF GuestInv, HostSendersOK
  <2>3. hmsg[v] # m
    BY <1>1, <1>2, <2>1, <2>2
  <2>4. \A u \in HostThreads : hpc'[u] = "queue" /\ hmsg'[u] = hmsg'[v] => u = v
    BY <1>2, <2>1, <2>2
  <2>5. QED
    BY <1>2, <1>4, <1>6, <2>1, <2>2, <2>3, <2>4
<1>8. HostSendersOK'
  BY <1>7 DEF HostSendersOK
<1>9. QED
  BY <1>1, <1>2, <1>4, <1>5, <1>8

(***************************************************************************)
(* Only a sender's own steps change what it has in hand.                   *)
(***************************************************************************)
LEMMA HostSendersElsewhere ==
  ASSUME GuestInv, [Next]_vars, ~\E t \in HostThreads : HostSend(t) \/ HostQueue(t)
  PROVE  HostSendersSame
<1>1. /\ DOMAIN hpc = HostThreads /\ DOMAIN hmsg = HostThreads
  BY DEF GuestInv
<1>2. ASSUME UNCHANGED <<hpc, hmsg>>, hnext' \in {hnext, hnext + 1} PROVE HostSendersSame
  BY <1>1, <1>2 DEF HostSendersSame
<1>3. CASE UNCHANGED vhostVars
  BY <1>2, <1>3 DEF vhostVars
<1>4. CASE VhostWorker \/ HostDispatch
  BY <1>2, <1>4 DEF VhostWorker, HostDispatch, TxWork, TxGet, TxRecheck, TxRecv, TxUsed,
       RxWork, RxNext, RxRecheck, RxFill, RxFault, sendVars
<1>5. CASE HostRefused
  BY <1>2, <1>5 DEF HostRefused
<1>6. CASE DevOpen \/ ResetStop \/ VhostReset \/ Release \/ \E bad \in SUBSET Queues : Ioctl(bad)
  BY <1>2, <1>6 DEF DevOpen, ResetStop, VhostReset, ResetClose, ResetWait, ResetEnd, Release,
       Ioctl, sendVars
<1>7. CASE \E v \in Vchans : VAlloc(v) \/ VAck(v) \/ VDone(v) \/ VTimeout(v) \/ VClose(v)
  BY <1>2, <1>7 DEF VAlloc, VAck, VDone, VTimeout, VClose, sendVars
<1>8. QED
  BY <1>3, <1>4, <1>5, <1>6, <1>7 DEF Next, GuestFreeze, Reboot, VhostNext, vars

(***************************************************************************)
(* Every step of the transport keeps the invariant to the guest.           *)
(***************************************************************************)
LEMMA GuestInvStep ==
  ASSUME BufInv, GuestInv, [Next]_vars
  PROVE  GuestInv'
<1>1. PICK V : V = 1 .. hnext - 1
  OBVIOUS
<1>2. DOMAIN mem' = Bufs /\ (wk' = "rx_fill" => sendList' # << >>)
  BY MemIsOfBufs, FillHasMessage DEF GuestInv
<1>3. gcut' \in BOOLEAN
  BY GuestSteps DEF GuestInv, GuestKeeps, GuestFills, GuestRecvs, GuestDrops, GuestGets
<1>4. ASSUME HostSendersOK', DOMAIN hpc' = HostThreads, DOMAIN hmsg' = HostThreads,
             hnext' \in {hnext, hnext + 1},
             GuestRead' \in Seq(V), sendList' \in Seq(V), toGuest' \in Seq(V)
      PROVE  GuestInv'
  <2>1. hnext \in Nat \ {0} /\ hnext' \in Nat \ {0}
    BY <1>4 DEF GuestInv
  <2>2. /\ GuestRead' \in Seq(1 .. hnext' - 1) /\ sendList' \in Seq(1 .. hnext' - 1)
        /\ toGuest' \in Seq(1 .. hnext' - 1)
    BY <1>1, <1>4, <2>1, WiderSeqs
  <2>3. QED
    BY <1>2, <1>3, <1>4, <2>1, <2>2 DEF GuestInv
<1>5. ASSUME NEW t \in HostThreads, HostQueue(t), GuestGets(hmsg[t])
      PROVE  GuestInv'
  <2>1. /\ HostSendersOK' /\ hnext' = hnext /\ sendList' \in Seq(V)
        /\ DOMAIN hpc' = HostThreads /\ DOMAIN hmsg' = HostThreads
    BY <1>1, <1>5, HostQueueSenders
  <2>2. GuestRead' \in Seq(V) /\ toGuest' \in Seq(V)
    BY <1>1, <1>5 DEF GuestGets, GuestInv
  <2>3. QED
    BY <1>4, <2>1, <2>2
<1>6. CASE GuestKeeps \/ GuestFills \/ GuestRecvs \/ GuestDrops
  <2>1. /\ GuestRead' \in Seq(V) /\ sendList' \in Seq(V) /\ toGuest' \in Seq(V)
        /\ OnwardToGuest' \subseteq OnwardToGuest
    BY <1>1, <1>6, GuestMessagesKept
  <2>2. CASE \E t \in HostThreads : HostSend(t)
    <3>1. PICK t \in HostThreads : HostSend(t)
      BY <2>2
    <3>2. HostSendersOK'
      BY <2>1, <3>1, HostSendFresh
    <3>3. DOMAIN hpc' = HostThreads /\ DOMAIN hmsg' = HostThreads /\ hnext' = hnext + 1
      BY <3>1 DEF HostSend, GuestInv
    <3>4. QED
      BY <1>4, <2>1, <3>2, <3>3
  <2>3. CASE \E t \in HostThreads : HostQueue(t)
    <3>1. PICK t \in HostThreads : HostQueue(t)
      BY <2>3
    <3>2. UNCHANGED virtioVars
      <4>1. hpc' # hpc
        BY <3>1 DEF HostQueue, GuestInv
      <4>2. QED
        BY <4>1 DEF Next, GuestFreeze, Reboot, vars, vhostVars
    <3>3. GuestGets(hmsg[t])
      BY <3>1, <3>2, HostQueueToGuest
    <3>4. QED
      BY <1>5, <3>1, <3>3
  <2>4. CASE ~\E t \in HostThreads : HostSend(t) \/ HostQueue(t)
    <3>1. HostSendersSame
      BY <2>4, HostSendersElsewhere
    <3>2. HostSendersOK'
      BY <2>1, <3>1, HostSendersKeep
    <3>3. QED
      BY <1>4, <2>1, <3>1, <3>2 DEF HostSendersSame
  <2>5. QED
    BY <2>2, <2>3, <2>4
<1>7. QED
  BY <1>5, <1>6, GuestSteps

(***************************************************************************)
(* It holds at the start, when the channel is empty.                       *)
(***************************************************************************)
LEMMA GuestInit == Init => GuestInv /\ ToGuest!Init
<1>1. SUFFICES ASSUME Init PROVE GuestInv /\ ToGuest!Init
  OBVIOUS
<1>2. GuestBufs = << >>
  <2>1. used["rx"] = << >> /\ task # "recv"
    BY <1>1 DEF Init, VqInit, VirtioInit, Queues
  <2>2. GuestBufs = << >> \o << >>
    BY <2>1 DEF GuestBufs, GuestHand
  <2>3. << >> \o << >> = << >>
    OBVIOUS
  <2>4. QED
    BY <2>2, <2>3
<1>3. GuestRead = << >> /\ sendList = << >> /\ toGuest = << >> /\ gcut = FALSE /\ wk = "idle"
  BY <1>1, <1>2 DEF GuestRead, Of, Init, VirtioInit, VhostInit
<1>4. GuestInv
  <2>1. DOMAIN mem = Bufs /\ hnext = 1 /\ hpc = [t \in HostThreads |-> "idle"]
        /\ DOMAIN hmsg = HostThreads
    BY <1>1 DEF Init, VqInit, VhostInit
  <2>2. HostSendersOK
    BY <2>1 DEF HostSendersOK
  <2>3. << >> \in Seq(1 .. hnext - 1)
    OBVIOUS
  <2>4. gcut \in BOOLEAN
    BY <1>3
  <2>5. DOMAIN hpc = HostThreads /\ hnext \in Nat \ {0} /\ wk # "rx_fill"
    BY <1>3, <2>1
  <2>6. /\ GuestRead \in Seq(1 .. hnext - 1) /\ sendList \in Seq(1 .. hnext - 1)
        /\ toGuest \in Seq(1 .. hnext - 1)
    BY <1>3, <2>3
  <2>7. QED
    BY <2>1, <2>2, <2>4, <2>5, <2>6 DEF GuestInv
<1>5. ToGuest!Init
  <2>1. Contents((IF task = "recv" THEN <<hd>> ELSE << >>) \o used["rx"]) = << >>
    BY <1>3 DEF GuestRead, GuestBufs, GuestHand, Of, Contents
  <2>2. << >> \o << >> = << >>
    OBVIOUS
  <2>3. QED
    BY <1>3, <2>1, <2>2 DEF ToGuest!Init
<1>6. QED
  BY <1>4, <1>5

(***************************************************************************)
(* Every step of the transport is a step of the channel to the guest.      *)
(***************************************************************************)
LEMMA GuestChannelStep ==
  ASSUME BufInv, GuestInv, [Next]_vars
  PROVE  ChannelStep(HostMsgs, GuestQ, toGuest, gcut, GuestQ', toGuest', gcut')
<1>1. PICK V, q, s, g, c : /\ V = 1 .. hnext - 1 /\ q = GuestRead /\ s = sendList
                           /\ g = toGuest /\ c = q \o s
  OBVIOUS
<1>2. q \in Seq(V) /\ s \in Seq(V) /\ g \in Seq(V) /\ GuestQ = c
  BY <1>1 DEF GuestInv, GuestQ
<1>3. c \in Seq(V)
  BY <1>1, <1>2, ConcatIs
<1>4. CASE GuestKeeps
  <2>1. GuestQ' = GuestQ
    BY <1>4 DEF GuestKeeps, GuestQ
  <2>2. \E keep \in SUBSET DOMAIN c : c = SubseqAt(c, keep)
    BY <1>3, KeepAll
  <2>3. QED
    BY <1>2, <1>4, <2>1, <2>2 DEF GuestKeeps, ChannelStep
<1>5. CASE GuestFills
  <2>1. s # << >> /\ GuestQ' = Append(q, Head(s)) \o Tail(s)
    BY <1>1, <1>5 DEF GuestFills, GuestQ
  <2>2. Append(q, Head(s)) \o Tail(s) = q \o s
    BY <1>2, <2>1, QueueSeqs
  <2>3. QED
    BY <1>1, <1>2, <1>5, <2>1, <2>2 DEF GuestFills, ChannelStep
<1>6. CASE GuestRecvs
  <2>1. q # << >> /\ GuestQ' = Tail(q) \o s /\ toGuest' = Append(toGuest, Head(q))
    BY <1>1, <1>6 DEF GuestRecvs, GuestQ
  <2>2. q \o s # << >> /\ Head(q \o s) = Head(q) /\ Tail(q \o s) = Tail(q) \o s
    BY <1>2, <2>1, ConcatTail
  <2>3. QED
    BY <1>1, <1>2, <1>6, <2>1, <2>2 DEF GuestRecvs, ChannelStep
<1>7. CASE GuestDrops
  <2>1. PICK m \in Nat, l \in Nat : m <= l /\ l <= Len(q) /\ GuestRead' = Ends(q, m, l)
    BY <1>1, <1>7 DEF GuestDrops
  <2>2. GuestQ' = Ends(q, m, l) \o s
    BY <1>1, <1>7, <2>1 DEF GuestDrops, GuestQ
  <2>3. Ends(q, m, l) \o s = Ends(q \o s, m, l) /\ l <= Len(q \o s)
    BY <1>2, <2>1, ConcatEnds
  <2>4. l <= Len(c) /\ GuestQ' = Ends(c, m, l)
    BY <1>1, <2>2, <2>3
  <2>5. \E keep \in SUBSET DOMAIN c : SubseqAt(c, keep) = Ends(c, m, l)
    BY <1>3, <2>1, <2>4, KeepEnds
  <2>6. QED
    BY <1>2, <1>7, <2>4, <2>5 DEF GuestDrops, ChannelStep
<1>8. ASSUME NEW t \in HostThreads, HostQueue(t), GuestGets(hmsg[t])
      PROVE  ChannelStep(HostMsgs, GuestQ, toGuest, gcut, GuestQ', toGuest', gcut')
  <2>1. PICK m : m = hmsg[t]
    OBVIOUS
  <2>2. m \in HostMsgs /\ m \in V /\ m \notin ToSet(q) /\ m \notin ToSet(s) /\ m \notin ToSet(g)
    BY <1>1, <1>8, <2>1 DEF GuestInv, HostSendersOK, HostQueue
  <2>3. \A x : x \in ToSet(c) <=> x \in ToSet(q) \/ x \in ToSet(s)
    BY <1>1, <1>2, JoinApart
  <2>4. \A x : x \in ToSet(c \o g) <=> x \in ToSet(c) \/ x \in ToSet(g)
    BY <1>2, <1>3, JoinApart
  <2>5. m \notin ToSet(c \o g)
    BY <2>2, <2>3, <2>4
  <2>6. GuestQ' = q \o Append(s, m)
    BY <1>1, <1>8, <2>1 DEF GuestGets, GuestQ
  <2>7. q \o Append(s, m) = Append(q \o s, m)
    BY <1>2, <2>2, QueueSeqs
  <2>8. QED
    BY <1>1, <1>2, <1>8, <2>1, <2>2, <2>5, <2>6, <2>7 DEF GuestGets, ChannelStep
<1>9. QED
  BY <1>4, <1>5, <1>6, <1>7, <1>8, GuestSteps

(***************************************************************************)
(* And the channel is the one GuestGetsInOrder names.                      *)
(***************************************************************************)
LEMMA ToGuestChannel ==
  ASSUME ChannelStep(HostMsgs, GuestQ, toGuest, gcut, GuestQ', toGuest', gcut')
  PROVE  [ToGuest!Next]_ToGuest!vars
<1>1. GuestQ = Contents((IF task = "recv" THEN <<hd>> ELSE << >>) \o used["rx"]) \o sendList
  BY DEF GuestQ, GuestRead, GuestBufs, GuestHand, Of, Contents
<1>2. GuestQ' = (Contents((IF task = "recv" THEN <<hd>> ELSE << >>) \o used["rx"]) \o sendList)'
  BY DEF GuestQ, GuestRead, GuestBufs, GuestHand, Of, Contents
<1>3. /\ \A s : ToGuest!ToSet(s) = ToSet(s)
      /\ \A s, at : ToGuest!SubseqAt(s, at) = SubseqAt(s, at)
  <2>1. \A s, at : ToGuest!SubseqAt(s, at) = SubseqAt(s, at)
    BY DEF ToGuest!SubseqAt, SubseqAt, ToGuest!Cardinality, Cardinality
  <2>2. QED
    BY <2>1 DEF ToGuest!ToSet, ToSet
<1>4. QED
  BY <1>1, <1>2, <1>3
  DEF ChannelStep, ToGuest!Next, ToGuest!Send, ToGuest!Recv, ToGuest!Cut, ToGuest!vars

(***************************************************************************)
(* The rx path implements the channel HabChannel: messages are handed to   *)
(* hab_msg_recv of the guest in the order they entered the send list and   *)
(* each once, also those queued while the device is stopped or has no      *)
(* buffer, and are missing only after a suspend, a restart or a read of    *)
(* the statistics (physical_channel_send and rx_worker of hab_vhost.c,     *)
(* virthab_recv_rxq of hab_virtio.c).                                      *)
(***************************************************************************)
THEOREM GuestInOrder == Spec => GuestGetsInOrder
<1>1. Init => GuestInv /\ ToGuest!Init
  BY GuestInit
<1>2. BufInv /\ GuestInv /\ [Next]_vars => GuestInv'
  BY GuestInvStep
<1>3. BufInv /\ GuestInv /\ [Next]_vars => [ToGuest!Next]_ToGuest!vars
  BY GuestChannelStep, ToGuestChannel
<1>4. Spec => []BufInv
  BY BuffersKept
<1>5. QED
  BY <1>1, <1>2, <1>3, <1>4, PTL DEF Spec, GuestGetsInOrder, ToGuest!Spec
=============================================================================
