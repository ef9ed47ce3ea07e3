--------------------------- MODULE HabVchanProofs ----------------------------
(***************************************************************************)
(* Proofs about HabVchan, for any threads, messages, sizes of the wire and *)
(* faults: a vchan is not freed while somebody uses it, only one error     *)
(* path of hab_vchan_send keeps a reference, and two vchans implement      *)
(* HabSocket.                                                              *)
(***************************************************************************)
EXTENDS HabVchan, FiniteSetTheorems, SequenceTheorems, TLAPS

-----------------------------------------------------------------------------
(* Threads and ends *)

(***************************************************************************)
(* A thread belongs to its own end only.                                   *)
(***************************************************************************)
LEMMA ThreadEnd ==
  ASSUME NEW t \in Threads
  PROVE  /\ End(t) \in Ends
         /\ t \in Local(End(t))
         /\ \A e \in Ends : e # End(t) => t \notin Local(e)
BY VchanAssumption DEF Threads, End, Ends, Local

(***************************************************************************)
(* The threads in a call at an end are finitely many.                      *)
(***************************************************************************)
LEMMA InCallFinite ==
  ASSUME NEW e \in Ends
  PROVE  IsFiniteSet(InCall(e)) /\ Cardinality(InCall(e)) \in Nat
<1>1. IsFiniteSet(Local(e)) /\ InCall(e) \in SUBSET Local(e)
  BY VchanAssumption DEF Local, InCall
<1>2. IsFiniteSet(InCall(e))
  BY <1>1, FS_Subset
<1>3. QED
  BY <1>2, FS_CardinalityType

(***************************************************************************)
(* A thread enters a call, goes on in it, or leaves it.                    *)
(***************************************************************************)
LEMMA Enters ==
  ASSUME DOMAIN pc = Threads, NEW t \in Threads, NEW l, l # "idle", Goto(t, l),
         pc[t] = "idle"
  PROVE  \A e \in Ends : Cardinality(InCall(e)') =
           IF e = End(t) THEN Cardinality(InCall(e)) + 1 ELSE Cardinality(InCall(e))
<1> SUFFICES ASSUME NEW e \in Ends
             PROVE  Cardinality(InCall(e)') =
                      IF e = End(t) THEN Cardinality(InCall(e)) + 1
                                    ELSE Cardinality(InCall(e))
  OBVIOUS
<1>1. Local(e) \subseteq Threads
  BY DEF Local, Threads
<1>2. CASE e = End(t)
  <2>1. InCall(e)' = InCall(e) \cup {t} /\ t \notin InCall(e)
    BY <1>1, <1>2, ThreadEnd DEF InCall, Goto
  <2>2. QED
    BY <1>2, <2>1, InCallFinite, FS_AddElement
<1>3. CASE e # End(t)
  <2>1. InCall(e)' = InCall(e)
    BY <1>1, <1>3, ThreadEnd DEF InCall, Goto
  <2>2. QED
    BY <1>3, <2>1
<1>4. QED
  BY <1>2, <1>3

(***************************************************************************)
(* A thread that goes on in its call stays counted.                        *)
(***************************************************************************)
LEMMA GoesOn ==
  ASSUME DOMAIN pc = Threads, NEW t \in Threads, NEW l, l # "idle", Goto(t, l),
         pc[t] # "idle"
  PROVE  \A e \in Ends : InCall(e)' = InCall(e)
<1> SUFFICES ASSUME NEW e \in Ends PROVE InCall(e)' = InCall(e)
  OBVIOUS
<1>1. Local(e) \subseteq Threads
  BY DEF Local, Threads
<1>2. QED
  BY <1>1 DEF InCall, Goto

(***************************************************************************)
(* A thread that leaves its call is no longer counted.                     *)
(***************************************************************************)
LEMMA Leaves ==
  ASSUME DOMAIN pc = Threads, NEW t \in Threads, Goto(t, "idle"), pc[t] # "idle"
  PROVE  \A e \in Ends : Cardinality(InCall(e)') =
           IF e = End(t) THEN Cardinality(InCall(e)) - 1 ELSE Cardinality(InCall(e))
<1> SUFFICES ASSUME NEW e \in Ends
             PROVE  Cardinality(InCall(e)') =
                      IF e = End(t) THEN Cardinality(InCall(e)) - 1
                                    ELSE Cardinality(InCall(e))
  OBVIOUS
<1>1. Local(e) \subseteq Threads
  BY DEF Local, Threads
<1>2. CASE e = End(t)
  <2>1. InCall(e)' = InCall(e) \ {t} /\ t \in InCall(e)
    BY <1>1, <1>2, ThreadEnd DEF InCall, Goto
  <2>2. QED
    BY <1>2, <2>1, InCallFinite, FS_RemoveElement
<1>3. CASE e # End(t)
  <2>1. InCall(e)' = InCall(e)
    BY <1>1, <1>3, ThreadEnd DEF InCall, Goto
  <2>2. QED
    BY <1>3, <2>1
<1>4. QED
  BY <1>2, <1>3
-----------------------------------------------------------------------------
(* The invariant *)

(***************************************************************************)
(* A freed vchan has neither references nor messages.                      *)
(***************************************************************************)
FreedIsEmpty == \A e \in Ends : ~vc[e].idr => vc[e].ref = 0 /\ rx[e] = << >>

(***************************************************************************)
(* Every user holds a reference, and every reference has a user unless a   *)
(* special message was too small (hab_vchan_send, SendTooSmall).           *)
(***************************************************************************)
VchanInv ==
  /\ TypeOK /\ HeldWhileUsed
  /\ "badsize" \notin Faults => NoRefLeak

(***************************************************************************)
(* A step that moves the count of references with the number of users.     *)
(***************************************************************************)
RefsFollow ==
  \A e \in Ends : vc'[e].ref - vc[e].ref = Holders(e)' - Holders(e)

(***************************************************************************)
(* The number of users is a natural number.                                *)
(***************************************************************************)
LEMMA HoldersType == \A e \in Ends : Holders(e) \in Nat
BY InCallFinite DEF Holders

(***************************************************************************)
(* The same in the next state.                                             *)
(***************************************************************************)
LEMMA HoldersTypePrimed == \A e \in Ends : Holders(e)' \in Nat
<1>1. \A e \in Ends : Cardinality(InCall(e))' \in Nat
  <2> SUFFICES ASSUME NEW e \in Ends PROVE Cardinality(InCall(e))' \in Nat
    OBVIOUS
  <2>1. IsFiniteSet(Local(e)) /\ InCall(e)' \in SUBSET Local(e)
    BY VchanAssumption DEF Local, InCall
  <2>2. QED
    BY <2>1, FS_Subset, FS_CardinalityType
<1>2. QED
  BY <1>1 DEF Holders

(***************************************************************************)
(* A step that keeps the types, moves references with users and leaves a   *)
(* freed vchan empty keeps the invariant.                                  *)
(***************************************************************************)
LEMMA FollowKeeps ==
  ASSUME VchanInv, TypeOK', RefsFollow, FreedIsEmpty'
  PROVE  VchanInv'
<1>1. \A e \in Ends : /\ vc[e].ref \in Int /\ vc'[e].ref \in Int
                      /\ Holders(e) \in Nat /\ Holders(e)' \in Nat
  BY HoldersType, HoldersTypePrimed DEF VchanInv, TypeOK, Chan
<1>2. \A e \in Ends : Holders(e) <= vc[e].ref
  BY DEF VchanInv, HeldWhileUsed
<1>3. \A e \in Ends : Holders(e)' <= vc'[e].ref
  BY <1>1, <1>2 DEF RefsFollow
<1>4. HeldWhileUsed'
  BY <1>3 DEF HeldWhileUsed, FreedIsEmpty
<1>5. ASSUME "badsize" \notin Faults PROVE NoRefLeak'
  <2>1. \A e \in Ends : vc[e].ref <= Holders(e)
    BY <1>5 DEF VchanInv, NoRefLeak
  <2>2. QED
    BY <1>1, <2>1 DEF RefsFollow, NoRefLeak
<1>6. QED
  BY <1>4, <1>5 DEF VchanInv

(***************************************************************************)
(* Two paired vchans that nobody uses yet.                                 *)
(***************************************************************************)
LEMMA VchanInit == Init => VchanInv
<1> SUFFICES ASSUME Init PROVE VchanInv
  OBVIOUS
<1>1. TypeOK
  <2>1. vc \in [Ends -> Chan]
    BY DEF Init, Chan
  <2>2. << >> \in Seq(Messages) /\ << >> \in Seq(Items)
    OBVIOUS
  <2>3. QED
    BY <2>1, <2>2, VchanAssumption DEF Init, TypeOK
<1>2. \A e \in Ends : InCall(e) = {}
  BY DEF Init, InCall, Local, Threads
<1>3. \A e \in Ends : Holders(e) = 1
  <2>1. \A e \in Ends : Cardinality(InCall(e)) = 0
    BY <1>2, FS_EmptySet
  <2>2. \A e \in Ends : ~vc[e].closed /\ path[e] = << >>
    BY DEF Init
  <2>3. QED
    BY <2>1, <2>2 DEF Holders
<1>4. QED
  BY <1>1, <1>3 DEF Init, VchanInv, HeldWhileUsed, NoRefLeak
-----------------------------------------------------------------------------
(* The calls of the application *)

(***************************************************************************)
(* What the lookup of a call does to the vchan.                            *)
(***************************************************************************)
LEMMA GetStep ==
  ASSUME VchanInv, NEW d \in Ends, Get(d)
  PROVE  /\ vc' \in [Ends -> Chan]
         /\ \A e \in Ends : /\ vc'[e].ref = IF e = d THEN vc[e].ref + 1 ELSE vc[e].ref
                            /\ vc'[e].closed = vc[e].closed
                            /\ vc'[e].dead = vc[e].dead
                            /\ vc'[e].idr = vc[e].idr
         /\ vc[d].idr
<1>1. vc \in [Ends -> Chan]
  BY DEF VchanInv, TypeOK
<1>2. vc[d] \in Chan /\ vc[d].ref + 1 \in Int
  BY <1>1 DEF Chan
<1>3. vc[d].idr
  BY <1>2 DEF Get, VchanInv, HeldWhileUsed, Chan
<1>4. QED
  BY <1>1, <1>2, <1>3 DEF Get, Chan

(***************************************************************************)
(* What hab_vchan_put does to it.                                          *)
(***************************************************************************)
LEMMA PutStep ==
  ASSUME VchanInv, NEW d \in Ends, Put(d), Holders(d) > 0
  PROVE  /\ vc' \in [Ends -> Chan]
         /\ \A e \in Ends : /\ vc'[e].ref = IF e = d THEN vc[e].ref - 1 ELSE vc[e].ref
                            /\ vc'[e].closed = vc[e].closed
                            /\ vc'[e].dead = vc[e].dead
                            /\ vc'[e].idr = vc[e].idr
         /\ vc[d].idr
<1>1. vc \in [Ends -> Chan]
  BY DEF VchanInv, TypeOK
<1>2. vc[d] \in Chan /\ vc[d].ref \in Int /\ vc[d].ref - 1 \in Int
  BY <1>1 DEF Chan
<1>3. vc[d].idr
  <2>1. Holders(d) <= vc[d].ref /\ (~vc[d].idr => vc[d].ref = 0)
    BY DEF VchanInv, HeldWhileUsed
  <2>2. QED
    BY <1>2, <2>1, HoldersType
<1>4. QED
  BY <1>1, <1>2, <1>3 DEF Put, Chan

(***************************************************************************)
(* A thread in a call is a user.                                           *)
(***************************************************************************)
LEMMA CallerHolds ==
  ASSUME TypeOK, NEW t \in Threads, pc[t] # "idle"
  PROVE  Holders(End(t)) > 0
<1>1. t \in InCall(End(t))
  BY ThreadEnd DEF InCall
<1>2. Cardinality(InCall(End(t))) # 0
  BY <1>1, ThreadEnd, InCallFinite, FS_EmptySet
<1>3. QED
  BY <1>2, ThreadEnd, InCallFinite DEF Holders

(***************************************************************************)
(* A busy receive path is a user.                                          *)
(***************************************************************************)
LEMMA PathHolds ==
  ASSUME NEW e \in Ends, path[e] # << >>
  PROVE  Holders(e) > 0
BY InCallFinite DEF Holders

(***************************************************************************)
(* The users change with the threads in a call when a step leaves the      *)
(* receive path and "closed" alone.                                        *)
(***************************************************************************)
LEMMA OnlyCalls ==
  ASSUME path' = path, NEW e \in Ends, vc'[e].closed = vc[e].closed,
         NEW n \in Int, Cardinality(InCall(e)') = Cardinality(InCall(e)) + n
  PROVE  Holders(e)' - Holders(e) = n
<1>1. Cardinality(InCall(e)) \in Nat
  BY InCallFinite
<1>2. QED
  BY <1>1 DEF Holders
(***************************************************************************)
(* A call begins with a lookup: SendBegin and RecvBegin.                   *)
(***************************************************************************)
LEMMA BeginStep ==
  ASSUME VchanInv, NEW t \in Threads,
         NEW l \in {"send", "wait", "dequeue"}, pc[t] = "idle",
         Get(End(t)), Goto(t, l), UNCHANGED <<rx, wire, path, sent, hup, eof>>
  PROVE  VchanInv'
<1>1. /\ vc' \in [Ends -> Chan]
      /\ \A e \in Ends : /\ vc'[e].ref = IF e = End(t) THEN vc[e].ref + 1 ELSE vc[e].ref
                         /\ vc'[e].closed = vc[e].closed
                         /\ vc'[e].idr = vc[e].idr
      /\ vc[End(t)].idr
  BY GetStep, ThreadEnd
<1>2. TypeOK'
  BY <1>1 DEF VchanInv, TypeOK, Goto
<1>3. \A e \in Ends : Cardinality(InCall(e)') =
           IF e = End(t) THEN Cardinality(InCall(e)) + 1 ELSE Cardinality(InCall(e))
  BY Enters DEF VchanInv, TypeOK
<1>4. RefsFollow
  <2> SUFFICES ASSUME NEW e \in Ends
               PROVE  vc'[e].ref - vc[e].ref = Holders(e)' - Holders(e)
    BY DEF RefsFollow
  <2>1. vc[e].ref \in Int /\ Cardinality(InCall(e)) \in Nat
    BY InCallFinite DEF VchanInv, TypeOK, Chan
  <2>2. CASE e = End(t)
    <3>1. Holders(e)' - Holders(e) = 1
      BY <1>1, <1>3, <2>1, <2>2, OnlyCalls
    <3>2. QED
      BY <1>1, <2>1, <2>2, <3>1
  <2>3. CASE e # End(t)
    <3>1. Holders(e)' - Holders(e) = 0
      BY <1>1, <1>3, <2>1, <2>3, OnlyCalls
    <3>2. QED
      BY <1>1, <2>1, <2>3, <3>1
  <2>4. QED
    BY <2>2, <2>3
<1>5. FreedIsEmpty'
  BY <1>1, ThreadEnd DEF FreedIsEmpty, VchanInv, HeldWhileUsed
<1>6. QED
  BY <1>2, <1>4, <1>5, FollowKeeps

(***************************************************************************)
(* A call goes on without a change of references: WaitEnds,                *)
(* WaitInterrupted and CloseNotify.                                        *)
(***************************************************************************)
LEMMA GoOnStep ==
  ASSUME VchanInv, NEW t \in Threads,
         NEW l \in {"dequeue", "stop"}, pc[t] # "idle",
         Goto(t, l), wire' \in [Ends -> Seq(Items)], hup' \in [Ends -> BOOLEAN],
         UNCHANGED <<vc, rx, path, sent, eof>>
  PROVE  VchanInv'
<1>1. TypeOK'
  BY DEF VchanInv, TypeOK, Goto
<1>2. \A e \in Ends : InCall(e)' = InCall(e)
  BY GoesOn DEF VchanInv, TypeOK
<1>3. \A e \in Ends : Holders(e)' = Holders(e) /\ vc'[e].ref = vc[e].ref
  BY <1>2 DEF Holders
<1>4. RefsFollow
  BY <1>3, HoldersType DEF RefsFollow, VchanInv, TypeOK, Chan
<1>5. FreedIsEmpty'
  BY DEF FreedIsEmpty, VchanInv, HeldWhileUsed
<1>6. QED
  BY <1>1, <1>4, <1>5, FollowKeeps

(***************************************************************************)
(* A call ends with hab_vchan_put: SendMsg, SendFail, Dequeue, CloseStop.  *)
(***************************************************************************)
LEMMA EndStep ==
  ASSUME VchanInv, NEW t \in Threads, pc[t] # "idle",
         vc' \in [Ends -> Chan],
         \A e \in Ends : /\ vc'[e].ref = IF e = End(t) THEN vc[e].ref - 1 ELSE vc[e].ref
                         /\ vc'[e].closed = vc[e].closed
                         /\ vc'[e].idr = vc[e].idr,
         Goto(t, "idle"), path' = path,
         rx' \in [Ends -> Seq(Messages)], wire' \in [Ends -> Seq(Items)],
         sent' \in [Ends -> 0 .. MaxSends], eof' \in [Ends -> BOOLEAN], hup' = hup,
         \A e \in Ends : rx[e] = << >> => rx'[e] = << >>
  PROVE  VchanInv'
<1>1. TypeOK'
  BY DEF VchanInv, TypeOK, Goto
<1>2. \A e \in Ends : Cardinality(InCall(e)') =
           IF e = End(t) THEN Cardinality(InCall(e)) - 1 ELSE Cardinality(InCall(e))
  BY Leaves DEF VchanInv, TypeOK
<1>3. RefsFollow
  <2> SUFFICES ASSUME NEW e \in Ends
               PROVE  vc'[e].ref - vc[e].ref = Holders(e)' - Holders(e)
    BY DEF RefsFollow
  <2>1. vc[e].ref \in Int /\ Cardinality(InCall(e)) \in Nat
    BY InCallFinite DEF VchanInv, TypeOK, Chan
  <2>2. CASE e = End(t)
    <3>0. Cardinality(InCall(e)') = Cardinality(InCall(e)) + (-1)
      BY <1>2, <2>1, <2>2
    <3>1. Holders(e)' - Holders(e) = -1
      BY <3>0, OnlyCalls
    <3>2. QED
      BY <2>1, <2>2, <3>1
  <2>3. CASE e # End(t)
    <3>1. Holders(e)' - Holders(e) = 0
      BY <1>2, <2>1, <2>3, OnlyCalls
    <3>2. QED
      BY <2>1, <2>3, <3>1
  <2>4. QED
    BY <2>2, <2>3
<1>4. FreedIsEmpty'
  <2>1. vc[End(t)].idr
    <3>1. Holders(End(t)) > 0 /\ Holders(End(t)) \in Nat
      BY CallerHolds, HoldersType, ThreadEnd DEF VchanInv
    <3>2. /\ Holders(End(t)) <= vc[End(t)].ref
          /\ ~vc[End(t)].idr => vc[End(t)].ref = 0
      BY ThreadEnd DEF VchanInv, HeldWhileUsed
    <3>3. QED
      BY <3>1, <3>2
  <2>2. QED
    BY <2>1, ThreadEnd DEF FreedIsEmpty, VchanInv, HeldWhileUsed
<1>5. QED
  BY <1>1, <1>3, <1>4, FollowKeeps
(***************************************************************************)
(* hab_vchan_send takes the vchan, sends or fails, and puts it.            *)
(***************************************************************************)
LEMMA SendStep ==
  ASSUME VchanInv, NEW t \in Threads, SendBegin(t) \/ SendMsg(t) \/ SendFail(t)
  PROVE  VchanInv'
<1>1. CASE SendBegin(t)
  BY <1>1, BeginStep DEF SendBegin
<1> DEFINE e == End(t)
<1>2. e \in Ends /\ Peer(e) \in Ends
  BY ThreadEnd DEF Ends, Peer
<1> HIDE DEF e
<1>3. CASE SendMsg(t)
  <2>1. /\ pc[t] # "idle" /\ Goto(t, "idle") /\ CanSend /\ Put(e)
        /\ sent' = [sent EXCEPT ![e] = @ + 1]
        /\ wire' = [wire EXCEPT ![Peer(e)] = Append(@, sent'[e])]
        /\ UNCHANGED <<rx, path, hup, eof>>
    BY <1>3 DEF SendMsg, e
  <2>2. sent' \in [Ends -> 0 .. MaxSends] /\ sent'[e] \in Messages
    <3>1. /\ sent["a"] \in Nat /\ sent["b"] \in Nat /\ sent["a"] + sent["b"] < MaxSends
          /\ e = "a" \/ e = "b"
      BY <1>2, <2>1, VchanAssumption DEF VchanInv, TypeOK, Ends, CanSend
    <3>2. /\ sent[e] \in Nat
          /\ sent[e] + 1 \in 1 .. MaxSends /\ sent[e] + 1 \in 0 .. MaxSends
      BY <3>1, VchanAssumption
    <3>3. sent'[e] = sent[e] + 1
      BY <1>2, <2>1 DEF VchanInv, TypeOK
    <3>4. QED
      BY <2>1, <3>2, <3>3 DEF VchanInv, TypeOK, Messages
  <2>3. wire' \in [Ends -> Seq(Items)]
    BY <1>2, <2>1, <2>2 DEF VchanInv, TypeOK, Items
  <2>4. Holders(e) > 0
    BY <2>1, CallerHolds DEF VchanInv, e
  <2>5. /\ vc' \in [Ends -> Chan]
        /\ \A d \in Ends : /\ vc'[d].ref = IF d = e THEN vc[d].ref - 1 ELSE vc[d].ref
                           /\ vc'[d].closed = vc[d].closed
                           /\ vc'[d].idr = vc[d].idr
    BY <1>2, <2>1, <2>4, PutStep
  <2>6. QED
    BY <2>1, <2>2, <2>3, <2>5, EndStep DEF VchanInv, TypeOK, e
<1>4. CASE SendFail(t)
  <2>1. /\ pc[t] # "idle" /\ Goto(t, "idle") /\ Put(e)
        /\ UNCHANGED <<rx, wire, path, sent, hup, eof>>
    BY <1>4 DEF SendFail, e
  <2>2. Holders(e) > 0
    BY <2>1, CallerHolds DEF VchanInv, e
  <2>3. /\ vc' \in [Ends -> Chan]
        /\ \A d \in Ends : /\ vc'[d].ref = IF d = e THEN vc[d].ref - 1 ELSE vc[d].ref
                           /\ vc'[d].closed = vc[d].closed
                           /\ vc'[d].idr = vc[d].idr
    BY <1>2, <2>1, <2>2, PutStep
  <2>4. QED
    BY <2>1, <2>3, EndStep DEF VchanInv, TypeOK, e
<1>5. QED
  BY <1>1, <1>3, <1>4

(***************************************************************************)
(* A special message that is too small: the thread leaves and its          *)
(* reference stays, so the count is only more than enough.                 *)
(***************************************************************************)
LEMMA SendTooSmallStep ==
  ASSUME VchanInv, NEW t \in Threads, SendTooSmall(t)
  PROVE  VchanInv'
<1>1. TypeOK'
  BY DEF SendTooSmall, Goto, VchanInv, TypeOK
<1>2. \A e \in Ends : Cardinality(InCall(e)') =
           IF e = End(t) THEN Cardinality(InCall(e)) - 1 ELSE Cardinality(InCall(e))
  BY Leaves DEF VchanInv, TypeOK, SendTooSmall
<1>3. \A e \in Ends : Holders(e)' <= Holders(e)
  <2> SUFFICES ASSUME NEW e \in Ends PROVE Holders(e)' <= Holders(e)
    OBVIOUS
  <2>1. vc' = vc /\ path' = path /\ Cardinality(InCall(e)) \in Nat
    BY InCallFinite DEF SendTooSmall
  <2>2. QED
    BY <1>2, <2>1 DEF Holders
<1>4. HeldWhileUsed'
  <2>1. \A e \in Ends : /\ Holders(e) \in Nat /\ Holders(e)' \in Nat /\ vc[e].ref \in Int
                        /\ Holders(e) <= vc[e].ref
    BY HoldersType, HoldersTypePrimed DEF VchanInv, TypeOK, Chan, HeldWhileUsed
  <2>2. vc' = vc /\ rx' = rx
    BY DEF SendTooSmall
  <2>3. QED
    BY <1>3, <2>1, <2>2 DEF VchanInv, HeldWhileUsed
<1>5. QED
  BY <1>1, <1>4 DEF VchanInv, SendTooSmall

(***************************************************************************)
(* hab_vchan_recv takes the vchan, waits, dequeues and puts it.            *)
(***************************************************************************)
LEMMA RecvStep ==
  ASSUME VchanInv, NEW t \in Threads,
         RecvBegin(t) \/ WaitEnds(t) \/ WaitInterrupted(t) \/ Dequeue(t)
  PROVE  VchanInv'
<1>1. CASE RecvBegin(t)
  BY <1>1, BeginStep DEF RecvBegin
<1>2. CASE WaitEnds(t) \/ WaitInterrupted(t)
  BY <1>2, GoOnStep DEF WaitEnds, WaitInterrupted, VchanInv, TypeOK
<1> DEFINE e == End(t)
<1>3. e \in Ends
  BY ThreadEnd
<1> HIDE DEF e
<1>4. CASE Dequeue(t)
  <2>1. /\ pc[t] # "idle" /\ Goto(t, "idle") /\ Put(e)
        /\ UNCHANGED <<wire, path, sent, hup>>
    BY <1>4 DEF Dequeue, e
  <2>2. /\ rx' \in [Ends -> Seq(Messages)]
        /\ \A d \in Ends : rx[d] = << >> => rx'[d] = << >>
    <3>1. rx \in [Ends -> Seq(Messages)]
      BY DEF VchanInv, TypeOK
    <3>2. rx[e] # << >> => Tail(rx[e]) \in Seq(Messages)
      BY <1>3, <3>1
    <3>3. rx' = rx \/ (rx[e] # << >> /\ rx' = [rx EXCEPT ![e] = Tail(@)])
      BY <1>4 DEF Dequeue, e
    <3>4. QED
      BY <1>3, <3>1, <3>2, <3>3
  <2>3. eof' \in [Ends -> BOOLEAN]
    <3>1. eof' = eof \/ eof' = [eof EXCEPT ![e] = @ \/ (vc[e].dead /\ ~vc[e].closed)]
      BY <1>4 DEF Dequeue, e
    <3>2. (eof[e] \/ (vc[e].dead /\ ~vc[e].closed)) \in BOOLEAN
      BY <1>3 DEF VchanInv, TypeOK, Chan
    <3>3. QED
      BY <3>1, <3>2 DEF VchanInv, TypeOK
  <2>4. Holders(e) > 0
    BY <2>1, CallerHolds DEF VchanInv, e
  <2>5. /\ vc' \in [Ends -> Chan]
        /\ \A d \in Ends : /\ vc'[d].ref = IF d = e THEN vc[d].ref - 1 ELSE vc[d].ref
                           /\ vc'[d].closed = vc[d].closed
                           /\ vc'[d].idr = vc[d].idr
    BY <1>3, <2>1, <2>4, PutStep
  <2>6. QED
    BY <2>1, <2>2, <2>3, <2>5, EndStep DEF VchanInv, TypeOK, e
<1>5. QED
  BY <1>1, <1>2, <1>4

(***************************************************************************)
(* hab_vchan_close: the thread takes over the reference of the ctx list,   *)
(* tells the other end and puts that reference.                            *)
(***************************************************************************)
LEMMA CloseStep ==
  ASSUME VchanInv, NEW t \in Threads, CloseBegin(t) \/ CloseNotify(t) \/ CloseStop(t)
  PROVE  VchanInv'
<1> DEFINE e == End(t)
<1>1. e \in Ends /\ Peer(e) \in Ends
  BY ThreadEnd DEF Ends, Peer
<1>2. vc \in [Ends -> Chan] /\ vc[e] \in Chan /\ vc[e].ref \in Int
  BY <1>1 DEF VchanInv, TypeOK, Chan
<1> HIDE DEF e
<1>3. CASE CloseBegin(t)
  <2>1. /\ pc[t] = "idle" /\ Goto(t, "notify") /\ ~vc[e].closed
        /\ vc' = [vc EXCEPT ![e].closed = TRUE]
        /\ UNCHANGED <<rx, wire, path, sent, hup, eof>>
    BY <1>3 DEF CloseBegin, e
  <2>2. /\ vc' \in [Ends -> Chan]
        /\ \A d \in Ends : /\ vc'[d].ref = vc[d].ref /\ vc'[d].idr = vc[d].idr
                           /\ vc'[d].closed = IF d = e THEN TRUE ELSE vc[d].closed
    BY <1>1, <1>2, <2>1 DEF Chan
  <2>3. TypeOK'
    BY <2>1, <2>2 DEF VchanInv, TypeOK, Goto
  <2>4. \A d \in Ends : Cardinality(InCall(d)') =
           IF d = e THEN Cardinality(InCall(d)) + 1 ELSE Cardinality(InCall(d))
    BY <2>1, Enters DEF VchanInv, TypeOK, e
  <2>5. \A d \in Ends : Holders(d)' = Holders(d)
    <3> SUFFICES ASSUME NEW d \in Ends PROVE Holders(d)' = Holders(d)
      OBVIOUS
    <3>1. Cardinality(InCall(d)) \in Nat /\ path' = path
      BY <2>1, InCallFinite
    <3>2. QED
      BY <2>1, <2>2, <2>4, <3>1 DEF Holders
  <2>6. RefsFollow
    <3> SUFFICES ASSUME NEW d \in Ends
                 PROVE  vc'[d].ref - vc[d].ref = Holders(d)' - Holders(d)
      BY DEF RefsFollow
    <3>1. vc[d].ref \in Int /\ Holders(d) \in Nat
      BY HoldersType DEF VchanInv, TypeOK, Chan
    <3>2. vc'[d].ref = vc[d].ref /\ Holders(d)' = Holders(d)
      BY <2>2, <2>5
    <3>3. QED
      BY <3>1, <3>2
  <2>7. FreedIsEmpty'
    BY <2>1, <2>2 DEF FreedIsEmpty, VchanInv, HeldWhileUsed
  <2>8. QED
    BY <2>3, <2>6, <2>7, FollowKeeps
<1>4. CASE CloseNotify(t)
  <2>1. CLOSE \in Items
    BY DEF Items
  <2>2. wire' \in [Ends -> Seq(Items)] /\ hup' \in [Ends -> BOOLEAN]
    <3>1. wire \in [Ends -> Seq(Items)] /\ hup \in [Ends -> BOOLEAN]
      BY DEF VchanInv, TypeOK
    <3>2. Append(wire[Peer(e)], CLOSE) \in Seq(Items)
      BY <1>1, <2>1, <3>1
    <3>3. /\ wire' = wire \/ wire' = [wire EXCEPT ![Peer(e)] = Append(@, CLOSE)]
          /\ hup' = hup \/ hup' = [hup EXCEPT ![e] = TRUE]
      BY <1>4 DEF CloseNotify, e
    <3>4. QED
      BY <3>1, <3>2, <3>3
  <2>3. QED
    BY <1>4, <2>2, GoOnStep DEF CloseNotify
<1>5. CASE CloseStop(t)
  <2>1. /\ pc[t] # "idle" /\ Goto(t, "idle")
        /\ vc' = [vc EXCEPT ![e].dead = TRUE, ![e].ref = @ - 1]
        /\ UNCHANGED <<rx, wire, path, sent, hup, eof>>
    BY <1>5 DEF CloseStop, e
  <2>2. /\ vc' \in [Ends -> Chan]
        /\ \A d \in Ends : /\ vc'[d].ref = IF d = e THEN vc[d].ref - 1 ELSE vc[d].ref
                           /\ vc'[d].closed = vc[d].closed
                           /\ vc'[d].idr = vc[d].idr
    <3>1. vc[e].ref - 1 \in Int
      BY <1>2
    <3>2. QED
      BY <1>1, <1>2, <2>1, <3>1 DEF Chan
  <2>3. QED
    BY <2>1, <2>2, EndStep DEF VchanInv, TypeOK, e
<1>6. QED
  BY <1>3, <1>4, <1>5
-----------------------------------------------------------------------------
(* The receive path and the end of a vchan *)

(***************************************************************************)
(* The users change with the receive path when a step leaves the calls and *)
(* "closed" alone.                                                         *)
(***************************************************************************)
LEMMA OnlyPath ==
  ASSUME TypeOK, NEW e \in Ends, NEW p, path' = [path EXCEPT ![e] = p], pc' = pc,
         \A d \in Ends : vc'[d].closed = vc[d].closed
  PROVE  \A d \in Ends :
           Holders(d)' = IF d # e THEN Holders(d)
                         ELSE Holders(d) + (IF p = << >> THEN 0 ELSE 1)
                                         - (IF path[e] = << >> THEN 0 ELSE 1)
<1> SUFFICES ASSUME NEW d \in Ends
             PROVE  Holders(d)' = IF d # e THEN Holders(d)
                                  ELSE Holders(d) + (IF p = << >> THEN 0 ELSE 1)
                                                  - (IF path[e] = << >> THEN 0 ELSE 1)
  OBVIOUS
<1>1. InCall(d)' = InCall(d) /\ Cardinality(InCall(d)) \in Nat
  BY InCallFinite DEF InCall
<1>2. path'[d] = IF d = e THEN p ELSE path[d]
  BY DEF TypeOK
<1>3. vc'[d].closed = vc[d].closed
  OBVIOUS
<1>4. QED
  BY <1>1, <1>2, <1>3 DEF Holders

(***************************************************************************)
(* The receive path finds the vchan (RxGet), drops the message (RxNoVchan) *)
(* or goes on with it (RxCheck while the other end is open).               *)
(***************************************************************************)
LEMMA RxBeginStep ==
  ASSUME VchanInv, NEW e \in Ends, RxGet(e) \/ RxNoVchan(e)
  PROVE  VchanInv'
<1>1. /\ wire \in [Ends -> Seq(Items)] /\ vc \in [Ends -> Chan]
      /\ vc[e] \in Chan /\ vc[e].ref \in Int
      /\ \A d \in Ends : vc[d].ref \in Int /\ Holders(d) \in Nat /\ Holders(d)' \in Nat
  BY HoldersType, HoldersTypePrimed DEF VchanInv, TypeOK, Chan
<1>2. wire[e] # << >>
  BY DEF RxGet, RxNoVchan
<1>3. Head(wire[e]) \in Items /\ Tail(wire[e]) \in Seq(Items)
  BY <1>1, <1>2
<1>4. wire' \in [Ends -> Seq(Items)]
  BY <1>1, <1>3 DEF RxGet, RxNoVchan
<1>5. CASE RxGet(e)
  <2>1. /\ vc' = [vc EXCEPT ![e].ref = @ + 1] /\ path[e] = << >>
        /\ path' = [path EXCEPT ![e] = <<"got", Head(wire[e])>>]
        /\ vc[e].idr
        /\ UNCHANGED <<rx, pc, sent, hup, eof>>
    BY <1>5 DEF RxGet, Gettable
  <2>2. /\ vc' \in [Ends -> Chan]
        /\ \A d \in Ends : /\ vc'[d].ref = IF d = e THEN vc[d].ref + 1 ELSE vc[d].ref
                           /\ vc'[d].closed = vc[d].closed
                           /\ vc'[d].idr = vc[d].idr
    <3>1. vc[e].ref + 1 \in Int
      BY <1>1
    <3>2. QED
      BY <1>1, <2>1, <3>1 DEF Chan
  <2>3. TypeOK'
    BY <1>3, <1>4, <2>1, <2>2 DEF VchanInv, TypeOK
  <2>4. <<"got", Head(wire[e])>> # << >>
    OBVIOUS
  <2>5. /\ TypeOK /\ pc' = pc /\ path[e] = << >>
        /\ \A d \in Ends : vc'[d].closed = vc[d].closed
    BY <2>1, <2>2 DEF VchanInv
  <2>6. RefsFollow
    <3> SUFFICES ASSUME NEW d \in Ends
                 PROVE  vc'[d].ref - vc[d].ref = Holders(d)' - Holders(d)
      BY DEF RefsFollow
    <3>1. vc[d].ref \in Int /\ Holders(d) \in Nat
      BY <1>1
    <3>2. PICK p : p # << >> /\ path' = [path EXCEPT ![e] = p]
      BY <2>1, <2>4
    <3>3. Holders(d)' = IF d # e THEN Holders(d) ELSE Holders(d) + 1 - 0
      BY <2>5, <3>2, OnlyPath
    <3>4. vc'[d].ref = IF d = e THEN vc[d].ref + 1 ELSE vc[d].ref
      BY <2>2
    <3>5. QED
      BY <3>1, <3>3, <3>4
  <2>7. FreedIsEmpty'
    BY <2>1, <2>2 DEF FreedIsEmpty, VchanInv, HeldWhileUsed
  <2>8. QED
    BY <2>3, <2>6, <2>7, FollowKeeps
<1>6. CASE RxNoVchan(e)
  <2>1. UNCHANGED <<vc, rx, path, pc, sent, hup, eof>>
    BY <1>6 DEF RxNoVchan
  <2>2. TypeOK'
    BY <1>4, <2>1 DEF VchanInv, TypeOK
  <2>3. \A d \in Ends : Holders(d)' = Holders(d)
    BY <2>1 DEF Holders, InCall
  <2>4. RefsFollow
    BY <1>1, <2>1, <2>3 DEF RefsFollow
  <2>5. FreedIsEmpty'
    BY <2>1 DEF FreedIsEmpty, VchanInv, HeldWhileUsed
  <2>6. QED
    BY <2>2, <2>4, <2>5, FollowKeeps
<1>7. QED
  BY <1>5, <1>6

(***************************************************************************)
(* The receive path is done with the vchan and puts it: RxCheck when the   *)
(* other end has closed, RxMsg, RxMsgLost and RxClose.                     *)
(***************************************************************************)
LEMMA RxPutStep ==
  ASSUME VchanInv, NEW e \in Ends, path[e] # << >>, PathDone(e),
         vc' \in [Ends -> Chan],
         \A d \in Ends : /\ vc'[d].ref = IF d = e THEN vc[d].ref - 1 ELSE vc[d].ref
                         /\ vc'[d].closed = vc[d].closed
                         /\ vc'[d].idr = vc[d].idr,
         rx' \in [Ends -> Seq(Messages)], \A d \in Ends : d # e => rx'[d] = rx[d],
         UNCHANGED <<wire, pc, sent, hup, eof>>
  PROVE  VchanInv'
<1>1. \A d \in Ends : vc[d].ref \in Int /\ Holders(d) \in Nat /\ Holders(d)' \in Nat
  BY HoldersType, HoldersTypePrimed DEF VchanInv, TypeOK, Chan
<1>2. TypeOK'
  BY DEF VchanInv, TypeOK, PathDone
<1>3. TypeOK /\ path' = [path EXCEPT ![e] = << >>] /\ pc' = pc
  BY DEF VchanInv, PathDone
<1>4. RefsFollow
  <2> SUFFICES ASSUME NEW d \in Ends
               PROVE  vc'[d].ref - vc[d].ref = Holders(d)' - Holders(d)
    BY DEF RefsFollow
  <2>1. vc[d].ref \in Int /\ Holders(d) \in Nat
    BY <1>1
  <2>2. Holders(d)' = IF d # e THEN Holders(d) ELSE Holders(d) + 0 - 1
    BY <1>3, OnlyPath
  <2>3. vc'[d].ref = IF d = e THEN vc[d].ref - 1 ELSE vc[d].ref
    OBVIOUS
  <2>4. QED
    BY <2>1, <2>2, <2>3
<1>5. vc[e].idr
  <2>1. Holders(e) > 0 /\ Holders(e) <= vc[e].ref /\ (~vc[e].idr => vc[e].ref = 0)
    BY PathHolds DEF VchanInv, HeldWhileUsed
  <2>2. QED
    BY <1>1, <2>1
<1>6. FreedIsEmpty'
  BY <1>5 DEF FreedIsEmpty, VchanInv, HeldWhileUsed
<1>7. QED
  BY <1>2, <1>4, <1>6, FollowKeeps

(***************************************************************************)
(* The rest of hab_msg_recv.                                               *)
(***************************************************************************)
LEMMA RxEndStep ==
  ASSUME VchanInv, NEW e \in Ends,
         RxCheck(e) \/ RxMsg(e) \/ RxMsgLost(e) \/ RxClose(e)
  PROVE  VchanInv'
<1>1. /\ vc \in [Ends -> Chan] /\ vc[e] \in Chan /\ vc[e].ref \in Int
      /\ rx \in [Ends -> Seq(Messages)]
      /\ path \in [Ends -> {<< >>} \cup ({"got", "handle"} \X Items)]
      /\ path[e] # << >>
  BY DEF VchanInv, TypeOK, Chan, RxCheck, RxMsg, RxMsgLost, RxClose, Handling
<1>2. Holders(e) > 0
  BY <1>1, PathHolds
<1>3. ASSUME Put(e)
      PROVE  /\ vc' \in [Ends -> Chan]
             /\ \A d \in Ends : /\ vc'[d].ref = IF d = e THEN vc[d].ref - 1 ELSE vc[d].ref
                                /\ vc'[d].closed = vc[d].closed
                                /\ vc'[d].idr = vc[d].idr
  BY <1>2, <1>3, PutStep
<1>4. path[e] \in {"got", "handle"} \X Items /\ path[e][2] \in Items
  BY <1>1
<1>5. CASE RxCheck(e) /\ vc[e].dead
  <2>1. Put(e) /\ PathDone(e) /\ UNCHANGED <<rx, wire, pc, sent, hup, eof>>
    BY <1>5 DEF RxCheck, PathDone
  <2>2. QED
    BY <1>1, <1>3, <2>1, RxPutStep
<1>6. CASE RxCheck(e) /\ ~vc[e].dead
  <2>1. /\ path' = [path EXCEPT ![e] = <<"handle", path[e][2]>>]
        /\ UNCHANGED <<vc, rx, wire, pc, sent, hup, eof>>
    BY <1>1, <1>6 DEF RxCheck
  <2>2. TypeOK'
    BY <1>4, <2>1 DEF VchanInv, TypeOK
  <2>3. <<"handle", path[e][2]>> # << >>
    OBVIOUS
  <2>4. TypeOK /\ \A d \in Ends : vc'[d].closed = vc[d].closed
    BY <2>1 DEF VchanInv
  <2>5. \A d \in Ends : vc[d].ref \in Int
    BY <1>1 DEF Chan
  <2>6. RefsFollow
    <3> SUFFICES ASSUME NEW d \in Ends
                 PROVE  vc'[d].ref - vc[d].ref = Holders(d)' - Holders(d)
      BY DEF RefsFollow
    <3>1. vc[d].ref \in Int /\ Holders(d) \in Nat /\ vc' = vc
      BY <2>1, <2>5, HoldersType
    <3>2. PICK p : p # << >> /\ path' = [path EXCEPT ![e] = p]
      BY <2>1, <2>3
    <3>3. Holders(d)' = IF d # e THEN Holders(d) ELSE Holders(d) + 1 - 1
      BY <1>1, <2>1, <2>4, <3>2, OnlyPath
    <3>4. QED
      BY <3>1, <3>3
  <2>7. FreedIsEmpty'
    BY <2>1 DEF FreedIsEmpty, VchanInv, HeldWhileUsed
  <2>8. QED
    BY <2>2, <2>6, <2>7, FollowKeeps
<1>7. CASE RxMsg(e)
  <2>1. /\ Put(e) /\ PathDone(e) /\ path[e][2] # CLOSE
        /\ rx' = [rx EXCEPT ![e] = Append(@, path[e][2])]
        /\ UNCHANGED <<wire, pc, sent, hup, eof>>
    BY <1>7 DEF RxMsg, MsgQueue
  <2>2. Append(rx[e], path[e][2]) \in Seq(Messages)
    BY <1>1, <1>4, <2>1 DEF Items
  <2>3. rx' \in [Ends -> Seq(Messages)] /\ \A d \in Ends : d # e => rx'[d] = rx[d]
    BY <1>1, <2>1, <2>2
  <2>4. QED
    BY <1>1, <1>3, <2>1, <2>3, RxPutStep
<1>8. CASE RxMsgLost(e)
  <2>1. Put(e) /\ PathDone(e) /\ UNCHANGED <<rx, wire, pc, sent, hup, eof>>
    BY <1>8 DEF RxMsgLost
  <2>2. QED
    BY <1>1, <1>3, <2>1, RxPutStep
<1>9. CASE RxClose(e)
  <2>1. /\ vc' = [vc EXCEPT ![e].dead = TRUE, ![e].ref = @ - 1]
        /\ PathDone(e) /\ UNCHANGED <<rx, wire, pc, sent, hup, eof>>
    BY <1>9 DEF RxClose
  <2>2. /\ vc' \in [Ends -> Chan]
        /\ \A d \in Ends : /\ vc'[d].ref = IF d = e THEN vc[d].ref - 1 ELSE vc[d].ref
                           /\ vc'[d].closed = vc[d].closed
                           /\ vc'[d].idr = vc[d].idr
    <3>1. vc[e].ref - 1 \in Int
      BY <1>1
    <3>2. QED
      BY <1>1, <2>1, <3>1 DEF Chan
  <2>3. QED
    BY <1>1, <2>1, <2>2, RxPutStep
<1>10. QED
  BY <1>5, <1>6, <1>7, <1>8, <1>9

(***************************************************************************)
(* hab_vchan_free after the last put.                                      *)
(***************************************************************************)
LEMMA FreeStep ==
  ASSUME VchanInv, NEW e \in Ends, Free(e)
  PROVE  VchanInv'
<1>1. /\ vc \in [Ends -> Chan] /\ vc[e] \in Chan /\ vc[e].ref \in Int
      /\ rx \in [Ends -> Seq(Messages)]
      /\ \A d \in Ends : vc[d].ref \in Int /\ Holders(d) \in Nat
  BY HoldersType DEF VchanInv, TypeOK, Chan
<1>2. /\ vc' \in [Ends -> Chan]
      /\ \A d \in Ends : /\ vc'[d].ref = vc[d].ref
                         /\ vc'[d].closed = vc[d].closed
                         /\ vc'[d].idr = vc[d].idr
                              \/ (d = e /\ vc[d].ref = 0 /\ rx[d] = << >>)
  BY <1>1 DEF Free, FreeMessages, FreeVchan, Chan
<1>3. /\ rx' \in [Ends -> Seq(Messages)]
      /\ \A d \in Ends : rx[d] = << >> => rx'[d] = << >>
  <2>1. << >> \in Seq(Messages)
    OBVIOUS
  <2>2. QED
    BY <1>1, <2>1 DEF Free, FreeMessages, FreeVchan
<1>4. UNCHANGED <<wire, path, pc, sent, hup, eof>>
  BY DEF Free, FreeMessages, FreeVchan
<1>5. TypeOK'
  BY <1>2, <1>3, <1>4 DEF VchanInv, TypeOK
<1>6. \A d \in Ends : Holders(d)' = Holders(d)
  BY <1>2, <1>4 DEF Holders, InCall
<1>7. RefsFollow
  BY <1>1, <1>2, <1>6 DEF RefsFollow
<1>8. FreedIsEmpty'
  BY <1>2, <1>3 DEF FreedIsEmpty, VchanInv, HeldWhileUsed
<1>9. QED
  BY <1>5, <1>7, <1>8, FollowKeeps
-----------------------------------------------------------------------------
(* Theorems *)

(***************************************************************************)
(* Every step of either application and of the receive paths keeps the     *)
(* invariant.                                                              *)
(***************************************************************************)
LEMMA VchanNext == VchanInv /\ [Next]_vars => VchanInv'
<1> SUFFICES ASSUME VchanInv, [Next]_vars PROVE VchanInv'
  OBVIOUS
<1>1. ASSUME NEW t \in Threads, Call(t) \/ Step(t) PROVE VchanInv'
  BY <1>1, SendStep, SendTooSmallStep, RecvStep, CloseStep DEF Call, Step
<1>2. ASSUME NEW e \in Ends, Rx(e) \/ Free(e) PROVE VchanInv'
  BY <1>2, RxBeginStep, RxEndStep, FreeStep DEF Rx
<1>3. CASE UNCHANGED vars
  <2>1. \A e \in Ends : Holders(e)' = Holders(e)
    BY <1>3 DEF vars, Holders, InCall
  <2>2. QED
    BY <1>3, <2>1 DEF vars, VchanInv, TypeOK, HeldWhileUsed, NoRefLeak
<1>4. QED
  BY <1>1, <1>2, <1>3 DEF Next

(***************************************************************************)
(* No vchan is freed under a user, however many threads send, receive and  *)
(* close at once and whatever fails (hab_vchan_put, hab_vchan_get,         *)
(* hab_get_vchan_fromvcid).                                                *)
(***************************************************************************)
THEOREM VchanHeldCorrect == Spec => []HeldWhileUsed
<1>1. VchanInv => HeldWhileUsed
  BY DEF VchanInv
<1>2. QED
  BY <1>1, VchanInit, VchanNext, PTL DEF Spec

(***************************************************************************)
(* The -EINVAL path of hab_vchan_send is the only one that keeps a         *)
(* reference: without a special message that is too small every reference  *)
(* belongs to a user that puts it.                                         *)
(***************************************************************************)
THEOREM OnlyBadSizeLeaks == "badsize" \notin Faults /\ Spec => []NoRefLeak
<1> SUFFICES ASSUME "badsize" \notin Faults PROVE Spec => []NoRefLeak
  OBVIOUS
<1>1. VchanInv => NoRefLeak
  BY DEF VchanInv
<1>2. QED
  BY <1>1, VchanInit, VchanNext, PTL DEF Spec
-----------------------------------------------------------------------------
(* The stream of messages *)

(***************************************************************************)
(* An end closes once, so there is at most one CLOSE on a wire.            *)
(***************************************************************************)
OneClose(s) == \A i, j \in 1 .. Len(s) : s[i] = CLOSE /\ s[j] = CLOSE => i = j

(***************************************************************************)
(* Whether a CLOSE is on a wire, by position.                              *)
(***************************************************************************)
LEMMA CloseAt ==
  ASSUME NEW s \in Seq(Items)
  PROVE  CLOSE \in Range(s) <=> \E i \in 1 .. Len(s) : s[i] = CLOSE
<1>1. DOMAIN s = 1 .. Len(s)
  BY LenProperties
<1> QED
  BY <1>1 DEF Range

(***************************************************************************)
(* A message or a CLOSE goes onto a wire.                                  *)
(***************************************************************************)
LEMMA CloseAppended ==
  ASSUME NEW s \in Seq(Items), NEW m \in Items
  PROVE  /\ CLOSE \in Range(Append(s, m)) <=> CLOSE \in Range(s) \/ m = CLOSE
         /\ OneClose(s) /\ (m = CLOSE => CLOSE \notin Range(s)) => OneClose(Append(s, m))
<1>1. /\ Len(Append(s, m)) = Len(s) + 1 /\ Len(s) \in Nat
      /\ \A k \in 1 .. Len(s) : Append(s, m)[k] = s[k]
      /\ Append(s, m)[Len(s) + 1] = m /\ Append(s, m) \in Seq(Items)
  BY AppendProperties, LenProperties
<1>2. \A k \in 1 .. Len(s) + 1 : k \in 1 .. Len(s) \/ k = Len(s) + 1
  BY <1>1
<1>3. \A k \in 1 .. Len(s) : k \in 1 .. Len(s) + 1
  BY <1>1
<1>4. Len(s) + 1 \in 1 .. Len(s) + 1
  BY <1>1
<1>5. CLOSE \in Range(Append(s, m)) <=> CLOSE \in Range(s) \/ m = CLOSE
  <2>1. CLOSE \in Range(Append(s, m)) <=>
          \E i \in 1 .. Len(s) + 1 : Append(s, m)[i] = CLOSE
    BY <1>1, CloseAt
  <2> QED
    BY <1>1, <1>2, <1>3, <1>4, <2>1, CloseAt
<1>6. ASSUME OneClose(s), m = CLOSE => CLOSE \notin Range(s)
      PROVE  OneClose(Append(s, m))
  <2>1. m = CLOSE => \A i \in 1 .. Len(s) : s[i] # CLOSE
    BY <1>6, CloseAt
  <2> QED
    BY <1>1, <1>2, <1>6, <2>1 DEF OneClose
<1> QED
  BY <1>5, <1>6

(***************************************************************************)
(* The first message leaves a wire.                                        *)
(***************************************************************************)
LEMMA CloseTaken ==
  ASSUME NEW s \in Seq(Items), s # << >>
  PROVE  /\ Head(s) \in Items /\ Tail(s) \in Seq(Items)
         /\ CLOSE \in Range(s) <=> Head(s) = CLOSE \/ CLOSE \in Range(Tail(s))
         /\ OneClose(s) => OneClose(Tail(s))
<1>1. /\ Len(s) \in Nat \ {0} /\ Len(Tail(s)) = Len(s) - 1
      /\ Head(s) = s[1] /\ Head(s) \in Items /\ Tail(s) \in Seq(Items)
      /\ \A k \in 1 .. Len(s) - 1 : Tail(s)[k] = s[k + 1]
  BY HeadTailProperties, LenProperties, EmptySeq
<1>2. \A k \in 1 .. Len(s) - 1 : k + 1 \in 1 .. Len(s)
  BY <1>1
<1>3. \A k \in 1 .. Len(s) : k = 1 \/ (k - 1 \in 1 .. Len(s) - 1 /\ (k - 1) + 1 = k)
  BY <1>1
<1>4. CLOSE \in Range(s) => Head(s) = CLOSE \/ CLOSE \in Range(Tail(s))
  <2> SUFFICES ASSUME NEW k \in 1 .. Len(s), s[k] = CLOSE, k # 1
               PROVE  CLOSE \in Range(Tail(s))
    BY <1>1, CloseAt
  <2>1. k - 1 \in 1 .. Len(s) - 1 /\ (k - 1) + 1 = k
    BY <1>3
  <2>2. Tail(s)[k - 1] = CLOSE
    BY <1>1, <2>1
  <2> QED
    BY <1>1, <2>1, <2>2, CloseAt
<1>5. Head(s) = CLOSE \/ CLOSE \in Range(Tail(s)) => CLOSE \in Range(s)
  <2>1. 1 \in 1 .. Len(s)
    BY <1>1
  <2>2. CLOSE \in Range(Tail(s)) => \E k \in 1 .. Len(s) - 1 : Tail(s)[k] = CLOSE
    BY <1>1, CloseAt
  <2> QED
    BY <1>1, <1>2, <2>1, <2>2, CloseAt
<1>6. OneClose(s) => OneClose(Tail(s))
  <2> SUFFICES ASSUME OneClose(s), NEW i \in 1 .. Len(s) - 1, NEW j \in 1 .. Len(s) - 1,
                      Tail(s)[i] = CLOSE, Tail(s)[j] = CLOSE
               PROVE  i = j
    BY <1>1 DEF OneClose
  <2>1. /\ s[i + 1] = CLOSE /\ s[j + 1] = CLOSE
        /\ i + 1 \in 1 .. Len(s) /\ j + 1 \in 1 .. Len(s)
    BY <1>1, <1>2
  <2>2. i + 1 = j + 1
    BY <2>1 DEF OneClose
  <2> QED
    BY <2>2
<1> QED
  BY <1>1, <1>4, <1>5, <1>6

(***************************************************************************)
(* BeforeClose of a wire, by the position of its CLOSE.                    *)
(***************************************************************************)
LEMMA CutAt ==
  ASSUME NEW s \in Seq(Items), OneClose(s), NEW k \in 1 .. Len(s), s[k] = CLOSE
  PROVE  BeforeClose(s) = SubSeq(s, 1, k - 1)
<1>1. {i \in 1 .. Len(s) : s[i] = CLOSE} = {k}
  BY DEF OneClose
<1>2. Min({k}) = k
  BY DEF Min
<1>3. SelectInSeq(s, LAMBDA m : m = CLOSE) = k
  BY <1>1, <1>2 DEF SelectInSeq
<1>4. CLOSE \in Range(s)
  BY CloseAt
<1> QED
  BY <1>3, <1>4 DEF BeforeClose

(***************************************************************************)
(* What a send, a CLOSE and a receive do to BeforeClose.                   *)
(***************************************************************************)
LEMMA CutAppended ==
  ASSUME NEW s \in Seq(Items), OneClose(s), NEW m \in Items
  PROVE  /\ CLOSE \in Range(s) /\ m # CLOSE => BeforeClose(Append(s, m)) = BeforeClose(s)
         /\ CLOSE \notin Range(s) /\ m # CLOSE => BeforeClose(Append(s, m)) = Append(s, m)
         /\ CLOSE \notin Range(s) => BeforeClose(Append(s, CLOSE)) = s
<1>1. ASSUME NEW x \in Items
      PROVE  /\ Len(Append(s, x)) = Len(s) + 1 /\ Len(s) \in Nat
             /\ \A k \in 1 .. Len(s) : Append(s, x)[k] = s[k]
             /\ Append(s, x)[Len(s) + 1] = x /\ Append(s, x) \in Seq(Items)
  BY AppendProperties, LenProperties
<1>2. ASSUME NEW x \in Items, NEW n \in 0 .. Len(s)
      PROVE  SubSeq(Append(s, x), 1, n) = SubSeq(s, 1, n)
  <2>1. n <= Len(Append(s, x)) /\ n \in 0 .. Len(Append(s, x)) /\ n \in Int
    BY <1>1
  <2> QED
    BY <1>1, <2>1, SubSeqProperties
<1>3. ASSUME CLOSE \in Range(s), m # CLOSE
      PROVE  BeforeClose(Append(s, m)) = BeforeClose(s)
  <2>1. PICK k \in 1 .. Len(s) : s[k] = CLOSE
    BY <1>3, CloseAt
  <2>2. BeforeClose(s) = SubSeq(s, 1, k - 1)
    BY <2>1, CutAt
  <2>3. OneClose(Append(s, m))
    BY <1>3, CloseAppended
  <2>4. k \in 1 .. Len(Append(s, m)) /\ Append(s, m)[k] = CLOSE /\ k - 1 \in 0 .. Len(s)
    BY <1>1, <2>1
  <2>5. BeforeClose(Append(s, m)) = SubSeq(Append(s, m), 1, k - 1)
    BY <1>1, <2>3, <2>4, CutAt
  <2> QED
    BY <1>2, <2>2, <2>4, <2>5
<1>4. ASSUME CLOSE \notin Range(s), m # CLOSE
      PROVE  BeforeClose(Append(s, m)) = Append(s, m)
  BY <1>4, CloseAppended DEF BeforeClose
<1>5. ASSUME CLOSE \notin Range(s)
      PROVE  BeforeClose(Append(s, CLOSE)) = s
  <2>1. CLOSE \in Items
    BY DEF Items
  <2>2. OneClose(Append(s, CLOSE))
    BY <1>5, <2>1, CloseAppended
  <2>3. /\ Len(s) + 1 \in 1 .. Len(Append(s, CLOSE)) /\ Append(s, CLOSE)[Len(s) + 1] = CLOSE
        /\ (Len(s) + 1) - 1 = Len(s) /\ Len(s) \in 0 .. Len(s)
    BY <1>1, <2>1
  <2>4. BeforeClose(Append(s, CLOSE)) = SubSeq(Append(s, CLOSE), 1, (Len(s) + 1) - 1)
    BY <1>1, <2>1, <2>2, <2>3, CutAt
  <2>5. BeforeClose(Append(s, CLOSE)) = SubSeq(s, 1, Len(s))
    BY <1>2, <2>1, <2>3, <2>4
  <2> QED
    BY <2>5, SubSeqFull
<1> QED
  BY <1>3, <1>4, <1>5

(***************************************************************************)
(* A receive takes the first message of BeforeClose as well.               *)
(***************************************************************************)
LEMMA CutTaken ==
  ASSUME NEW s \in Seq(Items), OneClose(s), s # << >>
  PROVE  /\ Head(s) = CLOSE => BeforeClose(s) = << >>
         /\ Head(s) # CLOSE => BeforeClose(s) = <<Head(s)>> \o BeforeClose(Tail(s))
<1>1. /\ Len(s) \in Nat \ {0} /\ Len(Tail(s)) = Len(s) - 1
      /\ Head(s) = s[1] /\ Head(s) \in Items /\ Tail(s) \in Seq(Items)
      /\ \A k \in 1 .. Len(s) - 1 : Tail(s)[k] = s[k + 1]
  BY HeadTailProperties, LenProperties, EmptySeq
<1>2. ASSUME Head(s) = CLOSE PROVE BeforeClose(s) = << >>
  <2>1. 1 \in 1 .. Len(s) /\ s[1] = CLOSE
    BY <1>1, <1>2
  <2>2. BeforeClose(s) = SubSeq(s, 1, 1 - 1)
    BY <2>1, CutAt
  <2> QED
    BY <2>2
<1>3. ASSUME Head(s) # CLOSE, CLOSE \notin Range(s)
      PROVE  BeforeClose(s) = <<Head(s)>> \o BeforeClose(Tail(s))
  <2>1. BeforeClose(s) = s /\ BeforeClose(Tail(s)) = Tail(s)
    BY <1>3, CloseTaken DEF BeforeClose
  <2>2. s = <<Head(s)>> \o Tail(s)
    BY <1>1
  <2> QED
    BY <2>1, <2>2
<1>4. ASSUME Head(s) # CLOSE, CLOSE \in Range(s)
      PROVE  BeforeClose(s) = <<Head(s)>> \o BeforeClose(Tail(s))
  <2>1. PICK k \in 1 .. Len(s) : s[k] = CLOSE
    BY <1>4, CloseAt
  <2>2. k # 1 /\ k - 1 \in 1 .. Len(Tail(s)) /\ (k - 1) + 1 = k
    BY <1>1, <1>4, <2>1
  <2>3. Tail(s)[k - 1] = CLOSE
    BY <1>1, <2>1, <2>2
  <2>4. OneClose(Tail(s))
    BY CloseTaken
  <2>5. BeforeClose(Tail(s)) = SubSeq(Tail(s), 1, (k - 1) - 1)
    BY <1>1, <2>2, <2>3, <2>4, CutAt
  <2>6. BeforeClose(s) = SubSeq(s, 1, k - 1)
    BY <2>1, CutAt
  <2>7. SubSeq(s, 1, k - 1) = <<Head(s)>> \o SubSeq(Tail(s), 1, (k - 1) - 1)
    BY <1>1, <2>1, <2>2
  <2> QED
    BY <2>5, <2>6, <2>7
<1> QED
  BY <1>2, <1>3, <1>4
-----------------------------------------------------------------------------
(* What the mapping needs to know of a close *)

(***************************************************************************)
(* The receive path of an end holds the CLOSE of the other; the stream to  *)
(* an end is over; a thread is in hab_vchan_close.                         *)
(***************************************************************************)
CloseInPath(e) == path[e] # << >> /\ path[e][2] = CLOSE
Over(e) == vc[e].closed \/ vc[e].dead \/ CloseInPath(e)
Closing(t) == pc[t] \in {"notify", "stop"}

(***************************************************************************)
(* An end that is done with its close has closed, and its CLOSE is on the  *)
(* wire, in the receive path or taken; a CLOSE comes from nowhere else,    *)
(* and there is one.  An open end that knows of the close has nothing left *)
(* in its receive path.                                                    *)
(***************************************************************************)
CloseTravels ==
  \A e \in Ends :
    /\ hup[e] => vc[e].closed
    /\ hup[e] => Over(Peer(e)) \/ CLOSE \in Range(wire[Peer(e)])
    /\ CloseInPath(e) \/ CLOSE \in Range(wire[e]) => hup[Peer(e)]
    /\ OneClose(wire[e])
    /\ vc[e].dead /\ ~vc[e].closed => path[e] = << >> /\ hup[Peer(e)]

(***************************************************************************)
(* One thread closes an end; before it has told the other end, "dead" can  *)
(* only come from the CLOSE of that one.                                   *)
(***************************************************************************)
OneCloser ==
  \A t \in Threads :
    /\ Closing(t) => vc[End(t)].closed
    /\ pc[t] = "notify" => ~hup[End(t)] /\ (vc[End(t)].dead => hup[Peer(End(t))])
    /\ \A u \in Threads : Closing(t) /\ Closing(u) /\ End(t) = End(u) => t = u

SockInv == CloseTravels /\ OneCloser

(***************************************************************************)
(* The state of the socket: what is behind the receive path of an end, all *)
(* messages on their way to it, and its phase.                             *)
(***************************************************************************)
Behind(e) ==
  IF vc[e].closed \/ vc[e].dead \/ (path[e] # << >> /\ path[e][2] = CLOSE)
  THEN << >> ELSE BeforeClose(wire[e])
Stream == [e \in Ends |-> rx[e] \o InPath(e) \o Behind(e)]
Phase == [e \in Ends |-> IF hup[e] THEN "closed"
                         ELSE IF vc[e].closed THEN "closing" ELSE "open"]

(***************************************************************************)
(* A step of the socket, or none.                                          *)
(***************************************************************************)
SocketStep == Socket!Next \/ (Stream' = Stream /\ Phase' = Phase /\ eof' = eof)

(***************************************************************************)
(* The two ends.                                                           *)
(***************************************************************************)
LEMMA PeerFacts ==
  \A e \in Ends : /\ Peer(e) \in Ends /\ Peer(e) # e /\ Peer(Peer(e)) = e
                  /\ \A d \in Ends : d # e => d = Peer(e)
BY DEF Ends, Peer

(***************************************************************************)
(* The invariant holds before anybody closes.                              *)
(***************************************************************************)
LEMMA SockInit == Init => SockInv
<1> SUFFICES ASSUME Init PROVE SockInv
  OBVIOUS
<1>1. << >> \in Seq(Items) /\ Len(<< >>) = 0
  OBVIOUS
<1>2. OneClose(<< >>) /\ CLOSE \notin Range(<< >>)
  BY <1>1 DEF OneClose, Range
<1>3. \A t \in Threads : End(t) \in Ends
  BY ThreadEnd
<1>4. CloseTravels
  BY <1>2 DEF Init, CloseTravels, CloseInPath
<1>5. OneCloser
  BY <1>3 DEF Init, OneCloser, Closing
<1> QED
  BY <1>4, <1>5 DEF SockInv

(***************************************************************************)
(* A step of the socket for each of its actions.                           *)
(***************************************************************************)
LEMMA AsSend ==
  ASSUME NEW e \in Ends, NEW m \in Messages,
         Phase[e] # "closed", Phase[Peer(e)] = "open",
         Stream' = [Stream EXCEPT ![Peer(e)] = Append(@, m)],
         Phase' = Phase, eof' = eof
  PROVE  Socket!Next
BY DEF Socket!Next, Socket!Send, Stream, Phase, Behind

(***************************************************************************)
(* A receive.                                                              *)
(***************************************************************************)
LEMMA AsRecv ==
  ASSUME NEW e \in Ends, Stream[e] # << >>,
         Stream' = [Stream EXCEPT ![e] = Tail(@)], Phase' = Phase, eof' = eof
  PROVE  Socket!Next
BY DEF Socket!Next, Socket!Recv, Stream, Phase, Behind

(***************************************************************************)
(* A message lost by the receive path.                                     *)
(***************************************************************************)
LEMMA AsLose ==
  ASSUME MayLose, NEW e \in Ends, NEW k \in DOMAIN Stream[e],
         Stream' = [Stream EXCEPT ![e] = RemoveAt(@, k)], Phase' = Phase, eof' = eof
  PROVE  Socket!Next
BY DEF Socket!Next, Socket!Lose, Socket!RemoveAt, RemoveAt, Stream, Phase, Behind

(***************************************************************************)
(* A receive that reports the end.                                         *)
(***************************************************************************)
LEMMA AsEndOfStream ==
  ASSUME NEW e \in Ends, Phase[e] = "open", Phase[Peer(e)] = "closed",
         Stream[e] = << >>, eof' = [eof EXCEPT ![e] = TRUE],
         Stream' = Stream, Phase' = Phase
  PROVE  Socket!Next
BY DEF Socket!Next, Socket!EndOfStream, Stream, Phase, Behind

(***************************************************************************)
(* The begin of a close.                                                   *)
(***************************************************************************)
LEMMA AsStartClose ==
  ASSUME NEW e \in Ends, Phase[e] = "open",
         Phase' = [Phase EXCEPT ![e] = "closing"],
         NEW n \in 0 .. Len(Stream[e]),
         Stream' = [Stream EXCEPT ![e] = SubSeq(@, 1, n)], eof' = eof
  PROVE  Socket!Next
BY DEF Socket!Next, Socket!StartClose, Socket!GiveUp, Stream, Phase, Behind

(***************************************************************************)
(* Messages that a closed end drops.                                       *)
(***************************************************************************)
LEMMA AsDiscard ==
  ASSUME NEW e \in Ends, Phase[e] # "open",
         NEW n \in 0 .. Len(Stream[e]),
         Stream' = [Stream EXCEPT ![e] = SubSeq(@, 1, n)],
         Phase' = Phase, eof' = eof
  PROVE  Socket!Next
BY DEF Socket!Next, Socket!Discard, Socket!GiveUp, Stream, Phase, Behind

(***************************************************************************)
(* The end of a close.                                                     *)
(***************************************************************************)
LEMMA AsFinishClose ==
  ASSUME NEW e \in Ends, Phase[e] = "closing",
         Phase' = [Phase EXCEPT ![e] = "closed"], Stream' = Stream, eof' = eof
  PROVE  Socket!Next
BY DEF Socket!Next, Socket!FinishClose, Stream, Phase, Behind

(***************************************************************************)
(* The socket begins open and empty.                                       *)
(***************************************************************************)
LEMMA AsInit == Init => Socket!Init
<1> SUFFICES ASSUME Init PROVE Socket!Init
  OBVIOUS
<1>1. << >> \in Seq(Items) /\ Len(<< >>) = 0
  OBVIOUS
<1>2. CLOSE \notin Range(<< >>)
  BY <1>1 DEF Range
<1>3. BeforeClose(<< >>) = << >>
  BY <1>2 DEF BeforeClose
<1>4. \A e \in Ends : Behind(e) = << >> /\ InPath(e) = << >> /\ rx[e] = << >>
  BY <1>3 DEF Init, Behind, InPath
<1>5. << >> \o << >> \o << >> = << >>
  OBVIOUS
<1>6. Stream = [e \in Ends |-> << >>]
  BY <1>4, <1>5 DEF Stream
<1>7. Phase = [e \in Ends |-> "open"]
  BY DEF Init, Phase
<1>8. eof = [e \in Ends |-> FALSE]
  BY DEF Init
<1> QED
  BY <1>6, <1>7, <1>8 DEF Socket!Init, Stream, Phase, Behind
-----------------------------------------------------------------------------
(* Types *)

(***************************************************************************)
(* The parts of the stream are sequences of messages.                      *)
(***************************************************************************)
LEMMA StreamType ==
  ASSUME TypeOK, CloseTravels, NEW e \in Ends
  PROVE  /\ rx[e] \in Seq(Messages) /\ InPath(e) \in Seq(Messages)
         /\ Behind(e) \in Seq(Items)
<1>1. rx[e] \in Seq(Messages) /\ wire[e] \in Seq(Items) /\ OneClose(wire[e])
  BY DEF TypeOK, CloseTravels
<1>2. InPath(e) \in Seq(Messages)
  <2>1. path[e] = << >> \/ path[e] \in {"got", "handle"} \X Items
    BY DEF TypeOK
  <2>2. path[e] # << >> /\ path[e][2] # CLOSE => path[e][2] \in Messages
    BY <2>1 DEF Items
  <2>3. << >> \in Seq(Messages) /\ \A m \in Messages : <<m>> \in Seq(Messages)
    OBVIOUS
  <2> QED
    BY <2>2, <2>3 DEF InPath
<1>3. BeforeClose(wire[e]) \in Seq(Items)
  <2>1. CASE CLOSE \notin Range(wire[e])
    BY <1>1, <2>1 DEF BeforeClose
  <2>2. CASE CLOSE \in Range(wire[e])
    <3>1. PICK k \in 1 .. Len(wire[e]) : wire[e][k] = CLOSE
      BY <1>1, <2>2, CloseAt
    <3>2. BeforeClose(wire[e]) = SubSeq(wire[e], 1, k - 1)
      BY <1>1, <3>1, CutAt
    <3>3. Len(wire[e]) \in Nat /\ k - 1 \in 0 .. Len(wire[e])
      BY <1>1, <3>1, LenProperties
    <3> QED
      BY <1>1, <3>2, <3>3, SubSeqProperties
  <2> QED
    BY <2>1, <2>2
<1>4. << >> \in Seq(Items)
  OBVIOUS
<1> QED
  BY <1>1, <1>2, <1>3, <1>4 DEF Behind
-----------------------------------------------------------------------------
(* Steps that neither close nor move a message on the wire *)

(***************************************************************************)
(* A step that leaves the closes, the wires and the receive paths alone.   *)
(***************************************************************************)
LEMMA Quiet ==
  ASSUME TypeOK, SockInv, UNCHANGED <<wire, path, hup>>,
         \A d \in Ends : vc'[d].closed = vc[d].closed /\ vc'[d].dead = vc[d].dead,
         \A t \in Threads : Closing(t)' => pc'[t] = pc[t]
  PROVE  /\ SockInv' /\ Phase' = Phase
         /\ \A d \in Ends : InPath(d)' = InPath(d) /\ Behind(d)' = Behind(d)
<1>1. \A d \in Ends : CloseInPath(d)' = CloseInPath(d) /\ Over(d)' = Over(d)
  BY DEF CloseInPath, Over
<1>2. CloseTravels'
  BY <1>1, PeerFacts DEF SockInv, CloseTravels
<1>3. OneCloser'
  <2>1. \A t \in Threads : End(t) \in Ends
    BY ThreadEnd
  <2> QED
    BY <2>1 DEF SockInv, OneCloser, Closing
<1>4. Phase' = Phase
  BY DEF Phase
<1>5. \A d \in Ends : InPath(d)' = InPath(d) /\ Behind(d)' = Behind(d)
  BY DEF InPath, Behind
<1> QED
  BY <1>2, <1>3, <1>4, <1>5 DEF SockInv

(***************************************************************************)
(* What such a step does to the stream is what it does to the queue.       *)
(***************************************************************************)
LEMMA SameStream ==
  ASSUME \A d \in Ends : rx'[d] = rx[d] /\ InPath(d)' = InPath(d) /\ Behind(d)' = Behind(d)
  PROVE  Stream' = Stream
BY DEF Stream

(***************************************************************************)
(* The lookups and the puts of the calls change the count only.            *)
(***************************************************************************)
LEMMA CountOnly ==
  ASSUME TypeOK, NEW d \in Ends, Get(d) \/ Put(d)
  PROVE  \A e \in Ends : vc'[e].closed = vc[e].closed /\ vc'[e].dead = vc[e].dead
<1>1. vc \in [Ends -> Chan]
  BY DEF TypeOK
<1>2. CASE Get(d)
  BY <1>1, <1>2 DEF Chan, Get
<1>3. CASE Put(d)
  BY <1>1, <1>3 DEF Chan, Put
<1> QED
  BY <1>2, <1>3

(***************************************************************************)
(* A thread that goes elsewhere than to a close does not begin one.        *)
(***************************************************************************)
LEMMA NoNewCloser ==
  ASSUME TypeOK, NEW t \in Threads, NEW l, l \notin {"notify", "stop"}, Goto(t, l)
  PROVE  \A u \in Threads : Closing(u)' => pc'[u] = pc[u]
BY DEF TypeOK, Goto, Closing

(***************************************************************************)
(* The begin of a send or a receive, a send that fails, and a wait that    *)
(* ends are no steps of the socket.                                        *)
(***************************************************************************)
LEMMA IdleCalls ==
  ASSUME VchanInv, SockInv, NEW t \in Threads,
         \/ SendBegin(t) \/ RecvBegin(t) \/ SendTooSmall(t) \/ SendFail(t)
         \/ WaitEnds(t) \/ WaitInterrupted(t)
  PROVE  SockInv' /\ SocketStep
<1>1. TypeOK /\ End(t) \in Ends
  BY ThreadEnd DEF VchanInv
<1>2. /\ UNCHANGED <<rx, wire, path, hup, eof>>
      /\ Get(End(t)) \/ Put(End(t)) \/ UNCHANGED vc
      /\ \E l \in {"send", "wait", "dequeue", "idle"} : Goto(t, l)
  BY DEF SendBegin, RecvBegin, SendTooSmall, SendFail, WaitEnds, WaitInterrupted
<1>3. \A d \in Ends : vc'[d].closed = vc[d].closed /\ vc'[d].dead = vc[d].dead
  BY <1>1, <1>2, CountOnly
<1>4. \A u \in Threads : Closing(u)' => pc'[u] = pc[u]
  BY <1>1, <1>2, NoNewCloser
<1>5. /\ SockInv' /\ Phase' = Phase
      /\ \A d \in Ends : InPath(d)' = InPath(d) /\ Behind(d)' = Behind(d)
  BY <1>1, <1>2, <1>3, <1>4, Quiet
<1>6. Stream' = Stream
  BY <1>2, <1>5, SameStream
<1> QED
  BY <1>2, <1>5, <1>6 DEF SocketStep

(***************************************************************************)
(* The rest of a receive: a message, the end of the stream, or nothing.    *)
(***************************************************************************)
LEMMA DequeueMaps ==
  ASSUME VchanInv, SockInv, NEW t \in Threads, Dequeue(t)
  PROVE  SockInv' /\ SocketStep
<1> DEFINE e == End(t)
<1>1. /\ TypeOK /\ e \in Ends /\ rx \in [Ends -> Seq(Messages)]
      /\ eof \in [Ends -> BOOLEAN]
  BY ThreadEnd DEF VchanInv, TypeOK
<1>2. UNCHANGED <<wire, path, hup>> /\ Put(e) /\ Goto(t, "idle")
  BY DEF Dequeue
<1>3. \A d \in Ends : vc'[d].closed = vc[d].closed /\ vc'[d].dead = vc[d].dead
  BY <1>1, <1>2, CountOnly
<1>4. \A u \in Threads : Closing(u)' => pc'[u] = pc[u]
  BY <1>1, <1>2, NoNewCloser
<1>5. /\ SockInv' /\ Phase' = Phase
      /\ \A d \in Ends : InPath(d)' = InPath(d) /\ Behind(d)' = Behind(d)
  BY <1>1, <1>2, <1>3, <1>4, Quiet
<1>6. \A d \in Ends : /\ rx[d] \in Seq(Messages) /\ InPath(d) \in Seq(Messages)
                      /\ Behind(d) \in Seq(Items)
  BY <1>1, StreamType DEF SockInv
<1>7. CASE rx[e] # << >> /\ rx' = [rx EXCEPT ![e] = Tail(@)] /\ eof' = eof
  <2>1. \A d \in Ends : d # e => rx'[d] = rx[d]
    BY <1>1, <1>7
  <2>2. rx'[e] = Tail(rx[e])
    BY <1>1, <1>7
  <2>3. \A u \in Seq(Messages), v \in Seq(Messages), w \in Seq(Items) :
          u # << >> => /\ u \o v \o w # << >>
                       /\ Tail(u \o v \o w) = Tail(u) \o v \o w
    <3>1. Messages \subseteq Items
      BY DEF Items
    <3>2. \A u \in Seq(Messages), v \in Seq(Messages) : u \in Seq(Items) /\ v \in Seq(Items)
      BY <3>1
    <3> SUFFICES ASSUME NEW u \in Seq(Items), NEW v \in Seq(Items), NEW w \in Seq(Items),
                        u # << >>
                 PROVE  /\ u \o v \o w # << >>
                        /\ Tail(u \o v \o w) = Tail(u) \o v \o w
      BY <3>2
    <3> QED
      OBVIOUS
  <2>4. Stream[e] # << >> /\ Tail(Stream[e]) = Tail(rx[e]) \o InPath(e) \o Behind(e)
    BY <1>1, <1>6, <1>7, <2>3 DEF Stream
  <2>5. Stream' = [Stream EXCEPT ![e] = Tail(@)]
    BY <1>1, <1>5, <2>1, <2>2, <2>4 DEF Stream
  <2> QED
    BY <1>1, <1>5, <1>7, <2>4, <2>5, AsRecv DEF SocketStep
<1>8. CASE rx' = rx /\ eof' = eof
  <2>1. Stream' = Stream
    BY <1>5, <1>8, SameStream
  <2> QED
    BY <1>5, <1>8, <2>1 DEF SocketStep
<1>9. CASE /\ rx[e] = << >> /\ rx' = rx
           /\ eof' = [eof EXCEPT ![e] = @ \/ (vc[e].dead /\ ~vc[e].closed)]
  <2>1. Stream' = Stream
    BY <1>5, <1>9, SameStream
  <2>2. CASE ~(vc[e].dead /\ ~vc[e].closed)
    <3>1. eof' = eof
      BY <1>1, <1>9, <2>2
    <3> QED
      BY <1>5, <2>1, <3>1 DEF SocketStep
  <2>3. CASE vc[e].dead /\ ~vc[e].closed
    <3>1. eof' = [eof EXCEPT ![e] = TRUE]
      BY <1>1, <1>9, <2>3
    <3>2. path[e] = << >> /\ hup[Peer(e)] /\ ~hup[e]
      BY <1>1, <2>3 DEF SockInv, CloseTravels
    <3>3. InPath(e) = << >> /\ Behind(e) = << >>
      BY <2>3, <3>2 DEF InPath, Behind
    <3>4. << >> \o << >> \o << >> = << >>
      OBVIOUS
    <3>5. Stream[e] = << >>
      BY <1>1, <1>9, <3>3, <3>4 DEF Stream
    <3>6. Phase[e] = "open" /\ Phase[Peer(e)] = "closed"
      BY <1>1, <2>3, <3>2, PeerFacts DEF Phase
    <3>7. Socket!Next
      BY <1>1, <1>5, <2>1, <3>1, <3>5, <3>6, AsEndOfStream
    <3> QED
      BY <1>5, <3>7 DEF SocketStep
  <2> QED
    BY <2>2, <2>3
<1> QED
  BY <1>7, <1>8, <1>9 DEF Dequeue

(***************************************************************************)
(* hab_vchan_free drops what nobody received.                              *)
(***************************************************************************)
LEMMA FreeMaps ==
  ASSUME VchanInv, SockInv, NEW e \in Ends, Free(e)
  PROVE  SockInv' /\ SocketStep
<1>1. TypeOK /\ rx \in [Ends -> Seq(Messages)] /\ vc \in [Ends -> Chan]
  BY DEF VchanInv, TypeOK
<1>2. UNCHANGED <<wire, path, pc, hup, eof>> /\ vc[e].ref = 0
  BY DEF Free, FreeMessages, FreeVchan
<1>3. \A d \in Ends : vc'[d].closed = vc[d].closed /\ vc'[d].dead = vc[d].dead
  BY <1>1 DEF Free, FreeMessages, FreeVchan, Chan
<1>4. /\ SockInv' /\ Phase' = Phase
      /\ \A d \in Ends : InPath(d)' = InPath(d) /\ Behind(d)' = Behind(d)
  BY <1>1, <1>2, <1>3, Quiet
<1>5. CASE FreeVchan(e)
  <2>1. rx' = rx
    BY <1>5 DEF FreeVchan
  <2>2. Stream' = Stream
    BY <1>4, <2>1, SameStream
  <2> QED
    BY <1>2, <1>4, <2>2 DEF SocketStep
<1>6. CASE FreeMessages(e)
  <2>1. rx' = [rx EXCEPT ![e] = << >>]
    BY <1>6 DEF FreeMessages
  <2>2. Holders(e) <= 0 /\ Cardinality(InCall(e)) \in Nat
    BY <1>2, InCallFinite DEF VchanInv, HeldWhileUsed
  <2>3. vc[e].closed /\ path[e] = << >>
    BY <2>2 DEF Holders
  <2>4. InPath(e) = << >> /\ Behind(e) = << >>
    BY <2>3 DEF InPath, Behind
  <2>5. << >> \o << >> \o << >> = << >>
    OBVIOUS
  <2>6. Stream'[e] = << >> /\ \A d \in Ends : d # e => Stream'[d] = Stream[d]
    BY <1>1, <1>4, <2>1, <2>4, <2>5 DEF Stream
  <2>7. SubSeq(Stream[e], 1, 0) = << >>
    OBVIOUS
  <2>8. Stream' = [Stream EXCEPT ![e] = SubSeq(@, 1, 0)]
    BY <2>6, <2>7 DEF Stream
  <2>9. Phase[e] # "open"
    BY <2>3 DEF Phase
  <2>10. 0 \in 0 .. Len(Stream[e])
    <3>1. Stream[e] = rx[e]
      <4>1. rx[e] \in Seq(Messages)
        BY <1>1
      <4> QED
        BY <2>4, <4>1 DEF Stream
    <3> QED
      BY <1>1, <3>1, LenProperties
  <2>11. Socket!Next
    BY <1>2, <1>4, <2>8, <2>9, <2>10, AsDiscard
  <2> QED
    BY <1>4, <2>11 DEF SocketStep
<1> QED
  BY <1>5, <1>6 DEF Free
-----------------------------------------------------------------------------
(* A send and a close *)

(***************************************************************************)
(* A message that goes out: before this end is done with its close it      *)
(* joins the stream to an open end; after it, or to an end that has        *)
(* closed, it is lost behind the CLOSE.                                    *)
(***************************************************************************)
LEMMA SendMaps ==
  ASSUME VchanInv, SockInv, NEW t \in Threads, SendMsg(t)
  PROVE  SockInv' /\ SocketStep
<1> DEFINE e == End(t)
           p == Peer(e)
<1>1. /\ TypeOK /\ e \in Ends /\ p \in Ends /\ p # e /\ Peer(p) = e
      /\ \A d \in Ends : d # p => d = e
      /\ wire \in [Ends -> Seq(Items)] /\ OneClose(wire[p])
  BY ThreadEnd, PeerFacts DEF VchanInv, TypeOK, SockInv, CloseTravels
<1>2. /\ UNCHANGED <<rx, path, hup, eof>> /\ Put(e) /\ Goto(t, "idle")
      /\ sent' = [sent EXCEPT ![e] = @ + 1]
      /\ wire' = [wire EXCEPT ![p] = Append(@, sent'[e])]
  BY DEF SendMsg
<1>3. PICK m \in Messages : m = sent'[e]
  <2>1. /\ sent \in [Ends -> 0 .. MaxSends] /\ MaxSends \in Nat
        /\ sent["a"] + sent["b"] < MaxSends
    BY VchanAssumption DEF VchanInv, TypeOK, SendMsg, CanSend
  <2>2. sent["a"] \in Nat /\ sent["b"] \in Nat /\ (e = "a" \/ e = "b")
    BY <1>1, <2>1 DEF Ends
  <2>3. sent[e] \in Nat /\ sent[e] < MaxSends
    BY <2>1, <2>2
  <2>4. sent'[e] = sent[e] + 1
    BY <1>1, <1>2, <2>1
  <2> QED
    BY <2>1, <2>3, <2>4 DEF Messages
<1>4. m \in Items /\ m # CLOSE
  BY DEF Items, Messages, CLOSE
<1>5. wire'[p] = Append(wire[p], m) /\ \A d \in Ends : d # p => wire'[d] = wire[d]
  BY <1>1, <1>2, <1>3
<1>6. /\ CLOSE \in Range(wire'[p]) <=> CLOSE \in Range(wire[p])
      /\ OneClose(wire'[p])
  BY <1>1, <1>4, <1>5, CloseAppended
<1>7. \A d \in Ends : vc'[d].closed = vc[d].closed /\ vc'[d].dead = vc[d].dead
  BY <1>1, <1>2, CountOnly
<1>8. \A u \in Threads : Closing(u)' => pc'[u] = pc[u]
  BY <1>1, <1>2, NoNewCloser
<1>9. SockInv'
  <2>1. \A d \in Ends : CloseInPath(d)' = CloseInPath(d) /\ Over(d)' = Over(d)
    BY <1>2, <1>7 DEF CloseInPath, Over
  <2>2. \A d \in Ends : /\ CLOSE \in Range(wire'[d]) <=> CLOSE \in Range(wire[d])
                        /\ OneClose(wire[d]) => OneClose(wire'[d])
    BY <1>5, <1>6
  <2>3. CloseTravels'
    BY <1>2, <1>7, <2>1, <2>2, PeerFacts DEF SockInv, CloseTravels
  <2>4. \A u \in Threads : End(u) \in Ends
    BY ThreadEnd
  <2>5. OneCloser'
    BY <1>2, <1>7, <1>8, <2>4, PeerFacts DEF SockInv, OneCloser, Closing
  <2> QED
    BY <2>3, <2>5 DEF SockInv
<1>10. Phase' = Phase
  BY <1>2, <1>7 DEF Phase
<1>11. \A d \in Ends : InPath(d)' = InPath(d) /\ (d # p => Behind(d)' = Behind(d))
  BY <1>2, <1>5, <1>7 DEF InPath, Behind
<1>12. CASE hup[e] \/ vc[p].closed
  <2>1. Behind(p)' = Behind(p)
    <3>1. CASE Over(p)
      BY <1>1, <1>2, <1>7, <3>1 DEF Over, CloseInPath, Behind
    <3>2. CASE ~Over(p)
      <4>1. CLOSE \in Range(wire[p])
        BY <1>1, <1>12, <3>2 DEF SockInv, CloseTravels, Over
      <4>2. BeforeClose(wire'[p]) = BeforeClose(wire[p])
        BY <1>1, <1>4, <1>5, <4>1, CutAppended
      <4> QED
        BY <1>1, <1>2, <1>7, <4>2 DEF Behind
    <3> QED
      BY <3>1, <3>2
  <2>2. Stream' = Stream
    BY <1>2, <1>11, <2>1, SameStream
  <2> QED
    BY <1>2, <1>9, <1>10, <2>2 DEF SocketStep
<1>13. CASE ~hup[e] /\ ~vc[p].closed
  <2>1. ~vc[p].dead /\ ~CloseInPath(p) /\ CLOSE \notin Range(wire[p]) /\ ~hup[p]
    BY <1>1, <1>13 DEF SockInv, CloseTravels
  <2>2. BeforeClose(wire[p]) = wire[p] /\ BeforeClose(wire'[p]) = Append(wire[p], m)
    BY <1>1, <1>4, <1>5, <2>1, CutAppended DEF BeforeClose
  <2>3. Behind(p) = wire[p] /\ Behind(p)' = Append(wire[p], m)
    BY <1>1, <1>2, <1>7, <1>13, <2>1, <2>2 DEF Behind, CloseInPath
  <2>4. /\ rx[p] \in Seq(Items) /\ InPath(p) \in Seq(Items) /\ wire[p] \in Seq(Items)
    <3>1. rx[p] \in Seq(Messages) /\ InPath(p) \in Seq(Messages)
      BY <1>1, StreamType DEF SockInv
    <3>2. Messages \subseteq Items
      BY DEF Items
    <3> QED
      BY <1>1, <3>1, <3>2
  <2>5. \A u \in Seq(Items), v \in Seq(Items), w \in Seq(Items) :
          u \o v \o Append(w, m) = Append(u \o v \o w, m)
    BY <1>4
  <2>6. Stream' = [Stream EXCEPT ![p] = Append(@, m)]
    <3>1. /\ Stream[p] = rx[p] \o InPath(p) \o wire[p]
          /\ Stream'[p] = rx[p] \o InPath(p) \o Append(wire[p], m)
      BY <1>1, <1>2, <1>11, <2>3 DEF Stream
    <3>2. rx[p] \o InPath(p) \o Append(wire[p], m) = Append(rx[p] \o InPath(p) \o wire[p], m)
      BY <2>4, <2>5
    <3>3. Stream'[p] = Append(Stream[p], m)
      BY <3>1, <3>2
    <3>4. \A d \in Ends : d # p => Stream'[d] = Stream[d]
      BY <1>2, <1>11 DEF Stream
    <3> QED
      BY <3>3, <3>4 DEF Stream
  <2>7. Phase[e] # "closed" /\ Phase[p] = "open"
    BY <1>1, <1>13, <2>1 DEF Phase
  <2>8. Socket!Next
    BY <1>1, <1>2, <1>10, <2>6, <2>7, AsSend
  <2> QED
    BY <1>9, <2>8 DEF SocketStep
<1> QED
  BY <1>12, <1>13

(***************************************************************************)
(* The begin of a close: the end receives no more than its receive path    *)
(* holds.                                                                  *)
(***************************************************************************)
LEMMA CloseBeginMaps ==
  ASSUME VchanInv, SockInv, NEW t \in Threads, CloseBegin(t)
  PROVE  SockInv' /\ SocketStep
<1> DEFINE e == End(t)
<1>1. /\ TypeOK /\ e \in Ends /\ vc \in [Ends -> Chan] /\ ~vc[e].closed
      /\ pc \in [Threads -> {"idle", "send", "wait", "dequeue", "notify", "stop"}]
  BY ThreadEnd DEF VchanInv, TypeOK, CloseBegin
<1>2. /\ UNCHANGED <<rx, wire, path, hup, eof>>
      /\ vc' = [vc EXCEPT ![e].closed = TRUE] /\ pc' = [pc EXCEPT ![t] = "notify"]
  BY DEF CloseBegin, Goto
<1>3. /\ vc'[e].closed /\ \A d \in Ends : d # e => vc'[d].closed = vc[d].closed
      /\ \A d \in Ends : vc'[d].dead = vc[d].dead
  BY <1>1, <1>2 DEF Chan
<1>4. CloseTravels'
  <2>1. \A d \in Ends : CloseInPath(d)' = CloseInPath(d) /\ (Over(d) => Over(d)')
    BY <1>2, <1>3 DEF CloseInPath, Over
  <2> QED
    BY <1>1, <1>2, <1>3, <2>1, PeerFacts DEF SockInv, CloseTravels
<1>5. OneCloser'
  <2>1. \A u \in Threads : End(u) \in Ends
    BY ThreadEnd
  <2>2. \A u \in Threads : u # t => pc'[u] = pc[u]
    BY <1>1, <1>2
  <2>3. pc'[t] = "notify" /\ ~hup[e] /\ (vc[e].dead => hup[Peer(e)])
    BY <1>1, <1>2 DEF SockInv, CloseTravels
  <2>4. \A u \in Threads : End(u) = e => ~Closing(u)
    BY <1>1 DEF SockInv, OneCloser
  <2>5. \A u \in Threads : Closing(u)' => vc'[End(u)].closed
    BY <1>3, <2>1, <2>2 DEF Closing, SockInv, OneCloser
  <2>6. \A u \in Threads : pc'[u] = "notify" =>
          ~hup'[End(u)] /\ (vc'[End(u)].dead => hup'[Peer(End(u))])
    BY <1>2, <1>3, <2>1, <2>2, <2>3 DEF SockInv, OneCloser
  <2>7. \A u, v \in Threads : Closing(u)' /\ Closing(v)' /\ End(u) = End(v) => u = v
    BY <2>2, <2>4 DEF Closing, SockInv, OneCloser
  <2> QED
    BY <2>5, <2>6, <2>7 DEF OneCloser
<1>6. ~hup[e] /\ Phase[e] = "open" /\ Phase' = [Phase EXCEPT ![e] = "closing"]
  <2>1. ~hup[e]
    BY <1>1 DEF SockInv, CloseTravels
  <2> QED
    BY <1>1, <1>2, <1>3, <2>1 DEF Phase
<1>7. \A d \in Ends : InPath(d)' = InPath(d) /\ (d # e => Behind(d)' = Behind(d))
  BY <1>2, <1>3 DEF InPath, Behind
<1>8. Behind(e)' = << >>
  BY <1>1, <1>3 DEF Behind
<1>9. /\ rx[e] \in Seq(Items) /\ InPath(e) \in Seq(Items) /\ Behind(e) \in Seq(Items)
  <2>1. rx[e] \in Seq(Messages) /\ InPath(e) \in Seq(Messages) /\ Behind(e) \in Seq(Items)
    BY <1>1, StreamType DEF SockInv
  <2>2. Messages \subseteq Items
    BY DEF Items
  <2> QED
    BY <2>1, <2>2
<1>10. PICK u \in Seq(Items) : u = rx[e] \o InPath(e)
  <2>1. \A v, w \in Seq(Items) : v \o w \in Seq(Items)
    OBVIOUS
  <2> QED
    BY <1>9, <2>1
<1>11. /\ Len(u) \in 0 .. Len(u \o Behind(e)) /\ SubSeq(u \o Behind(e), 1, Len(u)) = u
       /\ u \o << >> = u
  BY <1>9
<1>12. Stream[e] = u \o Behind(e) /\ Stream'[e] = u
  BY <1>1, <1>2, <1>7, <1>8, <1>10, <1>11 DEF Stream
<1>13. Stream' = [Stream EXCEPT ![e] = SubSeq(@, 1, Len(u))]
  BY <1>1, <1>2, <1>7, <1>11, <1>12 DEF Stream
<1>14. Socket!Next
  BY <1>1, <1>2, <1>6, <1>11, <1>12, <1>13, AsStartClose
<1> QED
  BY <1>4, <1>5, <1>14 DEF SockInv, SocketStep

(***************************************************************************)
(* The CLOSE goes out, is not needed, or is lost.                          *)
(***************************************************************************)
LEMMA CloseNotifyMaps ==
  ASSUME VchanInv, SockInv, NEW t \in Threads, CloseNotify(t)
  PROVE  SockInv' /\ SocketStep
<1> DEFINE e == End(t)
           p == Peer(e)
<1>1. /\ TypeOK /\ e \in Ends /\ p \in Ends /\ p # e /\ Peer(p) = e
      /\ \A d \in Ends : d # p => d = e
      /\ wire \in [Ends -> Seq(Items)] /\ OneClose(wire[p])
      /\ hup \in [Ends -> BOOLEAN]
      /\ pc \in [Threads -> {"idle", "send", "wait", "dequeue", "notify", "stop"}]
  BY ThreadEnd, PeerFacts DEF VchanInv, TypeOK, SockInv, CloseTravels
<1>2. /\ UNCHANGED <<vc, rx, path, eof>> /\ pc' = [pc EXCEPT ![t] = "stop"]
      /\ pc[t] = "notify"
  BY DEF CloseNotify, Goto
<1>3. /\ vc[e].closed /\ ~hup[e] /\ (vc[e].dead => hup[p])
      /\ \A u \in Threads : Closing(u) /\ End(u) = e => u = t
  BY <1>1, <1>2 DEF SockInv, OneCloser, Closing
<1>4. ~CloseInPath(p) /\ CLOSE \notin Range(wire[p])
  BY <1>1, <1>3 DEF SockInv, CloseTravels
<1>5. \A u \in Threads : End(u) \in Ends /\ (u # t => pc'[u] = pc[u])
  BY <1>1, <1>2, ThreadEnd
<1>6. pc'[t] = "stop"
  BY <1>1, <1>2
<1>7. \A d \in Ends : CloseInPath(d)' = CloseInPath(d) /\ Over(d)' = Over(d)
  BY <1>2 DEF CloseInPath, Over
<1>8. ASSUME hup' = hup \/ hup' = [hup EXCEPT ![e] = TRUE]
      PROVE  OneCloser'
  <2>1. \A d \in Ends : (d # e => hup'[d] = hup[d]) /\ (hup[d] => hup'[d])
    BY <1>1, <1>8
  <2>2. \A u \in Threads : Closing(u)' => Closing(u)
    BY <1>2, <1>5 DEF Closing
  <2>3. \A u \in Threads : pc'[u] = "notify" => pc[u] = "notify" /\ End(u) # e
    BY <1>3, <1>5, <1>6 DEF Closing
  <2> QED
    BY <1>2, <1>5, <2>1, <2>2, <2>3, PeerFacts DEF SockInv, OneCloser
<1>9. CASE wire' = wire /\ hup' = hup
  <2>1. CloseTravels'
    BY <1>2, <1>7, <1>9, PeerFacts DEF SockInv, CloseTravels
  <2>2. Stream' = Stream /\ Phase' = Phase
    BY <1>2, <1>9 DEF Stream, Phase, InPath, Behind
  <2> QED
    BY <1>2, <1>8, <1>9, <2>1, <2>2 DEF SockInv, SocketStep
<1>10. CASE vc[e].dead /\ wire' = wire /\ hup' = [hup EXCEPT ![e] = TRUE]
  <2>1. hup'[e] /\ hup'[p] = hup[p] /\ hup[p]
    BY <1>1, <1>3, <1>10
  <2>2. vc[p].closed
    BY <1>1, <2>1 DEF SockInv, CloseTravels
  <2>3. Over(p)
    BY <2>2 DEF Over
  <2>4. CloseTravels'
    BY <1>1, <1>2, <1>3, <1>7, <1>10, <2>1, <2>3, PeerFacts DEF SockInv, CloseTravels
  <2>5. Stream' = Stream
    BY <1>2, <1>10 DEF Stream, InPath, Behind
  <2>6. Phase[e] = "closing" /\ Phase' = [Phase EXCEPT ![e] = "closed"]
    BY <1>1, <1>2, <1>3, <1>10 DEF Phase
  <2>7. Socket!Next
    BY <1>1, <1>2, <2>5, <2>6, AsFinishClose
  <2> QED
    BY <1>8, <1>10, <2>4, <2>7 DEF SockInv, SocketStep
<1>11. CASE /\ wire' = [wire EXCEPT ![p] = Append(@, CLOSE)]
            /\ hup' = [hup EXCEPT ![e] = TRUE]
  <2>1. hup'[e] /\ hup'[p] = hup[p]
    BY <1>1, <1>11
  <2>2. wire'[p] = Append(wire[p], CLOSE) /\ wire'[e] = wire[e] /\ CLOSE \in Items
    BY <1>1, <1>11 DEF Items
  <2>3. CLOSE \in Range(wire'[p]) /\ OneClose(wire'[p])
    BY <1>1, <1>4, <2>2, CloseAppended
  <2>4. CloseTravels'
    <3>1. \A d \in Ends : /\ CLOSE \in Range(wire[d]) => CLOSE \in Range(wire'[d])
                          /\ OneClose(wire'[d])
      BY <1>1, <2>2, <2>3 DEF SockInv, CloseTravels
    <3>2. \A d \in Ends : (hup'[d] => hup[d] \/ d = e) /\ (hup[d] => hup'[d])
      BY <1>1, <2>1
    <3>3. \A d \in Ends : CLOSE \in Range(wire'[d]) => hup'[Peer(d)]
      BY <1>1, <2>1, <2>2, <3>2, PeerFacts DEF SockInv, CloseTravels
    <3> QED
      BY <1>1, <1>2, <1>3, <1>7, <2>3, <3>1, <3>2, <3>3, PeerFacts DEF SockInv, CloseTravels
  <2>5. Behind(p)' = Behind(p)
    <3>1. BeforeClose(wire[p]) = wire[p] /\ BeforeClose(wire'[p]) = wire[p]
      BY <1>1, <1>4, <2>2, CutAppended DEF BeforeClose
    <3> QED
      BY <1>2, <3>1 DEF Behind
  <2>6. Stream' = Stream
    <3>1. Behind(e)' = Behind(e) /\ InPath(e)' = InPath(e) /\ InPath(p)' = InPath(p)
      BY <1>2, <2>2 DEF Behind, InPath
    <3>2. \A d \in Ends : d = e \/ d = p
      BY <1>1
    <3> QED
      BY <1>2, <2>5, <3>1, <3>2 DEF Stream
  <2>7. Phase[e] = "closing" /\ Phase' = [Phase EXCEPT ![e] = "closed"]
    BY <1>1, <1>2, <1>3, <1>11 DEF Phase
  <2>8. Socket!Next
    BY <1>1, <1>2, <2>6, <2>7, AsFinishClose
  <2> QED
    BY <1>8, <1>11, <2>4, <2>8 DEF SockInv, SocketStep
<1> QED
  BY <1>9, <1>10, <1>11 DEF CloseNotify

(***************************************************************************)
(* The parts of a stream as sequences over one set.                        *)
(***************************************************************************)
LEMMA StreamItems ==
  ASSUME TypeOK, CloseTravels, NEW e \in Ends
  PROVE  /\ rx[e] \in Seq(Items) /\ InPath(e) \in Seq(Items) /\ Behind(e) \in Seq(Items)
         /\ rx[e] \o InPath(e) \in Seq(Items)
<1>1. rx[e] \in Seq(Messages) /\ InPath(e) \in Seq(Messages) /\ Behind(e) \in Seq(Items)
  BY StreamType
<1>2. Messages \subseteq Items
  BY DEF Items
<1>3. rx[e] \in Seq(Items) /\ InPath(e) \in Seq(Items)
  BY <1>1, <1>2
<1>4. \A v, w \in Seq(Items) : v \o w \in Seq(Items)
  OBVIOUS
<1> QED
  BY <1>1, <1>3, <1>4

(***************************************************************************)
(* The last part, in a state and in the next.                              *)
(***************************************************************************)
LEMMA BehindItems == TypeOK /\ CloseTravels => \A e \in Ends : Behind(e) \in Seq(Items)
BY StreamItems

(***************************************************************************)
(* The same after a step.                                                  *)
(***************************************************************************)
LEMMA BehindItemsPrimed ==
  TypeOK' /\ CloseTravels' => \A e \in Ends : Behind(e)' \in Seq(Items)
<1>1. TypeOK' /\ CloseTravels' => (\A e \in Ends : Behind(e) \in Seq(Items))'
  BY BehindItems, PTL
<1> QED
  BY <1>1

(***************************************************************************)
(* The end of hab_vchan_close: a message that the receive path has not     *)
(* looked at yet is dropped.                                               *)
(***************************************************************************)
LEMMA CloseStopMaps ==
  ASSUME VchanInv, SockInv, NEW t \in Threads, CloseStop(t)
  PROVE  SockInv' /\ SocketStep
<1> DEFINE e == End(t)
<1>1. /\ TypeOK /\ e \in Ends /\ vc \in [Ends -> Chan]
      /\ pc \in [Threads -> {"idle", "send", "wait", "dequeue", "notify", "stop"}]
  BY ThreadEnd DEF VchanInv, TypeOK
<1>2. /\ UNCHANGED <<rx, wire, path, hup, eof>> /\ pc[t] = "stop"
      /\ vc' = [vc EXCEPT ![e].dead = TRUE, ![e].ref = @ - 1]
      /\ Goto(t, "idle")
  BY DEF CloseStop
<1>3. /\ vc'[e].dead /\ \A d \in Ends : d # e => vc'[d].dead = vc[d].dead
      /\ \A d \in Ends : vc'[d].closed = vc[d].closed
  BY <1>1, <1>2 DEF Chan
<1>4. vc[e].closed /\ \A u \in Threads : Closing(u) /\ End(u) = e => u = t
  BY <1>1, <1>2 DEF SockInv, OneCloser, Closing
<1>5. CloseTravels'
  <2>1. \A d \in Ends : CloseInPath(d)' = CloseInPath(d) /\ Over(d)' = Over(d)
    BY <1>2, <1>3, <1>4 DEF CloseInPath, Over
  <2> QED
    BY <1>1, <1>2, <1>3, <1>4, <2>1, PeerFacts DEF SockInv, CloseTravels
<1>6. OneCloser'
  <2>1. \A u \in Threads : Closing(u)' => pc'[u] = pc[u] /\ u # t
    BY <1>1, <1>2 DEF Goto, Closing
  <2>2. \A u \in Threads : Closing(u)' => Closing(u) /\ End(u) # e
    BY <1>4, <2>1 DEF Closing
  <2>3. \A u \in Threads : End(u) \in Ends
    BY ThreadEnd
  <2> QED
    BY <1>2, <1>3, <2>1, <2>2, <2>3 DEF SockInv, OneCloser, Closing
<1>7. Phase' = Phase /\ Phase[e] # "open"
  BY <1>1, <1>2, <1>3, <1>4 DEF Phase
<1>8. \A d \in Ends : Behind(d)' = Behind(d) /\ (d # e => InPath(d)' = InPath(d))
  BY <1>2, <1>3, <1>4 DEF Behind, InPath
<1>9. Behind(e) = << >>
  BY <1>4 DEF Behind
<1>10. InPath(e)' = InPath(e) \/ InPath(e)' = << >>
  BY <1>2, <1>3 DEF InPath
<1>11. CASE InPath(e)' = InPath(e)
  <2>1. Stream' = Stream
    BY <1>2, <1>8, <1>11, SameStream
  <2> QED
    BY <1>2, <1>5, <1>6, <1>7, <2>1 DEF SockInv, SocketStep
<1>12. CASE InPath(e)' = << >>
  <2>1. rx[e] \in Seq(Items) /\ InPath(e) \in Seq(Items)
    BY <1>1, StreamItems DEF SockInv
  <2>2. \A u, v \in Seq(Items) :
          /\ u \o << >> \o << >> = u
          /\ Len(u) \in 0 .. Len(u \o v \o << >>)
          /\ SubSeq(u \o v \o << >>, 1, Len(u)) = u
    OBVIOUS
  <2>3. Stream[e] = rx[e] \o InPath(e) \o << >> /\ Stream'[e] = rx[e] \o << >> \o << >>
    BY <1>1, <1>2, <1>8, <1>9, <1>12 DEF Stream
  <2>4. /\ Len(rx[e]) \in 0 .. Len(Stream[e])
        /\ Stream'[e] = SubSeq(Stream[e], 1, Len(rx[e]))
    BY <2>1, <2>2, <2>3
  <2>5. \A d \in Ends : d # e => Stream'[d] = Stream[d]
    BY <1>2, <1>8 DEF Stream
  <2>6. Stream' = [Stream EXCEPT ![e] = SubSeq(@, 1, Len(rx[e]))]
    BY <2>4, <2>5 DEF Stream
  <2>7. Socket!Next
    BY <1>1, <1>2, <1>7, <2>4, <2>6, AsDiscard
  <2> QED
    BY <1>5, <1>6, <2>7 DEF SockInv, SocketStep
<1> QED
  BY <1>10, <1>11, <1>12
-----------------------------------------------------------------------------
(* The receive path *)

(***************************************************************************)
(* The receive path takes a message off the wire, for a vchan that is open *)
(* or for none.                                                            *)
(***************************************************************************)
LEMMA RxTakesMaps ==
  ASSUME VchanInv, SockInv, NEW e \in Ends, RxGet(e) \/ RxNoVchan(e)
  PROVE  SockInv' /\ SocketStep
<1>1. /\ TypeOK /\ vc \in [Ends -> Chan] /\ wire \in [Ends -> Seq(Items)]
      /\ path \in [Ends -> {<< >>} \cup ({"got", "handle"} \X Items)]
      /\ wire[e] # << >> /\ path[e] = << >> /\ OneClose(wire[e])
  BY DEF VchanInv, TypeOK, SockInv, CloseTravels, RxGet, RxNoVchan
<1>2. UNCHANGED <<rx, pc, hup, eof>> /\ wire' = [wire EXCEPT ![e] = Tail(@)]
  BY DEF RxGet, RxNoVchan
<1>3. \A d \in Ends : vc'[d].closed = vc[d].closed /\ vc'[d].dead = vc[d].dead
  <2>1. CASE RxGet(e)
    BY <1>1, <2>1 DEF RxGet, Chan
  <2>2. CASE RxNoVchan(e)
    BY <2>2 DEF RxNoVchan
  <2> QED
    BY <2>1, <2>2
<1>4. wire'[e] = Tail(wire[e]) /\ \A d \in Ends : d # e => wire'[d] = wire[d]
  BY <1>1, <1>2
<1>5. PICK m \in Items : m = Head(wire[e])
  BY <1>1, CloseTaken
<1>6. /\ CLOSE \in Range(wire[e]) <=> m = CLOSE \/ CLOSE \in Range(wire'[e])
      /\ OneClose(wire'[e])
  BY <1>1, <1>4, <1>5, CloseTaken
<1>7. OneCloser'
  <2>1. \A u \in Threads : End(u) \in Ends
    BY ThreadEnd
  <2> QED
    BY <1>2, <1>3, <2>1, PeerFacts DEF SockInv, OneCloser, Closing
<1>8. Phase' = Phase
  BY <1>2, <1>3 DEF Phase
<1>9. \A d \in Ends : OneClose(wire'[d])
  BY <1>4, <1>6 DEF SockInv, CloseTravels
<1>10. CASE RxGet(e)
  <2>1. /\ path' = [path EXCEPT ![e] = <<"got", m>>]
        /\ ~vc[e].dead /\ ~vc[e].closed
    BY <1>5, <1>10 DEF RxGet, Gettable
  <2>2. /\ path'[e] = <<"got", m>> /\ \A d \in Ends : d # e => path'[d] = path[d]
        /\ <<"got", m>> # << >> /\ <<"got", m>>[1] = "got" /\ <<"got", m>>[2] = m
    BY <1>1, <2>1
  <2>3. /\ CloseInPath(e)' <=> m = CLOSE
        /\ ~CloseInPath(e)
        /\ \A d \in Ends : d # e => CloseInPath(d)' = CloseInPath(d) /\ Over(d)' = Over(d)
        /\ CLOSE \in Range(wire[e]) <=> CloseInPath(e)' \/ CLOSE \in Range(wire'[e])
    BY <1>1, <1>3, <1>6, <2>2 DEF CloseInPath, Over
  <2>4. Over(e)' <=> CloseInPath(e)'
    BY <1>3, <2>1 DEF Over
  <2>5. ~Over(e)
    BY <2>1, <2>3 DEF Over
  <2>6. CloseTravels'
    <3>1. \A d \in Ends : hup[d] => vc[d].closed
      BY DEF SockInv, CloseTravels
    <3>2. \A d \in Ends : hup[d] => Over(Peer(d))' \/ CLOSE \in Range(wire'[Peer(d)])
      <4> SUFFICES ASSUME NEW d \in Ends, hup[d]
                   PROVE  Over(Peer(d))' \/ CLOSE \in Range(wire'[Peer(d)])
        OBVIOUS
      <4>1. Over(Peer(d)) \/ CLOSE \in Range(wire[Peer(d)])
        BY DEF SockInv, CloseTravels
      <4>2. CASE Peer(d) = e
        BY <2>3, <2>4, <2>5, <4>1, <4>2
      <4>3. CASE Peer(d) # e
        BY <1>4, <2>3, <4>1, <4>3, PeerFacts
      <4> QED
        BY <4>2, <4>3
    <3>3. \A d \in Ends : CloseInPath(d)' \/ CLOSE \in Range(wire'[d]) => hup[Peer(d)]
      BY <1>4, <2>3 DEF SockInv, CloseTravels
    <3>4. \A d \in Ends : vc'[d].dead /\ ~vc'[d].closed => path'[d] = << >> /\ hup[Peer(d)]
      BY <1>3, <2>1, <2>2 DEF SockInv, CloseTravels
    <3> QED
      BY <1>2, <1>3, <1>9, <3>1, <3>2, <3>3, <3>4 DEF CloseTravels
  <2>7. \A d \in Ends : d # e => InPath(d)' = InPath(d) /\ Behind(d)' = Behind(d)
    BY <1>3, <1>4, <2>2 DEF InPath, Behind
  <2>8. InPath(e) = << >> /\ Behind(e) = BeforeClose(wire[e])
    BY <1>1, <2>1 DEF InPath, Behind
  <2>9. /\ InPath(e)' = IF m = CLOSE THEN << >> ELSE <<m>>
        /\ Behind(e)' = IF m = CLOSE THEN << >> ELSE BeforeClose(wire'[e])
    BY <1>3, <2>1, <2>2 DEF InPath, Behind
  <2>10. Stream'[e] = Stream[e]
    <3>1. /\ rx[e] \in Seq(Items) /\ Behind(e) \in Seq(Items)
      BY <1>1, StreamItems DEF SockInv
    <3>2. CASE m = CLOSE
      <4>1. Behind(e) = << >>
        BY <1>1, <1>5, <2>8, <3>2, CutTaken
      <4> QED
        BY <1>2, <2>8, <2>9, <3>2, <4>1 DEF Stream
    <3>3. CASE m # CLOSE
      <4>1. Behind(e) = <<m>> \o Behind(e)'
        BY <1>1, <1>4, <1>5, <2>8, <2>9, <3>3, CutTaken
      <4>2. Behind(e)' \in Seq(Items)
        <5>1. TypeOK'
          <6>1. Next
            BY <1>10 DEF Next, Rx
          <6>2. VchanInv'
            BY <6>1, VchanNext
          <6> QED
            BY <6>2 DEF VchanInv
        <5> QED
          BY <2>6, <5>1, BehindItemsPrimed
      <4>3. PICK u \in Seq(Items), w \in Seq(Items) : u = rx[e] /\ w = Behind(e)'
        BY <3>1, <4>2
      <4>4. (u \o << >>) \o (<<m>> \o w) = (u \o <<m>>) \o w
        OBVIOUS
      <4>5. Stream[e] = (u \o << >>) \o (<<m>> \o w)
        BY <2>8, <4>1, <4>3 DEF Stream
      <4>6. Stream'[e] = (u \o <<m>>) \o w
        BY <1>2, <2>9, <3>3, <4>3 DEF Stream
      <4> QED
        BY <4>4, <4>5, <4>6
    <3> QED
      BY <3>2, <3>3
  <2>11. Stream' = Stream
    BY <1>2, <2>7, <2>10 DEF Stream
  <2> QED
    BY <1>2, <1>7, <1>8, <2>6, <2>11 DEF SockInv, SocketStep
<1>11. CASE RxNoVchan(e)
  <2>1. path' = path /\ ~Gettable(e)
    BY <1>11 DEF RxNoVchan
  <2>2. vc[e].closed \/ vc[e].dead
    <3>1. Holders(e) <= vc[e].ref /\ (~vc[e].idr => vc[e].ref = 0) /\ vc[e].ref \in Int
      BY <1>1 DEF VchanInv, HeldWhileUsed, Chan
    <3>2. ~vc[e].closed => Holders(e) > 0
      BY InCallFinite DEF Holders
    <3>3. ~vc[e].closed => vc[e].ref > 0
      BY <3>1, <3>2, HoldersType
    <3> QED
      BY <2>1, <3>1, <3>3 DEF Gettable
  <2>3. \A d \in Ends : CloseInPath(d)' = CloseInPath(d) /\ Over(d)' = Over(d)
    BY <1>3, <2>1 DEF CloseInPath, Over
  <2>4. Over(e)
    BY <2>2 DEF Over
  <2>5. CloseTravels'
    <3>1. \A d \in Ends : CLOSE \in Range(wire'[d]) => CLOSE \in Range(wire[d])
      BY <1>4, <1>6
    <3>2. \A d \in Ends : CLOSE \in Range(wire[d]) => Over(d) \/ CLOSE \in Range(wire'[d])
      BY <1>4, <2>4
    <3> QED
      BY <1>2, <1>3, <1>9, <2>1, <2>3, <3>1, <3>2, PeerFacts DEF SockInv, CloseTravels
  <2>6. \A d \in Ends : InPath(d)' = InPath(d)
    BY <1>3, <2>1 DEF InPath
  <2>7. \A d \in Ends : Behind(d)' = Behind(d)
    BY <1>3, <1>4, <2>1, <2>2 DEF Behind
  <2>8. Stream' = Stream
    BY <1>2, <2>6, <2>7, SameStream
  <2> QED
    BY <1>2, <1>7, <1>8, <2>5, <2>8 DEF SockInv, SocketStep
<1> QED
  BY <1>10, <1>11

(***************************************************************************)
(* The receive path is done with what it holds: what this does to the      *)
(* stream and to the closes.                                               *)
(***************************************************************************)
LEMMA PathEnds ==
  ASSUME TypeOK, SockInv, NEW e \in Ends, PathDone(e), UNCHANGED <<wire, pc, hup>>,
         \A d \in Ends : vc'[d].closed = vc[d].closed
                         /\ (d # e => vc'[d].dead = vc[d].dead),
         vc'[e].dead = (vc[e].dead \/ CloseInPath(e))
  PROVE  /\ SockInv' /\ Phase' = Phase
         /\ \A d \in Ends : Behind(d)' = Behind(d) /\ (d # e => InPath(d)' = InPath(d))
         /\ InPath(e)' = << >>
<1>1. path'[e] = << >> /\ \A d \in Ends : d # e => path'[d] = path[d]
  BY DEF PathDone, TypeOK
<1>2. /\ ~CloseInPath(e)' /\ (Over(e)' <=> Over(e))
      /\ \A d \in Ends : d # e => CloseInPath(d)' = CloseInPath(d) /\ Over(d)' = Over(d)
  BY <1>1 DEF CloseInPath, Over
<1>3. CloseInPath(e) => hup[Peer(e)]
  BY DEF SockInv, CloseTravels
<1>4. CloseTravels'
  <2>1. \A d \in Ends : hup[d] => Over(Peer(d))' \/ CLOSE \in Range(wire[Peer(d)])
    BY <1>2, PeerFacts DEF SockInv, CloseTravels
  <2>2. \A d \in Ends : CloseInPath(d)' \/ CLOSE \in Range(wire[d]) => hup[Peer(d)]
    BY <1>2 DEF SockInv, CloseTravels
  <2>3. \A d \in Ends : vc'[d].dead /\ ~vc'[d].closed => path'[d] = << >> /\ hup[Peer(d)]
    BY <1>1, <1>3 DEF SockInv, CloseTravels
  <2> QED
    BY <2>1, <2>2, <2>3 DEF SockInv, CloseTravels
<1>5. OneCloser'
  <2>1. \A u \in Threads : End(u) \in Ends
    BY ThreadEnd
  <2> QED
    BY <1>3, <2>1 DEF SockInv, OneCloser, Closing
<1>6. Phase' = Phase
  BY DEF Phase
<1>7. \A d \in Ends : d # e => Behind(d)' = Behind(d) /\ InPath(d)' = InPath(d)
  BY <1>1 DEF Behind, InPath
<1>8. Behind(e)' = Behind(e) /\ InPath(e)' = << >>
  BY <1>1 DEF Behind, InPath, CloseInPath
<1> QED
  BY <1>4, <1>5, <1>6, <1>7, <1>8 DEF SockInv

(***************************************************************************)
(* The second look at otherend_closed.                                     *)
(***************************************************************************)
LEMMA RxCheckMaps ==
  ASSUME VchanInv, SockInv, NEW e \in Ends, RxCheck(e)
  PROVE  SockInv' /\ SocketStep
<1>1. /\ TypeOK /\ vc \in [Ends -> Chan]
      /\ path \in [Ends -> {<< >>} \cup ({"got", "handle"} \X Items)]
      /\ path[e] # << >> /\ path[e][1] = "got"
  BY DEF VchanInv, TypeOK, RxCheck
<1>2. UNCHANGED <<rx, wire, pc, hup, eof>>
  BY DEF RxCheck
<1>3. CASE vc[e].dead
  <2>1. Put(e) /\ PathDone(e)
    BY <1>3 DEF RxCheck, PathDone
  <2>2. \A d \in Ends : vc'[d].closed = vc[d].closed /\ vc'[d].dead = vc[d].dead
    BY <1>1, <2>1, CountOnly
  <2>3. /\ SockInv' /\ Phase' = Phase
        /\ \A d \in Ends : Behind(d)' = Behind(d) /\ (d # e => InPath(d)' = InPath(d))
        /\ InPath(e)' = << >>
    <3>1. vc'[e].dead = (vc[e].dead \/ CloseInPath(e))
      BY <1>1, <1>3, <2>2 DEF Chan
    <3> QED
      BY <1>1, <1>2, <2>1, <2>2, <3>1, PathEnds
  <2>4. InPath(e) = << >>
    BY <1>1, <1>3 DEF InPath
  <2>5. Stream' = Stream
    BY <1>2, <2>3, <2>4, SameStream
  <2> QED
    BY <1>2, <2>3, <2>5 DEF SocketStep
<1>4. CASE ~vc[e].dead
  <2>1. path' = [path EXCEPT ![e] = <<"handle", @[2]>>] /\ UNCHANGED vc
    BY <1>4 DEF RxCheck
  <2>2. PICK m : path'[e] = <<"handle", m>> /\ m = path[e][2]
    BY <1>1, <2>1
  <2>3. /\ path'[e] # << >> /\ path'[e][1] = "handle" /\ path'[e][2] = path[e][2]
        /\ \A d \in Ends : d # e => path'[d] = path[d]
    BY <1>1, <2>1, <2>2
  <2>4. \A d \in Ends : CloseInPath(d)' = CloseInPath(d) /\ Over(d)' = Over(d)
    BY <1>1, <2>1, <2>3 DEF CloseInPath, Over
  <2>5. CloseTravels'
    <3>1. \A d \in Ends : vc'[d].dead /\ ~vc'[d].closed => path'[d] = << >> /\ hup[Peer(d)]
      BY <1>4, <2>1, <2>3 DEF SockInv, CloseTravels
    <3> QED
      BY <1>2, <2>1, <2>4, <3>1, PeerFacts DEF SockInv, CloseTravels
  <2>6. OneCloser'
    BY <1>2, <2>1 DEF SockInv, OneCloser, Closing
  <2>7. Phase' = Phase
    BY <1>2, <2>1 DEF Phase
  <2>8. \A d \in Ends : d # e => InPath(d)' = InPath(d)
    BY <2>1, <2>3 DEF InPath
  <2>9. InPath(e)' = InPath(e)
    BY <1>1, <1>4, <2>1, <2>3 DEF InPath
  <2>10. \A d \in Ends : Behind(d)' = Behind(d)
    BY <1>1, <1>2, <2>1, <2>3 DEF Behind
  <2>11. Stream' = Stream
    BY <1>2, <2>8, <2>9, <2>10, SameStream
  <2> QED
    BY <1>2, <2>5, <2>6, <2>7, <2>11 DEF SockInv, SocketStep
<1> QED
  BY <1>3, <1>4

(***************************************************************************)
(* A message is queued, or lost for want of memory.                        *)
(***************************************************************************)
LEMMA RxMsgMaps ==
  ASSUME VchanInv, SockInv, NEW e \in Ends, RxMsg(e) \/ RxMsgLost(e)
  PROVE  SockInv' /\ SocketStep
<1>1. /\ TypeOK /\ vc \in [Ends -> Chan] /\ rx \in [Ends -> Seq(Messages)]
      /\ path[e] # << >> /\ path[e][1] = "handle" /\ path[e][2] # CLOSE
  BY DEF VchanInv, TypeOK, RxMsg, RxMsgLost, Handling
<1>2. UNCHANGED <<wire, pc, hup, eof>> /\ Put(e) /\ PathDone(e)
  BY DEF RxMsg, RxMsgLost
<1>3. \A d \in Ends : vc'[d].closed = vc[d].closed /\ vc'[d].dead = vc[d].dead
  BY <1>1, <1>2, CountOnly
<1>4. /\ SockInv' /\ Phase' = Phase
      /\ \A d \in Ends : Behind(d)' = Behind(d) /\ (d # e => InPath(d)' = InPath(d))
      /\ InPath(e)' = << >>
  <2>1. vc'[e].dead = (vc[e].dead \/ CloseInPath(e))
    BY <1>1, <1>3 DEF Chan, CloseInPath
  <2> QED
    BY <1>1, <1>2, <1>3, <2>1, PathEnds
<1>5. PICK m : m = path[e][2]
  OBVIOUS
<1>6. InPath(e) = <<m>>
  BY <1>1, <1>5 DEF InPath
<1>7. /\ rx[e] \in Seq(Items) /\ InPath(e) \in Seq(Items) /\ Behind(e) \in Seq(Items)
      /\ m \in Items
  <2>1. m \in Items
    <3>1. path[e] \in {"got", "handle"} \X Items
      BY <1>1 DEF TypeOK
    <3> QED
      BY <1>5, <3>1
  <2> QED
    BY <1>1, <2>1, StreamItems DEF SockInv
<1>8. PICK u \in Seq(Items), w \in Seq(Items) : u = rx[e] /\ w = Behind(e)
  BY <1>7
<1>9. Stream[e] = (u \o <<m>>) \o w
  BY <1>6, <1>8 DEF Stream
<1>10. CASE RxMsg(e)
  <2>1. rx'[e] = Append(rx[e], m) /\ \A d \in Ends : d # e => rx'[d] = rx[d]
    BY <1>1, <1>5, <1>10 DEF RxMsg, MsgQueue
  <2>2. Stream'[e] = (Append(u, m) \o << >>) \o w
    BY <1>4, <1>8, <2>1 DEF Stream
  <2>3. (Append(u, m) \o << >>) \o w = (u \o <<m>>) \o w
    <3>1. Append(u, m) \o << >> = u \o <<m>>
      BY <1>7
    <3> QED
      BY <3>1
  <2>4. Stream' = Stream
    BY <1>4, <1>9, <2>1, <2>2, <2>3 DEF Stream
  <2> QED
    BY <1>2, <1>4, <2>4 DEF SocketStep
<1>11. CASE RxMsgLost(e)
  <2>1. rx' = rx /\ MayLose
    BY <1>11 DEF RxMsgLost
  <2>2. Stream'[e] = (u \o << >>) \o w
    BY <1>4, <1>8, <2>1 DEF Stream
  <2>3. PICK s \in Seq(Items), k \in Nat : s = (u \o <<m>>) \o w /\ k = Len(u) + 1
    <3>1. Len(u) + 1 \in Nat /\ (u \o <<m>>) \o w \in Seq(Items)
      <4>1. <<m>> \in Seq(Items) /\ Len(u) \in Nat
        BY <1>7
      <4>2. u \o <<m>> \in Seq(Items)
        BY <4>1
      <4> QED
        BY <4>1, <4>2
    <3> QED
      BY <3>1
  <2>4. /\ DOMAIN s = 1 .. Len(s) /\ k \in 1 .. Len(s)
        /\ RemoveAt(s, k) = (u \o << >>) \o w
    <3>1. Len(u) \in Nat /\ Len(w) \in Nat /\ Len(s) = Len(u) + 1 + Len(w)
      BY <1>7, <2>3
    <3>2. k \in 1 .. Len(s) /\ DOMAIN s = 1 .. Len(s)
      BY <2>3, <3>1
    <3>3. SubSeq(s, 1, k - 1) = u
      BY <1>7, <2>3, <3>1
    <3>4. SubSeq(s, k + 1, Len(s)) = w
      BY <1>7, <2>3, <3>1
    <3>5. u \o w = (u \o << >>) \o w
      OBVIOUS
    <3> QED
      BY <3>2, <3>3, <3>4, <3>5 DEF RemoveAt
  <2>5. \A d \in Ends : d # e => Stream'[d] = Stream[d]
    BY <1>4, <2>1 DEF Stream
  <2>6. k \in DOMAIN Stream[e] /\ Stream' = [Stream EXCEPT ![e] = RemoveAt(@, k)]
    BY <1>9, <2>2, <2>3, <2>4, <2>5 DEF Stream
  <2>7. Socket!Next
    BY <1>2, <1>4, <2>1, <2>6, AsLose
  <2> QED
    BY <1>4, <2>7 DEF SocketStep
<1> QED
  BY <1>10, <1>11

(***************************************************************************)
(* The receive path hands the CLOSE to hab_vchan_stop.                     *)
(***************************************************************************)
LEMMA RxCloseMaps ==
  ASSUME VchanInv, SockInv, NEW e \in Ends, RxClose(e)
  PROVE  SockInv' /\ SocketStep
<1>1. TypeOK /\ vc \in [Ends -> Chan] /\ CloseInPath(e)
  BY DEF VchanInv, TypeOK, RxClose, Handling, CloseInPath
<1>2. /\ UNCHANGED <<rx, wire, pc, hup, eof>> /\ PathDone(e)
      /\ vc' = [vc EXCEPT ![e].dead = TRUE, ![e].ref = @ - 1]
  BY DEF RxClose
<1>3. /\ vc'[e].dead = TRUE
      /\ \A d \in Ends : vc'[d].closed = vc[d].closed
                         /\ (d # e => vc'[d].dead = vc[d].dead)
  BY <1>1, <1>2 DEF Chan
<1>4. /\ SockInv' /\ Phase' = Phase
      /\ \A d \in Ends : Behind(d)' = Behind(d) /\ (d # e => InPath(d)' = InPath(d))
      /\ InPath(e)' = << >>
  <2>1. vc'[e].dead = (vc[e].dead \/ CloseInPath(e))
    BY <1>1, <1>3
  <2> QED
    BY <1>1, <1>2, <1>3, <2>1, PathEnds
<1>5. InPath(e) = << >>
  BY <1>1 DEF InPath, CloseInPath
<1>6. Stream' = Stream
  BY <1>2, <1>4, <1>5, SameStream
<1> QED
  BY <1>2, <1>4, <1>6 DEF SocketStep
-----------------------------------------------------------------------------
(***************************************************************************)
(* Every step keeps the invariant and is a step of the socket or none.     *)
(***************************************************************************)
LEMMA SockNext == VchanInv /\ SockInv /\ [Next]_vars => SockInv' /\ SocketStep
<1> SUFFICES ASSUME VchanInv, SockInv, [Next]_vars PROVE SockInv' /\ SocketStep
  OBVIOUS
<1>1. ASSUME NEW t \in Threads, Call(t) \/ Step(t) PROVE SockInv' /\ SocketStep
  BY <1>1, IdleCalls, SendMaps, DequeueMaps, CloseBeginMaps, CloseNotifyMaps,
     CloseStopMaps DEF Call, Step
<1>2. ASSUME NEW e \in Ends, Rx(e) \/ Free(e) PROVE SockInv' /\ SocketStep
  BY <1>2, RxTakesMaps, RxCheckMaps, RxMsgMaps, RxCloseMaps, FreeMaps DEF Rx
<1>3. CASE UNCHANGED vars
  <2>1. /\ UNCHANGED <<vc, rx, wire, path, pc, hup, eof>>
    BY <1>3 DEF vars
  <2>2. /\ SockInv' /\ Phase' = Phase
        /\ \A d \in Ends : InPath(d)' = InPath(d) /\ Behind(d)' = Behind(d)
    BY <2>1, Quiet DEF VchanInv
  <2>3. Stream' = Stream
    BY <2>1, <2>2, SameStream
  <2> QED
    BY <2>1, <2>2, <2>3 DEF SocketStep
<1> QED
  BY <1>1, <1>2, <1>3 DEF Next

(***************************************************************************)
(* The vchans implement HabSocket, for any number of threads, messages and *)
(* faults: messages arrive whole, once and in order, and the end of the    *)
(* stream is reported when nothing sent before it is left                  *)
(* (hab_vchan_send, hab_vchan_recv, hab_msg_recv, hab_vchan_close).        *)
(***************************************************************************)
THEOREM VchanIsSocket == Spec => IsSocket
<1>1. Init => VchanInv /\ SockInv /\ Socket!Init
  BY VchanInit, SockInit, AsInit
<1>2. VchanInv /\ SockInv /\ [Next]_vars =>
        /\ VchanInv' /\ SockInv'
        /\ [Socket!Next]_(Socket!vars)
  <2> SUFFICES ASSUME VchanInv, SockInv, [Next]_vars
               PROVE  VchanInv' /\ SockInv' /\ [Socket!Next]_(Socket!vars)
    OBVIOUS
  <2>1. VchanInv' /\ SockInv' /\ SocketStep
    BY VchanNext, SockNext
  <2>2. Stream' = Stream /\ Phase' = Phase /\ eof' = eof => (Socket!vars)' = Socket!vars
    BY DEF Socket!vars, Stream, Phase, Behind
  <2> QED
    BY <2>1, <2>2 DEF SocketStep
<1> QED
  BY <1>1, <1>2, PTL DEF Spec, IsSocket, Socket!Spec
=============================================================================
