---------------------------- MODULE HabOpenProofs -----------------------------
(***************************************************************************)
(* Proofs about HabOpen, for any threads, opens, vchan ids and faults: the *)
(* pchan outlives its users, two vchans of one session are each other's    *)
(* other end, and a CLOSE reaches only the vchan it is for.                *)
(***************************************************************************)
EXTENDS HabOpen, SequenceTheorems, FiniteSetTheorems, TLAPS

-----------------------------------------------------------------------------
(* Queues *)

IsInit(m, s) == m.type = "INIT" /\ m.open = s

(***************************************************************************)
(* No session has two INITs in the queue q.                                *)
(***************************************************************************)
OneInit(q) ==
  \A j, k \in DOMAIN q : q[j].type = "INIT" /\ IsInit(q[k], q[j].open) => j = k

(***************************************************************************)
(* p is the queue q without its k-th message.                              *)
(***************************************************************************)
Without(p, q, k) ==
  /\ p \in Seq(Msgs) /\ Len(p) = Len(q) - 1
  /\ \A i \in 1 .. Len(p) : p[i] = IF i < k THEN q[i] ELSE q[i + 1]

(***************************************************************************)
(* list_del of a node and the head that is taken off the wire.             *)
(***************************************************************************)
LEMMA RemoveAtIs ==
  ASSUME NEW q \in Seq(Msgs), NEW k \in 1 .. Len(q)
  PROVE  Without(RemoveAt(q, k), q, k)
<1> DEFINE a == SubSeq(q, 1, k - 1)
           b == SubSeq(q, k + 1, Len(q))
<1>1. Len(q) \in Nat /\ \A i \in 1 .. Len(q) : q[i] \in Msgs
  OBVIOUS
<1>2. /\ a \in Seq(Msgs) /\ Len(a) = IF 1 <= k - 1 THEN k - 1 - 1 + 1 ELSE 0
      /\ \A i \in 1 .. k - 1 - 1 + 1 : a[i] = q[1 + i - 1]
  <2>1. \A i \in 1 .. k - 1 : q[i] \in Msgs
    BY <1>1
  <2>2. QED
    BY <1>1, <2>1, SubSeqProperties
<1>3. /\ b \in Seq(Msgs) /\ Len(b) = IF k + 1 <= Len(q) THEN Len(q) - (k + 1) + 1 ELSE 0
      /\ \A i \in 1 .. Len(q) - (k + 1) + 1 : b[i] = q[k + 1 + i - 1]
  <2>1. \A i \in k + 1 .. Len(q) : q[i] \in Msgs
    BY <1>1
  <2>2. QED
    BY <1>1, <2>1, SubSeqProperties
<1>4. Len(a) = k - 1 /\ Len(b) = Len(q) - k
  BY <1>1, <1>2, <1>3
<1>5. /\ \A i \in 1 .. k - 1 : a[i] = q[i]
      /\ \A i \in 1 .. Len(q) - k : b[i] = q[k + i]
  BY <1>1, <1>2, <1>3
<1> HIDE DEF a, b
<1>6. /\ a \o b \in Seq(Msgs) /\ Len(a \o b) = Len(a) + Len(b)
      /\ \A i \in 1 .. Len(a) + Len(b) :
           (a \o b)[i] = IF i <= Len(a) THEN a[i] ELSE b[i - Len(a)]
  BY <1>2, <1>3, ConcatProperties
<1>7. Len(a \o b) = Len(q) - 1
  BY <1>1, <1>4, <1>6
<1>8. ASSUME NEW i \in 1 .. Len(q) - 1
      PROVE  (a \o b)[i] = IF i < k THEN q[i] ELSE q[i + 1]
  <2>1. CASE i < k
    BY <1>1, <1>4, <1>5, <1>6, <2>1
  <2>2. CASE i >= k
    <3>1. (a \o b)[i] = b[i - (k - 1)] /\ i - (k - 1) \in 1 .. Len(q) - k
      BY <1>1, <1>4, <1>6, <2>2
    <3>2. b[i - (k - 1)] = q[k + (i - (k - 1))]
      BY <1>5, <3>1
    <3>3. k + (i - (k - 1)) = i + 1
      OBVIOUS
    <3>4. QED
      BY <2>2, <3>1, <3>2, <3>3
  <2>3. i < k \/ i >= k
    BY <1>1
  <2>4. QED
    BY <2>1, <2>2, <2>3
<1>9. RemoveAt(q, k) = a \o b
  BY DEF RemoveAt, a, b
<1>10. QED
  BY <1>6, <1>7, <1>8, <1>9 DEF Without

(***************************************************************************)
(* The head that hab_msg_recv takes off the wire.                          *)
(***************************************************************************)
LEMMA TailIs ==
  ASSUME NEW q \in Seq(Msgs), q # << >>
  PROVE  Without(Tail(q), q, 1) /\ 1 \in DOMAIN q /\ Head(q) = q[1] /\ Head(q) \in Msgs
<1>1. /\ Head(q) \in Msgs /\ Tail(q) \in Seq(Msgs) /\ Len(Tail(q)) = Len(q) - 1
      /\ \A i \in 1 .. Len(Tail(q)) : Tail(q)[i] = q[i + 1]
  BY HeadTailProperties
<1>2. Len(q) \in Nat \ {0} /\ DOMAIN q = 1 .. Len(q)
  BY EmptySeq
<1>3. QED
  BY <1>1, <1>2 DEF Without

(***************************************************************************)
(* What is left of a queue has no more messages and no more twins, and     *)
(* when an INIT is taken none of its session is left.                      *)
(***************************************************************************)
LEMMA WithoutLess ==
  ASSUME NEW q \in Seq(Msgs), NEW k \in 1 .. Len(q), NEW p, Without(p, q, k)
  PROVE  /\ p \in Seq(Msgs) /\ Len(p) = Len(q) - 1
         /\ Range(p) \subseteq Range(q) /\ q[k] \in Range(q)
         /\ OneInit(q) => /\ OneInit(p)
                          /\ q[k].type = "INIT" =>
                               \A m \in Range(p) : ~IsInit(m, q[k].open)
<1>1. /\ Len(q) \in Nat /\ DOMAIN q = 1 .. Len(q)
      /\ p \in Seq(Msgs) /\ Len(p) = Len(q) - 1 /\ DOMAIN p = 1 .. Len(p)
  BY LenProperties DEF Without
<1>2. ASSUME NEW i \in DOMAIN p
      PROVE  \E j \in DOMAIN q : p[i] = q[j] /\ j = (IF i < k THEN i ELSE i + 1)
  BY <1>1 DEF Without
<1>3. Range(p) \subseteq Range(q) /\ q[k] \in Range(q)
  BY <1>1, <1>2 DEF Range
<1>4. ASSUME OneInit(q) PROVE OneInit(p)
  <2> SUFFICES ASSUME NEW i \in DOMAIN p, NEW j \in DOMAIN p, p[i].type = "INIT",
                      IsInit(p[j], p[i].open)
               PROVE  i = j
    BY DEF OneInit
  <2>1. PICK x \in DOMAIN q : p[i] = q[x] /\ x = (IF i < k THEN i ELSE i + 1)
    BY <1>2
  <2>2. PICK y \in DOMAIN q : p[j] = q[y] /\ y = (IF j < k THEN j ELSE j + 1)
    BY <1>2
  <2>3. x = y
    BY <1>4, <2>1, <2>2 DEF OneInit
  <2>4. QED
    BY <1>1, <2>1, <2>2, <2>3
<1>5. ASSUME OneInit(q), q[k].type = "INIT", NEW m \in Range(p), IsInit(m, q[k].open)
      PROVE  FALSE
  <2>1. PICK i \in DOMAIN p : m = p[i]
    BY <1>5 DEF Range
  <2>2. PICK j \in DOMAIN q : p[i] = q[j] /\ j = (IF i < k THEN i ELSE i + 1)
    BY <1>2
  <2>3. k = j
    BY <1>1, <1>5, <2>1, <2>2 DEF OneInit
  <2>4. QED
    BY <1>1, <2>2, <2>3
<1>6. QED
  BY <1>1, <1>3, <1>4, <1>5

(***************************************************************************)
(* list_add_tail, and a message that is sent.                              *)
(***************************************************************************)
LEMMA AppendMore ==
  ASSUME NEW q \in Seq(Msgs), NEW m \in Msgs
  PROVE  /\ Append(q, m) \in Seq(Msgs) /\ Len(Append(q, m)) = Len(q) + 1
         /\ Range(Append(q, m)) = Range(q) \cup {m}
         /\ OneInit(q) /\ (m.type = "INIT" => \A n \in Range(q) : ~IsInit(n, m.open))
              => OneInit(Append(q, m))
<1> DEFINE p == Append(q, m)
<1>1. /\ p \in Seq(Msgs) /\ Len(p) = Len(q) + 1 /\ Len(q) \in Nat
      /\ \A i \in 1 .. Len(q) : p[i] = q[i]
      /\ p[Len(q) + 1] = m
  BY AppendProperties
<1>2. DOMAIN p = 1 .. Len(q) + 1 /\ DOMAIN q = 1 .. Len(q)
  BY <1>1, LenProperties
<1> HIDE DEF p
<1>3. Range(p) = Range(q) \cup {m}
  <2>1. Range(p) \subseteq Range(q) \cup {m}
    BY <1>1, <1>2 DEF Range
  <2>2. Range(q) \subseteq Range(p)
    BY <1>1, <1>2 DEF Range
  <2>3. Len(q) + 1 \in DOMAIN p
    BY <1>1, <1>2
  <2>4. m \in Range(p)
    BY <1>1, <2>3 DEF Range
  <2>5. QED
    BY <2>1, <2>2, <2>4
<1>4. ASSUME OneInit(q), m.type = "INIT" => \A n \in Range(q) : ~IsInit(n, m.open)
      PROVE  OneInit(p)
  <2> SUFFICES ASSUME NEW i \in DOMAIN p, NEW j \in DOMAIN p, p[i].type = "INIT",
                      IsInit(p[j], p[i].open)
               PROVE  i = j
    BY DEF OneInit
  <2>1. CASE i \in DOMAIN q /\ j \in DOMAIN q
    BY <1>1, <1>2, <1>4, <2>1 DEF OneInit
  <2>2. CASE i \in DOMAIN q /\ j = Len(q) + 1
    <3>1. p[i] = q[i] /\ q[i] \in Range(q) /\ p[j] = m
      BY <1>1, <1>2, <2>2 DEF Range
    <3>2. QED
      BY <1>4, <3>1 DEF IsInit
  <2>3. CASE i = Len(q) + 1 /\ j \in DOMAIN q
    <3>1. p[i] = m /\ q[j] \in Range(q) /\ p[j] = q[j]
      BY <1>1, <1>2, <2>3 DEF Range
    <3>2. QED
      BY <1>4, <3>1 DEF IsInit
  <2>4. QED
    BY <1>1, <1>2, <2>1, <2>2, <2>3
<1>5. QED
  BY <1>1, <1>3, <1>4 DEF p
-----------------------------------------------------------------------------
(* The invariant *)

Queued(vm) == Range(wire[vm]) \cup Range(openq[vm])

(***************************************************************************)
(* Open ids are given out once; a message or a vchan has one of them.      *)
(***************************************************************************)
Fresh ==
  /\ \A vm \in VMs : \A m \in Queued(vm) : m.open \in 1 .. opens
  /\ \A vm \in VMs, v \in Vids :
       /\ chan[vm][v].session <= opens
       /\ chan[vm][v].session = 0 => chan[vm][v] = NoChan

(***************************************************************************)
(* A thread in the handshake has a vchan of its own, which the application *)
(* cannot close yet.                                                       *)
(***************************************************************************)
InHandshake == {t \in Threads : pc[t] \in {"wait_ack", "wait_done"}}
Owned ==
  /\ \A t \in InHandshake :
       /\ mine[t].vid \in Vids /\ mine[t].open # 0
       /\ chan[VM(t)][mine[t].vid].session = mine[t].open
       /\ ~chan[VM(t)][mine[t].vid].open
  /\ \A t, u \in InHandshake : VM(t) = VM(u) /\ mine[t].vid = mine[u].vid => t = u

(***************************************************************************)
(* A session has one vchan of the front end and one INIT.                  *)
(***************************************************************************)
FeUnique ==
  \A v, w \in Vids :
    chan["fe"][v].session = chan["fe"][w].session /\ chan["fe"][v].session # 0 => v = w
InitOnce ==
  /\ OneInit(wire["be"]) /\ OneInit(openq["be"])
  /\ \A m \in Range(wire["be"]), n \in Range(openq["be"]) :
       m.type = "INIT" => ~IsInit(n, m.open)

(***************************************************************************)
(* While the front end has the vchan v of a session: no cancel or CLOSE of *)
(* it is on its way to the back end; the back end answers its INIT once;   *)
(* whoever heard the answer knows the only vchan that the back end can     *)
(* have for it, and whoever heard of the close knows that there is none.   *)
(***************************************************************************)
Pending(s) == \E m \in Queued("be") : IsInit(m, s)
Backs(s) == {w \in Vids : chan["be"][w].session = s}
SessionOK(v, s) ==
  /\ \A m \in Queued("be") :
       m.open = s => /\ m.type \notin {"INIT_CANCEL", "CLOSE"}
                     /\ m.type = "INIT" => m.vid = v
  /\ \A w \in Backs(s) : /\ chan["be"][w].other = v /\ ~chan["be"][w].dead
                         /\ ~Pending(s)
  /\ \A w, x \in Backs(s) : w = x
  /\ \A m \in Queued("fe") :
       m.open = s =>
         /\ m.type \in {"INIT_ACK", "INIT_CANCEL"} => ~Pending(s) /\ Backs(s) \subseteq {m.vid}
         /\ m.type = "CLOSE" => ~Pending(s) /\ Backs(s) = {}
  /\ chan["fe"][v].other # 0 => ~Pending(s) /\ Backs(s) \subseteq {chan["fe"][v].other}
  /\ chan["fe"][v].dead => ~Pending(s) /\ Backs(s) = {}
Sessions ==
  \A v \in Vids, s \in 1 .. MaxOpens : chan["fe"][v].session = s => SessionOK(v, s)

OpenInv ==
  TypeOK /\ Fresh /\ Owned /\ FeUnique /\ InitOnce /\ Sessions /\ RefsCoverUse
-----------------------------------------------------------------------------
(* Counting references *)

Users(vm) == {v \in Vids : chan[vm][v] # NoChan}
Waiters(vm) == {t \in Threads : VM(t) = vm /\ pc[t] \in {"wait_ack", "wait_done"}}

(***************************************************************************)
(* The vchans of a VM are finitely many, and so are its waiting threads.   *)
(***************************************************************************)
LEMMA CountsType ==
  \A vm : /\ IsFiniteSet(Users(vm)) /\ Cardinality(Users(vm)) \in Nat
          /\ IsFiniteSet(Waiters(vm)) /\ Cardinality(Waiters(vm)) \in Nat
          /\ IsFiniteSet(Users(vm)') /\ IsFiniteSet(Waiters(vm)')
          /\ Cardinality(Users(vm)') \in Nat /\ Cardinality(Waiters(vm)') \in Nat
<1> SUFFICES ASSUME NEW vm
             PROVE  /\ IsFiniteSet(Users(vm)) /\ IsFiniteSet(Waiters(vm))
                    /\ IsFiniteSet(Users(vm)') /\ IsFiniteSet(Waiters(vm)')
  BY FS_CardinalityType
<1>1. IsFiniteSet(Vids) /\ IsFiniteSet(Threads)
  <2>1. IsFiniteSet(1 .. MaxVid)
    BY OpenAssumption, FS_Interval
  <2>2. IsFiniteSet(FeThreads \cup BeThreads)
    BY OpenAssumption, FS_Union
  <2>3. QED
    BY <2>1, <2>2 DEF Vids, Threads
<1>2. /\ Users(vm) \in SUBSET Vids /\ Users(vm)' \in SUBSET Vids
      /\ Waiters(vm) \in SUBSET Threads /\ Waiters(vm)' \in SUBSET Threads
  BY DEF Users, Waiters
<1>3. QED
  BY <1>1, <1>2, FS_Subset

(***************************************************************************)
(* The vchan id v gets the contents c.                                     *)
(***************************************************************************)
SetChan(vm, v, c) == chan' = [chan EXCEPT ![vm][v] = c]

(***************************************************************************)
(* The vchans after that.                                                  *)
(***************************************************************************)
LEMMA SetChanIs ==
  ASSUME TypeOK, NEW vm \in VMs, NEW v \in Vids, NEW c \in Chan, SetChan(vm, v, c)
  PROVE  /\ chan' \in [VMs -> [Vids -> Chan]]
         /\ \A u \in VMs, w \in Vids :
              chan'[u][w] = IF u = vm /\ w = v THEN c ELSE chan[u][w]
BY DEF TypeOK, SetChan

(***************************************************************************)
(* How many vchans there are after that.                                   *)
(***************************************************************************)
LEMMA UsersChange ==
  ASSUME TypeOK, NEW vm \in VMs, NEW v \in Vids, NEW c \in Chan, SetChan(vm, v, c)
  PROVE  /\ Cardinality(Users(vm)') =
              Cardinality(Users(vm)) + (IF c = NoChan THEN 0 ELSE 1)
                                     - (IF chan[vm][v] = NoChan THEN 0 ELSE 1)
         /\ \A u \in VMs : u # vm => Users(u)' = Users(u)
<1>1. \A u \in VMs, w \in Vids :
         chan'[u][w] = IF u = vm /\ w = v THEN c ELSE chan[u][w]
  BY SetChanIs
<1>2. \A u \in VMs : u # vm => Users(u)' = Users(u)
  BY <1>1 DEF Users
<1>3. IsFiniteSet(Users(vm)) /\ Cardinality(Users(vm)) \in Nat
  BY CountsType
<1>4. Users(vm)' = IF c = NoChan THEN Users(vm) \ {v} ELSE Users(vm) \cup {v}
  BY <1>1 DEF Users
<1>5. v \in Users(vm) <=> chan[vm][v] # NoChan
  BY DEF Users
<1>6. /\ Cardinality(Users(vm) \ {v}) =
           IF v \in Users(vm) THEN Cardinality(Users(vm)) - 1 ELSE Cardinality(Users(vm))
      /\ Cardinality(Users(vm) \cup {v}) =
           IF v \in Users(vm) THEN Cardinality(Users(vm)) ELSE Cardinality(Users(vm)) + 1
  BY <1>3, FS_AddElement, FS_RemoveElement
<1>7. QED
  BY <1>2, <1>3, <1>4, <1>5, <1>6

(***************************************************************************)
(* The places of frontend_open and backend_listen inside the handshake.    *)
(***************************************************************************)
IsWait(l) == l \in {"wait_ack", "wait_done"}

(***************************************************************************)
(* How many threads wait after one of them has moved.                      *)
(***************************************************************************)
LEMMA WaitersChange ==
  ASSUME TypeOK, NEW t \in Threads, NEW l, pc' = [pc EXCEPT ![t] = l]
  PROVE  /\ Cardinality(Waiters(VM(t))') =
              Cardinality(Waiters(VM(t))) + (IF IsWait(l) THEN 1 ELSE 0)
                                          - (IF IsWait(pc[t]) THEN 1 ELSE 0)
         /\ \A u \in VMs : u # VM(t) => Waiters(u)' = Waiters(u)
<1>1. \A u \in Threads : pc'[u] = IF u = t THEN l ELSE pc[u]
  BY DEF TypeOK
<1>2. \A u \in VMs : u # VM(t) => Waiters(u)' = Waiters(u)
  BY <1>1 DEF Waiters
<1>3. IsFiniteSet(Waiters(VM(t))) /\ Cardinality(Waiters(VM(t))) \in Nat
  BY CountsType
<1> DEFINE W == Waiters(VM(t))
<1>4. W' = IF IsWait(l) THEN W \cup {t} ELSE W \ {t}
  BY <1>1 DEF Waiters, IsWait
<1>5. t \in W <=> IsWait(pc[t])
  BY DEF Waiters, IsWait
<1>6. /\ Cardinality(W \ {t}) = IF t \in W THEN Cardinality(W) - 1 ELSE Cardinality(W)
      /\ Cardinality(W \cup {t}) = IF t \in W THEN Cardinality(W) ELSE Cardinality(W) + 1
  BY <1>3, FS_AddElement, FS_RemoveElement
<1>7. QED
  BY <1>2, <1>3, <1>4, <1>5, <1>6

(***************************************************************************)
(* References stay enough when a step of the VM vm gives back no more of   *)
(* them than it ends uses.                                                 *)
(***************************************************************************)
LEMMA RefsStep ==
  ASSUME TypeOK, RefsCoverUse, NEW vm \in VMs,
         NEW r \in Int, NEW c \in Int, NEW q \in Int, NEW w \in Int,
         r >= c + q + w, Refs(vm, r),
         Cardinality(Users(vm)') = Cardinality(Users(vm)) + c,
         Len(openq'[vm]) = Len(openq[vm]) + q,
         Cardinality(Waiters(vm)') = Cardinality(Waiters(vm)) + w,
         \A u \in VMs : u # vm => /\ Users(u)' = Users(u) /\ Waiters(u)' = Waiters(u)
                                  /\ openq'[u] = openq[u]
  PROVE  RefsCoverUse' /\ ref' \in [VMs -> Int]
<1>1. \A u \in VMs : /\ ref[u] \in Int /\ ref'[u] = IF u = vm THEN ref[u] + r ELSE ref[u]
                     /\ Len(openq[u]) \in Nat
  BY DEF TypeOK, Refs
<1>2. ref' \in [VMs -> Int]
  BY <1>1 DEF TypeOK, Refs
<1>3. \A u : /\ Referrers(u) = Cardinality(Users(u)) + Len(openq[u]) + Cardinality(Waiters(u))
             /\ Referrers(u)' = Cardinality(Users(u)') + Len(openq'[u])
                                   + Cardinality(Waiters(u)')
  BY DEF Referrers, Users, Waiters
<1>4. ASSUME NEW u \in VMs PROVE ref'[u] >= 1 + Referrers(u)'
  <2>1. /\ Cardinality(Users(u)) \in Nat /\ Cardinality(Waiters(u)) \in Nat
        /\ Len(openq[u]) \in Nat /\ ref[u] \in Int
    BY <1>1, CountsType
  <2>2. ref[u] >= 1 + Referrers(u)
    BY DEF RefsCoverUse
  <2>3. ref[u] >= 1 + (Cardinality(Users(u)) + Len(openq[u]) + Cardinality(Waiters(u)))
    BY <1>3, <2>2
  <2>4. CASE u = vm
    <3>1. Referrers(u)' = (Cardinality(Users(u)) + c) + (Len(openq[u]) + q)
                            + (Cardinality(Waiters(u)) + w)
      BY <1>3, <2>4
    <3>2. ref'[u] = ref[u] + r
      BY <1>1, <2>4
    <3>3. PICK a \in Nat, b \in Nat, d \in Nat, n \in Int :
             /\ a = Cardinality(Users(u)) /\ b = Len(openq[u])
             /\ d = Cardinality(Waiters(u)) /\ n = ref[u]
      BY <2>1
    <3>4. n >= 1 + (a + b + d)
      BY <2>3, <3>3
    <3>5. n + r >= 1 + ((a + c) + (b + q) + (d + w))
      BY <3>4
    <3>6. QED
      BY <3>1, <3>2, <3>3, <3>5
  <2>5. CASE u # vm
    BY <1>1, <1>3, <2>3, <2>5
  <2>6. QED
    BY <2>4, <2>5
<1>5. QED
  BY <1>2, <1>4 DEF RefsCoverUse
-----------------------------------------------------------------------------
(* What a step does to the queues, the owners and the sessions *)

(***************************************************************************)
(* The two VMs and their threads.                                          *)
(***************************************************************************)
LEMMA VMFacts ==
  /\ "fe" \in VMs /\ "be" \in VMs /\ Peer("fe") = "be" /\ Peer("be") = "fe"
  /\ \A vm \in VMs : Peer(vm) \in VMs /\ Peer(vm) # vm
  /\ \A t \in Threads : VM(t) \in VMs
  /\ \A t \in FeThreads : t \in Threads /\ VM(t) = "fe"
  /\ \A t \in BeThreads : t \in Threads /\ VM(t) = "be"
BY OpenAssumption DEF VMs, Peer, VM, Threads

(***************************************************************************)
(* A step other than hab_msg_recv takes at most one request out of the     *)
(* open queue of its VM and sends at most one message, an INIT only with a *)
(* new open id.                                                            *)
(***************************************************************************)
Takes(vm, k) ==
  /\ k \in 1 .. Len(openq[vm])
  /\ openq' = [openq EXCEPT ![vm] = RemoveAt(@, k)]
SendsNew(vm, m) ==
  /\ m \in Msgs /\ Send(vm, m)
  /\ m.open \in 1 .. opens' /\ (m.type = "INIT" => m.open > opens)
QueuesMove(vm) ==
  /\ openq' = openq \/ \E k : Takes(vm, k)
  /\ wire' = wire \/ \E m : SendsNew(vm, m)
  /\ opens' \in {opens, opens + 1} /\ opens' \in 0 .. MaxOpens

(***************************************************************************)
(* The queues after such a step.                                           *)
(***************************************************************************)
LEMMA TakesIs ==
  ASSUME TypeOK, NEW vm \in VMs, NEW k, Takes(vm, k)
  PROVE  /\ openq' \in [VMs -> Seq(Msgs)]
         /\ \A u \in VMs : u # vm => openq'[u] = openq[u]
         /\ Len(openq'[vm]) = Len(openq[vm]) - 1
         /\ Range(openq'[vm]) \subseteq Range(openq[vm])
         /\ openq[vm][k] \in Range(openq[vm])
         /\ OneInit(openq[vm]) =>
              /\ OneInit(openq'[vm])
              /\ openq[vm][k].type = "INIT" =>
                   \A m \in Range(openq'[vm]) : ~IsInit(m, openq[vm][k].open)
<1>1. openq[vm] \in Seq(Msgs) /\ k \in 1 .. Len(openq[vm])
  BY DEF TypeOK, Takes
<1>2. openq'[vm] = RemoveAt(openq[vm], k) /\ \A u \in VMs : u # vm => openq'[u] = openq[u]
  BY DEF TypeOK, Takes
<1>3. Without(openq'[vm], openq[vm], k)
  BY <1>1, <1>2, RemoveAtIs
<1>4. /\ openq'[vm] \in Seq(Msgs) /\ Len(openq'[vm]) = Len(openq[vm]) - 1
      /\ Range(openq'[vm]) \subseteq Range(openq[vm]) /\ openq[vm][k] \in Range(openq[vm])
      /\ OneInit(openq[vm]) =>
           /\ OneInit(openq'[vm])
           /\ openq[vm][k].type = "INIT" =>
                \A m \in Range(openq'[vm]) : ~IsInit(m, openq[vm][k].open)
  BY <1>1, <1>3, WithoutLess
<1>5. openq' \in [VMs -> Seq(Msgs)]
  BY <1>2, <1>4 DEF TypeOK, Takes
<1>6. QED
  BY <1>2, <1>4, <1>5

(***************************************************************************)
(* The wires after a message is sent.                                      *)
(***************************************************************************)
LEMMA SendIs ==
  ASSUME TypeOK, NEW vm \in VMs, NEW m \in Msgs, Send(vm, m)
  PROVE  /\ wire' \in [VMs -> Seq(Msgs)]
         /\ wire'[vm] = wire[vm]
         /\ Range(wire'[Peer(vm)]) = Range(wire[Peer(vm)]) \cup {m}
         /\ OneInit(wire[Peer(vm)])
              /\ (m.type = "INIT" => \A n \in Range(wire[Peer(vm)]) : ~IsInit(n, m.open))
              => OneInit(wire'[Peer(vm)])
<1>1. Peer(vm) \in VMs /\ Peer(vm) # vm /\ wire[Peer(vm)] \in Seq(Msgs)
  BY VMFacts DEF TypeOK
<1>2. wire'[Peer(vm)] = Append(wire[Peer(vm)], m) /\ wire'[vm] = wire[vm]
  BY <1>1 DEF TypeOK, Send
<1>3. /\ Append(wire[Peer(vm)], m) \in Seq(Msgs)
      /\ Range(wire'[Peer(vm)]) = Range(wire[Peer(vm)]) \cup {m}
      /\ OneInit(wire[Peer(vm)])
              /\ (m.type = "INIT" => \A n \in Range(wire[Peer(vm)]) : ~IsInit(n, m.open))
              => OneInit(wire'[Peer(vm)])
  BY <1>1, <1>2, AppendMore
<1>4. wire' \in [VMs -> Seq(Msgs)]
  BY <1>3 DEF TypeOK, Send
<1>5. QED
  BY <1>2, <1>3, <1>4

(***************************************************************************)
(* The part of Fresh that is about messages.                               *)
(***************************************************************************)
FreshMsgs == \A vm \in VMs : \A m \in Queued(vm) : m.open \in 1 .. opens

(***************************************************************************)
(* The queues after such a step have nothing new but the message it sends, *)
(* and still at most one INIT of a session.                                *)
(***************************************************************************)
LEMMA QueuesStep ==
  ASSUME OpenInv, NEW vm \in VMs, QueuesMove(vm)
  PROVE  /\ openq' \in [VMs -> Seq(Msgs)] /\ wire' \in [VMs -> Seq(Msgs)]
         /\ InitOnce' /\ FreshMsgs'
         /\ Queued(vm)' \subseteq Queued(vm)
         /\ wire' = wire => Queued(Peer(vm))' \subseteq Queued(Peer(vm))
         /\ \A m : SendsNew(vm, m) => Queued(Peer(vm))' \subseteq Queued(Peer(vm)) \cup {m}
<1>1. /\ openq \in [VMs -> Seq(Msgs)] /\ wire \in [VMs -> Seq(Msgs)] /\ TypeOK
      /\ opens \in Nat /\ opens' \in Nat /\ opens <= opens'
  BY OpenAssumption DEF OpenInv, TypeOK, QueuesMove
<1>2. /\ openq' \in [VMs -> Seq(Msgs)]
      /\ \A u \in VMs : Range(openq'[u]) \subseteq Range(openq[u])
      /\ \A u \in VMs : u # vm => openq'[u] = openq[u]
      /\ OneInit(openq["be"]) => OneInit(openq'["be"])
  <2>1. CASE openq' = openq
    BY <1>1, <2>1
  <2>2. CASE \E k : Takes(vm, k)
    BY <1>1, <2>2, TakesIs, VMFacts
  <2>3. QED
    BY <2>1, <2>2 DEF QueuesMove
<1>3. /\ OneInit(wire["be"]) /\ OneInit(openq["be"])
      /\ \A m \in Range(wire["be"]), n \in Range(openq["be"]) :
            m.type = "INIT" => ~IsInit(n, m.open)
  BY DEF OpenInv, InitOnce
<1>4. \A u \in VMs : \A m \in Queued(u) : m.open \in 1 .. opens
  BY DEF OpenInv, Fresh
<1>5. CASE wire' = wire
  <2>1. InitOnce'
    BY <1>2, <1>3, <1>5, VMFacts DEF InitOnce
  <2>2. \A u \in VMs : Queued(u)' \subseteq Queued(u)
    BY <1>2, <1>5 DEF Queued
  <2>3. FreshMsgs'
    BY <1>1, <1>4, <2>2 DEF FreshMsgs
  <2>4. ASSUME NEW m, SendsNew(vm, m)
        PROVE  Queued(Peer(vm))' \subseteq Queued(Peer(vm)) \cup {m}
    BY <2>2, VMFacts
  <2>5. QED
    BY <1>1, <1>2, <1>5, <2>1, <2>2, <2>3, <2>4, VMFacts
<1>6. ASSUME NEW m, SendsNew(vm, m)
      PROVE  /\ wire' \in [VMs -> Seq(Msgs)]
             /\ InitOnce' /\ FreshMsgs'
             /\ Queued(vm)' \subseteq Queued(vm)
             /\ Queued(Peer(vm))' \subseteq Queued(Peer(vm)) \cup {m}
  <2>1. /\ m \in Msgs /\ Send(vm, m) /\ m.open \in 1 .. opens'
        /\ m.type = "INIT" => m.open > opens
    BY <1>6 DEF SendsNew
  <2>2. /\ wire' \in [VMs -> Seq(Msgs)] /\ wire'[vm] = wire[vm]
        /\ Range(wire'[Peer(vm)]) = Range(wire[Peer(vm)]) \cup {m}
        /\ OneInit(wire[Peer(vm)])
              /\ (m.type = "INIT" => \A n \in Range(wire[Peer(vm)]) : ~IsInit(n, m.open))
              => OneInit(wire'[Peer(vm)])
    BY <1>1, <2>1, SendIs
  <2>3. m.type = "INIT" => \A u \in VMs : \A n \in Queued(u) : ~IsInit(n, m.open)
    BY <1>1, <1>4, <2>1 DEF IsInit
  <2>4. Queued(vm)' \subseteq Queued(vm)
    BY <1>2, <2>2 DEF Queued
  <2>5. Queued(Peer(vm))' \subseteq Queued(Peer(vm)) \cup {m}
    BY <1>2, <2>2, VMFacts DEF Queued
  <2>6. FreshMsgs'
    <3>1. \A u \in VMs : u = vm \/ u = Peer(vm)
      BY DEF VMs, Peer
    <3>2. QED
      BY <1>1, <1>4, <2>1, <2>4, <2>5, <3>1 DEF FreshMsgs
  <2>7. InitOnce'
    <3>1. CASE vm = "be"
      BY <1>2, <1>3, <2>2, <3>1, VMFacts DEF InitOnce
    <3>2. CASE vm = "fe"
      <4>1. Peer(vm) = "be" /\ openq'["be"] = openq["be"]
        BY <1>2, <3>2, VMFacts
      <4>2. OneInit(wire'["be"])
        BY <1>3, <2>2, <2>3, <4>1, VMFacts DEF Queued
      <4>3. ASSUME NEW a \in Range(wire'["be"]), NEW n \in Range(openq'["be"]),
                   a.type = "INIT"
            PROVE  ~IsInit(n, a.open)
        <5>1. n \in Queued("be")
          BY <4>1 DEF Queued
        <5>2. CASE a = m
          BY <2>3, <4>3, <5>1, <5>2, VMFacts
        <5>3. CASE a \in Range(wire["be"])
          BY <1>3, <4>1, <4>3, <5>3
        <5>4. QED
          BY <2>2, <4>1, <5>2, <5>3
      <4>4. QED
        BY <1>2, <1>3, <4>2, <4>3 DEF InitOnce
    <3>3. QED
      BY <3>1, <3>2 DEF VMs
  <2>8. QED
    BY <2>2, <2>4, <2>5, <2>6, <2>7
<1>7. QED
  BY <1>1, <1>2, <1>5, <1>6 DEF QueuesMove

(***************************************************************************)
(* The same message but for ver_proto.                                     *)
(***************************************************************************)
Alike(m, n) == m.type = n.type /\ m.vid = n.vid /\ m.open = n.open

(***************************************************************************)
(* The session of v goes on as before when the step adds neither a vchan   *)
(* nor a message of it.                                                    *)
(***************************************************************************)
LEMMA SessionKept ==
  ASSUME NEW v \in Vids, NEW s, SessionOK(v, s),
         chan'["fe"][v].other = chan["fe"][v].other,
         chan'["fe"][v].dead = chan["fe"][v].dead,
         \A m \in Queued("be")' :
            m.open = s /\ m.type \in {"INIT", "INIT_CANCEL", "CLOSE"}
              => \E n \in Queued("be") : Alike(m, n),
         \A m \in Queued("fe")' :
            m.open = s /\ m.type \in {"INIT_ACK", "INIT_CANCEL", "CLOSE"}
              => \E n \in Queued("fe") : Alike(m, n),
         \A w \in Vids :
            chan'["be"][w].session = s => /\ chan["be"][w].session = s
                                          /\ chan'["be"][w].other = chan["be"][w].other
                                          /\ chan'["be"][w].dead = chan["be"][w].dead
  PROVE  SessionOK(v, s)'
<1>1. Backs(s)' \subseteq Backs(s)
  BY DEF Backs
<1>2. Pending(s)' => Pending(s)
  BY DEF Pending, IsInit, Alike
<1>3. \A w \in Backs(s)' : /\ chan'["be"][w].other = v /\ ~chan'["be"][w].dead
                          /\ ~Pending(s)'
  BY <1>1, <1>2 DEF SessionOK, Backs
<1>4. \A m \in Queued("be")' :
       m.open = s => /\ m.type \notin {"INIT_CANCEL", "CLOSE"}
                     /\ m.type = "INIT" => m.vid = v
  BY DEF SessionOK, Alike
<1>5. ASSUME NEW m \in Queued("fe")', m.open = s,
             m.type \in {"INIT_ACK", "INIT_CANCEL", "CLOSE"}
      PROVE  /\ m.type \in {"INIT_ACK", "INIT_CANCEL"} =>
                  ~Pending(s)' /\ Backs(s)' \subseteq {m.vid}
             /\ m.type = "CLOSE" => ~Pending(s)' /\ Backs(s)' = {}
  <2>1. PICK n \in Queued("fe") : Alike(m, n)
    BY <1>5
  <2>2. QED
    BY <1>1, <1>2, <1>5, <2>1 DEF SessionOK, Alike
<1>6. \A w, x \in Backs(s)' : w = x
  BY <1>1 DEF SessionOK
<1>7. /\ chan'["fe"][v].other # 0 => ~Pending(s)' /\ Backs(s)' \subseteq {chan'["fe"][v].other}
      /\ chan'["fe"][v].dead => ~Pending(s)' /\ Backs(s)' = {}
  BY <1>1, <1>2 DEF SessionOK
<1>8. QED
  BY <1>3, <1>4, <1>5, <1>6, <1>7 DEF SessionOK
(***************************************************************************)
(* A thread leaves the handshake, or stays outside; only the vchan of one  *)
(* that leaves changes.                                                    *)
(***************************************************************************)
LEMMA OwnedLeave ==
  ASSUME TypeOK, Owned, NEW t \in Threads, NEW l, ~IsWait(l),
         pc' = [pc EXCEPT ![t] = l], \A u \in Threads : u # t => mine'[u] = mine[u],
         \A vm \in VMs, v \in Vids :
            vm # VM(t) \/ v # mine[t].vid \/ ~IsWait(pc[t]) => chan'[vm][v] = chan[vm][v]
  PROVE  Owned'
<1>1. \A u \in InHandshake' : u # t /\ u \in InHandshake /\ u \in Threads /\ VM(u) \in VMs
  BY VMFacts DEF InHandshake, IsWait, TypeOK
<1>2. IsWait(pc[t]) => t \in InHandshake
  BY DEF InHandshake, IsWait
<1>3. ASSUME NEW u \in InHandshake'
      PROVE  mine'[u] = mine[u] /\ chan'[VM(u)][mine[u].vid] = chan[VM(u)][mine[u].vid]
  <2>1. mine[u].vid \in Vids
    BY <1>1, <1>3 DEF Owned
  <2>2. VM(u) # VM(t) \/ mine[u].vid # mine[t].vid \/ ~IsWait(pc[t])
    BY <1>1, <1>2, <1>3 DEF Owned
  <2>3. QED
    BY <1>1, <1>3, <2>1, <2>2
<1>4. QED
  BY <1>1, <1>3 DEF Owned

(***************************************************************************)
(* A thread enters the handshake with a new vchan.                         *)
(***************************************************************************)
LEMMA OwnedEnter ==
  ASSUME TypeOK, Owned, NEW t \in Threads, NEW l, pc' = [pc EXCEPT ![t] = l],
         NEW v \in Vids, chan[VM(t)][v] = NoChan, NEW o \in 1 .. MaxOpens,
         mine' = [mine EXCEPT ![t] = [open |-> o, vid |-> v]],
         NEW c \in Chan, SetChan(VM(t), v, c), c.session = o, ~c.open, ~IsWait(pc[t])
  PROVE  Owned'
<1>1. \A u \in InHandshake' : u \in Threads /\ VM(u) \in VMs /\ (u # t => u \in InHandshake)
  BY VMFacts DEF InHandshake, TypeOK
<1>2. \A u \in VMs, w \in Vids :
         chan'[u][w] = IF u = VM(t) /\ w = v THEN c ELSE chan[u][w]
  BY SetChanIs, VMFacts
<1>3. mine'[t].vid = v /\ mine'[t].open = o /\ \A u \in Threads : u # t => mine'[u] = mine[u]
  BY DEF TypeOK
<1>4. o # 0
  OBVIOUS
<1>5. ASSUME NEW u \in InHandshake', u # t
      PROVE  /\ mine[u].vid \in Vids /\ mine[u].open # 0 /\ u \in InHandshake
             /\ chan[VM(u)][mine[u].vid].session = mine[u].open
             /\ ~chan[VM(u)][mine[u].vid].open
             /\ VM(u) # VM(t) \/ mine[u].vid # v
  BY <1>1, <1>5 DEF Owned, NoChan
<1>6. ASSUME NEW u \in InHandshake'
      PROVE  /\ mine'[u].vid \in Vids /\ mine'[u].open # 0
             /\ chan'[VM(u)][mine'[u].vid].session = mine'[u].open
             /\ ~chan'[VM(u)][mine'[u].vid].open
  <2>1. CASE u = t
    BY <1>2, <1>3, <1>4, <2>1, VMFacts
  <2>2. CASE u # t
    BY <1>1, <1>2, <1>3, <1>5, <2>2
  <2>3. QED
    BY <2>1, <2>2
<1>7. ASSUME NEW x \in InHandshake', NEW u \in InHandshake', VM(x) = VM(u),
             mine'[x].vid = mine'[u].vid
      PROVE  x = u
  <2>1. CASE x # t /\ u # t
    BY <1>1, <1>3, <1>7, <2>1 DEF Owned
  <2>2. CASE x = t /\ u # t
    BY <1>1, <1>3, <1>5, <1>7, <2>2
  <2>3. CASE x # t /\ u = t
    BY <1>1, <1>3, <1>5, <1>7, <2>3
  <2>4. QED
    BY <2>1, <2>2, <2>3
<1>8. QED
  BY <1>6, <1>7 DEF Owned

(***************************************************************************)
(* No thread is in between, and the vchans that are not open keep their    *)
(* session.                                                                *)
(***************************************************************************)
LEMMA OwnedChan ==
  ASSUME TypeOK, Owned, UNCHANGED <<pc, mine>>,
         \A vm \in VMs, v \in Vids :
            ~chan[vm][v].open => /\ chan'[vm][v].session = chan[vm][v].session
                                 /\ chan'[vm][v].open = chan[vm][v].open
  PROVE  Owned'
<1>1. InHandshake' = InHandshake /\ \A u \in InHandshake : u \in Threads /\ VM(u) \in VMs
  BY VMFacts DEF InHandshake
<1>2. QED
  BY <1>1 DEF Owned

(***************************************************************************)
(* No vchan of the front end gets a session.                               *)
(***************************************************************************)
LEMMA FeUniqueKept ==
  ASSUME FeUnique,
         \A v \in Vids : chan'["fe"][v].session \in {chan["fe"][v].session, 0}
  PROVE  FeUnique'
BY DEF FeUnique

(***************************************************************************)
(* The part of Fresh that is about vchans.                                 *)
(***************************************************************************)
FreshChans ==
  \A vm \in VMs, v \in Vids :
    /\ chan[vm][v].session <= opens
    /\ chan[vm][v].session = 0 => chan[vm][v] = NoChan

(***************************************************************************)
(* A vchan that is freed, or has a known session, keeps that part.         *)
(***************************************************************************)
LEMMA SetChanFresh ==
  ASSUME OpenInv, NEW vm \in VMs, NEW v \in Vids, NEW c \in Chan, SetChan(vm, v, c),
         opens' \in {opens, opens + 1},
         c = NoChan \/ (c.session # 0 /\ c.session <= opens')
  PROVE  FreshChans'
<1>1. \A u \in VMs, w \in Vids :
         chan'[u][w] = IF u = vm /\ w = v THEN c ELSE chan[u][w]
  BY SetChanIs DEF OpenInv
<1>2. \A u \in VMs, w \in Vids : /\ chan[u][w].session <= opens /\ chan[u][w].session \in Nat
                                 /\ chan[u][w].session = 0 => chan[u][w] = NoChan
  BY OpenAssumption DEF OpenInv, Fresh, TypeOK, Chan
<1>3. opens \in Nat /\ c.session \in Nat /\ (c = NoChan => c.session = 0)
  BY OpenAssumption DEF OpenInv, TypeOK, Chan, NoChan
<1>4. QED
  BY <1>1, <1>2, <1>3 DEF FreshChans

(***************************************************************************)
(* The parts together.                                                     *)
(***************************************************************************)
LEMMA PartsMake ==
  ASSUME TypeOK', FreshMsgs', FreshChans', Owned', FeUnique', InitOnce', Sessions',
         RefsCoverUse'
  PROVE  OpenInv'
BY DEF OpenInv, Fresh, FreshMsgs, FreshChans
(***************************************************************************)
(* Every session goes on as before when each new vchan of the back end and *)
(* each new message belongs to a session that the front end has left.      *)
(***************************************************************************)
LEMMA SessionsKept ==
  ASSUME OpenInv,
         \A v \in Vids : chan'["fe"][v].session # 0 =>
            /\ chan'["fe"][v].session = chan["fe"][v].session
            /\ chan'["fe"][v].other = chan["fe"][v].other
            /\ chan'["fe"][v].dead = chan["fe"][v].dead,
         \A w \in Vids :
            \/ /\ chan'["be"][w].session = chan["be"][w].session
               /\ chan'["be"][w].other = chan["be"][w].other
               /\ chan'["be"][w].dead = chan["be"][w].dead
            \/ chan'["be"][w].session = 0
            \/ \A v \in Vids : chan'["fe"][v].session # chan'["be"][w].session,
         \A m \in Queued("be")' : m.type \in {"INIT", "INIT_CANCEL", "CLOSE"} =>
            \/ \E n \in Queued("be") : Alike(m, n)
            \/ \A v \in Vids : chan'["fe"][v].session # m.open,
         \A m \in Queued("fe")' : m.type \in {"INIT_ACK", "INIT_CANCEL", "CLOSE"} =>
            \/ \E n \in Queued("fe") : Alike(m, n)
            \/ \A v \in Vids : chan'["fe"][v].session # m.open
  PROVE  Sessions'
<1> SUFFICES ASSUME NEW v \in Vids, NEW s \in 1 .. MaxOpens, chan'["fe"][v].session = s
             PROVE  SessionOK(v, s)'
  BY DEF Sessions
<1>1. s = chan'["fe"][v].session
  OBVIOUS
<1>2. s # 0 /\ s = chan["fe"][v].session
  BY <1>1
<1>3. SessionOK(v, s)
  BY <1>2 DEF OpenInv, Sessions
<1>4. /\ chan'["fe"][v].other = chan["fe"][v].other
      /\ chan'["fe"][v].dead = chan["fe"][v].dead
  OBVIOUS
<1>5. \A m \in Queued("be")' :
            m.open = s /\ m.type \in {"INIT", "INIT_CANCEL", "CLOSE"}
              => \E n \in Queued("be") : Alike(m, n)
  BY <1>1
<1>6. \A m \in Queued("fe")' :
            m.open = s /\ m.type \in {"INIT_ACK", "INIT_CANCEL", "CLOSE"}
              => \E n \in Queued("fe") : Alike(m, n)
  BY <1>1
<1>7. \A w \in Vids :
            chan'["be"][w].session = s => /\ chan["be"][w].session = s
                                          /\ chan'["be"][w].other = chan["be"][w].other
                                          /\ chan'["be"][w].dead = chan["be"][w].dead
  BY <1>1, <1>2
<1>8. SessionOK(v, s)'
  BY <1>3, <1>4, <1>5, <1>6, <1>7, SessionKept
<1>9. QED
  BY <1>8

(***************************************************************************)
(* A session that the back end has left for good.                          *)
(***************************************************************************)
LEMMA SessionEmpty ==
  ASSUME NEW v, NEW s, ~Pending(s)', Backs(s)' = {},
         \A m \in Queued("be")' : m.open = s => m.type \notin {"INIT_CANCEL", "CLOSE"}
  PROVE  SessionOK(v, s)'
BY DEF SessionOK, Pending, IsInit

(***************************************************************************)
(* Taking and freeing a vchan id do not make the vchans of other sessions  *)
(* change.                                                                 *)
(***************************************************************************)
LEMMA OthersKept ==
  ASSUME OpenInv, NEW u \in Vids, NEW s, SessionOK(u, s), s # 0, NEW w \in Vids,
         NEW c \in Chan, SetChan("be", w, c), c.session # s, NEW m, SendsNew("be", m),
         m.open # s, QueuesMove("be")
  PROVE  SessionOK(u, s)'
<1>1. \A x \in VMs, y \in Vids :
         chan'[x][y] = IF x = "be" /\ y = w THEN c ELSE chan[x][y]
  BY SetChanIs, VMFacts DEF OpenInv
<1>2. chan'["fe"][u] = chan["fe"][u]
  BY <1>1, VMFacts
<1>3. /\ Queued("be")' \subseteq Queued("be")
      /\ Queued("fe")' \subseteq Queued("fe") \cup {m}
  BY QueuesStep, VMFacts
<1>4. \A x \in Vids : chan'["be"][x].session = s => chan'["be"][x] = chan["be"][x]
  BY <1>1, VMFacts
<1>5. QED
  BY <1>2, <1>3, <1>4, SessionKept DEF Alike

(***************************************************************************)
(* The back end frees its vchan of a session and says so.                  *)
(***************************************************************************)
LEMMA BackGone ==
  ASSUME OpenInv, NEW w \in Vids, chan["be"][w].session # 0, SetChan("be", w, NoChan),
         NEW m, SendsNew("be", m), m.open = chan["be"][w].session,
         QueuesMove("be")
  PROVE  Sessions'
<1>1. NoChan \in Chan /\ NoChan.session = 0 /\ TypeOK
  BY OpenAssumption DEF NoChan, Chan, OpenInv
<1>2. \A x \in VMs, y \in Vids :
         chan'[x][y] = IF x = "be" /\ y = w THEN NoChan ELSE chan[x][y]
  BY <1>1, SetChanIs, VMFacts
<1>3. \A v \in Vids : chan'["fe"][v] = chan["fe"][v]
  BY <1>2, VMFacts
<1> SUFFICES ASSUME NEW v \in Vids, NEW s \in 1 .. MaxOpens, chan'["fe"][v].session = s
             PROVE  SessionOK(v, s)'
  BY DEF Sessions
<1>4. chan["fe"][v].session = s
  BY <1>3
<1>5. SessionOK(v, s) /\ s # 0
  BY <1>4 DEF OpenInv, Sessions
<1>6. CASE m.open # s
  BY <1>1, <1>5, <1>6, OthersKept
<1>7. CASE m.open = s
  <2>1. w \in Backs(s) /\ \A x \in Backs(s) : x = w
    BY <1>5, <1>7 DEF Backs, SessionOK
  <2>2. Backs(s)' = {}
    BY <1>1, <1>2, <1>5, <2>1, VMFacts DEF Backs
  <2>3. Queued("be")' \subseteq Queued("be")
    BY QueuesStep, VMFacts
  <2>4. ~Pending(s)'
    BY <1>5, <2>1, <2>3 DEF SessionOK, Pending
  <2>5. \A n \in Queued("be")' : n.open = s => n.type \notin {"INIT_CANCEL", "CLOSE"}
    BY <1>5, <2>3 DEF SessionOK
  <2>6. QED
    BY <2>2, <2>4, <2>5, SessionEmpty
<1>8. QED
  BY <1>6, <1>7

(***************************************************************************)
(* A thread comes out of the handshake; its vchan is open or freed.        *)
(***************************************************************************)
LEMMA LeaveStep ==
  ASSUME OpenInv, NEW t \in InHandshake, NEW l \in {"idle", "wait_init"},
         pc' = [pc EXCEPT ![t] = l],
         mine' = [mine EXCEPT ![t] = [open |-> 0, vid |-> 0]],
         NEW c \in Chan, SetChan(VM(t), mine[t].vid, c),
         c = NoChan \/ c.session = mine[t].open,
         QueuesMove(VM(t)), opens' = opens,
         NEW r \in Int, NEW q \in Int, Refs(VM(t), r),
         Len(openq'[VM(t)]) = Len(openq[VM(t)]) + q,
         r >= (IF c = NoChan THEN -1 ELSE 0) + q + (-1),
         proto' \in [VMs -> {0, 1}], UNCHANGED <<forbidden, listens>>, Sessions'
  PROVE  OpenInv'
<1>1. /\ TypeOK /\ Fresh /\ Owned /\ FeUnique /\ InitOnce /\ RefsCoverUse
      /\ t \in Threads /\ VM(t) \in VMs /\ IsWait(pc[t]) /\ ~IsWait(l)
  BY VMFacts DEF OpenInv, InHandshake, IsWait
<1>2. PICK v \in Vids : v = mine[t].vid
  BY <1>1 DEF Owned
<1>3. /\ chan[VM(t)][v].session = mine[t].open /\ mine[t].open # 0
      /\ chan[VM(t)][v] # NoChan /\ SetChan(VM(t), v, c)
  BY <1>1, <1>2 DEF Owned, NoChan
<1>4. /\ openq' \in [VMs -> Seq(Msgs)] /\ wire' \in [VMs -> Seq(Msgs)]
      /\ InitOnce' /\ FreshMsgs'
  BY <1>1, QueuesStep
<1>5. /\ chan' \in [VMs -> [Vids -> Chan]]
      /\ \A x \in VMs, y \in Vids :
           chan'[x][y] = IF x = VM(t) /\ y = v THEN c ELSE chan[x][y]
  BY <1>1, <1>3, SetChanIs
<1>6. FreshChans'
  <2>1. c = NoChan \/ (c.session # 0 /\ c.session <= opens')
    BY <1>1, <1>3 DEF Fresh
  <2>2. QED
    BY <1>1, <1>3, <2>1, SetChanFresh
<1>7. Owned'
  <2>1. \A u \in Threads : u # t => mine'[u] = mine[u]
    BY <1>1 DEF TypeOK
  <2>2. QED
    <3>1. \A x \in VMs, y \in Vids :
             x # VM(t) \/ y # mine[t].vid \/ ~IsWait(pc[t]) => chan'[x][y] = chan[x][y]
      BY <1>1, <1>2, <1>5
    <3>2. QED
      BY <1>1, <2>1, <3>1, OwnedLeave
<1>8. FeUnique'
  BY <1>1, <1>3, <1>5, FeUniqueKept, VMFacts DEF NoChan
<1>9. RefsCoverUse' /\ ref' \in [VMs -> Int]
  <2>1. /\ Cardinality(Users(VM(t))') =
             Cardinality(Users(VM(t))) + (IF c = NoChan THEN 0 ELSE 1) - 1
        /\ \A u \in VMs : u # VM(t) => Users(u)' = Users(u)
    BY <1>1, <1>3, UsersChange
  <2>2. /\ Cardinality(Waiters(VM(t))') = Cardinality(Waiters(VM(t))) + 0 - 1
        /\ \A u \in VMs : u # VM(t) => Waiters(u)' = Waiters(u)
    BY <1>1, WaitersChange
  <2>3. Cardinality(Users(VM(t))) \in Nat /\ Cardinality(Waiters(VM(t))) \in Nat
    BY CountsType
  <2>4. /\ Cardinality(Users(VM(t))') =
             Cardinality(Users(VM(t))) + (IF c = NoChan THEN -1 ELSE 0)
        /\ Cardinality(Waiters(VM(t))') = Cardinality(Waiters(VM(t))) + (-1)
    BY <2>1, <2>2, <2>3
  <2>5. \A u \in VMs : u # VM(t) => openq'[u] = openq[u]
    BY <1>1, TakesIs DEF QueuesMove
  <2>6. (IF c = NoChan THEN -1 ELSE 0) \in Int /\ -1 \in Int
    OBVIOUS
  <2>7. QED
    BY <1>1, <2>1, <2>2, <2>4, <2>5, <2>6, RefsStep
<1>10. TypeOK'
  <2>1. pc' \in [Threads -> {"idle", "wait_ack", "wait_init", "wait_done"}]
    BY <1>1 DEF TypeOK
  <2>2. mine' \in [Threads -> [open : 0 .. MaxOpens, vid : 0 .. MaxVid]]
    <3>1. 0 \in 0 .. MaxOpens /\ 0 \in 0 .. MaxVid
      BY OpenAssumption
    <3>2. QED
      BY <1>1, <3>1 DEF TypeOK
  <2>3. QED
    BY <1>1, <1>4, <1>5, <1>9, <2>1, <2>2 DEF TypeOK
<1>11. QED
  BY <1>4, <1>6, <1>7, <1>8, <1>9, <1>10, PartsMake
(***************************************************************************)
(* A thread enters the handshake with a new vchan.                         *)
(***************************************************************************)
LEMMA EnterStep ==
  ASSUME OpenInv, NEW t \in Threads, ~IsWait(pc[t]), NEW l \in {"wait_ack", "wait_done"},
         pc' = [pc EXCEPT ![t] = l],
         NEW v \in Vids, chan[VM(t)][v] = NoChan,
         NEW o \in 1 .. MaxOpens, o <= opens',
         mine' = [mine EXCEPT ![t] = [open |-> o, vid |-> v]],
         NEW c \in Chan, SetChan(VM(t), v, c), c.session = o, ~c.open,
         QueuesMove(VM(t)),
         NEW r \in Int, NEW q \in Int, Refs(VM(t), r),
         Len(openq'[VM(t)]) = Len(openq[VM(t)]) + q, r >= 1 + q + 1,
         proto' \in [VMs -> {0, 1}], UNCHANGED <<forbidden, listens>>,
         Sessions', FeUnique'
  PROVE  OpenInv'
<1>1. /\ TypeOK /\ Fresh /\ Owned /\ FeUnique /\ InitOnce /\ RefsCoverUse
      /\ VM(t) \in VMs /\ IsWait(l)
  BY VMFacts DEF OpenInv, IsWait
<1>2. c # NoChan /\ o # 0
  BY DEF NoChan
<1>3. opens' \in {opens, opens + 1} /\ opens' \in 0 .. MaxOpens
  BY DEF QueuesMove
<1>4. /\ openq' \in [VMs -> Seq(Msgs)] /\ wire' \in [VMs -> Seq(Msgs)]
      /\ InitOnce' /\ FreshMsgs'
  BY <1>1, QueuesStep
<1>5. chan' \in [VMs -> [Vids -> Chan]]
  BY <1>1, SetChanIs
<1>6. FreshChans'
  BY <1>1, <1>2, <1>3, SetChanFresh
<1>7. Owned'
  BY <1>1, OwnedEnter
<1>8. RefsCoverUse' /\ ref' \in [VMs -> Int]
  <2>1. /\ Cardinality(Users(VM(t))') = Cardinality(Users(VM(t))) + 1 - 0
        /\ \A u \in VMs : u # VM(t) => Users(u)' = Users(u)
    BY <1>1, <1>2, UsersChange
  <2>2. /\ Cardinality(Waiters(VM(t))') = Cardinality(Waiters(VM(t))) + 1 - 0
        /\ \A u \in VMs : u # VM(t) => Waiters(u)' = Waiters(u)
    BY <1>1, WaitersChange
  <2>3. Cardinality(Users(VM(t))) \in Nat /\ Cardinality(Waiters(VM(t))) \in Nat
    BY CountsType
  <2>4. /\ Cardinality(Users(VM(t))') = Cardinality(Users(VM(t))) + 1
        /\ Cardinality(Waiters(VM(t))') = Cardinality(Waiters(VM(t))) + 1
    BY <2>1, <2>2, <2>3
  <2>5. \A u \in VMs : u # VM(t) => openq'[u] = openq[u]
    BY <1>1, TakesIs DEF QueuesMove
  <2>6. 1 \in Int
    OBVIOUS
  <2>7. QED
    BY <1>1, <2>1, <2>2, <2>4, <2>5, <2>6, RefsStep
<1>9. TypeOK'
  <2>1. pc' \in [Threads -> {"idle", "wait_ack", "wait_init", "wait_done"}]
    BY <1>1 DEF TypeOK
  <2>2. mine' \in [Threads -> [open : 0 .. MaxOpens, vid : 0 .. MaxVid]]
    <3>1. o \in 0 .. MaxOpens /\ v \in 0 .. MaxVid
      BY OpenAssumption DEF Vids
    <3>2. QED
      BY <1>1, <3>1 DEF TypeOK
  <2>3. QED
    BY <1>1, <1>3, <1>4, <1>5, <1>8, <2>1, <2>2 DEF TypeOK
<1>10. QED
  BY <1>4, <1>6, <1>7, <1>8, <1>9, PartsMake

(***************************************************************************)
(* A step outside the handshake that changes no vchan and sends nothing.   *)
(***************************************************************************)
LEMMA OutsideStep ==
  ASSUME OpenInv, NEW t \in Threads, NEW l \in {"idle", "wait_ack", "wait_init", "wait_done"},
         pc' = [pc EXCEPT ![t] = l],
         \/ l = pc[t] /\ mine' = mine
         \/ ~IsWait(pc[t]) /\ ~IsWait(l),
         mine' = mine \/ mine' = [mine EXCEPT ![t] = [open |-> 0, vid |-> 0]],
         UNCHANGED <<chan, wire>>, QueuesMove(VM(t)),
         NEW r \in Int, NEW q \in Int, Refs(VM(t), r),
         Len(openq'[VM(t)]) = Len(openq[VM(t)]) + q, r >= q,
         proto' \in [VMs -> {0, 1}], UNCHANGED forbidden, listens' \in 0 .. MaxListens
  PROVE  OpenInv'
<1>1. /\ TypeOK /\ Fresh /\ Owned /\ FeUnique /\ InitOnce /\ RefsCoverUse
      /\ VM(t) \in VMs
  BY VMFacts DEF OpenInv
<1>2. opens \in Nat /\ opens' \in Nat /\ opens <= opens' /\ opens' \in 0 .. MaxOpens
  BY <1>1, OpenAssumption DEF QueuesMove, TypeOK
<1>3. /\ openq' \in [VMs -> Seq(Msgs)] /\ wire' \in [VMs -> Seq(Msgs)]
      /\ InitOnce' /\ FreshMsgs'
      /\ Queued(VM(t))' \subseteq Queued(VM(t))
      /\ Queued(Peer(VM(t)))' \subseteq Queued(Peer(VM(t)))
  BY <1>1, QueuesStep
<1>4. Queued("fe")' \subseteq Queued("fe") /\ Queued("be")' \subseteq Queued("be")
  BY <1>1, <1>3 DEF VMs, Peer
<1>5. FreshChans'
  <2>1. \A vm \in VMs, v \in Vids : chan[vm][v].session \in Nat
    BY <1>1, OpenAssumption DEF TypeOK, Chan
  <2>2. QED
    BY <1>1, <1>2, <2>1 DEF Fresh, FreshChans
<1>6. Owned'
  <2>1. CASE ~IsWait(pc[t]) /\ ~IsWait(l)
    <3>1. \A u \in Threads : u # t => mine'[u] = mine[u]
      BY <1>1 DEF TypeOK
    <3>2. QED
      BY <1>1, <2>1, <3>1, OwnedLeave
  <2>2. CASE l = pc[t] /\ mine' = mine
    <3>1. pc' = pc
      BY <1>1, <2>2 DEF TypeOK
    <3>2. QED
      BY <1>1, <2>2, <3>1, OwnedChan
  <2>3. QED
    BY <2>1, <2>2
<1>7. FeUnique'
  BY <1>1 DEF FeUnique
<1>8. Sessions'
  <2>1. \A m \in Queued("be")' : \E n \in Queued("be") : Alike(m, n)
    BY <1>4 DEF Alike
  <2>2. \A m \in Queued("fe")' : \E n \in Queued("fe") : Alike(m, n)
    BY <1>4 DEF Alike
  <2>3. QED
    BY <2>1, <2>2, SessionsKept
<1>9. RefsCoverUse' /\ ref' \in [VMs -> Int]
  <2>1. \A u \in VMs : Users(u)' = Users(u)
    BY DEF Users
  <2>2. /\ Cardinality(Waiters(VM(t))') =
             Cardinality(Waiters(VM(t))) + (IF IsWait(l) THEN 1 ELSE 0)
                                         - (IF IsWait(pc[t]) THEN 1 ELSE 0)
        /\ \A u \in VMs : u # VM(t) => Waiters(u)' = Waiters(u)
    BY <1>1, WaitersChange
  <2>3. Cardinality(Users(VM(t))) \in Nat /\ Cardinality(Waiters(VM(t))) \in Nat
    BY CountsType
  <2>4. /\ Cardinality(Users(VM(t))') = Cardinality(Users(VM(t))) + 0
        /\ Cardinality(Waiters(VM(t))') = Cardinality(Waiters(VM(t))) + 0
    <3>1. IsWait(l) <=> IsWait(pc[t])
      OBVIOUS
    <3>2. QED
      BY <1>1, <2>1, <2>2, <2>3, <3>1
  <2>5. \A u \in VMs : u # VM(t) => openq'[u] = openq[u]
    BY <1>1, TakesIs DEF QueuesMove
  <2>6. r >= 0 + q + 0 /\ 0 \in Int
    OBVIOUS
  <2>7. QED
    BY <1>1, <2>1, <2>2, <2>4, <2>5, <2>6, RefsStep
<1>10. TypeOK'
  <2>1. pc' \in [Threads -> {"idle", "wait_ack", "wait_init", "wait_done"}]
    BY <1>1 DEF TypeOK
  <2>2. mine' \in [Threads -> [open : 0 .. MaxOpens, vid : 0 .. MaxVid]]
    <3>1. 0 \in 0 .. MaxOpens /\ 0 \in 0 .. MaxVid
      BY OpenAssumption
    <3>2. mine \in [Threads -> [open : 0 .. MaxOpens, vid : 0 .. MaxVid]]
      BY <1>1 DEF TypeOK
    <3>3. [mine EXCEPT ![t] = [open |-> 0, vid |-> 0]]
            \in [Threads -> [open : 0 .. MaxOpens, vid : 0 .. MaxVid]]
      BY <3>1, <3>2
    <3>4. QED
      BY <3>2, <3>3
  <2>3. QED
    BY <1>1, <1>2, <1>3, <1>9, <2>1, <2>2 DEF TypeOK
<1>11. QED
  BY <1>3, <1>5, <1>6, <1>7, <1>8, <1>9, <1>10, PartsMake
-----------------------------------------------------------------------------
(* The front end *)

(***************************************************************************)
(* A request is a message.                                                 *)
(***************************************************************************)
LEMMA RequestIs ==
  ASSUME NEW type \in OpenTypes, NEW v \in 0 .. MaxVid, NEW o \in 0 .. MaxOpens
  PROVE  /\ Request(type, v, o) \in Msgs /\ Request(type, v, o).type = type
         /\ Request(type, v, o).vid = v /\ Request(type, v, o).open = o
BY DEF Request, Msgs

(***************************************************************************)
(* frontend_open starts a session that no message and no vchan has.        *)
(***************************************************************************)
LEMMA FrontendOpenStep ==
  ASSUME OpenInv, NEW t \in FeThreads, FrontendOpen(t)
  PROVE  OpenInv'
<1>1. /\ TypeOK /\ Fresh /\ FeUnique /\ t \in Threads /\ VM(t) = "fe"
      /\ opens \in Nat /\ opens' = opens + 1 /\ opens' \in 1 .. MaxOpens
      /\ opens' \in 0 .. MaxOpens
  BY VMFacts, OpenAssumption DEF OpenInv, TypeOK, FrontendOpen
<1>2. PICK v \in Vids :
         /\ IsNextVid("fe", v) /\ Alloc("fe", v, opens', 0)
         /\ Send("fe", Request("INIT", v, opens'))
         /\ mine' = [mine EXCEPT ![t] = [open |-> opens', vid |-> v]]
  BY DEF FrontendOpen
<1>3. PICK o \in 1 .. MaxOpens : o = opens'
  BY <1>1
<1>4. PICK m : m = Request("INIT", v, o)
  OBVIOUS
<1>5. /\ m \in Msgs /\ m.type = "INIT" /\ m.vid = v /\ m.open = o
      /\ o \in 0 .. MaxOpens /\ v \in 0 .. MaxVid
  <2>1. o \in 0 .. MaxOpens /\ v \in 0 .. MaxVid /\ "INIT" \in OpenTypes
    BY OpenAssumption DEF Vids, OpenTypes
  <2>2. QED
    BY <1>4, <2>1, RequestIs
<1>6. PICK c : c = [session |-> o, other |-> 0, dead |-> FALSE, open |-> FALSE]
  OBVIOUS
<1>7. /\ c \in Chan /\ c.session = o /\ c.other = 0 /\ ~c.dead /\ ~c.open
      /\ SetChan("fe", v, c)
  <2>1. 0 \in 0 .. MaxVid
    BY OpenAssumption
  <2>2. QED
    BY <1>2, <1>3, <1>5, <1>6, <2>1 DEF Chan, Alloc, SetChan
<1>8. chan["fe"][v] = NoChan
  BY <1>2 DEF IsNextVid
<1>9. SendsNew("fe", m) /\ QueuesMove("fe")
  <2>1. o \in 1 .. opens' /\ o > opens
    BY <1>1, <1>3
  <2>2. SendsNew("fe", m)
    BY <1>2, <1>3, <1>4, <1>5, <2>1 DEF SendsNew
  <2>3. QED
    BY <1>1, <2>2 DEF QueuesMove, FrontendOpen
<1>10. /\ Queued("fe")' \subseteq Queued("fe")
       /\ Queued("be")' \subseteq Queued("be") \cup {m}
  BY <1>9, QueuesStep, VMFacts
<1>11. \A x \in VMs, y \in Vids :
         chan'[x][y] = IF x = "fe" /\ y = v THEN c ELSE chan[x][y]
  BY <1>1, <1>7, SetChanIs, VMFacts
<1>12. \A x \in VMs, y \in Vids : chan[x][y].session # o /\ chan[x][y].session \in Nat
  BY <1>1, <1>3, OpenAssumption DEF Fresh, TypeOK, Chan
<1>13. \A x \in VMs : \A n \in Queued(x) : n.open # o
  BY <1>1, <1>3 DEF Fresh
<1>14. FeUnique'
  BY <1>1, <1>7, <1>11, <1>12, VMFacts DEF FeUnique
<1>15. Sessions'
  <2> SUFFICES ASSUME NEW u \in Vids, NEW s \in 1 .. MaxOpens, chan'["fe"][u].session = s
               PROVE  SessionOK(u, s)'
    BY DEF Sessions
  <2>1. CASE u = v
    <3>1. s = o /\ chan'["fe"][v] = c
      BY <1>7, <1>11, <2>1, VMFacts
    <3>2. Backs(s)' = {}
      BY <1>11, <1>12, <3>1, VMFacts DEF Backs
    <3>3. \A n \in Queued("be")' : n.open = s => n = m
      BY <1>10, <1>13, <3>1, VMFacts
    <3>4. \A n \in Queued("fe")' : n.open # s
      BY <1>10, <1>13, <3>1, VMFacts
    <3>5. QED
      BY <1>5, <1>7, <2>1, <3>1, <3>2, <3>3, <3>4 DEF SessionOK
  <2>2. CASE u # v
    <3>1. chan'["fe"][u] = chan["fe"][u]
      BY <1>11, <2>2, VMFacts
    <3>2. SessionOK(u, s) /\ s # o
      BY <1>12, <3>1, VMFacts DEF OpenInv, Sessions
    <3>3. \A w \in Vids : chan'["be"][w] = chan["be"][w]
      BY <1>11, VMFacts
    <3>4. \A n \in Queued("be")' : n.open = s => n \in Queued("be")
      BY <1>5, <1>10, <3>2
    <3>5. QED
      BY <1>10, <3>1, <3>2, <3>3, <3>4, SessionKept DEF Alike
  <2>3. QED
    BY <2>1, <2>2
<1>16. ~IsWait(pc[t]) /\ pc' = [pc EXCEPT ![t] = "wait_ack"] /\ Refs("fe", 3)
  BY DEF FrontendOpen, IsWait
<1>17. mine' = [mine EXCEPT ![t] = [open |-> o, vid |-> v]]
  BY <1>2, <1>3
<1>18. /\ Len(openq'[VM(t)]) = Len(openq[VM(t)]) + 0 /\ proto' \in [VMs -> {0, 1}]
       /\ UNCHANGED <<forbidden, listens>>
  BY <1>1, VMFacts DEF FrontendOpen, TypeOK
<1>19. o <= opens' /\ 3 >= 1 + 0 + 1 /\ 3 \in Int /\ 0 \in Int
  BY <1>1, <1>3
<1>20. QED
  BY <1>1, <1>7, <1>8, <1>9, <1>14, <1>15, <1>16, <1>17, <1>18, <1>19, EnterStep

(***************************************************************************)
(* frontend_open fails before the wait.                                    *)
(***************************************************************************)
LEMMA FrontendOpenFailStep ==
  ASSUME OpenInv, NEW t \in FeThreads, FrontendOpenFail(t)
  PROVE  OpenInv'
<1>1. /\ TypeOK /\ t \in Threads /\ VM(t) = "fe"
      /\ opens' = opens + 1 /\ opens' \in 0 .. MaxOpens
  BY VMFacts, OpenAssumption DEF OpenInv, TypeOK, FrontendOpenFail
<1>2. /\ UNCHANGED <<chan, openq, wire, proto, forbidden, pc, mine, listens>>
      /\ Refs("fe", 1)
  BY DEF FrontendOpenFail
<1>3. pc' = [pc EXCEPT ![t] = pc[t]] /\ pc[t] \in {"idle", "wait_ack", "wait_init", "wait_done"}
  BY <1>1, <1>2 DEF TypeOK
<1>4. QueuesMove("fe")
  BY <1>1, <1>2 DEF QueuesMove
<1>5. /\ Len(openq'[VM(t)]) = Len(openq[VM(t)]) + 0 /\ proto' \in [VMs -> {0, 1}]
      /\ listens' \in 0 .. MaxListens
  BY <1>1, <1>2, VMFacts DEF TypeOK
<1>6. 1 >= 0 /\ 0 \in Int /\ 1 \in Int
  OBVIOUS
<1>7. QED
  BY <1>1, <1>2, <1>3, <1>4, <1>5, <1>6, OutsideStep
(***************************************************************************)
(* hab_open_request_find returns a queued request that the thread waits    *)
(* for.                                                                    *)
(***************************************************************************)
LEMMA TakeIs ==
  ASSUME TypeOK, NEW t \in Threads, NEW k \in Matches(t), Take(t, k)
  PROVE  /\ Takes(VM(t), k) /\ Found(t, openq[VM(t)][k])
         /\ openq[VM(t)][k] \in Msgs /\ openq[VM(t)][k] \in Queued(VM(t))
         /\ Len(openq'[VM(t)]) = Len(openq[VM(t)]) + (-1)
<1>1. openq[VM(t)] \in Seq(Msgs) /\ VM(t) \in VMs
  BY VMFacts DEF TypeOK
<1>2. k \in 1 .. Len(openq[VM(t)]) /\ Found(t, openq[VM(t)][k])
  BY <1>1, LenProperties DEF Matches
<1>3. Takes(VM(t), k)
  BY <1>2 DEF Take, Takes
<1>4. Len(openq[VM(t)]) \in Nat /\ Len(openq'[VM(t)]) = Len(openq[VM(t)]) - 1
  BY <1>1, <1>3, TakesIs
<1>5. openq[VM(t)][k] \in Queued(VM(t))
  BY <1>1, <1>3, TakesIs DEF Queued
<1>6. QED
  BY <1>1, <1>2, <1>3, <1>4, <1>5

(***************************************************************************)
(* What a thread in the handshake owns.                                    *)
(***************************************************************************)
LEMMA OwnerFacts ==
  ASSUME OpenInv, NEW t \in Threads, IsWait(pc[t])
  PROVE  /\ t \in InHandshake /\ VM(t) \in VMs
         /\ mine[t].vid \in Vids /\ mine[t].vid \in 0 .. MaxVid
         /\ mine[t].open \in 1 .. MaxOpens /\ mine[t].open \in 0 .. MaxOpens
         /\ mine[t].open \in 1 .. opens
         /\ chan[VM(t)][mine[t].vid] \in Chan
         /\ chan[VM(t)][mine[t].vid].session = mine[t].open
         /\ ~chan[VM(t)][mine[t].vid].open
         /\ NoChan \in Chan /\ NoChan.session = 0
<1>1. t \in InHandshake /\ VM(t) \in VMs /\ TypeOK
  BY VMFacts DEF InHandshake, IsWait, OpenInv
<1>2. /\ mine[t].vid \in Vids /\ mine[t].open # 0
      /\ chan[VM(t)][mine[t].vid].session = mine[t].open
      /\ ~chan[VM(t)][mine[t].vid].open
  BY <1>1 DEF OpenInv, Owned
<1>3. /\ mine[t].open \in 0 .. MaxOpens /\ mine[t].vid \in 0 .. MaxVid
      /\ chan[VM(t)][mine[t].vid] \in Chan
  BY <1>1, <1>2 DEF TypeOK
<1>4. mine[t].open <= opens /\ opens \in Nat
  BY <1>1, <1>2, OpenAssumption DEF OpenInv, Fresh, TypeOK
<1>5. mine[t].open \in 1 .. MaxOpens /\ mine[t].open \in 1 .. opens
  BY <1>2, <1>3, <1>4, OpenAssumption
<1>6. NoChan \in Chan /\ NoChan.session = 0
  BY OpenAssumption DEF NoChan, Chan
<1>7. QED
  BY <1>1, <1>2, <1>3, <1>5, <1>6

(***************************************************************************)
(* The front end gives up its session; what it still sends of it, if       *)
(* anything, is an INIT_CANCEL.                                            *)
(***************************************************************************)
LEMMA FrontGone ==
  ASSUME OpenInv, NEW v \in Vids, chan["fe"][v].session # 0, SetChan("fe", v, NoChan),
         QueuesMove("fe"),
         wire' = wire \/ \E m : SendsNew("fe", m) /\ m.open = chan["fe"][v].session
  PROVE  Sessions'
<1>1. NoChan \in Chan /\ NoChan.session = 0 /\ TypeOK /\ FeUnique
  BY OpenAssumption DEF NoChan, Chan, OpenInv
<1>2. \A x \in VMs, y \in Vids :
         chan'[x][y] = IF x = "fe" /\ y = v THEN NoChan ELSE chan[x][y]
  BY <1>1, SetChanIs, VMFacts
<1>3. Queued("fe")' \subseteq Queued("fe")
  BY QueuesStep, VMFacts
<1>4. \A u \in Vids : chan'["fe"][u].session # chan["fe"][v].session
  BY <1>1, <1>2, VMFacts DEF FeUnique
<1>5. \A n \in Queued("be")' : n \in Queued("be") \/ n.open = chan["fe"][v].session
  <2>1. CASE wire' = wire
    BY <2>1, QueuesStep, VMFacts
  <2>2. ASSUME NEW m, SendsNew("fe", m), m.open = chan["fe"][v].session
        PROVE  \A n \in Queued("be")' : n \in Queued("be") \/ n = m
    BY <2>2, QueuesStep, VMFacts
  <2>3. QED
    BY <2>1, <2>2
<1>6. /\ \A m \in Queued("be")' : \/ \E n \in Queued("be") : Alike(m, n)
                                  \/ \A u \in Vids : chan'["fe"][u].session # m.open
      /\ \A m \in Queued("fe")' : \E n \in Queued("fe") : Alike(m, n)
  BY <1>3, <1>4, <1>5 DEF Alike
<1>7. /\ \A u \in Vids : chan'["fe"][u].session # 0 => chan'["fe"][u] = chan["fe"][u]
      /\ \A w \in Vids : chan'["be"][w] = chan["be"][w]
  BY <1>1, <1>2, VMFacts
<1>8. QED
  BY <1>6, <1>7, SessionsKept

(***************************************************************************)
(* The front end hears an answer: it knows the vchan of the back end.      *)
(***************************************************************************)
LEMMA FrontHears ==
  ASSUME OpenInv, NEW v \in Vids, NEW n \in Queued("fe"),
         n.type \in {"INIT_ACK", "INIT_CANCEL"}, n.open = chan["fe"][v].session,
         NEW c \in Chan, SetChan("fe", v, c), c.session = n.open, c.other = n.vid,
         c.dead = chan["fe"][v].dead, QueuesMove("fe"),
         NEW m, SendsNew("fe", m), m.type = "INIT_DONE"
  PROVE  Sessions'
<1>1. TypeOK
  BY DEF OpenInv
<1>2. \A x \in VMs, y \in Vids :
         chan'[x][y] = IF x = "fe" /\ y = v THEN c ELSE chan[x][y]
  BY <1>1, SetChanIs, VMFacts
<1>3. /\ Queued("fe")' \subseteq Queued("fe")
      /\ Queued("be")' \subseteq Queued("be") \cup {m}
  BY QueuesStep, VMFacts
<1>4. \A w \in Vids : chan'["be"][w] = chan["be"][w]
  BY <1>2, VMFacts
<1> SUFFICES ASSUME NEW u \in Vids, NEW s \in 1 .. MaxOpens, chan'["fe"][u].session = s
             PROVE  SessionOK(u, s)'
  BY DEF Sessions
<1>5. chan["fe"][u].session = s /\ SessionOK(u, s)
  BY <1>2, VMFacts DEF OpenInv, Sessions
<1>6. CASE u # v
  <2>1. chan'["fe"][u] = chan["fe"][u]
    BY <1>2, <1>6, VMFacts
  <2>2. \A a \in Queued("be")' :
           a.type \in {"INIT", "INIT_CANCEL", "CLOSE"} => a \in Queued("be")
    BY <1>3
  <2>3. QED
    BY <1>3, <1>4, <1>5, <2>1, <2>2, SessionKept DEF Alike
<1>7. CASE u = v
  <2>1. chan'["fe"][u] = c /\ n.open = s
    BY <1>2, <1>5, <1>7, VMFacts
  <2>2. ~Pending(s) /\ Backs(s) \subseteq {n.vid}
    BY <1>5, <2>1 DEF SessionOK
  <2>3. ~Pending(s)' /\ Backs(s)' = Backs(s)
    BY <1>3, <1>4, <2>2 DEF Pending, IsInit, Backs
  <2>4. \A a \in Queued("be")' :
           a.open = s => /\ a.type \notin {"INIT_CANCEL", "CLOSE"}
                         /\ a.type = "INIT" => a.vid = u
    BY <1>3, <1>5 DEF SessionOK
  <2>5. \A w \in Backs(s)' : /\ chan'["be"][w].other = u /\ ~chan'["be"][w].dead
                            /\ ~Pending(s)'
    BY <1>4, <1>5, <2>3 DEF SessionOK, Backs
  <2>6. \A a \in Queued("fe")' :
           a.open = s =>
             /\ a.type \in {"INIT_ACK", "INIT_CANCEL"} =>
                  ~Pending(s)' /\ Backs(s)' \subseteq {a.vid}
             /\ a.type = "CLOSE" => ~Pending(s)' /\ Backs(s)' = {}
    BY <1>3, <1>5, <2>3 DEF SessionOK
  <2>7. \A w, x \in Backs(s)' : w = x
    BY <1>5, <2>3 DEF SessionOK
  <2>8. chan'["fe"][u].dead => ~Pending(s)' /\ Backs(s)' = {}
    BY <1>5, <1>7, <2>1, <2>3 DEF SessionOK
  <2>9. chan'["fe"][u].other # 0 =>
           ~Pending(s)' /\ Backs(s)' \subseteq {chan'["fe"][u].other}
    BY <2>1, <2>2, <2>3
  <2>10. QED
    BY <2>4, <2>5, <2>6, <2>7, <2>8, <2>9 DEF SessionOK
<1>8. QED
  BY <1>6, <1>7
(***************************************************************************)
(* frontend_open after the wait, with a request and without one.           *)
(***************************************************************************)
LEMMA FrontendAckStep ==
  ASSUME OpenInv, NEW t \in FeThreads, FrontendAck(t)
  PROVE  OpenInv'
<1>1. /\ TypeOK /\ t \in Threads /\ VM(t) = "fe" /\ "fe" \in VMs /\ pc[t] = "wait_ack"
      /\ IsWait(pc[t]) /\ opens' = opens /\ opens \in 0 .. MaxOpens
  BY VMFacts DEF OpenInv, TypeOK, FrontendAck, IsWait
<1>2. PICK k \in Matches(t) :
       /\ Take(t, k)
       /\ \/ /\ proto' = [proto EXCEPT !["fe"] = openq["fe"][k].proto]
             /\ chan' = [chan EXCEPT !["fe"][mine[t].vid].other = openq["fe"][k].vid,
                                     !["fe"][mine[t].vid].open = TRUE]
             /\ Send("fe", Request("INIT_DONE", 0, mine[t].open))
             /\ Refs("fe", -2)
          \/ /\ proto' = [proto EXCEPT !["fe"] = openq["fe"][k].proto]
             /\ Free("fe", mine[t].vid)
             /\ Refs("fe", -3)
             /\ UNCHANGED wire
          \/ /\ \/ Send("fe", Request("INIT_CANCEL", mine[t].vid, mine[t].open))
                \/ UNCHANGED wire
             /\ Free("fe", mine[t].vid)
             /\ Refs("fe", -2)
             /\ UNCHANGED proto
  BY DEF FrontendAck, SendUnchecked
<1>3. PICK n : n = openq["fe"][k]
  OBVIOUS
<1>4. PICK v \in Vids : v = mine[t].vid
  BY <1>1, OwnerFacts
<1>5. PICK o \in 1 .. MaxOpens : o = mine[t].open
  BY <1>1, OwnerFacts
<1>6. /\ t \in InHandshake /\ v \in 0 .. MaxVid /\ o \in 0 .. MaxOpens /\ o \in 1 .. opens
      /\ chan["fe"][v] \in Chan /\ chan["fe"][v].session = o /\ o # 0
      /\ NoChan \in Chan
  BY <1>1, <1>4, <1>5, OwnerFacts
<1>7. /\ Takes("fe", k) /\ Found(t, n) /\ n \in Msgs /\ n \in Queued("fe")
      /\ Len(openq'[VM(t)]) = Len(openq[VM(t)]) + (-1)
  BY <1>1, <1>2, <1>3, TakeIs
<1>8. n.type \in {"INIT_ACK", "INIT_CANCEL"} /\ n.open = o /\ n.vid \in 0 .. MaxVid
      /\ n.proto \in {0, 1}
  BY <1>1, <1>5, <1>7 DEF Found, Awaited, Msgs
<1>9. /\ proto' \in [VMs -> {0, 1}] /\ UNCHANGED <<forbidden, listens>>
      /\ pc' = [pc EXCEPT ![t] = "idle"]
      /\ mine' = [mine EXCEPT ![t] = [open |-> 0, vid |-> 0]]
  <2>1. proto' = proto \/ proto' = [proto EXCEPT !["fe"] = n.proto]
    BY <1>2, <1>3
  <2>2. proto' \in [VMs -> {0, 1}]
    BY <1>1, <1>8, <2>1 DEF TypeOK
  <2>3. QED
    BY <2>2 DEF FrontendAck, Return
<1>10. /\ -1 \in Int /\ -2 \in Int /\ -3 \in Int
       /\ -2 >= 0 + (-1) + (-1) /\ -3 >= -1 + (-1) + (-1) /\ -2 >= -1 + (-1) + (-1)
  OBVIOUS
<1>11. CASE /\ chan' = [chan EXCEPT !["fe"][v].other = n.vid, !["fe"][v].open = TRUE]
            /\ Send("fe", Request("INIT_DONE", 0, o)) /\ Refs("fe", -2)
  <2>1. PICK c : c = [chan["fe"][v] EXCEPT !.other = n.vid, !.open = TRUE]
    OBVIOUS
  <2>2. /\ c \in Chan /\ c.session = o /\ c.other = n.vid /\ c.dead = chan["fe"][v].dead
        /\ c # NoChan
    <3>1. c \in Chan /\ c.session = o /\ c.other = n.vid /\ c.dead = chan["fe"][v].dead
      BY <1>6, <1>8, <2>1 DEF Chan
    <3>2. QED
      BY <1>6, <3>1 DEF NoChan
  <2>3. SetChan("fe", v, c)
    BY <1>1, <1>11, <2>1 DEF SetChan, TypeOK
  <2>4. PICK m : m = Request("INIT_DONE", 0, o)
    OBVIOUS
  <2>5. m \in Msgs /\ m.type = "INIT_DONE" /\ m.open = o
    <3>1. "INIT_DONE" \in OpenTypes /\ 0 \in 0 .. MaxVid
      BY OpenAssumption DEF OpenTypes
    <3>2. QED
      BY <1>6, <2>4, <3>1, RequestIs
  <2>6. SendsNew("fe", m)
    BY <1>1, <1>6, <1>11, <2>4, <2>5 DEF SendsNew
  <2>7. QueuesMove("fe")
    BY <1>1, <1>7, <2>6 DEF QueuesMove
  <2>8. Sessions'
    BY <1>6, <1>7, <1>8, <2>2, <2>3, <2>5, <2>6, <2>7, FrontHears
  <2>9. -2 >= (IF c = NoChan THEN -1 ELSE 0) + (-1) + (-1)
    BY <1>10, <2>2
  <2>10. QED
    BY <1>1, <1>4, <1>5, <1>6, <1>7, <1>9, <1>10, <1>11, <2>2, <2>3, <2>7, <2>8, <2>9, LeaveStep
<1>12. CASE Free("fe", v) /\ Refs("fe", -3) /\ UNCHANGED wire
  <2>1. SetChan("fe", v, NoChan) /\ QueuesMove("fe")
    BY <1>1, <1>7, <1>12 DEF Free, SetChan, QueuesMove
  <2>2. Sessions'
    BY <1>6, <1>12, <2>1, FrontGone
  <2>3. -3 >= (IF NoChan = NoChan THEN -1 ELSE 0) + (-1) + (-1)
    BY <1>10
  <2>4. QED
    BY <1>1, <1>4, <1>6, <1>7, <1>9, <1>10, <1>12, <2>1, <2>2, <2>3, LeaveStep
<1>13. CASE Free("fe", v) /\ Refs("fe", -2) /\ Send("fe", Request("INIT_CANCEL", v, o))
  <2>1. PICK m : m = Request("INIT_CANCEL", v, o)
    OBVIOUS
  <2>2. m \in Msgs /\ m.type = "INIT_CANCEL" /\ m.open = o
    <3>1. "INIT_CANCEL" \in OpenTypes
      BY DEF OpenTypes
    <3>2. QED
      BY <1>6, <2>1, <3>1, RequestIs
  <2>3. SendsNew("fe", m)
    BY <1>1, <1>6, <1>13, <2>1, <2>2 DEF SendsNew
  <2>4. SetChan("fe", v, NoChan) /\ QueuesMove("fe")
    BY <1>1, <1>7, <1>13, <2>3 DEF Free, SetChan, QueuesMove
  <2>5. Sessions'
    BY <1>6, <2>2, <2>3, <2>4, FrontGone
  <2>6. -2 >= (IF NoChan = NoChan THEN -1 ELSE 0) + (-1) + (-1)
    BY <1>10
  <2>7. QED
    BY <1>1, <1>4, <1>6, <1>7, <1>9, <1>10, <1>13, <2>4, <2>5, <2>6, LeaveStep
<1>14. CASE Free("fe", v) /\ Refs("fe", -2) /\ UNCHANGED wire
  <2>1. SetChan("fe", v, NoChan) /\ QueuesMove("fe")
    BY <1>1, <1>7, <1>14 DEF Free, SetChan, QueuesMove
  <2>2. Sessions'
    BY <1>6, <1>14, <2>1, FrontGone
  <2>3. -2 >= (IF NoChan = NoChan THEN -1 ELSE 0) + (-1) + (-1)
    BY <1>10
  <2>4. QED
    BY <1>1, <1>4, <1>6, <1>7, <1>9, <1>10, <1>14, <2>1, <2>2, <2>3, LeaveStep
<1>15. QED
  BY <1>2, <1>3, <1>4, <1>5, <1>11, <1>12, <1>13, <1>14

(***************************************************************************)
(* frontend_open gives up its session and says so if it can.               *)
(***************************************************************************)
LEMMA FrontendGiveUpStep ==
  ASSUME OpenInv, NEW t \in FeThreads, FrontendGiveUp(t)
  PROVE  OpenInv'
<1>1. /\ TypeOK /\ t \in Threads /\ VM(t) = "fe" /\ "fe" \in VMs
      /\ IsWait(pc[t]) /\ opens' = opens /\ opens \in 0 .. MaxOpens
  BY VMFacts DEF OpenInv, TypeOK, FrontendGiveUp, IsWait
<1>2. PICK v \in Vids : v = mine[t].vid
  BY <1>1, OwnerFacts
<1>3. PICK o \in 1 .. MaxOpens : o = mine[t].open
  BY <1>1, OwnerFacts
<1>4. /\ t \in InHandshake /\ v \in 0 .. MaxVid /\ o \in 0 .. MaxOpens /\ o \in 1 .. opens
      /\ chan["fe"][v].session = o /\ o # 0 /\ NoChan \in Chan
  BY <1>1, <1>2, <1>3, OwnerFacts
<1>5. PICK m : m = Request("INIT_CANCEL", v, o)
  OBVIOUS
<1>6. m \in Msgs /\ m.type = "INIT_CANCEL" /\ m.open = o
  <2>1. "INIT_CANCEL" \in OpenTypes
    BY DEF OpenTypes
  <2>2. QED
    BY <1>4, <1>5, <2>1, RequestIs
<1>7. /\ SendsNew("fe", m) \/ wire' = wire
      /\ SetChan("fe", v, NoChan) /\ Refs("fe", -2)
      /\ UNCHANGED <<openq, proto, forbidden, listens>>
      /\ pc' = [pc EXCEPT ![t] = "idle"]
      /\ mine' = [mine EXCEPT ![t] = [open |-> 0, vid |-> 0]]
  BY <1>1, <1>2, <1>3, <1>4, <1>5, <1>6
     DEF FrontendGiveUp, SendUnchecked, SendsNew, Free, SetChan, Return
<1>8. QueuesMove("fe")
  BY <1>1, <1>7 DEF QueuesMove
<1>9. Sessions'
  BY <1>4, <1>6, <1>7, <1>8, FrontGone
<1>10. /\ Len(openq'[VM(t)]) = Len(openq[VM(t)]) + 0 /\ proto' \in [VMs -> {0, 1}]
  BY <1>1, <1>7 DEF TypeOK
<1>11. /\ -2 >= (IF NoChan = NoChan THEN -1 ELSE 0) + 0 + (-1)
       /\ -2 \in Int /\ 0 \in Int
  OBVIOUS
<1>12. QED
  BY <1>1, <1>2, <1>4, <1>7, <1>8, <1>9, <1>10, <1>11, LeaveStep
-----------------------------------------------------------------------------
(* The back end *)

(***************************************************************************)
(* backend_listen starts and ends without a request.                       *)
(***************************************************************************)
LEMMA BackendListenStep ==
  ASSUME OpenInv, NEW t \in BeThreads, BackendListen(t) \/ BackendListenEnd(t)
  PROVE  OpenInv'
<1>1. /\ TypeOK /\ t \in Threads /\ VM(t) = "be" /\ "be" \in VMs /\ opens' = opens
      /\ opens \in 0 .. MaxOpens
      /\ UNCHANGED <<chan, openq, wire, proto, forbidden>>
  BY VMFacts DEF OpenInv, TypeOK, BackendListen, BackendListenEnd
<1>2. QueuesMove("be")
  BY <1>1 DEF QueuesMove
<1>3. Len(openq'[VM(t)]) = Len(openq[VM(t)]) + 0 /\ proto' \in [VMs -> {0, 1}]
  BY <1>1 DEF TypeOK
<1>4. 1 >= 0 /\ 0 >= 0 /\ 0 \in Int /\ 1 \in Int
  OBVIOUS
<1>5. CASE BackendListen(t)
  <2>1. /\ pc' = [pc EXCEPT ![t] = "wait_init"] /\ mine' = mine /\ Refs("be", 1)
        /\ ~IsWait(pc[t]) /\ ~IsWait("wait_init")
    BY <1>5 DEF BackendListen, IsWait
  <2>2. listens' \in 0 .. MaxListens
    BY <1>1, <1>5, OpenAssumption DEF BackendListen, TypeOK
  <2>3. QED
    BY <1>1, <1>2, <1>3, <1>4, <2>1, <2>2, OutsideStep
<1>6. CASE BackendListenEnd(t)
  <2>1. /\ pc' = [pc EXCEPT ![t] = "idle"]
        /\ mine' = [mine EXCEPT ![t] = [open |-> 0, vid |-> 0]]
        /\ ~IsWait(pc[t]) /\ ~IsWait("idle")
    BY <1>6 DEF BackendListenEnd, Return, IsWait
  <2>2. Refs("be", 0) /\ listens' \in 0 .. MaxListens
    BY <1>1, <1>6 DEF BackendListenEnd, Refs, TypeOK
  <2>3. QED
    BY <1>1, <1>2, <1>3, <1>4, <2>1, <2>2, OutsideStep
<1>7. QED
  BY <1>5, <1>6

(***************************************************************************)
(* The back end answers an INIT, or takes a cancel of a session that the   *)
(* front end has left for one.                                             *)
(***************************************************************************)
LEMMA BackAnswers ==
  ASSUME OpenInv, NEW k, Takes("be", k), NEW n, n = openq["be"][k],
         n.type \in {"INIT", "INIT_CANCEL"}, n.open \in 1 .. MaxOpens,
         NEW w \in Vids, chan["be"][w] = NoChan,
         NEW c \in Chan, SetChan("be", w, c), c.session = n.open, c.other = n.vid, ~c.dead,
         NEW m, SendsNew("be", m), m.type = "INIT_ACK", m.vid = w, m.open = n.open,
         QueuesMove("be")
  PROVE  Sessions'
<1>1. TypeOK /\ InitOnce
  BY DEF OpenInv
<1>2. \A x \in VMs, y \in Vids :
         chan'[x][y] = IF x = "be" /\ y = w THEN c ELSE chan[x][y]
  BY <1>1, SetChanIs, VMFacts
<1>3. /\ Queued("be")' \subseteq Queued("be")
      /\ Queued("fe")' \subseteq Queued("fe") \cup {m}
  BY QueuesStep, VMFacts
<1>4. \A u \in Vids : chan'["fe"][u] = chan["fe"][u]
  BY <1>2, VMFacts
<1>5. n \in Range(openq["be"]) /\ n \in Queued("be")
  BY <1>1, TakesIs, VMFacts DEF Queued
<1> SUFFICES ASSUME NEW u \in Vids, NEW s \in 1 .. MaxOpens, chan'["fe"][u].session = s
             PROVE  SessionOK(u, s)'
  BY DEF Sessions
<1>6. SessionOK(u, s) /\ s # 0
  BY <1>4 DEF OpenInv, Sessions
<1>7. CASE n.open # s
  BY <1>6, <1>7, OthersKept
<1>8. CASE n.open = s
  <2>1. n.type = "INIT" /\ n.vid = u
    BY <1>5, <1>6, <1>8 DEF SessionOK
  <2>2. Pending(s)
    BY <1>5, <1>8, <2>1 DEF Pending, IsInit
  <2>3. Backs(s) = {}
    BY <1>6, <2>2 DEF SessionOK
  <2>4. Backs(s)' = {w} /\ chan'["be"][w] = c
    BY <1>2, <1>8, <2>3, VMFacts DEF Backs
  <2>5. ~Pending(s)'
    <3>1. wire'["be"] = wire["be"]
      BY <1>1, SendIs, VMFacts DEF SendsNew
    <3>2. \A a \in Range(openq'["be"]) : ~IsInit(a, s)
      BY <1>1, <1>8, <2>1, TakesIs, VMFacts DEF InitOnce
    <3>3. \A a \in Range(wire["be"]) : ~IsInit(a, s)
      BY <1>1, <1>5, <1>8, <2>1 DEF InitOnce, IsInit
    <3>4. QED
      BY <3>1, <3>2, <3>3 DEF Pending, Queued
  <2>6. \A a \in Queued("be")' :
           a.open = s => /\ a.type \notin {"INIT_CANCEL", "CLOSE"}
                         /\ a.type = "INIT" => a.vid = u
    BY <1>3, <1>6 DEF SessionOK
  <2>7. \A a \in Queued("fe")' :
           a.open = s /\ a.type \in {"INIT_ACK", "INIT_CANCEL", "CLOSE"} => a = m
    BY <1>3, <1>6, <2>2 DEF SessionOK
  <2>8. ~chan'["fe"][u].dead /\ chan'["fe"][u].other = 0
    BY <1>4, <1>6, <2>2 DEF SessionOK
  <2>9. \A x \in Backs(s)' : /\ chan'["be"][x].other = u /\ ~chan'["be"][x].dead
                            /\ ~Pending(s)'
    BY <2>1, <2>4, <2>5
  <2>10. \A a \in Queued("fe")' :
           a.open = s =>
             /\ a.type \in {"INIT_ACK", "INIT_CANCEL"} =>
                  ~Pending(s)' /\ Backs(s)' \subseteq {a.vid}
             /\ a.type = "CLOSE" => ~Pending(s)' /\ Backs(s)' = {}
    BY <2>4, <2>5, <2>7
  <2>11. QED
    BY <2>4, <2>6, <2>8, <2>9, <2>10 DEF SessionOK
<1>9. QED
  BY <1>7, <1>8

(***************************************************************************)
(* backend_listen with a request in the queue.                             *)
(***************************************************************************)
LEMMA BackendInitStep ==
  ASSUME OpenInv, NEW t \in BeThreads, BackendInit(t)
  PROVE  OpenInv'
<1>1. /\ TypeOK /\ t \in Threads /\ VM(t) = "be" /\ "be" \in VMs /\ pc[t] = "wait_init"
      /\ ~IsWait(pc[t]) /\ ~IsWait("idle") /\ opens' = opens /\ opens \in 0 .. MaxOpens
      /\ UNCHANGED <<forbidden, listens>>
  BY VMFacts DEF OpenInv, TypeOK, BackendInit, IsWait
<1>2. PICK k \in Matches(t) :
       /\ Take(t, k)
       /\ \/ /\ proto' = [proto EXCEPT !["be"] = openq["be"][k].proto]
             /\ \E v \in Vids :
                  /\ IsNextVid("be", v)
                  /\ Alloc("be", v, openq["be"][k].open, openq["be"][k].vid)
                  /\ Send("be", Request("INIT_ACK", v, openq["be"][k].open))
                  /\ mine' = [mine EXCEPT ![t] = [open |-> openq["be"][k].open, vid |-> v]]
             /\ pc' = [pc EXCEPT ![t] = "wait_done"]
             /\ Refs("be", 1)
          \/ /\ proto' = [proto EXCEPT !["be"] = openq["be"][k].proto]
             /\ Refs("be", -1) /\ Return(t) /\ UNCHANGED <<chan, wire>>
          \/ Return(t) /\ UNCHANGED <<chan, wire, proto, ref>>
  BY DEF BackendInit
<1>3. PICK n : n = openq["be"][k]
  OBVIOUS
<1>4. /\ Takes("be", k) /\ Found(t, n) /\ n \in Msgs /\ n \in Queued("be")
      /\ Len(openq'[VM(t)]) = Len(openq[VM(t)]) + (-1)
  BY <1>1, <1>2, <1>3, TakeIs
<1>5. /\ n.type \in {"INIT", "INIT_CANCEL"} /\ n.vid \in 0 .. MaxVid /\ n.proto \in {0, 1}
      /\ n.open \in 0 .. MaxOpens /\ n.open \in 1 .. opens
  BY <1>1, <1>4 DEF Found, Awaited, Msgs, OpenInv, Fresh
<1>6. n.open \in 1 .. MaxOpens
  BY <1>1, <1>5, OpenAssumption
<1>7. proto' \in [VMs -> {0, 1}] /\ listens' \in 0 .. MaxListens
  <2>1. proto' = proto \/ proto' = [proto EXCEPT !["be"] = n.proto]
    BY <1>2, <1>3
  <2>2. QED
    BY <1>1, <1>5, <2>1 DEF TypeOK
<1>8. -1 \in Int /\ 0 \in Int /\ 1 \in Int /\ 1 >= 1 + (-1) + 1 /\ -1 >= -1 /\ 0 >= -1
  OBVIOUS
<1>9. ASSUME NEW v \in Vids, IsNextVid("be", v), Alloc("be", v, n.open, n.vid),
             Send("be", Request("INIT_ACK", v, n.open)),
             mine' = [mine EXCEPT ![t] = [open |-> n.open, vid |-> v]],
             pc' = [pc EXCEPT ![t] = "wait_done"], Refs("be", 1)
      PROVE  OpenInv'
  <2>1. PICK o \in 1 .. MaxOpens : o = n.open
    BY <1>6
  <2>2. PICK c : c = [session |-> o, other |-> n.vid, dead |-> FALSE, open |-> FALSE]
    OBVIOUS
  <2>3. /\ c \in Chan /\ c.session = o /\ c.other = n.vid /\ ~c.dead /\ ~c.open
        /\ SetChan("be", v, c)
    BY <1>5, <1>9, <2>1, <2>2 DEF Chan, Alloc, SetChan
  <2>4. chan["be"][v] = NoChan
    BY <1>9 DEF IsNextVid
  <2>5. PICK m : m = Request("INIT_ACK", v, o)
    OBVIOUS
  <2>6. m \in Msgs /\ m.type = "INIT_ACK" /\ m.vid = v /\ m.open = o
    <3>1. "INIT_ACK" \in OpenTypes /\ v \in 0 .. MaxVid /\ o \in 0 .. MaxOpens
      BY <1>5, <2>1, OpenAssumption DEF OpenTypes, Vids
    <3>2. QED
      BY <2>5, <3>1, RequestIs
  <2>7. SendsNew("be", m)
    BY <1>1, <1>5, <1>9, <2>1, <2>5, <2>6 DEF SendsNew
  <2>8. QueuesMove("be")
    BY <1>1, <1>4, <2>7 DEF QueuesMove
  <2>9. Sessions'
    BY <1>3, <1>4, <1>5, <1>6, <2>1, <2>3, <2>4, <2>6, <2>7, <2>8, BackAnswers
  <2>10. FeUnique'
    <3>1. \A u \in Vids : chan'["fe"][u] = chan["fe"][u]
      BY <1>1, <2>3, SetChanIs, VMFacts
    <3>2. QED
      BY <3>1 DEF OpenInv, FeUnique
  <2>11. o <= opens'
    BY <1>1, <1>5, <2>1
  <2>12. mine' = [mine EXCEPT ![t] = [open |-> o, vid |-> v]]
    BY <1>9, <2>1
  <2>13. QED
    BY <1>1, <1>4, <1>7, <1>8, <1>9, <2>3, <2>4, <2>8, <2>9, <2>10, <2>11, <2>12, EnterStep
<1>10. ASSUME Return(t), UNCHANGED <<chan, wire>>, NEW r \in Int, r >= -1, Refs("be", r)
       PROVE  OpenInv'
  <2>1. QueuesMove("be")
    BY <1>1, <1>4, <1>10 DEF QueuesMove
  <2>2. /\ pc' = [pc EXCEPT ![t] = "idle"]
        /\ mine' = [mine EXCEPT ![t] = [open |-> 0, vid |-> 0]]
    BY <1>10 DEF Return
  <2>3. QED
    BY <1>1, <1>4, <1>7, <1>8, <1>10, <2>1, <2>2, OutsideStep
<1>11. CASE UNCHANGED ref /\ Return(t) /\ UNCHANGED <<chan, wire>>
  <2>1. Refs("be", 0)
    BY <1>1, <1>11 DEF Refs, TypeOK
  <2>2. QED
    BY <1>8, <1>10, <1>11, <2>1
<1>12. CASE Refs("be", -1) /\ Return(t) /\ UNCHANGED <<chan, wire>>
  BY <1>8, <1>10, <1>12
<1>13. QED
  BY <1>2, <1>3, <1>9, <1>11, <1>12
(***************************************************************************)
(* The back end opens or frees its vchan and says nothing.                 *)
(***************************************************************************)
LEMMA BackQuiet ==
  ASSUME OpenInv, NEW w \in Vids, NEW c \in Chan, SetChan("be", w, c),
         \/ c = NoChan
         \/ /\ c.session = chan["be"][w].session /\ c.other = chan["be"][w].other
            /\ c.dead = chan["be"][w].dead,
         QueuesMove("be"), UNCHANGED wire
  PROVE  Sessions'
<1>1. NoChan.session = 0 /\ TypeOK
  BY DEF NoChan, OpenInv
<1>2. \A x \in VMs, y \in Vids :
         chan'[x][y] = IF x = "be" /\ y = w THEN c ELSE chan[x][y]
  BY <1>1, SetChanIs, VMFacts
<1>3. Queued("be")' \subseteq Queued("be") /\ Queued("fe")' \subseteq Queued("fe")
  BY QueuesStep, VMFacts
<1>4. /\ \A m \in Queued("be")' : \E n \in Queued("be") : Alike(m, n)
      /\ \A m \in Queued("fe")' : \E n \in Queued("fe") : Alike(m, n)
  BY <1>3 DEF Alike
<1>5. \A u \in Vids : chan'["fe"][u] = chan["fe"][u]
  BY <1>2, VMFacts
<1>6. \A x \in Vids : \/ /\ chan'["be"][x].session = chan["be"][x].session
                          /\ chan'["be"][x].other = chan["be"][x].other
                          /\ chan'["be"][x].dead = chan["be"][x].dead
                       \/ chan'["be"][x].session = 0
  BY <1>1, <1>2, VMFacts
<1>7. QED
  BY <1>4, <1>5, <1>6, SessionsKept

(***************************************************************************)
(* backend_listen with an answer to its INIT_ACK.                          *)
(***************************************************************************)
LEMMA BackendDoneStep ==
  ASSUME OpenInv, NEW t \in BeThreads, BackendDone(t)
  PROVE  OpenInv'
<1>1. /\ TypeOK /\ t \in Threads /\ VM(t) = "be" /\ "be" \in VMs
      /\ IsWait(pc[t]) /\ opens' = opens /\ opens \in 0 .. MaxOpens
      /\ UNCHANGED <<proto, forbidden, listens>> /\ Refs("be", -2)
      /\ pc' = [pc EXCEPT ![t] = "idle"]
      /\ mine' = [mine EXCEPT ![t] = [open |-> 0, vid |-> 0]]
  BY VMFacts DEF OpenInv, TypeOK, BackendDone, IsWait, Return
<1>2. PICK k \in Matches(t) :
       /\ Take(t, k)
       /\ \/ /\ chan' = [chan EXCEPT !["be"][mine[t].vid].open = TRUE]
             /\ UNCHANGED wire
          \/ /\ Send("be", Request("INIT_CANCEL", mine[t].vid, mine[t].open))
             /\ Free("be", mine[t].vid)
          \/ /\ Free("be", mine[t].vid)
             /\ UNCHANGED wire
  BY DEF BackendDone, SendUnchecked
<1>3. PICK v \in Vids : v = mine[t].vid
  BY <1>1, OwnerFacts
<1>4. PICK o \in 1 .. MaxOpens : o = mine[t].open
  BY <1>1, OwnerFacts
<1>5. /\ t \in InHandshake /\ v \in 0 .. MaxVid /\ o \in 0 .. MaxOpens /\ o \in 1 .. opens
      /\ chan["be"][v] \in Chan /\ chan["be"][v].session = o /\ o # 0
      /\ NoChan \in Chan
  BY <1>1, <1>3, <1>4, OwnerFacts
<1>6. Takes("be", k) /\ Len(openq'[VM(t)]) = Len(openq[VM(t)]) + (-1)
  BY <1>1, <1>2, TakeIs
<1>7. proto' \in [VMs -> {0, 1}] /\ -1 \in Int /\ -2 \in Int
  BY <1>1 DEF TypeOK
<1>8. CASE chan' = [chan EXCEPT !["be"][v].open = TRUE] /\ UNCHANGED wire
  <2>1. PICK c : c = [chan["be"][v] EXCEPT !.open = TRUE]
    OBVIOUS
  <2>2. /\ c \in Chan /\ c.session = o /\ c.other = chan["be"][v].other
        /\ c.dead = chan["be"][v].dead
    BY <1>5, <2>1 DEF Chan
  <2>3. c # NoChan
    BY <1>5, <2>2 DEF NoChan
  <2>4. SetChan("be", v, c)
    BY <1>1, <1>8, <2>1 DEF SetChan, TypeOK
  <2>5. QueuesMove("be")
    BY <1>1, <1>6, <1>8 DEF QueuesMove
  <2>6. Sessions'
    BY <1>5, <1>8, <2>2, <2>4, <2>5, BackQuiet
  <2>7. -2 >= (IF c = NoChan THEN -1 ELSE 0) + (-1) + (-1)
    BY <2>3
  <2>8. QED
    BY <1>1, <1>3, <1>4, <1>5, <1>6, <1>7, <2>2, <2>4, <2>5, <2>6, <2>7, LeaveStep
<1>9. -2 >= (IF NoChan = NoChan THEN -1 ELSE 0) + (-1) + (-1)
  OBVIOUS
<1>10. CASE Free("be", v) /\ UNCHANGED wire
  <2>1. SetChan("be", v, NoChan) /\ QueuesMove("be")
    BY <1>1, <1>6, <1>10 DEF Free, SetChan, QueuesMove
  <2>2. Sessions'
    BY <1>5, <1>10, <2>1, BackQuiet
  <2>3. QED
    BY <1>1, <1>3, <1>5, <1>6, <1>7, <1>9, <2>1, <2>2, LeaveStep
<1>11. CASE Free("be", v) /\ Send("be", Request("INIT_CANCEL", v, o))
  <2>1. PICK m : m = Request("INIT_CANCEL", v, o)
    OBVIOUS
  <2>2. m \in Msgs /\ m.type = "INIT_CANCEL" /\ m.open = o
    <3>1. "INIT_CANCEL" \in OpenTypes
      BY DEF OpenTypes
    <3>2. QED
      BY <1>5, <2>1, <3>1, RequestIs
  <2>3. SendsNew("be", m)
    BY <1>1, <1>5, <1>11, <2>1, <2>2 DEF SendsNew
  <2>4. SetChan("be", v, NoChan) /\ QueuesMove("be")
    BY <1>1, <1>6, <1>11, <2>3 DEF Free, SetChan, QueuesMove
  <2>5. Sessions'
    BY <1>5, <2>2, <2>3, <2>4, BackGone
  <2>6. QED
    BY <1>1, <1>3, <1>5, <1>6, <1>7, <1>9, <2>4, <2>5, LeaveStep
<1>12. QED
  BY <1>2, <1>3, <1>4, <1>8, <1>10, <1>11

(***************************************************************************)
(* backend_listen without an answer: it starts again or returns.           *)
(***************************************************************************)
LEMMA BackendGiveUpStep ==
  ASSUME OpenInv, NEW t \in BeThreads, BackendRetry(t) \/ BackendAbort(t)
  PROVE  OpenInv'
<1>1. /\ TypeOK /\ t \in Threads /\ VM(t) = "be" /\ "be" \in VMs
      /\ IsWait(pc[t]) /\ opens' = opens /\ opens \in 0 .. MaxOpens
      /\ UNCHANGED <<openq, proto, forbidden, listens>> /\ Refs("be", -2)
      /\ mine' = [mine EXCEPT ![t] = [open |-> 0, vid |-> 0]]
      /\ Free("be", mine[t].vid)
  BY VMFacts DEF OpenInv, TypeOK, BackendRetry, BackendAbort, IsWait, Return
<1>2. PICK v \in Vids : v = mine[t].vid
  BY <1>1, OwnerFacts
<1>3. PICK o \in 1 .. MaxOpens : o = mine[t].open
  BY <1>1, OwnerFacts
<1>4. /\ t \in InHandshake /\ v \in 0 .. MaxVid /\ o \in 0 .. MaxOpens /\ o \in 1 .. opens
      /\ chan["be"][v].session = o /\ o # 0 /\ NoChan \in Chan
  BY <1>1, <1>2, <1>3, OwnerFacts
<1>5. /\ Len(openq'[VM(t)]) = Len(openq[VM(t)]) + 0 /\ proto' \in [VMs -> {0, 1}]
      /\ -2 >= (IF NoChan = NoChan THEN -1 ELSE 0) + 0 + (-1)
      /\ -2 \in Int /\ 0 \in Int
  BY <1>1 DEF TypeOK
<1>6. SetChan("be", v, NoChan)
  BY <1>1, <1>2 DEF Free, SetChan
<1>7. CASE BackendRetry(t) /\ Send("be", Request("INIT_CANCEL", v, o))
  <2>1. PICK m : m = Request("INIT_CANCEL", v, o)
    OBVIOUS
  <2>2. m \in Msgs /\ m.type = "INIT_CANCEL" /\ m.open = o
    <3>1. "INIT_CANCEL" \in OpenTypes
      BY DEF OpenTypes
    <3>2. QED
      BY <1>4, <2>1, <3>1, RequestIs
  <2>3. Send("be", m) /\ pc' = [pc EXCEPT ![t] = "wait_init"]
    BY <1>2, <1>3, <1>7, <2>1 DEF BackendRetry
  <2>4. SendsNew("be", m)
    BY <1>1, <1>4, <2>2, <2>3 DEF SendsNew
  <2>5. QueuesMove("be")
    BY <1>1, <2>4 DEF QueuesMove
  <2>6. Sessions'
    BY <1>4, <1>6, <2>2, <2>4, <2>5, BackGone
  <2>7. QED
    BY <1>1, <1>2, <1>4, <1>5, <1>6, <2>3, <2>5, <2>6, LeaveStep
<1>8. CASE BackendAbort(t) \/ (BackendRetry(t) /\ UNCHANGED wire)
  <2>1. wire' = wire /\ pc' \in {[pc EXCEPT ![t] = step] : step \in {"idle", "wait_init"}}
    BY <1>8 DEF BackendAbort, BackendRetry, Return
  <2>2. QueuesMove("be")
    BY <1>1, <2>1 DEF QueuesMove
  <2>3. Sessions'
    BY <1>4, <1>6, <2>1, <2>2, BackQuiet
  <2>4. QED
    BY <1>1, <1>2, <1>4, <1>5, <1>6, <2>1, <2>2, <2>3, LeaveStep
<1>9. BackendRetry(t) => Send("be", Request("INIT_CANCEL", v, o)) \/ UNCHANGED wire
  BY <1>2, <1>3 DEF BackendRetry, SendUnchecked
<1>10. QED
  BY <1>7, <1>8, <1>9
-----------------------------------------------------------------------------
(* Both *)

(***************************************************************************)
(* A request that is too old is dropped with its reference.                *)
(***************************************************************************)
LEMMA ExpireStep ==
  ASSUME OpenInv, NEW t \in Threads, ExpireRequest(t)
  PROVE  OpenInv'
<1>1. /\ TypeOK /\ VM(t) \in VMs /\ opens' = opens /\ opens \in 0 .. MaxOpens
      /\ UNCHANGED <<chan, wire, proto, forbidden, pc, mine, listens>> /\ Refs(VM(t), -1)
  BY VMFacts DEF OpenInv, TypeOK, ExpireRequest
<1>2. PICK k \in DOMAIN openq[VM(t)] : openq' = [openq EXCEPT ![VM(t)] = RemoveAt(@, k)]
  BY DEF ExpireRequest
<1>3. k \in 1 .. Len(openq[VM(t)]) /\ Len(openq[VM(t)]) \in Nat
  BY <1>1, <1>2, LenProperties DEF TypeOK
<1>4. Takes(VM(t), k)
  BY <1>2, <1>3 DEF Takes
<1>5. Len(openq'[VM(t)]) = Len(openq[VM(t)]) + (-1)
  BY <1>1, <1>3, <1>4, TakesIs
<1>6. QueuesMove(VM(t))
  BY <1>1, <1>4 DEF QueuesMove
<1>7. pc' = [pc EXCEPT ![t] = pc[t]] /\ pc[t] \in {"idle", "wait_ack", "wait_init", "wait_done"}
  BY <1>1 DEF TypeOK
<1>8. /\ proto' \in [VMs -> {0, 1}] /\ listens' \in 0 .. MaxListens
      /\ -1 >= -1 /\ -1 \in Int
  BY <1>1 DEF TypeOK
<1>9. QED
  BY <1>1, <1>5, <1>6, <1>7, <1>8, OutsideStep

(***************************************************************************)
(* hab_stop.                                                               *)
(***************************************************************************)
LEMMA StopStep ==
  ASSUME OpenInv, NEW vm \in VMs, Stop(vm)
  PROVE  OpenInv'
<1>1. /\ UNCHANGED <<chan, openq, wire, proto, ref, pc, mine, opens, listens>>
      /\ forbidden' \in [VMs -> BOOLEAN]
  BY DEF Stop, OpenInv, TypeOK
<1>2. TypeOK' /\ Fresh' /\ Owned' /\ FeUnique' /\ InitOnce'
  BY <1>1 DEF OpenInv, TypeOK, Fresh, Queued, Owned, InHandshake, FeUnique, InitOnce
<1>3. Sessions'
  BY <1>1 DEF OpenInv, Sessions, SessionOK, Queued, Backs, Pending
<1>4. RefsCoverUse'
  BY <1>1 DEF OpenInv, RefsCoverUse, Referrers
<1>5. QED
  BY <1>2, <1>3, <1>4 DEF OpenInv

(***************************************************************************)
(* hab_vchan_close.                                                        *)
(***************************************************************************)
LEMMA CloseStep ==
  ASSUME OpenInv, NEW vm \in VMs, NEW v \in Vids, Close(vm, v)
  PROVE  OpenInv'
<1>1. /\ TypeOK /\ Fresh /\ Owned /\ FeUnique /\ RefsCoverUse
      /\ opens' = opens /\ opens \in 0 .. MaxOpens /\ Refs(vm, -1) /\ chan[vm][v].open
      /\ UNCHANGED <<openq, proto, forbidden, pc, mine, listens>>
  BY DEF OpenInv, TypeOK, Close
<1>2. NoChan \in Chan /\ NoChan.session = 0 /\ ~NoChan.open
  BY OpenAssumption DEF NoChan, Chan
<1>3. SetChan(vm, v, NoChan)
  BY DEF Close, Free, SetChan
<1>4. PICK s \in 1 .. MaxOpens : s = chan[vm][v].session
  <2>1. chan[vm][v].session \in 0 .. MaxOpens
    BY <1>1 DEF TypeOK, Chan
  <2>2. chan[vm][v].session # 0
    BY <1>1, <1>2 DEF Fresh
  <2>3. QED
    BY <2>1, <2>2, OpenAssumption
<1>5. chan[vm][v] # NoChan /\ s # 0 /\ s \in 1 .. opens /\ s \in 0 .. MaxOpens
  BY <1>1, <1>2, <1>4, OpenAssumption DEF Fresh
<1>6. wire' = wire \/ \E m : SendsNew(vm, m) /\ m.open = s
  <2>1. CASE chan[vm][v].dead
    BY <2>1 DEF Close
  <2>2. CASE ~chan[vm][v].dead
    <3>1. PICK m : m = [type |-> "CLOSE", vid |-> chan[vm][v].other,
                        open |-> s, proto |-> 0]
      OBVIOUS
    <3>2. chan[vm][v].other \in 0 .. MaxVid
      BY <1>1 DEF TypeOK, Chan
    <3>3. m \in Msgs /\ m.type = "CLOSE" /\ m.open = s
      BY <1>5, <3>1, <3>2 DEF Msgs
    <3>4. Send(vm, m) \/ wire' = wire
      BY <1>4, <2>2, <3>1 DEF Close, SendUnchecked
    <3>5. QED
      BY <1>1, <1>5, <3>3, <3>4 DEF SendsNew
  <2>3. QED
    BY <2>1, <2>2
<1>7. QueuesMove(vm)
  BY <1>1, <1>6 DEF QueuesMove
<1>8. /\ openq' \in [VMs -> Seq(Msgs)] /\ wire' \in [VMs -> Seq(Msgs)]
      /\ InitOnce' /\ FreshMsgs'
  BY <1>7, QueuesStep
<1>9. /\ chan' \in [VMs -> [Vids -> Chan]]
      /\ \A x \in VMs, y \in Vids :
           chan'[x][y] = IF x = vm /\ y = v THEN NoChan ELSE chan[x][y]
  BY <1>1, <1>2, <1>3, SetChanIs
<1>10. FreshChans'
  BY <1>1, <1>2, <1>3, SetChanFresh
<1>11. Owned'
  <2>1. \A x \in VMs, y \in Vids : ~chan[x][y].open => chan'[x][y] = chan[x][y]
    BY <1>1, <1>9
  <2>2. QED
    BY <1>1, <2>1, OwnedChan
<1>12. FeUnique'
  BY <1>1, <1>2, <1>9, FeUniqueKept, VMFacts
<1>13. Sessions'
  <2>1. CASE vm = "fe"
    BY <1>3, <1>4, <1>5, <1>6, <1>7, <2>1, FrontGone
  <2>2. CASE vm = "be" /\ wire' = wire
    BY <1>2, <1>3, <1>7, <2>2, BackQuiet
  <2>3. ASSUME vm = "be", NEW m, SendsNew(vm, m), m.open = s
        PROVE  Sessions'
    BY <1>3, <1>4, <1>5, <1>7, <2>3, BackGone
  <2>4. QED
    BY <1>6, <2>1, <2>2, <2>3 DEF VMs
<1>14. RefsCoverUse' /\ ref' \in [VMs -> Int]
  <2>1. /\ Cardinality(Users(vm)') = Cardinality(Users(vm)) + 0 - 1
        /\ \A u \in VMs : u # vm => Users(u)' = Users(u)
    BY <1>1, <1>2, <1>3, <1>5, UsersChange
  <2>2. \A u : Waiters(u)' = Waiters(u)
    BY <1>1 DEF Waiters
  <2>3. Cardinality(Users(vm)) \in Nat /\ Cardinality(Waiters(vm)) \in Nat
    BY CountsType
  <2>4. /\ Cardinality(Users(vm)') = Cardinality(Users(vm)) + (-1)
        /\ Cardinality(Waiters(vm)') = Cardinality(Waiters(vm)) + 0
        /\ Len(openq'[vm]) = Len(openq[vm]) + 0
    BY <1>1, <2>1, <2>2, <2>3 DEF TypeOK
  <2>5. -1 \in Int /\ 0 \in Int /\ -1 >= -1 + 0 + 0
    OBVIOUS
  <2>6. QED
    BY <1>1, <2>1, <2>2, <2>4, <2>5, RefsStep
<1>15. TypeOK'
  BY <1>1, <1>8, <1>9, <1>14 DEF TypeOK
<1>16. QED
  BY <1>8, <1>10, <1>11, <1>12, <1>13, <1>14, <1>15, PartsMake
-----------------------------------------------------------------------------
(* hab_msg_recv *)

(***************************************************************************)
(* The message m at the head of the wire is taken off; the open queue      *)
(* keeps it, loses a request, or stays.                                    *)
(***************************************************************************)
Arrives(vm, m) ==
  /\ wire[vm] # << >> /\ m = Head(wire[vm])
  /\ wire' = [wire EXCEPT ![vm] = Tail(@)]
Queues(vm, e) == e \in Msgs /\ openq' = [openq EXCEPT ![vm] = Append(@, e)]

(***************************************************************************)
(* The wires after that: the rest of the queue, without a second INIT of   *)
(* the session of an INIT.                                                 *)
(***************************************************************************)
LEMMA ArrivesIs ==
  ASSUME OpenInv, NEW vm \in VMs, NEW m, Arrives(vm, m)
  PROVE  /\ wire' \in [VMs -> Seq(Msgs)] /\ \A u \in VMs : u # vm => wire'[u] = wire[u]
         /\ m \in Msgs /\ m \in Range(wire[vm]) /\ m \in Queued(vm)
         /\ Range(wire'[vm]) \subseteq Range(wire[vm])
         /\ OneInit(wire[vm]) =>
              /\ OneInit(wire'[vm])
              /\ m.type = "INIT" => \A n \in Range(wire'[vm]) : ~IsInit(n, m.open)
<1>1. wire \in [VMs -> Seq(Msgs)] /\ wire[vm] \in Seq(Msgs)
  BY DEF OpenInv, TypeOK
<1>2. /\ wire'[vm] = Tail(wire[vm]) /\ \A u \in VMs : u # vm => wire'[u] = wire[u]
      /\ m = Head(wire[vm]) /\ wire[vm] # << >>
  BY <1>1 DEF Arrives
<1>3. /\ Without(wire'[vm], wire[vm], 1) /\ 1 \in DOMAIN wire[vm] /\ m = wire[vm][1]
      /\ m \in Msgs
  BY <1>1, <1>2, TailIs
<1>4. 1 \in 1 .. Len(wire[vm])
  BY <1>1, <1>3, LenProperties
<1>5. /\ wire'[vm] \in Seq(Msgs) /\ Range(wire'[vm]) \subseteq Range(wire[vm])
      /\ wire[vm][1] \in Range(wire[vm])
      /\ OneInit(wire[vm]) =>
           /\ OneInit(wire'[vm])
           /\ wire[vm][1].type = "INIT" =>
                \A n \in Range(wire'[vm]) : ~IsInit(n, wire[vm][1].open)
  BY <1>1, <1>3, <1>4, WithoutLess
<1>6. wire' \in [VMs -> Seq(Msgs)]
  BY <1>1, <1>2, <1>5 DEF Arrives
<1>7. QED
  BY <1>2, <1>3, <1>5, <1>6 DEF Queued

(***************************************************************************)
(* The queues after hab_msg_recv: no message that was not there before.    *)
(***************************************************************************)
LEMMA ReceiveQueues ==
  ASSUME OpenInv, NEW vm \in VMs, NEW m, Arrives(vm, m), opens' = opens,
         \/ openq' = openq
         \/ \E k : Takes(vm, k)
         \/ \E e : Queues(vm, e) /\ Alike(e, m)
  PROVE  /\ openq' \in [VMs -> Seq(Msgs)] /\ wire' \in [VMs -> Seq(Msgs)]
         /\ InitOnce' /\ FreshMsgs'
         /\ \A u \in VMs : \A a \in Queued(u)' : \E n \in Queued(u) : Alike(a, n)
         /\ \A u \in VMs : u # vm => openq'[u] = openq[u]
<1>1. /\ TypeOK /\ openq \in [VMs -> Seq(Msgs)] /\ openq[vm] \in Seq(Msgs)
      /\ OneInit(wire["be"]) /\ OneInit(openq["be"])
      /\ \A a \in Range(wire["be"]), n \in Range(openq["be"]) :
            a.type = "INIT" => ~IsInit(n, a.open)
  BY DEF OpenInv, TypeOK, InitOnce
<1>2. /\ wire' \in [VMs -> Seq(Msgs)] /\ \A u \in VMs : u # vm => wire'[u] = wire[u]
      /\ m \in Msgs /\ m \in Range(wire[vm]) /\ m \in Queued(vm)
      /\ Range(wire'[vm]) \subseteq Range(wire[vm])
      /\ OneInit(wire[vm]) =>
           /\ OneInit(wire'[vm])
           /\ m.type = "INIT" => \A n \in Range(wire'[vm]) : ~IsInit(n, m.open)
  BY ArrivesIs
<1>3. \A u \in VMs : Range(wire'[u]) \subseteq Range(wire[u])
  BY <1>2
<1>4. OneInit(wire'["be"])
  BY <1>1, <1>2, VMFacts
<1>5. ASSUME openq' \in [VMs -> Seq(Msgs)], OneInit(openq'["be"]),
             \A u \in VMs : u # vm => openq'[u] = openq[u],
             \A u \in VMs : Range(openq'[u]) \subseteq Range(openq[u])
      PROVE  /\ InitOnce'
             /\ \A u \in VMs : \A a \in Queued(u)' : \E n \in Queued(u) : Alike(a, n)
  <2>1. InitOnce'
    BY <1>1, <1>3, <1>4, <1>5, VMFacts DEF InitOnce
  <2>2. \A u \in VMs : Queued(u)' \subseteq Queued(u)
    BY <1>3, <1>5 DEF Queued
  <2>3. QED
    BY <2>1, <2>2 DEF Alike
<1>6. ASSUME NEW k, Takes(vm, k)
      PROVE  /\ openq' \in [VMs -> Seq(Msgs)] /\ InitOnce'
             /\ \A u \in VMs : \A a \in Queued(u)' : \E n \in Queued(u) : Alike(a, n)
             /\ \A u \in VMs : u # vm => openq'[u] = openq[u]
  <2>1. /\ openq' \in [VMs -> Seq(Msgs)] /\ \A u \in VMs : u # vm => openq'[u] = openq[u]
        /\ Range(openq'[vm]) \subseteq Range(openq[vm])
        /\ OneInit(openq[vm]) => OneInit(openq'[vm])
    BY <1>1, <1>6, TakesIs
  <2>2. /\ \A u \in VMs : Range(openq'[u]) \subseteq Range(openq[u])
        /\ OneInit(openq'["be"])
    BY <1>1, <2>1, VMFacts
  <2>3. QED
    BY <1>5, <2>1, <2>2
<1>8. ASSUME NEW e, Queues(vm, e), Alike(e, m)
      PROVE  /\ openq' \in [VMs -> Seq(Msgs)] /\ InitOnce'
             /\ \A u \in VMs : \A a \in Queued(u)' : \E n \in Queued(u) : Alike(a, n)
             /\ \A u \in VMs : u # vm => openq'[u] = openq[u]
  <2>1. /\ e \in Msgs /\ openq'[vm] = Append(openq[vm], e)
        /\ \A u \in VMs : u # vm => openq'[u] = openq[u]
    BY <1>1, <1>8 DEF Queues
  <2>2. /\ openq'[vm] \in Seq(Msgs) /\ Range(openq'[vm]) = Range(openq[vm]) \cup {e}
        /\ OneInit(openq[vm]) /\ (e.type = "INIT" => \A n \in Range(openq[vm]) : ~IsInit(n, e.open))
              => OneInit(openq'[vm])
    BY <1>1, <2>1, AppendMore
  <2>3. openq' \in [VMs -> Seq(Msgs)]
    BY <1>1, <1>8, <2>1, <2>2 DEF Queues
  <2>4. \A u \in VMs : \A a \in Queued(u)' : \E n \in Queued(u) : Alike(a, n)
    <3>1. \A u \in VMs : \A a \in Queued(u)' : a \in Queued(u) \/ (u = vm /\ a = e)
      BY <1>3, <2>1, <2>2 DEF Queued
    <3>2. QED
      BY <1>2, <1>8, <3>1 DEF Alike
  <2>5. CASE vm # "be"
    BY <1>1, <1>3, <1>4, <2>1, <2>3, <2>4, <2>5, VMFacts DEF InitOnce
  <2>6. CASE vm = "be"
    <3>1. OneInit(openq'["be"])
      BY <1>1, <1>2, <1>8, <2>2, <2>6 DEF Alike
    <3>2. ASSUME NEW a \in Range(wire'["be"]), NEW n \in Range(openq'["be"]),
                 a.type = "INIT"
          PROVE  ~IsInit(n, a.open)
      <4>1. CASE n = e
        BY <1>1, <1>2, <1>8, <2>6, <3>2, <4>1 DEF Alike, IsInit
      <4>2. CASE n \in Range(openq["be"])
        BY <1>1, <1>3, <3>2, <4>2, VMFacts
      <4>3. QED
        BY <2>2, <2>6, <4>1, <4>2
    <3>3. InitOnce'
      BY <1>4, <3>1, <3>2 DEF InitOnce
    <3>4. QED
      BY <2>1, <2>3, <2>4, <3>3
  <2>7. QED
    BY <2>5, <2>6
<1>9. /\ openq' \in [VMs -> Seq(Msgs)] /\ InitOnce'
      /\ \A u \in VMs : \A a \in Queued(u)' : \E n \in Queued(u) : Alike(a, n)
      /\ \A u \in VMs : u # vm => openq'[u] = openq[u]
  <2>1. CASE openq' = openq
    BY <1>1, <1>5, <2>1
  <2>2. QED
    BY <1>6, <1>8, <2>1
<1>10. FreshMsgs'
  BY <1>9 DEF OpenInv, Fresh, FreshMsgs, Alike
<1>11. QED
  BY <1>2, <1>9, <1>10

(***************************************************************************)
(* A message that changes no vchan: it is queued, takes a request back, or *)
(* is lost.                                                                *)
(***************************************************************************)
LEMMA ReceiveQueued ==
  ASSUME OpenInv, NEW vm \in VMs, NEW m, Arrives(vm, m),
         UNCHANGED <<chan, proto, forbidden, pc, mine, opens, listens>>,
         NEW r \in Int, NEW q \in Int, Refs(vm, r), r >= q,
         Len(openq'[vm]) = Len(openq[vm]) + q,
         \/ openq' = openq
         \/ \E k : Takes(vm, k)
         \/ \E e : Queues(vm, e) /\ Alike(e, m)
  PROVE  OpenInv'
<1>1. /\ TypeOK /\ Fresh /\ Owned /\ FeUnique /\ RefsCoverUse
  BY DEF OpenInv
<1>2. /\ openq' \in [VMs -> Seq(Msgs)] /\ wire' \in [VMs -> Seq(Msgs)]
      /\ InitOnce' /\ FreshMsgs'
      /\ \A u \in VMs : \A a \in Queued(u)' : \E n \in Queued(u) : Alike(a, n)
      /\ \A u \in VMs : u # vm => openq'[u] = openq[u]
  BY ReceiveQueues
<1>3. FreshChans' /\ FeUnique'
  BY <1>1 DEF Fresh, FreshChans, FeUnique
<1>4. Owned'
  BY <1>1, OwnedChan
<1>5. Sessions'
  <2>1. /\ \A a \in Queued("be")' : \E n \in Queued("be") : Alike(a, n)
        /\ \A a \in Queued("fe")' : \E n \in Queued("fe") : Alike(a, n)
    BY <1>2, VMFacts
  <2>2. QED
    BY <2>1, SessionsKept
<1>6. RefsCoverUse' /\ ref' \in [VMs -> Int]
  <2>1. \A u : Users(u)' = Users(u) /\ Waiters(u)' = Waiters(u)
    BY DEF Users, Waiters
  <2>2. Cardinality(Users(vm)) \in Nat /\ Cardinality(Waiters(vm)) \in Nat
    BY CountsType
  <2>3. /\ Cardinality(Users(vm)') = Cardinality(Users(vm)) + 0
        /\ Cardinality(Waiters(vm)') = Cardinality(Waiters(vm)) + 0
    BY <2>1, <2>2
  <2>4. r >= 0 + q + 0 /\ 0 \in Int
    OBVIOUS
  <2>5. QED
    BY <1>1, <1>2, <2>1, <2>3, <2>4, RefsStep
<1>7. TypeOK'
  BY <1>1, <1>2, <1>6 DEF TypeOK
<1>8. QED
  BY <1>2, <1>3, <1>4, <1>5, <1>6, <1>7, PartsMake

(***************************************************************************)
(* A CLOSE reaches a vchan: the other end has none of its session, and the *)
(* front end none that the back end could still answer.                    *)
(***************************************************************************)
LEMMA CloseHeard ==
  ASSUME OpenInv, NEW vm \in VMs, NEW m, Arrives(vm, m), m.type = "CLOSE",
         m.vid \in Vids, chan[vm][m.vid].session = m.open,
         NEW c \in Chan, SetChan(vm, m.vid, c), c.session = m.open,
         c.other = chan[vm][m.vid].other,
         UNCHANGED <<openq, opens>>
  PROVE  Sessions'
<1>1. TypeOK /\ FeUnique
  BY DEF OpenInv
<1>2. \A x \in VMs, y \in Vids :
         chan'[x][y] = IF x = vm /\ y = m.vid THEN c ELSE chan[x][y]
  BY <1>1, SetChanIs
<1>3. /\ \A a \in Queued("be")' : \E n \in Queued("be") : Alike(a, n)
      /\ \A a \in Queued("fe")' : \E n \in Queued("fe") : Alike(a, n)
  BY ReceiveQueues, VMFacts
<1>4. m \in Queued(vm)
  BY ArrivesIs
<1>5. \A u \in Vids, s \in 1 .. MaxOpens : chan["fe"][u].session = s => SessionOK(u, s)
  BY DEF OpenInv, Sessions
<1>6. CASE vm = "be"
  <2>1. \A u \in Vids : chan'["fe"][u] = chan["fe"][u]
    BY <1>2, <1>6, VMFacts
  <2>2. m.open \in 1 .. MaxOpens
    <3>1. m.open \in 1 .. opens /\ opens \in 0 .. MaxOpens
      BY <1>1, <1>4 DEF OpenInv, Fresh, TypeOK
    <3>2. QED
      BY <3>1, OpenAssumption
  <2>3. \A u \in Vids : chan["fe"][u].session # m.open
    BY <1>4, <1>5, <1>6, <2>2 DEF SessionOK
  <2>4. \A w \in Vids : \/ chan'["be"][w] = chan["be"][w]
                        \/ \A u \in Vids : chan'["fe"][u].session # chan'["be"][w].session
    BY <1>2, <1>6, <2>1, <2>3, VMFacts
  <2>5. QED
    BY <1>3, <2>1, <2>4, SessionsKept
<1>7. CASE vm = "fe"
  <2> SUFFICES ASSUME NEW u \in Vids, NEW s \in 1 .. MaxOpens, chan'["fe"][u].session = s
               PROVE  SessionOK(u, s)'
    BY DEF Sessions
  <2>1. chan["fe"][u].session = s /\ SessionOK(u, s)
    BY <1>2, <1>5, <1>7, VMFacts
  <2>2. \A w \in Vids : chan'["be"][w] = chan["be"][w]
    BY <1>2, <1>7, VMFacts
  <2>3. CASE u # m.vid
    <3>1. chan'["fe"][u] = chan["fe"][u]
      BY <1>2, <1>7, <2>3, VMFacts
    <3>2. QED
      BY <1>3, <2>1, <2>2, <3>1, SessionKept
  <2>4. CASE u = m.vid
    <3>1. ~Pending(s) /\ Backs(s) = {}
      BY <1>4, <1>7, <2>1, <2>4 DEF SessionOK
    <3>2. Backs(s)' = {}
      BY <2>2, <3>1 DEF Backs
    <3>3. ~Pending(s)'
      BY <1>3, <3>1 DEF Pending, IsInit, Alike
    <3>4. \A a \in Queued("be")' : a.open = s => a.type \notin {"INIT_CANCEL", "CLOSE"}
      BY <1>3, <2>1 DEF SessionOK, Alike
    <3>5. QED
      BY <3>2, <3>3, <3>4, SessionEmpty
  <2>5. QED
    BY <2>3, <2>4
<1>8. QED
  BY <1>6, <1>7 DEF VMs

(***************************************************************************)
(* hab_vchan_stop on a CLOSE.                                              *)
(***************************************************************************)
LEMMA ReceiveCloseStep ==
  ASSUME OpenInv, NEW vm \in VMs, NEW m, Arrives(vm, m), m.type = "CLOSE",
         VchanGet(vm, m), ReceiveClose(vm, m),
         UNCHANGED <<proto, forbidden, pc, mine, opens, listens>>
  PROVE  OpenInv'
<1>1. /\ TypeOK /\ Fresh /\ Owned /\ FeUnique /\ RefsCoverUse
      /\ UNCHANGED <<openq, ref>>
  BY DEF OpenInv, ReceiveClose
<1>2. PICK v \in Vids : v = m.vid
  BY DEF VchanGet
<1>3. PICK c : c = [chan[vm][v] EXCEPT !.dead = TRUE]
  OBVIOUS
<1>4. chan[vm][v] \in Chan /\ chan[vm][v].session = m.open
  BY <1>1, <1>2 DEF TypeOK, VchanGet
<1>5. /\ c \in Chan /\ c.session = m.open /\ c.other = chan[vm][v].other
      /\ c.open = chan[vm][v].open
  BY <1>3, <1>4 DEF Chan
<1>6. SetChan(vm, v, c)
  BY <1>1, <1>2, <1>3 DEF ReceiveClose, SetChan, TypeOK
<1>7. /\ openq' \in [VMs -> Seq(Msgs)] /\ wire' \in [VMs -> Seq(Msgs)]
      /\ InitOnce' /\ FreshMsgs'
  BY <1>1, ReceiveQueues
<1>8. /\ chan' \in [VMs -> [Vids -> Chan]]
      /\ \A x \in VMs, y \in Vids :
           chan'[x][y] = IF x = vm /\ y = v THEN c ELSE chan[x][y]
  BY <1>1, <1>5, <1>6, SetChanIs
<1>9. m.open \in 1 .. opens /\ opens \in Nat
  BY <1>1, ArrivesIs, OpenAssumption DEF Fresh, TypeOK
<1>10. FreshChans'
  <2>1. c.session # 0 /\ c.session <= opens'
    BY <1>5, <1>9
  <2>2. QED
    BY <1>5, <1>6, <2>1, SetChanFresh
<1>11. Owned'
  <2>1. \A x \in VMs, y \in Vids : /\ chan'[x][y].session = chan[x][y].session
                                   /\ chan'[x][y].open = chan[x][y].open
    BY <1>4, <1>5, <1>8
  <2>2. QED
    BY <1>1, <2>1, OwnedChan
<1>12. FeUnique'
  BY <1>1, <1>4, <1>5, <1>8, FeUniqueKept, VMFacts
<1>13. Sessions'
  BY <1>1, <1>2, <1>4, <1>5, <1>6, CloseHeard
<1>14. RefsCoverUse'
  <2>1. chan[vm][v] # NoChan /\ c # NoChan
    BY <1>4, <1>5, <1>9 DEF NoChan
  <2>2. \A u \in VMs : Users(u)' = Users(u) /\ Waiters(u)' = Waiters(u)
    BY <1>8, <2>1 DEF Users, Waiters
  <2>3. \A u : /\ Referrers(u) = Cardinality(Users(u)) + Len(openq[u]) + Cardinality(Waiters(u))
               /\ Referrers(u)' = Cardinality(Users(u)') + Len(openq'[u])
                                   + Cardinality(Waiters(u)')
    BY DEF Referrers, Users, Waiters
  <2>4. \A u \in VMs : Referrers(u)' = Referrers(u)
    BY <1>1, <2>2, <2>3
  <2>5. QED
    BY <1>1, <2>4 DEF RefsCoverUse
<1>15. TypeOK'
  BY <1>1, <1>7, <1>8 DEF TypeOK
<1>16. QED
  BY <1>7, <1>10, <1>11, <1>12, <1>13, <1>14, <1>15, PartsMake

(***************************************************************************)
(* hab_msg_recv.                                                           *)
(***************************************************************************)
LEMMA ReceiveStep ==
  ASSUME OpenInv, NEW vm \in VMs, Receive(vm)
  PROVE  OpenInv'
<1>1. TypeOK /\ UNCHANGED <<proto, forbidden, pc, mine, opens, listens>>
  BY DEF OpenInv, Receive
<1>2. PICK m : m = Head(wire[vm])
  OBVIOUS
<1>3. Arrives(vm, m)
  BY <1>2 DEF Receive, Arrives
<1>4. \/ RequestAdd(vm, m)
      \/ ReceiveCancel(vm, m)
      \/ m.type = "CLOSE" /\ ReceiveClose(vm, m)
      \/ UNCHANGED <<chan, openq, ref>>
  BY <1>2 DEF Receive
<1>5. m \in Msgs /\ openq[vm] \in Seq(Msgs) /\ Len(openq[vm]) \in Nat
  BY <1>1, <1>3, ArrivesIs DEF TypeOK
<1>6. -1 \in Int /\ 0 \in Int /\ 1 \in Int /\ 0 >= -1 /\ 0 >= 0 /\ 1 >= 1
  OBVIOUS
<1>7. ASSUME NEW e \in Msgs, Alike(e, m), UNCHANGED chan, Refs(vm, 1),
             openq' = [openq EXCEPT ![vm] = Append(@, e)]
      PROVE  OpenInv'
  <2>1. Queues(vm, e)
    BY <1>7 DEF Queues
  <2>2. Len(openq'[vm]) = Len(openq[vm]) + 1
    <3>1. openq'[vm] = Append(openq[vm], e)
      BY <1>1, <1>7 DEF TypeOK
    <3>2. QED
      BY <1>5, <3>1, AppendProperties
  <2>3. QED
    BY <1>1, <1>3, <1>6, <1>7, <2>1, <2>2, ReceiveQueued
<1>8. CASE UNCHANGED <<chan, openq, ref>>
  <2>1. Refs(vm, 0)
    BY <1>1, <1>8 DEF Refs, TypeOK
  <2>2. Len(openq'[vm]) = Len(openq[vm]) + 0
    BY <1>5, <1>8
  <2>3. QED
    BY <1>1, <1>3, <1>6, <1>8, <2>1, <2>2, ReceiveQueued
<1>9. CASE RequestAdd(vm, m)
  BY <1>5, <1>7, <1>9 DEF RequestAdd, Alike
<1>10. CASE ReceiveCancel(vm, m)
  <2>1. UNCHANGED chan
    BY <1>10 DEF ReceiveCancel
  <2>2. ASSUME NEW k \in DOMAIN openq[vm], UNCHANGED ref,
               openq' = [openq EXCEPT ![vm] = RemoveAt(@, k)]
        PROVE  OpenInv'
    <3>1. k \in 1 .. Len(openq[vm])
      BY <1>5, <2>2, LenProperties
    <3>2. Takes(vm, k)
      BY <2>2, <3>1 DEF Takes
    <3>3. Len(openq'[vm]) = Len(openq[vm]) + (-1)
      BY <1>1, <1>5, <3>2, TakesIs
    <3>4. Refs(vm, 0)
      BY <1>1, <2>2 DEF Refs, TypeOK
    <3>5. QED
      BY <1>1, <1>3, <1>6, <2>1, <3>2, <3>3, <3>4, ReceiveQueued
  <2>3. ASSUME Refs(vm, 1),
               openq' = [openq EXCEPT ![vm] = Append(@, [m EXCEPT !.proto = 0])]
        PROVE  OpenInv'
    <3>1. PICK e : e = [m EXCEPT !.proto = 0]
      OBVIOUS
    <3>2. e \in Msgs /\ Alike(e, m)
      BY <1>5, <3>1 DEF Msgs, Alike
    <3>3. QED
      BY <1>7, <2>1, <2>3, <3>1, <3>2
  <2>4. QED
    BY <1>10, <2>2, <2>3 DEF ReceiveCancel
<1>11. CASE m.type = "CLOSE" /\ ReceiveClose(vm, m)
  <2>1. CASE VchanGet(vm, m)
    BY <1>1, <1>3, <1>11, <2>1, ReceiveCloseStep
  <2>2. CASE ~VchanGet(vm, m)
    BY <1>8, <1>11, <2>2 DEF ReceiveClose
  <2>3. QED
    BY <2>1, <2>2
<1>12. QED
  BY <1>4, <1>8, <1>9, <1>10, <1>11
-----------------------------------------------------------------------------
(* The theorems *)

(***************************************************************************)
(* Nothing is open at first.                                               *)
(***************************************************************************)
LEMMA OpenInit == Init => OpenInv
<1> SUFFICES ASSUME Init PROVE OpenInv
  OBVIOUS
<1>1. << >> \in Seq(Msgs) /\ Range(<< >>) = {} /\ DOMAIN << >> = {} /\ Len(<< >>) = 0
  BY DEF Range
<1>2. NoChan \in Chan /\ NoChan.session = 0
  BY OpenAssumption DEF NoChan, Chan
<1>3. TypeOK
  BY <1>1, <1>2, OpenAssumption DEF Init, TypeOK
<1>4. \A vm \in VMs, v \in Vids : chan[vm][v] = NoChan
  BY DEF Init
<1>5. \A vm \in VMs : wire[vm] = << >> /\ openq[vm] = << >> /\ Queued(vm) = {}
  BY <1>1 DEF Init, Queued
<1>6. Fresh
  BY <1>2, <1>4, <1>5 DEF Fresh, Init
<1>7. InHandshake = {}
  BY DEF Init, InHandshake
<1>8. Owned /\ FeUnique /\ Sessions
  BY <1>2, <1>4, <1>7, VMFacts DEF Owned, FeUnique, Sessions
<1>9. InitOnce
  BY <1>1, <1>5, VMFacts DEF InitOnce, OneInit
<1>10. RefsCoverUse
  <2>1. \A vm \in VMs : Users(vm) = {} /\ Waiters(vm) = {} /\ ref[vm] = 1
    BY <1>4 DEF Users, Waiters, Init
  <2>2. Cardinality({}) = 0
    BY FS_EmptySet
  <2>3. \A vm \in VMs : Referrers(vm) = Cardinality(Users(vm)) + Len(openq[vm])
                                          + Cardinality(Waiters(vm))
    BY DEF Referrers, Users, Waiters
  <2>4. ASSUME NEW vm \in VMs PROVE Referrers(vm) = 0
    <3>1. Cardinality(Users(vm)) = 0 /\ Cardinality(Waiters(vm)) = 0
      BY <2>1, <2>2, Zenon
    <3>2. Len(openq[vm]) = 0
      BY <1>1, <1>5
    <3>3. QED
      BY <2>3, <3>1, <3>2
  <2>5. QED
    BY <2>1, <2>4 DEF RefsCoverUse
<1>11. QED
  BY <1>3, <1>6, <1>8, <1>9, <1>10 DEF OpenInv

(***************************************************************************)
(* Every step keeps the invariant.                                         *)
(***************************************************************************)
LEMMA OpenNext == OpenInv /\ [Next]_vars => OpenInv'
<1> SUFFICES ASSUME OpenInv, [Next]_vars PROVE OpenInv'
  OBVIOUS
<1>1. CASE UNCHANGED vars
  <2>1. UNCHANGED <<chan, openq, wire, proto, forbidden, ref, pc, mine, opens, listens>>
    BY <1>1 DEF vars
  <2>2. TypeOK' /\ Fresh' /\ Owned' /\ FeUnique' /\ InitOnce'
    BY <2>1 DEF OpenInv, TypeOK, Fresh, Queued, Owned, InHandshake, FeUnique, InitOnce
  <2>3. Sessions'
    BY <2>1 DEF OpenInv, Sessions, SessionOK, Queued, Backs, Pending
  <2>4. RefsCoverUse'
    BY <2>1 DEF OpenInv, RefsCoverUse, Referrers
  <2>5. QED
    BY <2>2, <2>3, <2>4 DEF OpenInv
<1>2. ASSUME NEW t \in FeThreads, Frontend(t)
      PROVE  OpenInv'
  BY <1>2, FrontendOpenStep, FrontendOpenFailStep, FrontendAckStep, FrontendGiveUpStep
     DEF Frontend
<1>3. ASSUME NEW t \in BeThreads, Backend(t)
      PROVE  OpenInv'
  BY <1>3, BackendListenStep, BackendInitStep, BackendDoneStep, BackendGiveUpStep
     DEF Backend
<1>4. QED
  BY <1>1, <1>2, <1>3, ExpireStep, StopStep, ReceiveStep, CloseStep DEF Next

(***************************************************************************)
(* The inductive invariant holds in every reachable state.                 *)
(***************************************************************************)
THEOREM OpenInvariant == Spec => []OpenInv
BY OpenInit, OpenNext, PTL DEF Spec

(***************************************************************************)
(* The pchan is not freed under a vchan, a queued request or a thread in   *)
(* the handshake, whatever fails.                                          *)
(***************************************************************************)
THEOREM RefsCorrect == Spec => []RefsCoverUse
<1>1. OpenInv => RefsCoverUse
  BY DEF OpenInv
<1>2. QED
  BY <1>1, OpenInvariant, PTL

(***************************************************************************)
(* Two vchans of one session that both believe to be paired are each       *)
(* other's other end (hab_open_request_find compares the open id).         *)
(***************************************************************************)
THEOREM PairedCorrect == Spec => []Paired
<1>1. OpenInv => Paired
  <2> SUFFICES ASSUME OpenInv, NEW v \in Vids, NEW w \in Vids,
                      chan["fe"][v].session # 0, chan["fe"][v].other # 0,
                      chan["be"][w].session = chan["fe"][v].session
               PROVE  chan["fe"][v].other = w /\ chan["be"][w].other = v
    BY DEF Paired
  <2>1. PICK s \in 1 .. MaxOpens : s = chan["fe"][v].session
    <3>1. chan["fe"][v].session \in 0 .. MaxOpens
      BY VMFacts DEF OpenInv, TypeOK, Chan
    <3>2. QED
      BY <3>1, OpenAssumption
  <2>2. SessionOK(v, s) /\ w \in Backs(s)
    BY <2>1 DEF OpenInv, Sessions, Backs
  <2>3. QED
    BY <2>2 DEF SessionOK
<1>2. QED
  BY <1>1, OpenInvariant, PTL

(***************************************************************************)
(* A vchan hears of a CLOSE only when its own other end is gone            *)
(* (hab_vchan_get compares the session id).                                *)
(***************************************************************************)
THEOREM DeadPeerCorrect == Spec => []DeadPeerGone
<1>1. OpenInv => DeadPeerGone
  <2> SUFFICES ASSUME OpenInv, NEW vm \in VMs, NEW v \in Vids, NEW w \in Vids,
                      chan[vm][v].dead, chan[Peer(vm)][w].session = chan[vm][v].session
               PROVE  FALSE
    BY DEF DeadPeerGone
  <2>1. PICK s \in 1 .. MaxOpens : s = chan[vm][v].session
    <3>1. chan[vm][v].session \in 0 .. MaxOpens
      BY DEF OpenInv, TypeOK, Chan
    <3>2. chan[vm][v].session # 0
      BY DEF OpenInv, Fresh, NoChan
    <3>3. QED
      BY <3>1, <3>2, OpenAssumption
  <2>2. CASE vm = "fe"
    BY <2>1, <2>2, VMFacts DEF OpenInv, Sessions, SessionOK, Backs
  <2>3. CASE vm = "be"
    BY <2>1, <2>3, VMFacts DEF OpenInv, Sessions, SessionOK, Backs
  <2>4. QED
    BY <2>2, <2>3 DEF VMs
<1>2. QED
  BY <1>1, OpenInvariant, PTL
=============================================================================
