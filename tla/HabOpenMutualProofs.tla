------------------------- MODULE HabOpenMutualProofs --------------------------
(***************************************************************************)
(* The open handshake of HabOpen when nobody cancels: requests may grow    *)
(* old, be lost for want of memory and fail to be sent, but no wait is cut *)
(* short by a signal, a timeout or hab_stop, and every CLOSE is sent.      *)
(* Then a vchan that habmm_socket_open has returned has an other end or    *)
(* hears of its close.                                                     *)
(***************************************************************************)
EXTENDS HabOpenProofs

Losses == {"aging", "nomem", "send"}
-----------------------------------------------------------------------------
(* The invariant *)

(***************************************************************************)
(* No cancel is under way, and the ids in requests and vchans are real.    *)
(***************************************************************************)
NoCancel ==
  /\ \A vm \in VMs : ~forbidden[vm]
  /\ \A vm \in VMs : \A m \in Queued(vm) :
       m.type # "INIT_CANCEL" /\ (m.type \in {"INIT", "INIT_ACK"} => m.vid # 0)
  /\ \A w \in Vids : chan["be"][w].session # 0 => chan["be"][w].other # 0
  /\ \A v \in Vids : chan["fe"][v].open <=> chan["fe"][v].other # 0

(***************************************************************************)
(* INIT_DONE of the session s has not been taken, or the CLOSE of its      *)
(* other end has not been received.                                        *)
(***************************************************************************)
Done(s) == \E m \in Queued("be") : m.type = "INIT_DONE" /\ m.open = s
Closing(vm, v, s) ==
  \E m \in Range(wire[vm]) : m.type = "CLOSE" /\ m.vid = v /\ m.open = s

(***************************************************************************)
(* INIT_DONE answers an INIT_ACK, which answers the only INIT.             *)
(***************************************************************************)
DoneLast == \A s \in 1 .. MaxOpens : Done(s) => ~Pending(s)

(***************************************************************************)
(* Before the front end has heard INIT_ACK the back end cannot open its    *)
(* vchan, and keeps it once it has sent INIT_ACK; afterwards it has one or *)
(* says that it closed it.                                                 *)
(***************************************************************************)
FrontOK(v, s) ==
  /\ chan["fe"][v].other = 0 =>
       /\ ~Done(s) /\ \A w \in Backs(s) : ~chan["be"][w].open
       /\ \A m \in Queued("fe") : m.type = "INIT_ACK" /\ m.open = s => Backs(s) # {}
  /\ chan["fe"][v].other # 0 =>
       chan["fe"][v].dead \/ Backs(s) # {} \/ Closing("fe", v, s)
Fronts ==
  \A v \in Vids, s \in 1 .. MaxOpens : chan["fe"][v].session = s => FrontOK(v, s)

(***************************************************************************)
(* A back end that is open, or about to be, has the same of the front end. *)
(***************************************************************************)
HasFront(s) == \E v \in Vids : chan["fe"][v].session = s
BackOK(w, s) ==
  chan["be"][w].open \/ Done(s) =>
    chan["be"][w].dead \/ HasFront(s) \/ Closing("be", w, s)
BacksOK ==
  \A w \in Vids, s \in 1 .. MaxOpens : chan["be"][w].session = s => BackOK(w, s)

MutualInv == NoCancel /\ DoneLast /\ Fronts /\ BacksOK
-----------------------------------------------------------------------------
(* What a step leaves alone *)

(***************************************************************************)
(* The front end's vchan of a session stays right when its back end stays. *)
(***************************************************************************)
LEMMA FrontKept ==
  ASSUME NEW v, NEW s, FrontOK(v, s),
         chan'["fe"][v].other = chan["fe"][v].other,
         chan["fe"][v].dead => chan'["fe"][v].dead,
         Done(s)' => Done(s), Backs(s)' = Backs(s),
         \A w \in Backs(s) : chan'["be"][w].open => chan["be"][w].open \/ Done(s),
         \A m \in Queued("fe")' : m.type = "INIT_ACK" /\ m.open = s => m \in Queued("fe"),
         Closing("fe", v, s) /\ chan["fe"][v].other # 0
            => Closing("fe", v, s)' \/ chan'["fe"][v].dead
  PROVE  FrontOK(v, s)'
<1>1. CASE chan["fe"][v].other = 0
  BY <1>1 DEF FrontOK
<1>2. CASE chan["fe"][v].other # 0
  BY <1>2 DEF FrontOK
<1>3. QED
  BY <1>1, <1>2

(***************************************************************************)
(* The same of a vchan of the back end.                                    *)
(***************************************************************************)
LEMMA BackKept ==
  ASSUME NEW w, NEW s, BackOK(w, s),
         chan'["be"][w].open \/ Done(s)' => chan["be"][w].open \/ Done(s),
         chan["be"][w].dead => chan'["be"][w].dead,
         HasFront(s) => HasFront(s)',
         Closing("be", w, s) => Closing("be", w, s)' \/ chan'["be"][w].dead
  PROVE  BackOK(w, s)'
BY DEF BackOK

(***************************************************************************)
(* What a step other than hab_msg_recv does to the wires.                  *)
(***************************************************************************)
LEMMA WiresGrow ==
  ASSUME OpenInv, NEW vm \in VMs, QueuesMove(vm)
  PROVE  /\ \A u \in VMs : Range(wire[u]) \subseteq Range(wire'[u])
         /\ \A u \in VMs : \A v, s : Closing(u, v, s) => Closing(u, v, s)'
         /\ \A m : SendsNew(vm, m) => m \in Range(wire'[Peer(vm)])
<1>1. TypeOK
  BY DEF OpenInv
<1>2. ASSUME NEW m, SendsNew(vm, m)
      PROVE  /\ \A u \in VMs : Range(wire[u]) \subseteq Range(wire'[u])
             /\ m \in Range(wire'[Peer(vm)])
  <2>1. wire'[vm] = wire[vm] /\ Range(wire'[Peer(vm)]) = Range(wire[Peer(vm)]) \cup {m}
    BY <1>1, <1>2, SendIs DEF SendsNew
  <2>2. \A u \in VMs : u = vm \/ u = Peer(vm)
    BY DEF VMs, Peer
  <2>3. QED
    BY <2>1, <2>2
<1>3. \A u \in VMs : Range(wire[u]) \subseteq Range(wire'[u])
  BY <1>2 DEF QueuesMove
<1>4. QED
  BY <1>2, <1>3 DEF Closing

(***************************************************************************)
(* A step that only loses requests, or marks vchans whose CLOSE it takes.  *)
(***************************************************************************)
LEMMA QuietStep ==
  ASSUME OpenInv, MutualInv, UNCHANGED forbidden,
         \A u \in VMs : Queued(u)' \subseteq Queued(u),
         \A u \in VMs, v \in Vids :
            /\ chan'[u][v].session = chan[u][v].session
            /\ chan'[u][v].other = chan[u][v].other
            /\ chan'[u][v].open = chan[u][v].open
            /\ chan[u][v].dead => chan'[u][v].dead,
         \A u \in VMs, v \in Vids, s \in 1 .. MaxOpens :
            Closing(u, v, s) /\ chan[u][v].session = s /\ chan[u][v].other # 0
              => Closing(u, v, s)' \/ chan'[u][v].dead
  PROVE  MutualInv'
<1>1. Queued("fe")' \subseteq Queued("fe") /\ Queued("be")' \subseteq Queued("be")
  BY VMFacts
<1>2. NoCancel'
  BY VMFacts DEF MutualInv, NoCancel
<1>3. \A s : (Done(s)' => Done(s)) /\ (Pending(s)' => Pending(s)) /\ Backs(s)' = Backs(s)
             /\ HasFront(s)' = HasFront(s)
  BY <1>1, VMFacts DEF Done, Pending, Backs, HasFront
<1>4. DoneLast'
  BY <1>3 DEF MutualInv, DoneLast
<1>5. ASSUME NEW v \in Vids, NEW s \in 1 .. MaxOpens, chan'["fe"][v].session = s
      PROVE  FrontOK(v, s)'
  <2>1. chan["fe"][v].session = s /\ FrontOK(v, s)
    BY <1>5, VMFacts DEF MutualInv, Fronts
  <2>2. /\ chan'["fe"][v].other = chan["fe"][v].other
        /\ chan["fe"][v].dead => chan'["fe"][v].dead
        /\ \A w \in Backs(s) : chan'["be"][w].open => chan["be"][w].open
        /\ Closing("fe", v, s) /\ chan["fe"][v].other # 0
             => Closing("fe", v, s)' \/ chan'["fe"][v].dead
    BY <2>1, VMFacts DEF Backs
  <2>3. QED
    BY <1>1, <1>3, <2>1, <2>2, FrontKept
<1>6. ASSUME NEW w \in Vids, NEW s \in 1 .. MaxOpens, chan'["be"][w].session = s
      PROVE  BackOK(w, s)'
  <2>1. /\ chan["be"][w].session = s /\ BackOK(w, s) /\ chan["be"][w].other # 0
        /\ chan'["be"][w].open = chan["be"][w].open
        /\ chan["be"][w].dead => chan'["be"][w].dead
    BY <1>6, VMFacts DEF MutualInv, BacksOK, NoCancel
  <2>2. Closing("be", w, s) => Closing("be", w, s)' \/ chan'["be"][w].dead
    BY <2>1, VMFacts
  <2>3. QED
    BY <1>3, <2>1, <2>2, BackKept
<1>7. QED
  BY <1>2, <1>4, <1>5, <1>6 DEF MutualInv, Fronts, BacksOK

(***************************************************************************)
(* A step that changes no vchan and sends nothing.                         *)
(***************************************************************************)
LEMMA StillStep ==
  ASSUME OpenInv, MutualInv, UNCHANGED <<chan, wire, forbidden>>, NEW vm \in VMs,
         openq' = openq \/ \E k : Takes(vm, k)
  PROVE  MutualInv'
<1>1. TypeOK
  BY DEF OpenInv
<1>2. \A u \in VMs : Range(openq'[u]) \subseteq Range(openq[u])
  BY <1>1, TakesIs
<1>3. \A u \in VMs : Queued(u)' \subseteq Queued(u)
  BY <1>2 DEF Queued
<1>4. \A u, v, s : Closing(u, v, s) => Closing(u, v, s)'
  BY DEF Closing
<1>5. QED
  BY <1>3, <1>4, QuietStep
-----------------------------------------------------------------------------
(* The front end *)

(***************************************************************************)
(* A new session.                                                          *)
(***************************************************************************)
LEMMA MutualOpen ==
  ASSUME OpenInv, MutualInv, NEW t \in FeThreads, FrontendOpen(t)
  PROVE  MutualInv'
<1>1. /\ TypeOK /\ Fresh /\ opens \in Nat /\ opens' = opens + 1
      /\ opens' \in 1 .. MaxOpens /\ opens' \in 0 .. MaxOpens
      /\ UNCHANGED <<openq, forbidden>> /\ NoCancel
  BY OpenAssumption DEF OpenInv, TypeOK, FrontendOpen, MutualInv
<1>2. PICK v \in Vids : /\ IsNextVid("fe", v) /\ Alloc("fe", v, opens', 0)
                        /\ Send("fe", Request("INIT", v, opens'))
  BY DEF FrontendOpen
<1>3. PICK o \in 1 .. MaxOpens : o = opens'
  BY <1>1
<1>4. PICK m : m = Request("INIT", v, o)
  OBVIOUS
<1>5. /\ m \in Msgs /\ m.type = "INIT" /\ m.vid = v /\ m.open = o /\ v # 0
      /\ o \in 0 .. MaxOpens
  <2>1. o \in 0 .. MaxOpens /\ v \in 0 .. MaxVid /\ "INIT" \in OpenTypes /\ v # 0
    BY OpenAssumption DEF Vids, OpenTypes
  <2>2. QED
    BY <1>4, <2>1, RequestIs
<1>6. PICK c : c = [session |-> o, other |-> 0, dead |-> FALSE, open |-> FALSE]
  OBVIOUS
<1>7. c \in Chan /\ c.session = o /\ c.other = 0 /\ ~c.open /\ SetChan("fe", v, c)
  <2>1. 0 \in 0 .. MaxVid
    BY OpenAssumption
  <2>2. QED
    BY <1>2, <1>3, <1>5, <1>6, <2>1 DEF Chan, Alloc, SetChan
<1>8. SendsNew("fe", m) /\ QueuesMove("fe")
  <2>1. o \in 1 .. opens' /\ o > opens
    BY <1>1, <1>3
  <2>2. SendsNew("fe", m)
    BY <1>2, <1>3, <1>4, <1>5, <2>1 DEF SendsNew
  <2>3. QED
    BY <1>1, <2>2 DEF QueuesMove
<1>9. /\ Queued("fe")' \subseteq Queued("fe")
      /\ Queued("be")' \subseteq Queued("be") \cup {m}
  BY <1>8, QueuesStep, VMFacts
<1>10. \A u \in VMs : \A x, s : Closing(u, x, s) => Closing(u, x, s)'
  BY <1>8, WiresGrow, VMFacts
<1>11. \A x \in VMs, y \in Vids :
         chan'[x][y] = IF x = "fe" /\ y = v THEN c ELSE chan[x][y]
  BY <1>1, <1>7, SetChanIs, VMFacts
<1>12. \A x \in VMs, y \in Vids : chan[x][y].session # o
  BY <1>1, <1>3, OpenAssumption DEF Fresh, TypeOK, Chan
<1>13. \A x \in VMs : \A n \in Queued(x) : n.open # o
  BY <1>1, <1>3 DEF Fresh
<1>14. chan["fe"][v].session = 0 /\ \A y \in Vids : chan'["be"][y] = chan["be"][y]
  BY <1>2, <1>11, VMFacts DEF IsNextVid, NoChan
<1>15. \A s : /\ Backs(s)' = Backs(s) /\ (Done(s)' => Done(s))
              /\ (s # 0 /\ HasFront(s) => HasFront(s)')
              /\ (s # o /\ Pending(s)' => Pending(s))
  <2>1. \A s : Backs(s)' = Backs(s)
    BY <1>14 DEF Backs
  <2>2. \A s : (Done(s)' => Done(s)) /\ (s # o /\ Pending(s)' => Pending(s))
    BY <1>5, <1>9 DEF Done, Pending, IsInit
  <2>3. \A s : s # 0 /\ HasFront(s) => HasFront(s)'
    BY <1>11, <1>14, VMFacts DEF HasFront
  <2>4. QED
    BY <2>1, <2>2, <2>3
<1>16. ~Done(o) /\ Backs(o) = {}
  BY <1>12, <1>13, VMFacts DEF Done, Backs
<1>17. NoCancel'
  <2>1. \A u \in VMs : \A a \in Queued(u)' : a \in Queued(u) \/ a = m
    BY <1>9 DEF VMs
  <2>2. \A y \in Vids : chan'["fe"][y] = c \/ chan'["fe"][y] = chan["fe"][y]
    BY <1>11, VMFacts
  <2>3. QED
    BY <1>1, <1>5, <1>7, <1>14, <2>1, <2>2 DEF NoCancel
<1>18. DoneLast'
  BY <1>15, <1>16 DEF MutualInv, DoneLast
<1>19. ASSUME NEW u \in Vids, NEW s \in 1 .. MaxOpens, chan'["fe"][u].session = s
       PROVE  FrontOK(u, s)'
  <2>1. CASE u = v
    <3>1. s = o /\ chan'["fe"][v] = c
      BY <1>7, <1>11, <1>19, <2>1, VMFacts
    <3>2. ~Done(s)' /\ Backs(s)' = {} /\ \A n \in Queued("fe")' : n.open # s
      BY <1>9, <1>13, <1>15, <1>16, <3>1, VMFacts
    <3>3. QED
      BY <1>7, <2>1, <3>1, <3>2 DEF FrontOK
  <2>2. CASE u # v
    <3>1. chan'["fe"][u] = chan["fe"][u]
      BY <1>11, <2>2, VMFacts
    <3>2. FrontOK(u, s)
      BY <1>19, <3>1 DEF MutualInv, Fronts
    <3>3. \A w \in Backs(s) : chan'["be"][w] = chan["be"][w]
      BY <1>14 DEF Backs
    <3>4. QED
      BY <1>9, <1>10, <1>15, <3>1, <3>2, <3>3, FrontKept, VMFacts
  <2>3. QED
    BY <2>1, <2>2
<1>20. ASSUME NEW w \in Vids, NEW s \in 1 .. MaxOpens, chan'["be"][w].session = s
       PROVE  BackOK(w, s)'
  <2>1. chan'["be"][w] = chan["be"][w] /\ BackOK(w, s) /\ s # 0
    BY <1>14, <1>20 DEF MutualInv, BacksOK
  <2>2. QED
    BY <1>10, <1>15, <2>1, BackKept, VMFacts
<1>21. QED
  BY <1>17, <1>18, <1>19, <1>20 DEF MutualInv, Fronts, BacksOK

(***************************************************************************)
(* The front end leaves a session: no back end that is open, or about to   *)
(* be, loses its other end without being told.                             *)
(***************************************************************************)
LEMMA MutualLeave ==
  ASSUME OpenInv, MutualInv, NEW v \in Vids, NEW o, o = chan["fe"][v].session,
         SetChan("fe", v, NoChan), UNCHANGED forbidden, QueuesMove("fe"),
         wire' = wire \/ \E m : SendsNew("fe", m) /\ m.type = "CLOSE",
         \A w \in Backs(o) :
            \/ ~chan["be"][w].open /\ ~Done(o)
            \/ Closing("be", w, o)'
  PROVE  MutualInv'
<1>1. TypeOK /\ FeUnique /\ NoCancel /\ NoChan \in Chan
  BY OpenAssumption DEF OpenInv, MutualInv, NoChan, Chan
<1>2. NoChan.session = 0 /\ NoChan.other = 0 /\ ~NoChan.open
  BY DEF NoChan
<1>3. \A x \in VMs, y \in Vids :
         chan'[x][y] = IF x = "fe" /\ y = v THEN NoChan ELSE chan[x][y]
  BY <1>1, SetChanIs, VMFacts
<1>4. /\ \A y \in Vids : chan'["be"][y] = chan["be"][y]
      /\ \A y \in Vids : y # v => chan'["fe"][y] = chan["fe"][y]
      /\ chan'["fe"][v] = NoChan
  BY <1>3, VMFacts
<1>5. /\ Queued("fe")' \subseteq Queued("fe")
      /\ \A n \in Queued("be")' : n \in Queued("be") \/ n.type = "CLOSE"
  <2>1. Queued("fe")' \subseteq Queued("fe")
    BY QueuesStep, VMFacts
  <2>2. CASE wire' = wire
    BY <2>1, <2>2, QueuesStep, VMFacts
  <2>3. ASSUME NEW m, SendsNew("fe", m), m.type = "CLOSE"
        PROVE  \A n \in Queued("be")' : n \in Queued("be") \/ n = m
    BY <2>3, QueuesStep, VMFacts
  <2>4. QED
    BY <2>1, <2>2, <2>3
<1>6. \A u \in VMs : \A x, s : Closing(u, x, s) => Closing(u, x, s)'
  BY WiresGrow, VMFacts
<1>7. \A s : Backs(s)' = Backs(s) /\ (Done(s)' => Done(s)) /\ (Pending(s)' => Pending(s))
  <2>1. \A s : Backs(s)' = Backs(s)
    BY <1>4 DEF Backs
  <2>2. \A s : (Done(s)' => Done(s)) /\ (Pending(s)' => Pending(s))
    BY <1>5 DEF Done, Pending, IsInit
  <2>3. QED
    BY <2>1, <2>2
<1>8. \A s : s # o /\ HasFront(s) => HasFront(s)'
  BY <1>4 DEF HasFront
<1>9. NoCancel'
  <2>1. \A u \in VMs : \A a \in Queued(u)' : a \in Queued(u) \/ a.type = "CLOSE"
    BY <1>5 DEF VMs
  <2>2. \A y \in Vids : chan'["fe"][y] = NoChan \/ chan'["fe"][y] = chan["fe"][y]
    BY <1>4
  <2>3. QED
    BY <1>1, <1>2, <1>4, <2>1, <2>2 DEF NoCancel
<1>10. DoneLast'
  BY <1>7 DEF MutualInv, DoneLast
<1>11. ASSUME NEW u \in Vids, NEW s \in 1 .. MaxOpens, chan'["fe"][u].session = s
       PROVE  FrontOK(u, s)'
  <2>1. chan'["fe"][u] = chan["fe"][u]
    BY <1>2, <1>4, <1>11
  <2>2. FrontOK(u, s)
    BY <1>11, <2>1 DEF MutualInv, Fronts
  <2>3. \A w \in Backs(s) : chan'["be"][w] = chan["be"][w]
    BY <1>4 DEF Backs
  <2>4. QED
    BY <1>5, <1>6, <1>7, <2>1, <2>2, <2>3, FrontKept, VMFacts
<1>12. ASSUME NEW w \in Vids, NEW s \in 1 .. MaxOpens, chan'["be"][w].session = s
       PROVE  BackOK(w, s)'
  <2>1. chan'["be"][w] = chan["be"][w] /\ BackOK(w, s) /\ w \in Backs(s)
    BY <1>4, <1>12 DEF MutualInv, BacksOK, Backs
  <2>2. CASE s # o
    BY <1>6, <1>7, <1>8, <2>1, <2>2, BackKept, VMFacts
  <2>3. CASE s = o
    <3>1. \/ ~chan["be"][w].open /\ ~Done(s)
          \/ Closing("be", w, s)'
      BY <2>1, <2>3
    <3>2. QED
      BY <1>7, <2>1, <3>1 DEF BackOK
  <2>4. QED
    BY <2>2, <2>3
<1>13. QED
  BY <1>9, <1>10, <1>11, <1>12 DEF MutualInv, Fronts, BacksOK

(***************************************************************************)
(* frontend_open hears INIT_ACK: it opens its vchan and sends INIT_DONE,   *)
(* or cannot send it and leaves.                                           *)
(***************************************************************************)
LEMMA MutualAck ==
  ASSUME OpenInv, MutualInv, NEW t \in FeThreads, FrontendAck(t)
  PROVE  MutualInv'
<1>1. /\ TypeOK /\ FeUnique /\ NoCancel /\ t \in Threads /\ VM(t) = "fe" /\ "fe" \in VMs
      /\ pc[t] = "wait_ack" /\ IsWait(pc[t]) /\ opens' = opens /\ opens \in 0 .. MaxOpens
      /\ UNCHANGED forbidden /\ ~forbidden["fe"]
  BY VMFacts DEF OpenInv, TypeOK, FrontendAck, IsWait, MutualInv, NoCancel
<1>2. PICK k \in Matches(t) :
       /\ Take(t, k)
       /\ \/ /\ chan' = [chan EXCEPT !["fe"][mine[t].vid].other = openq["fe"][k].vid,
                                     !["fe"][mine[t].vid].open = TRUE]
             /\ Send("fe", Request("INIT_DONE", 0, mine[t].open))
          \/ Free("fe", mine[t].vid) /\ UNCHANGED wire
  BY <1>1 DEF FrontendAck
<1>3. PICK n : n = openq["fe"][k]
  OBVIOUS
<1>4. PICK v \in Vids : v = mine[t].vid
  BY <1>1, OwnerFacts
<1>5. PICK o \in 1 .. MaxOpens : o = mine[t].open
  BY <1>1, OwnerFacts
<1>6. /\ o \in 0 .. MaxOpens /\ o \in 1 .. opens /\ o # 0
      /\ chan["fe"][v] \in Chan /\ chan["fe"][v].session = o /\ ~chan["fe"][v].open
  BY <1>1, <1>4, <1>5, OwnerFacts
<1>7. Takes("fe", k) /\ Found(t, n) /\ n \in Msgs /\ n \in Queued("fe")
  BY <1>1, <1>2, <1>3, TakeIs
<1>8. /\ n.type = "INIT_ACK" /\ n.open = o /\ n.vid # 0 /\ n.vid \in 0 .. MaxVid
      /\ chan["fe"][v].other = 0
  <2>1. n.type \in {"INIT_ACK", "INIT_CANCEL"} /\ n.open = o /\ n.vid \in 0 .. MaxVid
    BY <1>1, <1>5, <1>7 DEF Found, Awaited, Msgs
  <2>2. QED
    BY <1>1, <1>6, <1>7, <2>1 DEF NoCancel
<1>9. FrontOK(v, o) /\ SessionOK(v, o)
  BY <1>6 DEF MutualInv, Fronts, OpenInv, Sessions
<1>10. /\ ~Done(o) /\ Backs(o) # {} /\ \A w \in Backs(o) : ~chan["be"][w].open
       /\ ~Pending(o)
  BY <1>7, <1>8, <1>9 DEF FrontOK, SessionOK
<1>11. CASE Free("fe", v) /\ UNCHANGED wire
  <2>1. SetChan("fe", v, NoChan) /\ QueuesMove("fe")
    BY <1>1, <1>7, <1>11 DEF Free, SetChan, QueuesMove
  <2>2. QED
    BY <1>1, <1>6, <1>10, <1>11, <2>1, MutualLeave
<1>12. CASE /\ chan' = [chan EXCEPT !["fe"][v].other = n.vid, !["fe"][v].open = TRUE]
            /\ Send("fe", Request("INIT_DONE", 0, o))
  <2>1. PICK c : c = [chan["fe"][v] EXCEPT !.other = n.vid, !.open = TRUE]
    OBVIOUS
  <2>2. c \in Chan /\ c.session = o /\ c.other = n.vid /\ c.open
    BY <1>6, <1>8, <2>1 DEF Chan
  <2>3. SetChan("fe", v, c)
    BY <1>1, <1>12, <2>1 DEF SetChan, TypeOK
  <2>4. PICK m : m = Request("INIT_DONE", 0, o)
    OBVIOUS
  <2>5. m \in Msgs /\ m.type = "INIT_DONE" /\ m.open = o
    <3>1. "INIT_DONE" \in OpenTypes /\ 0 \in 0 .. MaxVid
      BY OpenAssumption DEF OpenTypes
    <3>2. QED
      BY <1>6, <2>4, <3>1, RequestIs
  <2>6. SendsNew("fe", m)
    BY <1>1, <1>6, <1>12, <2>4, <2>5 DEF SendsNew
  <2>7. QueuesMove("fe")
    BY <1>1, <1>7, <2>6 DEF QueuesMove
  <2>8. /\ Queued("fe")' \subseteq Queued("fe")
        /\ Queued("be")' \subseteq Queued("be") \cup {m}
    BY <2>6, <2>7, QueuesStep, VMFacts
  <2>9. \A u \in VMs : \A x, s : Closing(u, x, s) => Closing(u, x, s)'
    BY <2>7, WiresGrow, VMFacts
  <2>10. \A x \in VMs, y \in Vids :
           chan'[x][y] = IF x = "fe" /\ y = v THEN c ELSE chan[x][y]
    BY <1>1, <2>2, <2>3, SetChanIs
  <2>11. /\ \A y \in Vids : chan'["be"][y] = chan["be"][y]
         /\ \A y \in Vids : chan'["fe"][y] = IF y = v THEN c ELSE chan["fe"][y]
    BY <2>10, VMFacts
  <2>12. /\ \A s : Backs(s)' = Backs(s) /\ (Pending(s)' => Pending(s))
         /\ \A s : s # o => (Done(s)' => Done(s))
         /\ \A s : HasFront(s) => HasFront(s)'
    <3>1. \A s : Backs(s)' = Backs(s) /\ (HasFront(s) => HasFront(s)')
      BY <1>6, <2>2, <2>11 DEF Backs, HasFront
    <3>2. \A s : (Pending(s)' => Pending(s)) /\ (s # o => (Done(s)' => Done(s)))
      BY <2>5, <2>8 DEF Done, Pending, IsInit
    <3>3. QED
      BY <3>1, <3>2
  <2>13. NoCancel'
    <3>1. \A u \in VMs : \A a \in Queued(u)' : a \in Queued(u) \/ a = m
      BY <2>8 DEF VMs
    <3>2. QED
      BY <1>1, <1>8, <2>2, <2>5, <2>11, <3>1 DEF NoCancel
  <2>14. DoneLast'
    BY <1>10, <2>12 DEF MutualInv, DoneLast
  <2>15. ASSUME NEW u \in Vids, NEW s \in 1 .. MaxOpens, chan'["fe"][u].session = s
         PROVE  FrontOK(u, s)'
    <3>1. CASE u = v
      <4>1. s = o /\ chan'["fe"][v].other # 0
        BY <1>8, <2>2, <2>11, <2>15, <3>1
      <4>2. Backs(s)' # {}
        BY <1>10, <2>12, <4>1
      <4>3. QED
        BY <3>1, <4>1, <4>2 DEF FrontOK
    <3>2. CASE u # v
      <4>1. chan'["fe"][u] = chan["fe"][u] /\ chan["fe"][u].session = s /\ s # 0
        BY <2>11, <2>15, <3>2
      <4>2. FrontOK(u, s) /\ s # o
        BY <1>1, <1>6, <3>2, <4>1 DEF MutualInv, Fronts, FeUnique
      <4>3. \A w \in Backs(s) : chan'["be"][w] = chan["be"][w]
        BY <2>11 DEF Backs
      <4>4. QED
        BY <2>8, <2>9, <2>12, <4>1, <4>2, <4>3, FrontKept, VMFacts
    <3>3. QED
      BY <3>1, <3>2
  <2>16. ASSUME NEW w \in Vids, NEW s \in 1 .. MaxOpens, chan'["be"][w].session = s
         PROVE  BackOK(w, s)'
    <3>1. chan'["be"][w] = chan["be"][w] /\ BackOK(w, s)
      BY <2>11, <2>16 DEF MutualInv, BacksOK
    <3>2. CASE s = o
      BY <1>6, <2>12, <3>2 DEF BackOK, HasFront
    <3>3. CASE s # o
      BY <2>9, <2>12, <3>1, <3>3, BackKept, VMFacts
    <3>4. QED
      BY <3>2, <3>3
  <2>17. QED
    BY <2>13, <2>14, <2>15, <2>16 DEF MutualInv, Fronts, BacksOK
<1>13. QED
  BY <1>2, <1>3, <1>4, <1>5, <1>11, <1>12
-----------------------------------------------------------------------------
(* The back end *)

(***************************************************************************)
(* backend_listen takes an INIT; it answers it or drops it.                *)
(***************************************************************************)
LEMMA MutualInit ==
  ASSUME OpenInv, MutualInv, NEW t \in BeThreads, BackendInit(t)
  PROVE  MutualInv'
<1>1. /\ TypeOK /\ NoCancel /\ t \in Threads /\ VM(t) = "be" /\ "be" \in VMs
      /\ pc[t] = "wait_init" /\ opens' = opens /\ opens \in 0 .. MaxOpens
      /\ UNCHANGED forbidden
  BY VMFacts DEF OpenInv, TypeOK, BackendInit, MutualInv
<1>2. PICK k \in Matches(t) :
       /\ Take(t, k)
       /\ \/ \E v \in Vids :
               /\ IsNextVid("be", v)
               /\ Alloc("be", v, openq["be"][k].open, openq["be"][k].vid)
               /\ Send("be", Request("INIT_ACK", v, openq["be"][k].open))
          \/ UNCHANGED <<chan, wire>>
  BY DEF BackendInit
<1>3. PICK n : n = openq["be"][k]
  OBVIOUS
<1>4. Takes("be", k) /\ Found(t, n) /\ n \in Msgs /\ n \in Queued("be")
  BY <1>1, <1>2, <1>3, TakeIs
<1>5. /\ n.type = "INIT" /\ n.vid \in 0 .. MaxVid /\ n.vid # 0
      /\ n.open \in 0 .. MaxOpens /\ n.open \in 1 .. opens
  BY <1>1, <1>4 DEF Found, Awaited, Msgs, OpenInv, Fresh, NoCancel
<1>6. PICK o \in 1 .. MaxOpens : o = n.open
  BY <1>1, <1>5, OpenAssumption
<1>7. CASE UNCHANGED <<chan, wire>>
  BY <1>1, <1>4, <1>7, StillStep
<1>8. ASSUME NEW w \in Vids, IsNextVid("be", w), Alloc("be", w, o, n.vid),
             Send("be", Request("INIT_ACK", w, o))
      PROVE  MutualInv'
  <2>1. PICK c : c = [session |-> o, other |-> n.vid, dead |-> FALSE, open |-> FALSE]
    OBVIOUS
  <2>2. /\ c \in Chan /\ c.session = o /\ c.other # 0 /\ ~c.open
        /\ SetChan("be", w, c)
    BY <1>5, <1>6, <1>8, <2>1 DEF Chan, Alloc, SetChan
  <2>3. PICK m : m = Request("INIT_ACK", w, o)
    OBVIOUS
  <2>4. m \in Msgs /\ m.type = "INIT_ACK" /\ m.vid = w /\ m.open = o /\ w # 0
    <3>1. /\ "INIT_ACK" \in OpenTypes /\ w \in 0 .. MaxVid /\ o \in 0 .. MaxOpens
          /\ w # 0
      BY <1>5, <1>6, OpenAssumption DEF OpenTypes, Vids
    <3>2. QED
      BY <2>3, <3>1, RequestIs
  <2>5. SendsNew("be", m)
    BY <1>1, <1>5, <1>6, <1>8, <2>3, <2>4 DEF SendsNew
  <2>6. QueuesMove("be")
    BY <1>1, <1>4, <2>5 DEF QueuesMove
  <2>7. /\ Queued("be")' \subseteq Queued("be")
        /\ Queued("fe")' \subseteq Queued("fe") \cup {m}
    BY <2>5, <2>6, QueuesStep, VMFacts
  <2>8. \A u \in VMs : \A x, s : Closing(u, x, s) => Closing(u, x, s)'
    BY <2>6, WiresGrow, VMFacts
  <2>9. \A x \in VMs, y \in Vids :
          chan'[x][y] = IF x = "be" /\ y = w THEN c ELSE chan[x][y]
    BY <1>1, <2>2, SetChanIs
  <2>10. /\ \A y \in Vids : chan'["fe"][y] = chan["fe"][y]
         /\ \A y \in Vids : chan'["be"][y] = IF y = w THEN c ELSE chan["be"][y]
         /\ chan["be"][w].session = 0
    BY <1>8, <2>9, VMFacts DEF IsNextVid, NoChan
  <2>11. Pending(o) /\ ~Done(o)
    <3>1. Pending(o)
      BY <1>4, <1>5, <1>6 DEF Pending, IsInit
    <3>2. QED
      BY <3>1 DEF MutualInv, DoneLast
  <2>12. \A s : /\ Done(s)' => Done(s)
                /\ Pending(s)' => Pending(s)
                /\ HasFront(s) => HasFront(s)'
    BY <2>7, <2>10 DEF Done, Pending, HasFront
  <2>13. NoCancel'
    <3>1. \A u \in VMs : \A a \in Queued(u)' : a \in Queued(u) \/ a = m
      BY <2>7 DEF VMs
    <3>2. QED
      BY <1>1, <2>2, <2>4, <2>10, <3>1 DEF NoCancel
  <2>14. DoneLast'
    BY <2>12 DEF MutualInv, DoneLast
  <2>15. ASSUME NEW u \in Vids, NEW s \in 1 .. MaxOpens, chan'["fe"][u].session = s
         PROVE  FrontOK(u, s)'
    <3>1. chan'["fe"][u] = chan["fe"][u] /\ chan["fe"][u].session = s /\ FrontOK(u, s)
      BY <2>10, <2>15 DEF MutualInv, Fronts
    <3>2. CASE s = o
      <4>1. w \in Backs(s)' /\ Backs(s)' # {}
        BY <2>2, <2>10, <3>2 DEF Backs
      <4>2. ~Done(s)'
        BY <2>11, <2>12, <3>2
      <4>3. ASSUME chan["fe"][u].other = 0, NEW x \in Backs(s)'
            PROVE  ~chan'["be"][x].open
        BY <2>2, <2>10, <3>1, <4>3 DEF FrontOK, Backs
      <4>4. QED
        BY <3>1, <4>1, <4>2, <4>3 DEF FrontOK
    <3>3. CASE s # o
      <4>1. Backs(s)' = Backs(s)
        BY <2>2, <2>10, <3>3 DEF Backs
      <4>2. \A x \in Backs(s) : chan'["be"][x].open => chan["be"][x].open
        BY <2>2, <2>10 DEF Backs
      <4>3. \A a \in Queued("fe")' : a.open = s => a \in Queued("fe")
        BY <2>4, <2>7, <3>3
      <4>4. QED
        BY <2>8, <2>12, <3>1, <4>1, <4>2, <4>3, FrontKept, VMFacts
    <3>4. QED
      BY <3>2, <3>3
  <2>16. ASSUME NEW x \in Vids, NEW s \in 1 .. MaxOpens, chan'["be"][x].session = s
         PROVE  BackOK(x, s)'
    <3>1. CASE x = w
      <4>1. s = o /\ ~chan'["be"][w].open /\ ~Done(s)'
        BY <2>2, <2>10, <2>11, <2>12, <2>16, <3>1
      <4>2. QED
        BY <3>1, <4>1 DEF BackOK
    <3>2. CASE x # w
      <4>1. chan'["be"][x] = chan["be"][x] /\ BackOK(x, s)
        BY <2>10, <2>16, <3>2 DEF MutualInv, BacksOK
      <4>2. QED
        BY <2>8, <2>12, <4>1, BackKept, VMFacts
    <3>3. QED
      BY <3>1, <3>2
  <2>17. QED
    BY <2>13, <2>14, <2>15, <2>16 DEF MutualInv, Fronts, BacksOK
<1>9. QED
  BY <1>2, <1>3, <1>6, <1>7, <1>8

(***************************************************************************)
(* backend_listen hears INIT_DONE, which the front end sends only when it  *)
(* knows the vchan.                                                        *)
(***************************************************************************)
LEMMA MutualDone ==
  ASSUME OpenInv, MutualInv, NEW t \in BeThreads, BackendDone(t)
  PROVE  MutualInv'
<1>1. /\ TypeOK /\ NoCancel /\ t \in Threads /\ VM(t) = "be" /\ "be" \in VMs
      /\ pc[t] = "wait_done" /\ IsWait(pc[t]) /\ opens' = opens /\ opens \in 0 .. MaxOpens
      /\ UNCHANGED forbidden /\ ~forbidden["be"]
  BY VMFacts DEF OpenInv, TypeOK, BackendDone, IsWait, MutualInv, NoCancel
<1>2. PICK k \in Matches(t) :
       Take(t, k) /\ chan' = [chan EXCEPT !["be"][mine[t].vid].open = TRUE]
         /\ UNCHANGED wire
  BY <1>1 DEF BackendDone
<1>3. PICK n : n = openq["be"][k]
  OBVIOUS
<1>4. PICK v \in Vids : v = mine[t].vid
  BY <1>1, OwnerFacts
<1>5. PICK o \in 1 .. MaxOpens : o = mine[t].open
  BY <1>1, OwnerFacts
<1>6. chan["be"][v] \in Chan /\ chan["be"][v].session = o
  BY <1>1, <1>4, <1>5, OwnerFacts
<1>7. Takes("be", k) /\ Found(t, n) /\ n \in Msgs /\ n \in Queued("be")
  BY <1>1, <1>2, <1>3, TakeIs
<1>8. n.type = "INIT_DONE" /\ n.open = o
  <2>1. n.type \in {"INIT_DONE", "INIT_CANCEL"} /\ n.open = o
    BY <1>1, <1>5, <1>7 DEF Found, Awaited
  <2>2. QED
    BY <1>1, <1>7, <2>1 DEF NoCancel
<1>9. Done(o)
  BY <1>7, <1>8 DEF Done
<1>10. PICK c : c = [chan["be"][v] EXCEPT !.open = TRUE]
  OBVIOUS
<1>11. /\ c \in Chan /\ c.session = o /\ c.other = chan["be"][v].other
       /\ c.dead = chan["be"][v].dead /\ SetChan("be", v, c)
  BY <1>1, <1>2, <1>4, <1>6, <1>10 DEF Chan, SetChan, TypeOK
<1>12. QueuesMove("be")
  BY <1>1, <1>2, <1>7 DEF QueuesMove
<1>13. Queued("be")' \subseteq Queued("be") /\ Queued("fe")' \subseteq Queued("fe")
  BY <1>2, <1>12, QueuesStep, VMFacts
<1>14. \A u \in VMs : \A x, s : Closing(u, x, s) => Closing(u, x, s)'
  BY <1>12, WiresGrow, VMFacts
<1>15. \A x \in VMs, y \in Vids :
         chan'[x][y] = IF x = "be" /\ y = v THEN c ELSE chan[x][y]
  BY <1>1, <1>11, SetChanIs
<1>16. /\ \A y \in Vids : chan'["fe"][y] = chan["fe"][y]
       /\ \A y \in Vids : /\ chan'["be"][y].session = chan["be"][y].session
                          /\ chan'["be"][y].other = chan["be"][y].other
                          /\ chan'["be"][y].dead = chan["be"][y].dead
                          /\ y # v => chan'["be"][y] = chan["be"][y]
  BY <1>6, <1>11, <1>15, VMFacts
<1>17. \A s : /\ Backs(s)' = Backs(s) /\ (Done(s)' => Done(s))
              /\ (Pending(s)' => Pending(s)) /\ (HasFront(s) => HasFront(s)')
  BY <1>13, <1>16 DEF Backs, Done, Pending, HasFront
<1>18. NoCancel'
  <2>1. \A u \in VMs : \A a \in Queued(u)' : a \in Queued(u)
    BY <1>13 DEF VMs
  <2>2. QED
    BY <1>1, <1>16, <2>1 DEF NoCancel
<1>19. DoneLast'
  BY <1>17 DEF MutualInv, DoneLast
<1>20. ASSUME NEW u \in Vids, NEW s \in 1 .. MaxOpens, chan'["fe"][u].session = s
       PROVE  FrontOK(u, s)'
  <2>1. chan'["fe"][u] = chan["fe"][u] /\ FrontOK(u, s)
    BY <1>16, <1>20 DEF MutualInv, Fronts
  <2>2. ASSUME NEW w \in Backs(s), chan'["be"][w].open
        PROVE  chan["be"][w].open \/ Done(s)
    BY <1>6, <1>9, <1>16, <2>2 DEF Backs
  <2>3. QED
    BY <1>13, <1>14, <1>17, <2>1, <2>2, FrontKept, VMFacts
<1>21. ASSUME NEW w \in Vids, NEW s \in 1 .. MaxOpens, chan'["be"][w].session = s
       PROVE  BackOK(w, s)'
  <2>1. chan["be"][w].session = s /\ BackOK(w, s)
    BY <1>16, <1>21 DEF MutualInv, BacksOK
  <2>2. chan'["be"][w].open \/ Done(s)' => chan["be"][w].open \/ Done(s)
    BY <1>6, <1>9, <1>16, <1>17, <2>1
  <2>3. QED
    BY <1>14, <1>16, <1>17, <2>1, <2>2, BackKept, VMFacts
<1>22. QED
  BY <1>18, <1>19, <1>20, <1>21 DEF MutualInv, Fronts, BacksOK
-----------------------------------------------------------------------------
(* Both *)

(***************************************************************************)
(* hab_vchan_close of the front end: the only back end that the session    *)
(* can have is the one that CLOSE names.                                   *)
(***************************************************************************)
LEMMA MutualCloseFront ==
  ASSUME OpenInv, MutualInv, NEW v \in Vids, Close("fe", v), NEW o \in 1 .. MaxOpens,
         o = chan["fe"][v].session, NEW m,
         chan["fe"][v].dead \/ (SendsNew("fe", m) /\ m.type = "CLOSE" /\ m.open = o
                                  /\ m.vid = chan["fe"][v].other),
         wire' = wire \/ (SendsNew("fe", m) /\ m.type = "CLOSE"), QueuesMove("fe")
  PROVE  MutualInv'
<1>1. /\ chan["fe"][v].open /\ SetChan("fe", v, NoChan) /\ UNCHANGED forbidden
      /\ chan["fe"][v].other # 0
  BY DEF Close, Free, SetChan, MutualInv, NoCancel
<1>2. SessionOK(v, o)
  BY DEF OpenInv, Sessions
<1>3. ASSUME NEW w \in Backs(o) PROVE Closing("be", w, o)'
  <2>1. ~chan["fe"][v].dead /\ w = chan["fe"][v].other
    BY <1>1, <1>2 DEF SessionOK
  <2>2. m \in Range(wire'["be"])
    BY <2>1, WiresGrow, VMFacts
  <2>3. QED
    BY <2>1, <2>2 DEF Closing
<1>4. QED
  BY <1>1, <1>3, MutualLeave

(***************************************************************************)
(* hab_vchan_close of the back end: a front end of the session knows the   *)
(* vchan, and CLOSE is for it.                                             *)
(***************************************************************************)
LEMMA MutualCloseBack ==
  ASSUME OpenInv, MutualInv, NEW v \in Vids, Close("be", v), NEW o \in 1 .. MaxOpens,
         o = chan["be"][v].session, NEW m,
         chan["be"][v].dead \/ (SendsNew("be", m) /\ m.type = "CLOSE" /\ m.open = o
                                  /\ m.vid = chan["be"][v].other),
         wire' = wire \/ (SendsNew("be", m) /\ m.type = "CLOSE"), QueuesMove("be")
  PROVE  MutualInv'
<1>1. /\ TypeOK /\ NoCancel /\ chan["be"][v].open /\ SetChan("be", v, NoChan)
      /\ UNCHANGED forbidden
  BY DEF OpenInv, Close, Free, SetChan, MutualInv
<1>2. NoChan \in Chan /\ NoChan.session = 0
  BY OpenAssumption DEF NoChan, Chan
<1>3. \A x \in VMs, y \in Vids :
         chan'[x][y] = IF x = "be" /\ y = v THEN NoChan ELSE chan[x][y]
  BY <1>1, <1>2, SetChanIs, VMFacts
<1>4. /\ \A y \in Vids : chan'["fe"][y] = chan["fe"][y]
      /\ \A y \in Vids : chan'["be"][y] = IF y = v THEN NoChan ELSE chan["be"][y]
  BY <1>3, VMFacts
<1>5. /\ Queued("be")' \subseteq Queued("be")
      /\ \A n \in Queued("fe")' : n \in Queued("fe") \/ n.type = "CLOSE"
  <2>1. Queued("be")' \subseteq Queued("be")
    BY QueuesStep, VMFacts
  <2>2. CASE wire' = wire
    BY <2>1, <2>2, QueuesStep, VMFacts
  <2>3. ASSUME SendsNew("be", m), m.type = "CLOSE"
        PROVE  \A n \in Queued("fe")' : n \in Queued("fe") \/ n = m
    BY <2>3, QueuesStep, VMFacts
  <2>4. QED
    BY <2>1, <2>2, <2>3
<1>6. \A u \in VMs : \A x, s : Closing(u, x, s) => Closing(u, x, s)'
  BY WiresGrow, VMFacts
<1>7. \A s : /\ Done(s)' => Done(s)
             /\ Pending(s)' => Pending(s)
             /\ HasFront(s) => HasFront(s)'
  BY <1>4, <1>5 DEF Done, Pending, HasFront
<1>8. NoCancel'
  <2>1. \A u \in VMs : \A a \in Queued(u)' : a \in Queued(u) \/ a.type = "CLOSE"
    BY <1>5 DEF VMs
  <2>2. QED
    BY <1>1, <1>2, <1>4, <2>1 DEF NoCancel
<1>9. DoneLast'
  BY <1>7 DEF MutualInv, DoneLast
<1>10. ASSUME NEW u \in Vids, NEW s \in 1 .. MaxOpens, chan'["fe"][u].session = s
       PROVE  FrontOK(u, s)'
  <2>1. chan'["fe"][u] = chan["fe"][u] /\ FrontOK(u, s) /\ SessionOK(u, s)
    BY <1>4, <1>10 DEF MutualInv, Fronts, OpenInv, Sessions
  <2>2. CASE s = o
    <3>1. v \in Backs(s)
      BY <2>2 DEF Backs
    <3>2. chan["fe"][u].other # 0 /\ ~chan["be"][v].dead /\ chan["be"][v].other = u
      BY <1>1, <2>1, <3>1 DEF FrontOK, SessionOK
    <3>3. m \in Range(wire'["fe"])
      BY <3>2, WiresGrow, VMFacts
    <3>4. Closing("fe", u, s)'
      BY <2>2, <3>2, <3>3 DEF Closing
    <3>5. QED
      BY <2>1, <3>2, <3>4 DEF FrontOK
  <2>3. CASE s # o
    <3>1. Backs(s)' = Backs(s)
      BY <1>2, <1>4, <2>3 DEF Backs
    <3>2. \A w \in Backs(s) : chan'["be"][w] = chan["be"][w]
      BY <1>4, <2>3 DEF Backs
    <3>3. QED
      BY <1>5, <1>6, <1>7, <2>1, <3>1, <3>2, FrontKept, VMFacts
  <2>4. QED
    BY <2>2, <2>3
<1>11. ASSUME NEW w \in Vids, NEW s \in 1 .. MaxOpens, chan'["be"][w].session = s
       PROVE  BackOK(w, s)'
  <2>1. chan'["be"][w] = chan["be"][w]
    BY <1>2, <1>4, <1>11
  <2>2. BackOK(w, s)
    BY <1>11, <2>1 DEF MutualInv, BacksOK
  <2>3. QED
    BY <1>6, <1>7, <2>1, <2>2, BackKept, VMFacts
<1>12. QED
  BY <1>8, <1>9, <1>10, <1>11 DEF MutualInv, Fronts, BacksOK

(***************************************************************************)
(* hab_vchan_close, when CLOSE is sent.                                    *)
(***************************************************************************)
LEMMA MutualClose ==
  ASSUME "unsent" \notin Faults, OpenInv, MutualInv, NEW vm \in VMs, NEW v \in Vids, Close(vm, v)
  PROVE  MutualInv'
<1>1. /\ TypeOK /\ Fresh /\ opens' = opens /\ opens \in 0 .. MaxOpens /\ chan[vm][v].open
      /\ UNCHANGED openq
  BY DEF OpenInv, TypeOK, Close
<1>2. PICK o \in 1 .. MaxOpens : o = chan[vm][v].session
  <2>1. chan[vm][v].session \in 0 .. MaxOpens
    BY <1>1 DEF TypeOK, Chan
  <2>2. chan[vm][v].session # 0
    BY <1>1 DEF Fresh, NoChan
  <2>3. QED
    BY <2>1, <2>2, OpenAssumption
<1>3. o \in 1 .. opens /\ o \in 0 .. MaxOpens /\ chan[vm][v].other \in 0 .. MaxVid
  BY <1>1, <1>2, OpenAssumption DEF Fresh, TypeOK, Chan
<1>4. PICK m : m = [type |-> "CLOSE", vid |-> chan[vm][v].other, open |-> o, proto |-> 0]
  OBVIOUS
<1>5. m \in Msgs /\ m.type = "CLOSE" /\ m.open = o /\ m.vid = chan[vm][v].other
  BY <1>3, <1>4 DEF Msgs
<1>6. \/ chan[vm][v].dead /\ wire' = wire
      \/ SendsNew(vm, m)
  <2>1. CASE chan[vm][v].dead
    BY <2>1 DEF Close
  <2>2. CASE ~chan[vm][v].dead
    <3>1. Send(vm, m)
      BY <1>2, <1>4, <2>2 DEF Close, SendUnchecked
    <3>2. QED
      BY <1>1, <1>3, <1>5, <3>1 DEF SendsNew
  <2>3. QED
    BY <2>1, <2>2
<1>7. QueuesMove(vm)
  BY <1>1, <1>6 DEF QueuesMove
<1>8. CASE vm = "fe"
  BY <1>2, <1>5, <1>6, <1>7, <1>8, MutualCloseFront
<1>9. CASE vm = "be"
  BY <1>2, <1>5, <1>6, <1>7, <1>9, MutualCloseBack
<1>10. QED
  BY <1>8, <1>9 DEF VMs

(***************************************************************************)
(* hab_msg_recv takes one message off a wire and leaves the others.        *)
(***************************************************************************)
LEMMA ArrivesLeaves ==
  ASSUME OpenInv, NEW vm \in VMs, NEW m, Arrives(vm, m)
  PROVE  \A u \in VMs : \A v, s :
            Closing(u, v, s) => \/ Closing(u, v, s)'
                                \/ u = vm /\ m.type = "CLOSE" /\ m.vid = v /\ m.open = s
<1>1. /\ wire[vm] \in Seq(Msgs) /\ wire[vm] # << >> /\ m = Head(wire[vm])
      /\ wire'[vm] = Tail(wire[vm]) /\ \A u \in VMs : u # vm => wire'[u] = wire[u]
  BY DEF OpenInv, TypeOK, Arrives
<1>2. /\ Without(wire'[vm], wire[vm], 1) /\ m = wire[vm][1]
      /\ Len(wire[vm]) \in Nat /\ DOMAIN wire[vm] = 1 .. Len(wire[vm])
  BY <1>1, TailIs, LenProperties
<1>3. /\ DOMAIN wire'[vm] = 1 .. Len(wire[vm]) - 1
      /\ \A i \in 1 .. Len(wire[vm]) - 1 : wire'[vm][i] = wire[vm][i + 1]
  <2>1. wire'[vm] \in Seq(Msgs) /\ Len(wire'[vm]) = Len(wire[vm]) - 1
    BY <1>2 DEF Without
  <2>2. DOMAIN wire'[vm] = 1 .. Len(wire'[vm])
    BY <2>1, LenProperties
  <2>3. \A i \in 1 .. Len(wire'[vm]) : wire'[vm][i] = wire[vm][i + 1]
    BY <1>2, <2>1 DEF Without
  <2>4. QED
    BY <2>1, <2>2, <2>3
<1>4. ASSUME NEW a \in Range(wire[vm]), a # m
      PROVE  a \in Range(wire'[vm])
  <2>1. PICK i \in 1 .. Len(wire[vm]) : a = wire[vm][i]
    BY <1>2 DEF Range
  <2>2. i # 1
    BY <1>2, <1>4, <2>1
  <2>3. i - 1 \in 1 .. Len(wire[vm]) - 1 /\ (i - 1) + 1 = i
    BY <1>2, <2>2
  <2>4. wire'[vm][i - 1] = a
    BY <1>3, <2>1, <2>3
  <2>5. QED
    BY <1>3, <2>3, <2>4 DEF Range
<1>5. QED
  BY <1>1, <1>4 DEF Closing

(***************************************************************************)
(* hab_msg_recv: a CLOSE finds the vchan it is for.                        *)
(***************************************************************************)
LEMMA MutualReceive ==
  ASSUME OpenInv, MutualInv, NEW vm \in VMs, Receive(vm)
  PROVE  MutualInv'
<1>1. TypeOK /\ NoCancel /\ UNCHANGED <<forbidden, opens>>
  BY DEF OpenInv, MutualInv, Receive
<1>2. PICK m : m = Head(wire[vm])
  OBVIOUS
<1>3. Arrives(vm, m)
  BY <1>2 DEF Receive, Arrives
<1>4. /\ m \in Msgs /\ m \in Queued(vm) /\ openq[vm] \in Seq(Msgs)
      /\ \A u \in VMs : Range(wire'[u]) \subseteq Range(wire[u])
      /\ m.type # "INIT_CANCEL"
  BY <1>1, <1>3, ArrivesIs DEF TypeOK, NoCancel
<1>5. \/ m.type # "CLOSE" /\ RequestAdd(vm, m)
      \/ m.type = "CLOSE" /\ ReceiveClose(vm, m)
      \/ m.type # "CLOSE" /\ UNCHANGED <<chan, openq, ref>>
  BY <1>2, <1>4 DEF Receive
<1>6. \A u \in VMs : \A v, s :
         Closing(u, v, s) => \/ Closing(u, v, s)'
                             \/ u = vm /\ m.type = "CLOSE" /\ m.vid = v /\ m.open = s
  BY <1>3, ArrivesLeaves
<1>7. \A u \in VMs : Queued(u)' \subseteq Queued(u)
  <2>1. CASE openq' = openq
    BY <1>4, <2>1 DEF Queued
  <2>2. CASE openq' = [openq EXCEPT ![vm] = Append(@, m)]
    <3>1. /\ openq'[vm] = Append(openq[vm], m)
          /\ \A u \in VMs : u # vm => openq'[u] = openq[u]
      BY <1>1, <2>2 DEF TypeOK
    <3>2. Range(openq'[vm]) = Range(openq[vm]) \cup {m}
      BY <1>4, <3>1, AppendMore
    <3>3. QED
      BY <1>4, <3>1, <3>2 DEF Queued
  <2>3. QED
    BY <1>5, <2>1, <2>2 DEF RequestAdd, ReceiveClose
<1>8. CASE m.type # "CLOSE"
  <2>1. UNCHANGED chan
    BY <1>5, <1>8 DEF RequestAdd
  <2>2. QED
    BY <1>1, <1>6, <1>7, <1>8, <2>1, QuietStep
<1>9. CASE m.type = "CLOSE" /\ ReceiveClose(vm, m) /\ ~VchanGet(vm, m)
  <2>1. UNCHANGED chan
    BY <1>9 DEF ReceiveClose
  <2>2. ASSUME NEW u \in VMs, NEW v \in Vids, NEW s \in 1 .. MaxOpens, Closing(u, v, s),
               chan[u][v].session = s, chan[u][v].other # 0
        PROVE  Closing(u, v, s)' \/ chan'[u][v].dead
    BY <1>6, <1>9, <2>1, <2>2 DEF VchanGet
  <2>3. QED
    BY <1>1, <1>7, <2>1, <2>2, QuietStep
<1>10. CASE m.type = "CLOSE" /\ ReceiveClose(vm, m) /\ VchanGet(vm, m)
  <2>1. PICK w \in Vids : w = m.vid
    BY <1>10 DEF VchanGet
  <2>2. PICK c : c = [chan[vm][w] EXCEPT !.dead = TRUE]
    OBVIOUS
  <2>3. chan[vm][w] \in Chan
    BY <1>1 DEF TypeOK
  <2>4. /\ c \in Chan /\ c.session = chan[vm][w].session /\ c.other = chan[vm][w].other
        /\ c.open = chan[vm][w].open /\ c.dead
    BY <2>2, <2>3 DEF Chan
  <2>5. SetChan(vm, w, c)
    BY <1>1, <1>10, <2>1, <2>2 DEF ReceiveClose, SetChan, TypeOK
  <2>6. \A x \in VMs, y \in Vids :
           chan'[x][y] = IF x = vm /\ y = w THEN c ELSE chan[x][y]
    BY <1>1, <2>4, <2>5, SetChanIs
  <2>7. \A u \in VMs, v \in Vids :
            /\ chan'[u][v].session = chan[u][v].session
            /\ chan'[u][v].other = chan[u][v].other
            /\ chan'[u][v].open = chan[u][v].open
            /\ chan[u][v].dead => chan'[u][v].dead
    BY <2>4, <2>6
  <2>8. ASSUME NEW u \in VMs, NEW v \in Vids, NEW s \in 1 .. MaxOpens, Closing(u, v, s)
        PROVE  Closing(u, v, s)' \/ chan'[u][v].dead
    BY <1>6, <2>1, <2>4, <2>6, <2>8
  <2>9. QED
    BY <1>1, <1>7, <2>7, <2>8, QuietStep
<1>11. QED
  BY <1>5, <1>8, <1>9, <1>10
-----------------------------------------------------------------------------
(* The theorem *)

(***************************************************************************)
(* Nothing is open at first.                                               *)
(***************************************************************************)
LEMMA MutualAtFirst == Init => MutualInv
<1> SUFFICES ASSUME Init PROVE MutualInv
  OBVIOUS
<1>1. \A vm \in VMs, v \in Vids :
         chan[vm][v].session = 0 /\ chan[vm][v].other = 0 /\ ~chan[vm][v].open
  BY DEF Init, NoChan
<1>2. Range(<< >>) = {}
  BY DEF Range
<1>3. \A vm \in VMs : Queued(vm) = {} /\ ~forbidden[vm]
  BY <1>2 DEF Init, Queued
<1>4. NoCancel
  BY <1>1, <1>3, VMFacts DEF NoCancel
<1>5. DoneLast
  BY <1>3, VMFacts DEF DoneLast, Done
<1>6. Fronts /\ BacksOK
  BY <1>1, VMFacts DEF Fronts, BacksOK
<1>7. QED
  BY <1>4, <1>5, <1>6 DEF MutualInv

(***************************************************************************)
(* Every step that only loses requests keeps the invariant.                *)
(***************************************************************************)
LEMMA MutualNext ==
  Faults \subseteq Losses /\ OpenInv /\ MutualInv /\ [Next]_vars => MutualInv'
<1> SUFFICES ASSUME Faults \subseteq Losses, OpenInv, MutualInv, [Next]_vars
             PROVE  MutualInv'
  OBVIOUS
<1>1. /\ "signal" \notin Faults /\ "timeout" \notin Faults /\ "stop" \notin Faults
      /\ "unsent" \notin Faults
      /\ \A vm \in VMs : ~forbidden[vm]
  BY DEF Losses, MutualInv, NoCancel
<1>2. ASSUME UNCHANGED <<chan, openq, wire, forbidden>> PROVE MutualInv'
  BY <1>2, StillStep, VMFacts
<1>3. CASE UNCHANGED vars
  BY <1>2, <1>3 DEF vars
<1>4. ASSUME NEW t \in FeThreads, Frontend(t)
      PROVE  MutualInv'
  <2>1. CASE FrontendOpenFail(t)
    BY <1>2, <2>1 DEF FrontendOpenFail
  <2>2. ~FrontendGiveUp(t)
    BY <1>1, VMFacts DEF FrontendGiveUp
  <2>3. QED
    BY <1>4, <2>1, <2>2, MutualOpen, MutualAck DEF Frontend
<1>5. ASSUME NEW t \in BeThreads, Backend(t)
      PROVE  MutualInv'
  <2>1. CASE BackendListen(t) \/ BackendListenEnd(t)
    BY <1>2, <2>1 DEF BackendListen, BackendListenEnd
  <2>2. ~BackendRetry(t) /\ ~BackendAbort(t)
    BY <1>1, VMFacts DEF BackendRetry, BackendAbort
  <2>3. QED
    BY <1>5, <2>1, <2>2, MutualInit, MutualDone DEF Backend
<1>6. ASSUME NEW t \in Threads, ExpireRequest(t)
      PROVE  MutualInv'
  <2>1. PICK k \in DOMAIN openq[VM(t)] : openq' = [openq EXCEPT ![VM(t)] = RemoveAt(@, k)]
    BY <1>6 DEF ExpireRequest
  <2>2. UNCHANGED <<chan, wire, forbidden>> /\ VM(t) \in VMs /\ openq[VM(t)] \in Seq(Msgs)
    BY <1>6, VMFacts DEF ExpireRequest, OpenInv, TypeOK
  <2>3. Takes(VM(t), k)
    BY <2>1, <2>2, LenProperties DEF Takes
  <2>4. QED
    BY <2>2, <2>3, StillStep
<1>7. \A vm \in VMs : ~Stop(vm)
  BY <1>1 DEF Stop
<1>8. QED
  BY <1>1, <1>3, <1>4, <1>5, <1>6, <1>7, MutualReceive, MutualClose DEF Next

(***************************************************************************)
(* A vchan that habmm_socket_open has returned has an other end, knows     *)
(* that it closed, or is about to hear of it: for any threads and opens,   *)
(* and also when requests expire, are lost or cannot be sent, as long as   *)
(* no wait of the handshake is given up (frontend_open, backend_listen)    *)
(* and no CLOSE fails to be sent (hab_send_close_msg ignores that).        *)
(***************************************************************************)
THEOREM MutualUnlessCancelled == Faults \subseteq Losses /\ Spec => []OpenIsMutual
<1> SUFFICES ASSUME Faults \subseteq Losses PROVE Spec => []OpenIsMutual
  OBVIOUS
<1>1. OpenInv /\ MutualInv /\ [Next]_vars => MutualInv'
  BY MutualNext
<1>2. OpenInv /\ MutualInv => OpenIsMutual
  <2> SUFFICES ASSUME OpenInv, MutualInv, NEW vm \in VMs, NEW v \in Vids, chan[vm][v].open
               PROVE  HasPeer(vm, v)
    BY DEF OpenIsMutual
  <2>1. PICK s \in 1 .. MaxOpens : s = chan[vm][v].session
    <3>1. chan[vm][v].session \in 0 .. MaxOpens
      BY DEF OpenInv, TypeOK, Chan
    <3>2. chan[vm][v].session # 0
      BY DEF OpenInv, Fresh, NoChan
    <3>3. QED
      BY <3>1, <3>2, OpenAssumption
  <2>2. Closing(vm, v, s) => HasPeer(vm, v)
    BY <2>1 DEF Closing, HasPeer, Range
  <2>3. CASE vm = "fe"
    <3>1. FrontOK(v, s) /\ chan["fe"][v].other # 0
      BY <2>1, <2>3 DEF MutualInv, Fronts, NoCancel
    <3>2. Backs(s) # {} => HasPeer(vm, v)
      BY <2>1, <2>3, VMFacts DEF Backs, HasPeer
    <3>3. QED
      BY <2>2, <2>3, <3>1, <3>2 DEF FrontOK, HasPeer
  <2>4. CASE vm = "be"
    <3>1. BackOK(v, s)
      BY <2>1, <2>4 DEF MutualInv, BacksOK
    <3>2. HasFront(s) => HasPeer(vm, v)
      BY <2>1, <2>4, VMFacts DEF HasFront, HasPeer
    <3>3. QED
      BY <2>2, <2>4, <3>1, <3>2 DEF BackOK, HasPeer
  <2>5. QED
    BY <2>3, <2>4 DEF VMs
<1>3. QED
  BY <1>1, <1>2, MutualAtFirst, OpenInvariant, PTL DEF Spec
=============================================================================
