--------------------------- MODULE HabShareProofs ---------------------------
(***************************************************************************)
(* Memory sharing works as long as an importing process has one thread and *)
(* no import is given up halfway: the exporter records an import for as    *)
(* long as it lasts and releases no buffer that is imported, even when     *)
(* messages fail to be sent; if none does, it is never busy for nobody.    *)
(* For any number of exports and calls, teardown of both sides at any      *)
(* moment included.                                                        *)
(*                                                                         *)
(* Both hypotheses are needed.  A timeout leaves its IMPORT in the channel *)
(* (MCHabMimexRetry.cfg); a second thread can have an import of one id     *)
(* answered while the first one is giving the buffer up.                   *)
(***************************************************************************)
EXTENDS HabMimexProofs

OneThread == \A t, u \in Threads : t = u
NoneGivenUp == Faults \subseteq {"toobig", "aging", "send", "unsent"}

Msgs(q) == {q[k] : k \in 1 .. Len(q)}
ForExporter == Msgs(to_exp) \cup Msgs(exp_rx)
ForImporter == Msgs(to_imp) \cup Msgs(imp_rx)

Unimports == {"UNIMPORT", "UNIMPORT_NV"}
Answers == {"IMPORT_ACK", "IMPORT_ACK_FAIL"}

NoImport(q) == \A m \in Msgs(q) : m.type # "IMPORT"
NoAnswer(q) == \A m \in Msgs(q) : m.type \notin Answers
LastImport(q) == \A k \in 1 .. Len(q) : q[k].type = "IMPORT" => k = Len(q)
OneAnswer(q) == \A j, k \in 1 .. Len(q) :
                  q[j].type \in Answers /\ q[k].type \in Answers => j = k

AllWait == \A t \in Threads : pc[t] = "ack_wait"

(***************************************************************************)
(* The sides take turns: a request, its answer and the ack made of it      *)
(* never exist at the same time, a request is the last message to the      *)
(* exporter, and all the while the thread waits in hab_import_ack_wait.    *)
(***************************************************************************)
Turn ==
  ~imp_otherend_closed =>
    /\ LastImport(to_exp) /\ OneAnswer(to_imp)
    /\ ~NoImport(to_exp) =>
         /\ imp_rxq = << >> /\ AllWait
         /\ NoImport(exp_rx) /\ NoAnswer(to_imp) /\ NoAnswer(imp_rx)
    /\ ~NoImport(exp_rx) =>
         /\ imp_rxq = << >> /\ AllWait
         /\ to_exp = << >> /\ NoAnswer(to_imp) /\ NoAnswer(imp_rx)
    /\ ~NoAnswer(to_imp) => imp_rxq = << >> /\ AllWait /\ NoAnswer(imp_rx)
    /\ ~NoAnswer(imp_rx) => imp_rxq = << >> /\ AllWait
    /\ Len(imp_rxq) <= 1
    /\ imp_rxq # << >> => AllWait

(***************************************************************************)
(* The exporter records the import of id and is not about to be told       *)
(* otherwise.                                                              *)
(***************************************************************************)
Recorded(id) ==
  /\ remote_imported[id]
  /\ \A m \in ForExporter : m.type \in Unimports => m.id # id

(***************************************************************************)
(* The importer has a descriptor for id and has not yet sent its UNIMPORT. *)
(***************************************************************************)
Kept(id) ==
  /\ imp_whse[id] # "none"
  /\ \A t \in Threads :
       pc[t] \in {"rollback_remove", "unimp_remove"} => req[t].id # id

KeptRecorded == \A id \in Ids : Kept(id) => Recorded(id)

AckRecorded ==
  ~imp_otherend_closed =>
    \A m \in ForImporter : m.type = "IMPORT_ACK" => Recorded(m.id)

ExportsRecorded ==
  /\ \A id \in Ids : remote_imported[id] => id \in idr
  /\ \A id \in free_list : ~remote_imported[id]

(***************************************************************************)
(* A side is closed for a reason.                                          *)
(***************************************************************************)
ClosedKnown ==
  /\ imp_closed => imp_otherend_closed
  /\ imp_otherend_closed => imp_closed \/ exp_closed
  /\ exp_otherend_closed => imp_closed \/ exp_closed
  /\ \A m \in ForImporter : m.type = "CLOSE" => exp_closed
  /\ \A m \in ForExporter : m.type = "CLOSE" => imp_closed

(***************************************************************************)
(* What is recorded is kept, or about to be, or about to be given up,      *)
(* unless a message was lost.                                              *)
(***************************************************************************)
RecordedForSomebody ==
  "unsent" \notin Faults /\ ~imp_closed /\ ~exp_closed =>
    \A id \in Ids : remote_imported[id] =>
      \/ Kept(id)
      \/ \E m \in ForImporter : m.type = "IMPORT_ACK" /\ m.id = id
      \/ \E m \in ForExporter : m.type = "UNIMPORT" /\ m.id = id

ShareInv ==
  /\ Turn
  /\ KeptRecorded
  /\ AckRecorded
  /\ ExportsRecorded
  /\ ClosedKnown
  /\ RecordedForSomebody

(***************************************************************************)
(* hab_msg_recv handles one message at a time.                             *)
(***************************************************************************)
InHand ==
  /\ exp_rx # << >> => Tail(exp_rx) = << >>
  /\ imp_rx # << >> => Tail(imp_rx) = << >>

\* What the steps below may rely on.
Known == TypeOK /\ OneTokenPerNode /\ ExportOwnership /\ InHand /\ ShareInv
-----------------------------------------------------------------------------
(* Queues *)

(***************************************************************************)
(* The messages of a queue after each operation on it: none at first.      *)
(***************************************************************************)
LEMMA MsgsEmpty == Msgs(<< >>) = {}
BY DEF Msgs

(***************************************************************************)
(* A queue of one message.                                                 *)
(***************************************************************************)
LEMMA MsgsOne == \A m : Msgs(<<m>>) = {m}
BY DEF Msgs

(***************************************************************************)
(* Sending adds a message.                                                 *)
(***************************************************************************)
LEMMA MsgsAppend ==
  ASSUME NEW S, NEW q \in Seq(S), NEW m \in S
  PROVE  Msgs(Append(q, m)) = Msgs(q) \cup {m}
<1>1. /\ Len(Append(q, m)) = Len(q) + 1 /\ Len(q) \in Nat
      /\ \A k \in 1 .. Len(q) : Append(q, m)[k] = q[k]
      /\ Append(q, m)[Len(q) + 1] = m
  BY AppendProperties, LenProperties
<1>2. ASSUME NEW x \in Msgs(Append(q, m)) PROVE x \in Msgs(q) \cup {m}
  <2>1. PICK k \in 1 .. Len(q) + 1 : x = Append(q, m)[k]
    BY <1>1 DEF Msgs
  <2>2. k \in 1 .. Len(q) \/ k = Len(q) + 1
    BY <1>1
  <2> QED
    BY <1>1, <2>1, <2>2 DEF Msgs
<1>3. ASSUME NEW x \in Msgs(q) PROVE x \in Msgs(Append(q, m))
  <2>1. PICK k \in 1 .. Len(q) : x = q[k]
    BY DEF Msgs
  <2>2. k \in 1 .. Len(Append(q, m)) /\ x = Append(q, m)[k]
    BY <1>1, <2>1
  <2> QED
    BY <2>2 DEF Msgs
<1>4. m \in Msgs(Append(q, m))
  <2>1. Len(q) + 1 \in 1 .. Len(Append(q, m))
    BY <1>1
  <2> QED
    BY <1>1, <2>1 DEF Msgs
<1> QED
  BY <1>2, <1>3, <1>4

(***************************************************************************)
(* Receiving takes the first one.                                          *)
(***************************************************************************)
LEMMA MsgsTail ==
  ASSUME NEW S, NEW q \in Seq(S), q # << >>
  PROVE  Msgs(q) = {Head(q)} \cup Msgs(Tail(q))
<1>1. /\ Len(q) \in Nat \ {0} /\ Len(Tail(q)) = Len(q) - 1
      /\ Head(q) = q[1]
      /\ \A k \in 1 .. Len(q) - 1 : Tail(q)[k] = q[k + 1]
  BY HeadTailProperties, LenProperties, EmptySeq
<1>2. ASSUME NEW x \in Msgs(q) PROVE x \in {Head(q)} \cup Msgs(Tail(q))
  <2>1. PICK k \in 1 .. Len(q) : x = q[k]
    BY DEF Msgs
  <2>2. CASE k = 1
    BY <1>1, <2>1, <2>2
  <2>3. CASE k # 1
    <3>1. k - 1 \in 1 .. Len(Tail(q)) /\ k - 1 \in 1 .. Len(q) - 1 /\ (k - 1) + 1 = k
      BY <1>1, <2>3
    <3>2. x = Tail(q)[k - 1]
      BY <1>1, <2>1, <3>1
    <3> QED
      BY <3>1, <3>2 DEF Msgs
  <2> QED
    BY <2>2, <2>3
<1>3. ASSUME NEW x \in Msgs(Tail(q)) PROVE x \in Msgs(q)
  <2>1. PICK k \in 1 .. Len(q) - 1 : x = Tail(q)[k]
    BY <1>1 DEF Msgs
  <2>2. k + 1 \in 1 .. Len(q) /\ x = q[k + 1]
    BY <1>1, <2>1
  <2> QED
    BY <2>2 DEF Msgs
<1>4. Head(q) \in Msgs(q)
  <2>1. 1 \in 1 .. Len(q)
    BY <1>1
  <2> QED
    BY <1>1, <2>1 DEF Msgs
<1> QED
  BY <1>2, <1>3, <1>4

(***************************************************************************)
(* The messages of a queue are of its type.                                *)
(***************************************************************************)
LEMMA MsgsType ==
  ASSUME NEW S, NEW q \in Seq(S)
  PROVE  Msgs(q) \subseteq S
BY ElementOfSeq DEF Msgs

(***************************************************************************)
(* A request or an answer put into a queue that has none is the only one.  *)
(***************************************************************************)
LEMMA OnlyOneAppended ==
  ASSUME NEW S, NEW q \in Seq(S), NEW m \in S
  PROVE  /\ NoImport(q) => LastImport(Append(q, m))
         /\ NoAnswer(q) => OneAnswer(Append(q, m))
         /\ OneAnswer(q) /\ m.type \notin Answers => OneAnswer(Append(q, m))
<1>1. /\ Len(Append(q, m)) = Len(q) + 1 /\ Len(q) \in Nat
      /\ \A k \in 1 .. Len(q) : Append(q, m)[k] = q[k]
      /\ Append(q, m)[Len(q) + 1] = m
  BY AppendProperties, LenProperties
<1>2. \A k \in 1 .. Len(q) + 1 : k \in 1 .. Len(q) \/ k = Len(q) + 1
  BY <1>1
<1>3. \A k \in 1 .. Len(q) : q[k] \in Msgs(q)
  BY DEF Msgs
<1>4. NoImport(q) => LastImport(Append(q, m))
  BY <1>1, <1>2, <1>3 DEF NoImport, LastImport
<1>5. NoAnswer(q) => OneAnswer(Append(q, m))
  BY <1>1, <1>2, <1>3 DEF NoAnswer, OneAnswer
<1>6. OneAnswer(q) /\ m.type \notin Answers => OneAnswer(Append(q, m))
  BY <1>1, <1>2 DEF OneAnswer
<1> QED
  BY <1>4, <1>5, <1>6

(***************************************************************************)
(* Taking the only request or answer leaves none.                          *)
(***************************************************************************)
LEMMA OnlyOneTaken ==
  ASSUME NEW S, NEW q \in Seq(S), q # << >>
  PROVE  /\ LastImport(q) => LastImport(Tail(q))
         /\ LastImport(q) /\ Head(q).type = "IMPORT" => Tail(q) = << >>
         /\ OneAnswer(q) => OneAnswer(Tail(q))
         /\ OneAnswer(q) /\ Head(q).type \in Answers => NoAnswer(Tail(q))
<1>1. /\ Len(q) \in Nat \ {0} /\ Len(Tail(q)) = Len(q) - 1
      /\ Head(q) = q[1] /\ Tail(q) \in Seq(S)
      /\ \A k \in 1 .. Len(q) - 1 : Tail(q)[k] = q[k + 1]
  BY HeadTailProperties, LenProperties, EmptySeq
<1>2. \A k \in 1 .. Len(q) - 1 : k + 1 \in 1 .. Len(q) /\ k + 1 # 1
  BY <1>1
<1>3. LastImport(q) => LastImport(Tail(q))
  <2> SUFFICES ASSUME LastImport(q), NEW k \in 1 .. Len(q) - 1,
                      Tail(q)[k].type = "IMPORT"
               PROVE  k = Len(q) - 1
    BY <1>1 DEF LastImport
  <2>1. q[k + 1].type = "IMPORT" /\ k + 1 \in 1 .. Len(q)
    BY <1>1, <1>2
  <2>2. k + 1 = Len(q)
    BY <2>1 DEF LastImport
  <2>3. \A n \in Nat : k + 1 = n => k = n - 1
    BY <1>1
  <2> QED
    BY <1>1, <2>2, <2>3
<1>4. LastImport(q) /\ Head(q).type = "IMPORT" => Tail(q) = << >>
  <2> SUFFICES ASSUME LastImport(q), Head(q).type = "IMPORT"
               PROVE  Tail(q) = << >>
    OBVIOUS
  <2>1. 1 \in 1 .. Len(q)
    BY <1>1
  <2>2. Len(q) = 1
    BY <1>1, <2>1 DEF LastImport
  <2>3. Len(Tail(q)) = 0
    BY <1>1, <2>2
  <2> QED
    BY <1>1, <2>3, EmptySeq
<1>5. OneAnswer(q) => OneAnswer(Tail(q))
  <2> SUFFICES ASSUME OneAnswer(q), NEW j \in 1 .. Len(q) - 1, NEW k \in 1 .. Len(q) - 1,
                      Tail(q)[j].type \in Answers, Tail(q)[k].type \in Answers
               PROVE  j = k
    BY <1>1 DEF OneAnswer
  <2>1. /\ q[j + 1].type \in Answers /\ q[k + 1].type \in Answers
        /\ j + 1 \in 1 .. Len(q) /\ k + 1 \in 1 .. Len(q)
    BY <1>1, <1>2
  <2>2. j + 1 = k + 1
    BY <2>1 DEF OneAnswer
  <2> QED
    BY <2>2
<1>6. OneAnswer(q) /\ Head(q).type \in Answers => NoAnswer(Tail(q))
  <2> SUFFICES ASSUME OneAnswer(q), Head(q).type \in Answers,
                      NEW k \in 1 .. Len(q) - 1, Tail(q)[k].type \in Answers
               PROVE  FALSE
    BY <1>1 DEF NoAnswer, Msgs
  <2>1. 1 \in 1 .. Len(q) /\ k + 1 \in 1 .. Len(q) /\ q[k + 1].type \in Answers
    BY <1>1, <1>2
  <2>2. 1 = k + 1
    BY <1>1, <2>1 DEF OneAnswer
  <2> QED
    BY <2>2
<1> QED
  BY <1>3, <1>4, <1>5, <1>6
-----------------------------------------------------------------------------
(* The exporter *)

(***************************************************************************)
(* All but the record of exports is about what the two sides exchange.     *)
(***************************************************************************)
LEMMA ShareFrame ==
  ASSUME Turn, KeptRecorded, AckRecorded, ClosedKnown, RecordedForSomebody,
         UNCHANGED <<remote_imported, exp_closed, exp_otherend_closed, exp_rx,
                     imp_whse, imp_rxq, imp_closed, imp_otherend_closed, imp_rx,
                     pc, req, to_exp, to_imp>>
  PROVE  /\ Turn' /\ KeptRecorded' /\ AckRecorded' /\ ClosedKnown'
         /\ RecordedForSomebody'
<1>1. Turn'
  BY DEF Turn, AllWait
<1>2. KeptRecorded' /\ AckRecorded' /\ ClosedKnown' /\ RecordedForSomebody'
  BY DEF KeptRecorded, AckRecorded, ClosedKnown, RecordedForSomebody, Kept,
         Recorded, ForExporter, ForImporter
<1> QED
  BY <1>1, <1>2

(***************************************************************************)
(* An export leaves expid_idr only when it is not imported.                *)
(***************************************************************************)
LEMMA ExporterShare ==
  ASSUME Known, NoneGivenUp, Exporter \/ ReclaimWorker, ~ExpClose
  PROVE  ShareInv'
<1> USE DEF expDesc, reclaim, expChan, expSide, impWhse, impChan, impThread,
        impSide, chans
<1>1. UNCHANGED <<remote_imported, expChan, impSide, chans>>
  BY DEF Exporter, ReclaimWorker, ExportGrant, ExportPublish, ExportTooLarge,
         ExportGrantFail, Unexport, UnexportRelease, ExpCtxFreeExport,
         ExpCtxFreeEnlist, ReclaimScan, ReclaimFree
<1>2. ~(\E id \in Ids : ExportGrantFail(id))
  BY DEF NoneGivenUp, ExportGrantFail
<1>3. /\ \A id \in Ids : remote_imported[id] => id \in idr
      /\ \A id \in free_list : ~remote_imported[id]
  BY DEF Known, ShareInv, ExportsRecorded
<1>4. ExportsRecorded'
  <2>1. CASE ExportGrant \/ ReclaimScan
    BY <1>1, <1>3, <2>1 DEF ExportGrant, ReclaimScan, ExportsRecorded
  <2>2. ASSUME NEW id \in Ids, ExportPublish(id) \/ ExportTooLarge(id)
                 \/ UnexportRelease(id) \/ ExpCtxFreeEnlist(id)
        PROVE  ExportsRecorded'
    BY <1>1, <1>3, <2>2 DEF ExportPublish, ExportTooLarge, UnexportRelease,
       ExpCtxFreeEnlist, ExportsRecorded
  <2>3. ASSUME NEW id \in Ids, Unexport(id) \/ ExpCtxFreeExport(id)
        PROVE  ExportsRecorded'
    BY <1>1, <1>3, <2>3 DEF Unexport, ExpCtxFreeExport, ExportsRecorded
  <2>4. ASSUME NEW id \in Ids, ReclaimFree(id) PROVE ExportsRecorded'
    BY <1>1, <1>3, <2>4 DEF ReclaimFree, ExportsRecorded
  <2> QED
    BY <1>2, <2>1, <2>2, <2>3, <2>4 DEF Exporter, ReclaimWorker
<1>5. /\ Turn' /\ KeptRecorded' /\ AckRecorded' /\ ClosedKnown'
      /\ RecordedForSomebody'
  BY <1>1, ShareFrame DEF Known, ShareInv
<1> QED
  BY <1>4, <1>5 DEF ShareInv

(***************************************************************************)
(* The exporter closes its vchan.                                          *)
(***************************************************************************)
LEMMA ExpCloseShare ==
  ASSUME Known, ExpClose
  PROVE  ShareInv'
<1> USE DEF expDesc, reclaim, expChan, expSide, impWhse, impChan, impThread,
        impSide, chans
<1>1. /\ UNCHANGED <<remote_imported, idr, free_list, exp_rx, imp_whse, imp_rxq,
                     imp_closed, imp_otherend_closed, imp_rx, pc, req, to_exp>>
      /\ exp_closed' /\ exp_otherend_closed'
      /\ to_imp' = to_imp \/ to_imp' = Append(to_imp, CloseMsg)
  BY DEF ExpClose, TellImporter
<1>2. CloseMsg \in ToImporter /\ CloseMsg.type = "CLOSE" /\ to_imp \in Seq(ToImporter)
  BY DEF ToImporter, CloseMsg, Msg, Known, TypeOK
<1>3. Msgs(to_imp') = Msgs(to_imp) \/ Msgs(to_imp') = Msgs(to_imp) \cup {CloseMsg}
  <2>1. Msgs(Append(to_imp, CloseMsg)) = Msgs(to_imp) \cup {CloseMsg}
    BY <1>2, MsgsAppend
  <2> QED
    BY <1>1, <2>1
<1>4. /\ NoAnswer(to_imp) => NoAnswer(to_imp')
      /\ NoAnswer(to_imp') => NoAnswer(to_imp)
  BY <1>2, <1>3 DEF NoAnswer, Answers
<1>5. OneAnswer(to_imp) => OneAnswer(to_imp')
  BY <1>1, <1>2, OnlyOneAppended DEF Answers
<1>6. Turn'
  BY <1>1, <1>4, <1>5 DEF Turn, AllWait, Known, ShareInv
<1>7. KeptRecorded'
  BY <1>1 DEF KeptRecorded, Kept, Recorded, ForExporter, Known, ShareInv
<1>8. AckRecorded'
  BY <1>1, <1>2, <1>3 DEF AckRecorded, Recorded, ForExporter, ForImporter, Known, ShareInv
<1>9. ExportsRecorded' /\ ClosedKnown' /\ RecordedForSomebody'
  BY <1>1 DEF ExportsRecorded, ClosedKnown, RecordedForSomebody, ForExporter, Known, ShareInv
<1> QED
  BY <1>6, <1>7, <1>8, <1>9 DEF ShareInv
-----------------------------------------------------------------------------
(* The exporter's receive path *)

\* What ExpRecv leaves alone.
ExpRecvRest == UNCHANGED <<idr, free_list, exp_closed, imp_whse, imp_rxq, imp_closed,
                           imp_otherend_closed, imp_rx, pc, req>>

(***************************************************************************)
(* Messages for the exporter that disappear, or move on, break no turn.    *)
(***************************************************************************)
LEMMA TurnTaken ==
  ASSUME TypeOK, Turn, ExpRecvRest, UNCHANGED to_imp,
         \/ to_exp' = to_exp /\ exp_rx' = << >>
         \/ /\ to_exp # << >> /\ to_exp' = Tail(to_exp)
            /\ exp_rx' = exp_rx
         \/ /\ to_exp # << >> /\ to_exp' = Tail(to_exp)
            /\ exp_rx = << >> /\ exp_rx' = <<Head(to_exp)>>
  PROVE  Turn'
<1>1. to_exp \in Seq(ToExporter)
  BY DEF TypeOK
<1>2. NoImport(<< >>)
  BY MsgsEmpty DEF NoImport
<1>3. CASE to_exp' = to_exp /\ exp_rx' = << >>
  BY <1>2, <1>3 DEF Turn, AllWait, ExpRecvRest
<1>4. CASE to_exp # << >> /\ to_exp' = Tail(to_exp)
  <2>1. Msgs(to_exp) = {Head(to_exp)} \cup Msgs(to_exp')
    BY <1>1, <1>4, MsgsTail
  <2>2. /\ NoImport(to_exp) => NoImport(to_exp')
        /\ Head(to_exp).type = "IMPORT" => ~NoImport(to_exp)
    BY <2>1 DEF NoImport
  <2>3. /\ LastImport(to_exp) => LastImport(to_exp')
        /\ LastImport(to_exp) /\ Head(to_exp).type = "IMPORT" => to_exp' = << >>
    BY <1>1, <1>4, OnlyOneTaken
  <2>4. CASE exp_rx' = exp_rx
    <3>1. to_exp # << >> => (~imp_otherend_closed => NoImport(exp_rx))
      BY DEF Turn
    <3> QED
      BY <1>4, <2>2, <2>3, <2>4, <3>1 DEF Turn, AllWait, ExpRecvRest
  <2>5. CASE exp_rx = << >> /\ exp_rx' = <<Head(to_exp)>>
    <3>1. Msgs(exp_rx') = {Head(to_exp)}
      BY <2>5, MsgsOne
    <3>2. ~NoImport(exp_rx') => Head(to_exp).type = "IMPORT"
      BY <3>1 DEF NoImport
    <3>3. CASE Head(to_exp).type = "IMPORT"
      BY <1>2, <1>4, <2>2, <2>3, <3>3 DEF Turn, AllWait, ExpRecvRest
    <3>4. CASE Head(to_exp).type # "IMPORT"
      BY <1>4, <2>2, <2>3, <3>2, <3>4 DEF Turn, AllWait, ExpRecvRest
    <3> QED
      BY <3>3, <3>4
  <2> QED
    BY <1>4, <2>4, <2>5, <1>2, <1>3
<1> QED
  BY <1>3, <1>4

(***************************************************************************)
(* hab_recv_unimport_msg: the only way an import is taken off the record.  *)
(***************************************************************************)
LEMMA UnimportTaken ==
  ASSUME Known, ExpRecvRest, UNCHANGED <<to_imp, exp_otherend_closed>>,
         NEW m \in ForExporter, m.type \in Unimports, NEW exists,
         RecvUnimport(m.id, exists),
         ForExporter' \subseteq ForExporter,
         ForExporter \subseteq ForExporter' \cup {m}
  PROVE  /\ KeptRecorded' /\ AckRecorded' /\ ExportsRecorded'
         /\ ClosedKnown' /\ RecordedForSomebody'
<1>1. /\ remote_imported \in [Ids -> BOOLEAN] /\ remote_imported' \in [Ids -> BOOLEAN]
      /\ \A id \in Ids : id # m.id => remote_imported'[id] = remote_imported[id]
      /\ m.id \in Ids => ~remote_imported'[m.id]
  BY DEF RecvUnimport, Known, TypeOK, ShareInv, ExportsRecorded
<1>2. \A id : Kept(id)' <=> Kept(id)
  BY DEF Kept, ExpRecvRest
<1>3. ForImporter' = ForImporter
  BY DEF ForImporter, ExpRecvRest
<1>4. \A id \in Ids : Recorded(id) => Recorded(id)'
  BY <1>1 DEF Recorded
<1>5. \A x \in ForImporter : x.type = "IMPORT_ACK" => x.id \in Ids
  BY MsgId, MsgsType DEF ForImporter, Known, TypeOK
<1>6. KeptRecorded' /\ AckRecorded'
  BY <1>2, <1>3, <1>4, <1>5 DEF KeptRecorded, AckRecorded, Known, ShareInv, ExpRecvRest
<1>7. ExportsRecorded'
  <2>1. free_list \subseteq Ids
    BY DEF Known, TypeOK
  <2> QED
    BY <1>1, <2>1 DEF ExportsRecorded, Known, ShareInv, ExpRecvRest
<1>8. ClosedKnown'
  BY <1>3 DEF ClosedKnown, Known, ShareInv, ExpRecvRest
<1>9. RecordedForSomebody'
  <2> SUFFICES ASSUME "unsent" \notin Faults, ~imp_closed', ~exp_closed',
                      NEW id \in Ids, remote_imported'[id]
               PROVE  \/ Kept(id)'
                      \/ \E x \in ForImporter' : x.type = "IMPORT_ACK" /\ x.id = id
                      \/ \E x \in ForExporter' : x.type = "UNIMPORT" /\ x.id = id
    BY DEF RecordedForSomebody
  <2>1. id # m.id /\ remote_imported[id] /\ ~imp_closed /\ ~exp_closed
    BY <1>1 DEF ExpRecvRest
  <2>2. \/ Kept(id)
        \/ \E x \in ForImporter : x.type = "IMPORT_ACK" /\ x.id = id
        \/ \E x \in ForExporter : x.type = "UNIMPORT" /\ x.id = id
    BY <2>1 DEF RecordedForSomebody, Known, ShareInv
  <2> QED
    BY <1>2, <1>3, <2>1, <2>2
<1> QED
  BY <1>6, <1>7, <1>8, <1>9

(***************************************************************************)
(* A request or a close that is dropped or moves on changes no record.     *)
(***************************************************************************)
LEMMA OtherTaken ==
  ASSUME Known, ExpRecvRest, UNCHANGED <<to_imp, remote_imported>>,
         ForExporter' \subseteq ForExporter,
         imp_closed \/ exp_closed \/
           \A m \in ForExporter : m.type = "UNIMPORT" => m \in ForExporter',
         exp_otherend_closed' => imp_closed \/ exp_closed
  PROVE  /\ KeptRecorded' /\ AckRecorded' /\ ExportsRecorded'
         /\ ClosedKnown' /\ RecordedForSomebody'
<1>1. \A id : Kept(id)' <=> Kept(id)
  BY DEF Kept, ExpRecvRest
<1>2. ForImporter' = ForImporter
  BY DEF ForImporter, ExpRecvRest
<1>3. \A id : Recorded(id) => Recorded(id)'
  BY DEF Recorded
<1>4. KeptRecorded' /\ AckRecorded'
  BY <1>1, <1>2, <1>3 DEF KeptRecorded, AckRecorded, Known, ShareInv, ExpRecvRest
<1>5. ExportsRecorded' /\ ClosedKnown'
  BY <1>2 DEF ExportsRecorded, ClosedKnown, Known, ShareInv, ExpRecvRest
<1>6. RecordedForSomebody'
  BY <1>1, <1>2 DEF RecordedForSomebody, Known, ShareInv, ExpRecvRest
<1> QED
  BY <1>4, <1>5, <1>6

(***************************************************************************)
(* hab_msg_recv looks the vchan up.                                        *)
(***************************************************************************)
LEMMA ExpRecvGetShare ==
  ASSUME Known, ExpRecvGet
  PROVE  ShareInv'
<1> USE DEF expDesc, reclaim, expChan, expSide, impWhse, impChan, impThread,
        impSide, chans
<1> DEFINE m == Head(to_exp)
<1>1. /\ to_exp # << >> /\ exp_rx = << >> /\ to_exp' = Tail(to_exp)
      /\ ExpRecvRest /\ UNCHANGED <<to_imp, exp_otherend_closed>>
  BY DEF ExpRecvGet, ExpRecvRest, RecvUnimport
<1>2. to_exp \in Seq(ToExporter) /\ Turn
  BY DEF Known, TypeOK, ShareInv
<1>3. Msgs(to_exp) = {m} \cup Msgs(to_exp') /\ Msgs(exp_rx) = {}
  BY <1>1, <1>2, MsgsTail, MsgsEmpty
<1>4. m \in ForExporter
  BY <1>3 DEF ForExporter
<1>5. exp_otherend_closed' => imp_closed \/ exp_closed
  BY <1>1 DEF Known, ShareInv, ClosedKnown
<1> HIDE DEF m
<1>6. \/ m.type # "UNIMPORT_NV" /\ exp_rx' = <<m>> /\ UNCHANGED <<expDesc, reclaim>>
      \/ /\ exp_rx' = exp_rx
         /\ \/ m.type \in Unimports /\ \E exists \in BOOLEAN : RecvUnimport(m.id, exists)
            \/ m.type \in {"IMPORT", "CLOSE"} /\ UNCHANGED <<expDesc, reclaim>>
  BY MimexAssumption DEF ExpRecvGet, m, Unimports
<1>7. CASE exp_rx' = <<m>> /\ UNCHANGED <<expDesc, reclaim>>
  <2>1. Turn'
    BY <1>1, <1>2, <1>7, TurnTaken DEF Known, m
  <2>2. Msgs(exp_rx') = {m}
    BY <1>7, MsgsOne
  <2>3. ForExporter' = ForExporter
    BY <1>3, <2>2 DEF ForExporter
  <2> QED
    BY <1>1, <1>5, <1>7, <2>1, <2>3, OtherTaken DEF ShareInv
<1>8. CASE exp_rx' = exp_rx /\ m.type \in {"IMPORT", "CLOSE"} /\ UNCHANGED <<expDesc, reclaim>>
  <2>1. Turn'
    BY <1>1, <1>2, <1>8, TurnTaken DEF Known
  <2>2. /\ ForExporter' \subseteq ForExporter
        /\ \A x \in ForExporter : x.type = "UNIMPORT" => x \in ForExporter'
    BY <1>3, <1>8 DEF ForExporter
  <2> QED
    BY <1>1, <1>5, <1>8, <2>1, <2>2, OtherTaken DEF ShareInv
<1>9. ASSUME exp_rx' = exp_rx, m.type \in Unimports, NEW exists \in BOOLEAN,
             RecvUnimport(m.id, exists)
      PROVE  ShareInv'
  <2>1. Turn'
    BY <1>1, <1>2, <1>9, TurnTaken DEF Known
  <2>2. /\ ForExporter' \subseteq ForExporter
        /\ ForExporter \subseteq ForExporter' \cup {m}
    BY <1>3, <1>9 DEF ForExporter
  <2> QED
    BY <1>1, <1>4, <1>9, <2>1, <2>2, UnimportTaken DEF ShareInv
<1> QED
  BY <1>6, <1>7, <1>8, <1>9

(***************************************************************************)
(* hab_msg_recv with a vchan: a drop, an UNIMPORT, a CLOSE.                *)
(***************************************************************************)
LEMMA ExpRecvRestShare ==
  ASSUME Known, ExpRecvDrop \/ ExpRecvUnimport \/ ExpRecvClose
  PROVE  ShareInv'
<1> USE DEF expDesc, reclaim, expChan, expSide, impWhse, impChan, impThread,
        impSide, chans
<1> DEFINE m == Head(exp_rx)
<1>1. /\ exp_rx # << >> /\ exp_rx' = << >>
      /\ ExpRecvRest /\ UNCHANGED <<to_exp, to_imp>>
  BY DEF ExpRecvDrop, ExpRecvUnimport, ExpRecvClose, ExpRecvRest, RecvUnimport
<1>2. Turn'
  BY <1>1, TurnTaken DEF Known, ShareInv
<1>3. /\ exp_rx \in Seq(ToExporter) /\ Msgs(exp_rx') = {}
      /\ Msgs(exp_rx) = {m} \cup Msgs(Tail(exp_rx))
  BY <1>1, MsgsTail, MsgsEmpty DEF Known, TypeOK
<1>4. m \in ForExporter /\ ForExporter' \subseteq ForExporter
  BY <1>1, <1>3 DEF ForExporter
<1> HIDE DEF m
<1>5. CASE ExpRecvDrop
  <2>1. imp_closed \/ exp_closed
    BY <1>5 DEF ExpRecvDrop, Known, ShareInv, ClosedKnown
  <2>2. UNCHANGED remote_imported
    BY <1>5 DEF ExpRecvDrop
  <2> QED
    BY <1>1, <1>2, <1>4, <2>1, <2>2, OtherTaken DEF ShareInv
<1>6. CASE ExpRecvClose
  <2>1. imp_closed
    BY <1>4, <1>6 DEF ExpRecvClose, m, Known, ShareInv, ClosedKnown
  <2>2. UNCHANGED remote_imported
    BY <1>6 DEF ExpRecvClose
  <2> QED
    BY <1>1, <1>2, <1>4, <2>1, <2>2, OtherTaken DEF ShareInv
<1>7. CASE ExpRecvUnimport
  <2>1. m.type \in Unimports /\ RecvUnimport(m.id, TRUE) /\ UNCHANGED exp_otherend_closed
    BY <1>7 DEF ExpRecvUnimport, m, Unimports
  <2>2. ForExporter \subseteq ForExporter' \cup {m}
    <3>1. Msgs(Tail(exp_rx)) = {}
      BY <1>1, MsgsEmpty DEF Known, InHand
    <3> QED
      BY <1>1, <1>3, <3>1 DEF ForExporter
  <2> QED
    BY <1>1, <1>2, <1>4, <2>1, <2>2, UnimportTaken DEF ShareInv
<1> QED
  BY <1>5, <1>6, <1>7

(***************************************************************************)
(* hab_send_import_ack and its refusal: the import is on record before the *)
(* ack is sent, if it is, and nothing behind the request can take it off.  *)
(***************************************************************************)
LEMMA ExpRecvImportShare ==
  ASSUME Known, ExpRecvImport
  PROVE  ShareInv'
<1> USE DEF expDesc, reclaim, expChan, expSide, impWhse, impChan, impThread,
        impSide, chans
<1> DEFINE m == Head(exp_rx)
<1>1. /\ exp_rx # << >> /\ exp_rx' = << >> /\ m.type = "IMPORT"
      /\ ExpRecvRest /\ UNCHANGED <<to_exp, exp_otherend_closed>>
      /\ ~exp_otherend_closed
  BY DEF ExpRecvImport, ExpRecvRest
<1>2. /\ exp_rx \in Seq(ToExporter) /\ Msgs(exp_rx') = {}
      /\ Msgs(exp_rx) = {m} \cup Msgs(Tail(exp_rx)) /\ Msgs(Tail(exp_rx)) = {}
  BY <1>1, MsgsTail, MsgsEmpty DEF Known, TypeOK, InHand
<1>3. m \in ToExporter /\ m.id \in Ids
  BY <1>1, <1>2, MsgId, ChannelHead
<1>4. /\ remote_imported \in [Ids -> BOOLEAN] /\ to_imp \in Seq(ToImporter)
      /\ to_exp \in Seq(ToExporter)
  BY DEF Known, TypeOK
<1>5. PICK a : /\ a = Msg("IMPORT_ACK", m.id) \/ a = Msg("IMPORT_ACK_FAIL", m.id)
               /\ \/ to_imp' = Append(to_imp, a)
                  \/ "unsent" \in Faults /\ to_imp' = to_imp
               /\ a = Msg("IMPORT_ACK", m.id) =>
                    m.id \in idr /\ remote_imported' = [remote_imported EXCEPT ![m.id] = TRUE]
               /\ a # Msg("IMPORT_ACK", m.id) => UNCHANGED remote_imported
  <2>1. Msg("IMPORT_ACK", m.id).type # Msg("IMPORT_ACK_FAIL", m.id).type
    BY DEF Msg
  <2> QED
    BY <1>1, <2>1 DEF ExpRecvImport, TellImporter
<1>6. a \in ToImporter /\ a.type \in Answers /\ a.id = m.id
  <2>1. a \in ToImporter
    BY <1>3, <1>5, MsgType
  <2> QED
    BY <1>5, <2>1 DEF Msg, Answers
<1>7. a.type = "IMPORT_ACK" => a = Msg("IMPORT_ACK", m.id)
  BY <1>5 DEF Msg
<1>8. \/ Msgs(to_imp') = Msgs(to_imp) \cup {a}
      \/ "unsent" \in Faults /\ Msgs(to_imp') = Msgs(to_imp)
  <2>1. Msgs(Append(to_imp, a)) = Msgs(to_imp) \cup {a}
    BY <1>4, <1>6, MsgsAppend
  <2> QED
    BY <1>5, <2>1
<1>9. m \in ForExporter /\ ForExporter' \cup {m} = ForExporter
  BY <1>1, <1>2 DEF ForExporter
<1>10. ~NoImport(exp_rx) /\ NoImport(exp_rx')
  BY <1>1, <1>2 DEF NoImport
<1> HIDE DEF m
<1>11. /\ \A id \in Ids : remote_imported[id] => remote_imported'[id]
       /\ \A id \in Ids : remote_imported'[id] => \/ id = m.id /\ a.type = "IMPORT_ACK"
                                                  \/ remote_imported[id]
       /\ a.type = "IMPORT_ACK" => remote_imported'[m.id] /\ m.id \in idr
  BY <1>3, <1>4, <1>5, <1>7 DEF Msg
<1>12. ~imp_otherend_closed =>
         /\ to_exp = << >> /\ NoAnswer(to_imp) /\ NoAnswer(imp_rx)
         /\ imp_rxq = << >> /\ AllWait /\ LastImport(to_exp) /\ OneAnswer(to_imp)
  BY <1>10 DEF Known, ShareInv, Turn
<1>13. Turn'
  <2> SUFFICES ASSUME ~imp_otherend_closed'
               PROVE  Turn'
    BY DEF Turn
  <2>1. ~imp_otherend_closed
    BY <1>1 DEF ExpRecvRest
  <2>2. OneAnswer(to_imp')
    <3>1. OneAnswer(Append(to_imp, a))
      BY <1>4, <1>6, <1>12, <2>1, OnlyOneAppended
    <3> QED
      BY <1>5, <1>12, <2>1, <3>1
  <2>3. NoImport(to_exp)
    BY <1>12, <2>1, MsgsEmpty DEF NoImport
  <2>4. Len(imp_rxq) <= 1
    BY <2>1 DEF Known, ShareInv, Turn
  <2> QED
    BY <1>1, <1>10, <1>12, <2>1, <2>2, <2>3, <2>4 DEF Turn, AllWait, ExpRecvRest
<1>14. ForExporter' \subseteq ForExporter
  BY <1>1, <1>2 DEF ForExporter
<1>15. \A id \in Ids : Recorded(id) => Recorded(id)'
  BY <1>11, <1>14 DEF Recorded
<1>16. \A id : Kept(id)' <=> Kept(id)
  BY <1>1 DEF Kept, ExpRecvRest
<1>17. /\ ForImporter' \subseteq ForImporter \cup {a}
       /\ "unsent" \notin Faults => ForImporter' = ForImporter \cup {a}
  BY <1>1, <1>8 DEF ForImporter, ExpRecvRest
<1>18. KeptRecorded'
  BY <1>15, <1>16 DEF KeptRecorded, Known, ShareInv
<1>19. AckRecorded'
  <2> SUFFICES ASSUME ~imp_otherend_closed', NEW x \in ForImporter', x.type = "IMPORT_ACK"
               PROVE  Recorded(x.id)'
    BY DEF AckRecorded
  <2>1. ~imp_otherend_closed
    BY <1>1 DEF ExpRecvRest
  <2>2. CASE x = a
    <3>1. ForExporter' = {}
      BY <1>1, <1>2, <1>12, <2>1, MsgsEmpty DEF ForExporter
    <3> QED
      BY <1>6, <1>11, <2>2, <3>1 DEF Recorded
  <2>3. CASE x \in ForImporter
    <3>1. x.id \in Ids
      BY <2>3, MsgId, MsgsType DEF ForImporter, Known, TypeOK
    <3>2. Recorded(x.id)
      BY <2>1, <2>3 DEF AckRecorded, Known, ShareInv
    <3> QED
      BY <1>1, <3>1, <3>2, <1>11, <1>14 DEF Recorded
  <2> QED
    BY <1>17, <2>2, <2>3
<1>20. ExportsRecorded'
  <2>1. free_list = {}
    BY <1>1 DEF Known, ExportOwnership
  <2> QED
    BY <1>1, <1>11, <2>1 DEF ExportsRecorded, ExpRecvRest, Known, ShareInv
<1>21. ClosedKnown'
  BY <1>1, <1>6, <1>14, <1>17 DEF ClosedKnown, ExpRecvRest, Known, ShareInv, Answers
<1>22. RecordedForSomebody'
  <2> SUFFICES ASSUME "unsent" \notin Faults, ~imp_closed', ~exp_closed',
                      NEW id \in Ids, remote_imported'[id]
               PROVE  \/ Kept(id)'
                      \/ \E x \in ForImporter' : x.type = "IMPORT_ACK" /\ x.id = id
                      \/ \E x \in ForExporter' : x.type = "UNIMPORT" /\ x.id = id
    BY DEF RecordedForSomebody
  <2>1. CASE id = m.id /\ a.type = "IMPORT_ACK"
    BY <1>6, <1>17, <2>1
  <2>2. CASE remote_imported[id]
    <3>1. \/ Kept(id)
          \/ \E x \in ForImporter : x.type = "IMPORT_ACK" /\ x.id = id
          \/ \E x \in ForExporter : x.type = "UNIMPORT" /\ x.id = id
      BY <1>1, <2>2 DEF RecordedForSomebody, Known, ShareInv, ExpRecvRest
    <3>2. \A x \in ForExporter : x.type = "UNIMPORT" => x \in ForExporter'
      BY <1>1, <1>9
    <3> QED
      BY <1>16, <1>17, <3>1, <3>2
  <2> QED
    BY <1>11, <2>1, <2>2
<1> QED
  BY <1>13, <1>18, <1>19, <1>20, <1>21, <1>22 DEF ShareInv
-----------------------------------------------------------------------------
(* The importing thread *)

(***************************************************************************)
(* A descriptor stops being kept only by the UNIMPORT sent for it.         *)
(***************************************************************************)
LEMMA ThreadKept ==
  ASSUME Known, NEW t \in Threads, Importer(t)
  PROVE  /\ \A id \in Ids : Kept(id)' => Kept(id)
         /\ \A id \in Ids : Kept(id) /\ ~Kept(id)' =>
              id = req[t].id /\ (RollbackSend(t) \/ UnimportSend(t))
<1> USE DEF expDesc, reclaim, expChan, expSide, impWhse, impChan, impThread,
        impSide, chans
<1>1. TypeOK /\ NoUseAfterFree
  BY DEF Known, OneTokenPerNode
<1>2. ASSUME NEW i \in Ids, NEW match \in BOOLEAN, ImportSend(t, i, match)
      PROVE  \A id \in Ids : Kept(id)' <=> Kept(id)
  BY <1>1, <1>2 DEF ImportSend, Kept, TypeOK
<1>8. CASE ImportSendFail(t)
  BY <1>8 DEF ImportSendFail, Kept
<1>3. CASE ImportAck(t) \/ ImportClosed(t) \/ ImportTimeout(t) \/ ImportAckExpire(t)
             \/ UnimportUnmap(t)
  <2>1. /\ pc[t] \notin {"rollback_remove", "unimp_remove"} /\ UNCHANGED <<imp_whse, req>>
        /\ \A u \in Threads : u # t => pc'[u] = pc[u]
        /\ pc'[t] \notin {"rollback_remove", "unimp_remove"}
    BY <1>1, <1>3 DEF ImportAck, ImportClosed, ImportTimeout, ImportAckExpire,
       UnimportUnmap, TypeOK
  <2>2. \A id \in Ids : Kept(id)' <=> Kept(id)
    BY <2>1 DEF Kept
  <2> QED
    BY <2>2
<1>4. CASE ImportLookup(t) \/ ImportMap(t) \/ ImportMapFail(t)
  <2>1. /\ pc[t] \notin {"rollback_remove", "unimp_remove"} /\ UNCHANGED req
        /\ \A u \in Threads : u # t => pc'[u] = pc[u]
        /\ pc'[t] \notin {"rollback_remove", "unimp_remove"}
    BY <1>1, <1>4 DEF ImportLookup, ImportMap, ImportMapFail, TypeOK
  <2>2. ~ImportLookup(t) => imp_whse[req[t].id] = "IMPORTING"
    BY <1>1, <1>4 DEF NoUseAfterFree, Holding, Expected, ImportMap, ImportMapFail
  <2>3. \A id \in Ids : imp_whse'[id] = "none" <=> imp_whse[id] = "none"
    BY <1>1, <1>4, <2>2 DEF ImportLookup, ImportMap, ImportMapFail, TypeOK
  <2>4. \A id \in Ids : Kept(id)' <=> Kept(id)
    BY <2>1, <2>3 DEF Kept
  <2> QED
    BY <2>4
<1>5. CASE RollbackRemove(t) \/ UnimportRemove(t)
  <2>1. /\ pc[t] \in {"rollback_remove", "unimp_remove"} /\ UNCHANGED req
        /\ \A u \in Threads : u # t => pc'[u] = pc[u]
        /\ pc'[t] = "idle" /\ req[t].id \in Ids /\ imp_whse'[req[t].id] = "none"
        /\ \A id \in Ids : id # req[t].id => imp_whse'[id] = imp_whse[id]
    BY <1>1, <1>5 DEF RollbackRemove, UnimportRemove, TypeOK
  <2>2. \A id \in Ids : Kept(id)' <=> Kept(id)
    BY <2>1 DEF Kept
  <2> QED
    BY <2>2
<1>6. ASSUME NEW i \in Ids, UnimportFind(t, i)
      PROVE  \A id \in Ids : Kept(id)' <=> Kept(id)
  BY <1>1, <1>6 DEF UnimportFind, Kept, TypeOK
<1>7. CASE RollbackSend(t) \/ UnimportSend(t)
  <2>1. /\ pc[t] \notin {"rollback_remove", "unimp_remove"} /\ UNCHANGED <<imp_whse, req>>
        /\ \A u \in Threads : u # t => pc'[u] = pc[u]
        /\ pc'[t] \in {"rollback_remove", "unimp_remove"}
    BY <1>1, <1>7 DEF RollbackSend, UnimportSend, TypeOK
  <2> QED
    BY <1>7, <2>1 DEF Kept
<1> QED
  BY <1>2, <1>3, <1>4, <1>5, <1>6, <1>7, <1>8 DEF Importer, ImportStep, UnimportStep

\* What the importer leaves alone.
ImpRest == UNCHANGED <<remote_imported, idr, free_list, exp_closed, exp_otherend_closed,
                       exp_rx>>

(***************************************************************************)
(* The thread goes on without a message.                                   *)
(***************************************************************************)
LEMMA ThreadRecords ==
  ASSUME Known, NEW t \in Threads, Importer(t), ImpRest,
         UNCHANGED <<imp_closed, imp_otherend_closed, imp_rx, to_exp, to_imp>>,
         ~RollbackSend(t), ~UnimportSend(t)
  PROVE  /\ KeptRecorded' /\ AckRecorded' /\ ExportsRecorded'
         /\ ClosedKnown' /\ RecordedForSomebody'
<1>1. \A id \in Ids : Kept(id)' <=> Kept(id)
  BY ThreadKept
<1>2. ForImporter' = ForImporter /\ ForExporter' = ForExporter
  BY DEF ForImporter, ForExporter, ImpRest
<1>3. \A id : Recorded(id)' <=> Recorded(id)
  BY <1>2 DEF Recorded, ImpRest
<1>4. KeptRecorded'
  BY <1>1, <1>3 DEF KeptRecorded, Known, ShareInv
<1>5. AckRecorded'
  BY <1>2, <1>3 DEF AckRecorded, Known, ShareInv
<1>6. ExportsRecorded' /\ ClosedKnown'
  BY <1>2 DEF ExportsRecorded, ClosedKnown, Known, ShareInv, ImpRest
<1>7. RecordedForSomebody'
  BY <1>1, <1>2 DEF RecordedForSomebody, Known, ShareInv, ImpRest
<1> QED
  BY <1>4, <1>5, <1>6, <1>7

(***************************************************************************)
(* The steps of hab_mem_import and hab_mem_unimport that neither send nor  *)
(* consume anything: if one is possible no import is under way.            *)
(***************************************************************************)
LEMMA ThreadShare ==
  ASSUME Known, NEW t \in Threads,
         \/ ImportClosed(t) \/ ImportLookup(t) \/ ImportMap(t) \/ ImportMapFail(t)
         \/ RollbackRemove(t) \/ UnimportUnmap(t) \/ UnimportRemove(t)
         \/ \E id \in Ids : UnimportFind(t, id)
  PROVE  ShareInv'
<1> USE DEF expDesc, reclaim, expChan, expSide, impWhse, impChan, impThread,
        impSide, chans
<1>1. /\ ImpRest /\ Importer(t) /\ ~RollbackSend(t) /\ ~UnimportSend(t)
      /\ UNCHANGED <<imp_closed, imp_otherend_closed, imp_rx, imp_rxq, to_exp, to_imp>>
      /\ imp_otherend_closed \/ pc[t] # "ack_wait"
  BY DEF ImpRest, Importer, ImportStep, UnimportStep, ImportClosed, ImportLookup, ImportMap,
     ImportMapFail, RollbackRemove, UnimportUnmap, UnimportRemove, UnimportFind,
     RollbackSend, UnimportSend
<1>2. Turn'
  <2>1. CASE imp_otherend_closed
    BY <1>1, <2>1 DEF Turn
  <2>2. CASE ~imp_otherend_closed /\ ~AllWait
    BY <1>1, <2>2 DEF Turn, Known, ShareInv, ImpRest
  <2> QED
    BY <1>1, <2>1, <2>2 DEF AllWait
<1> QED
  BY <1>1, <1>2, ThreadRecords DEF ShareInv

(***************************************************************************)
(* hab_mem_import cannot send its request and fails.                       *)
(***************************************************************************)
LEMMA SendFailShare ==
  ASSUME Known, NEW t \in Threads, ImportSendFail(t)
  PROVE  ShareInv'
<1> USE DEF expDesc, reclaim, expChan, expSide, impWhse, impChan, impThread,
        impSide, chans
<1>1. /\ Turn' /\ KeptRecorded' /\ AckRecorded' /\ ClosedKnown'
      /\ RecordedForSomebody'
  BY ShareFrame DEF ImportSendFail, Known, ShareInv
<1>2. ExportsRecorded'
  BY DEF ImportSendFail, ExportsRecorded, Known, ShareInv
<1> QED
  BY <1>1, <1>2 DEF ShareInv

(***************************************************************************)
(* hab_import_ack_find takes an ack: the only one there is.                *)
(***************************************************************************)
LEMMA AckShare ==
  ASSUME Known, NEW t \in Threads, ImportAck(t) \/ ImportAckExpire(t)
  PROVE  ShareInv'
<1> USE DEF expDesc, reclaim, expChan, expSide, impWhse, impChan, impThread,
        impSide, chans
<1>1. /\ ImpRest /\ Importer(t) /\ ~RollbackSend(t) /\ ~UnimportSend(t)
      /\ UNCHANGED <<imp_closed, imp_otherend_closed, imp_rx, to_exp, to_imp>>
  BY DEF ImpRest, Importer, ImportStep, ImportAck, ImportAckExpire,
     RollbackSend, UnimportSend
<1>2. PICK k \in 1 .. Len(imp_rxq) : imp_rxq' = Without(imp_rxq, k)
  BY DEF ImportAck, ImportAckExpire
<1>3. /\ imp_rxq \in Seq(Acks) /\ imp_rxq' \in Seq(Acks)
      /\ Len(imp_rxq') = Len(imp_rxq) - 1 /\ Len(imp_rxq) \in Nat
  BY <1>2, WithoutType, LenProperties DEF Known, TypeOK
<1>4. imp_rxq # << >>
  BY <1>2, EmptySeq
<1>5. Turn'
  <2> SUFFICES ASSUME ~imp_otherend_closed' PROVE Turn'
    BY DEF Turn
  <2>1. ~imp_otherend_closed /\ Len(imp_rxq) <= 1
    BY <1>1 DEF Turn, Known, ShareInv
  <2>2. Len(imp_rxq') = 0
    <3>1. Len(imp_rxq) # 0
      BY <1>2
    <3> QED
      BY <1>3, <2>1, <3>1
  <2>3. imp_rxq' = << >>
    BY <1>3, <2>2, EmptySeq
  <2> QED
    BY <1>1, <1>4, <2>1, <2>2, <2>3 DEF Turn, Known, ShareInv, ImpRest
<1> QED
  BY <1>1, <1>5, ThreadRecords DEF ShareInv

(***************************************************************************)
(* hab_mem_import sends its request: nothing else is under way.            *)
(***************************************************************************)
LEMMA SendShare ==
  ASSUME Known, OneThread, NEW t \in Threads, NEW id \in Ids, NEW match \in BOOLEAN,
         ImportSend(t, id, match)
  PROVE  ShareInv'
<1> USE DEF expDesc, reclaim, expChan, expSide, impWhse, impChan, impThread,
        impSide, chans
<1>1. PICK m : m = [type |-> "IMPORT", id |-> id, match |-> match]
  OBVIOUS
<1>2. m \in ToExporter /\ m.type = "IMPORT"
  BY <1>1, MsgType
<1>3. /\ ImpRest /\ Importer(t) /\ ~RollbackSend(t) /\ ~UnimportSend(t)
      /\ UNCHANGED <<imp_closed, imp_otherend_closed, imp_rx, imp_rxq, to_imp>>
      /\ pc[t] = "idle" /\ to_exp' = Append(to_exp, m) /\ ~imp_otherend_closed
  BY <1>1 DEF ImpRest, Importer, ImportSend, RollbackSend, UnimportSend
<1>4. AllWait' /\ ~AllWait
  BY <1>3 DEF AllWait, OneThread, ImportSend, Known, TypeOK
<1>5. to_exp \in Seq(ToExporter)
  BY DEF Known, TypeOK
<1>6. Msgs(to_exp') = Msgs(to_exp) \cup {m}
  BY <1>2, <1>3, <1>5, MsgsAppend
<1>7. Turn'
  <2>1. /\ NoImport(to_exp) /\ NoImport(exp_rx) /\ NoAnswer(to_imp) /\ NoAnswer(imp_rx)
        /\ imp_rxq = << >> /\ OneAnswer(to_imp) /\ Len(imp_rxq) <= 1
    BY <1>3, <1>4 DEF Turn, Known, ShareInv
  <2>2. LastImport(to_exp')
    BY <1>2, <1>3, <1>5, <2>1, OnlyOneAppended
  <2> QED
    BY <1>3, <1>4, <2>1, <2>2 DEF Turn, ImpRest
<1>8. /\ ForImporter' = ForImporter /\ ForExporter' = ForExporter \cup {m}
      /\ \A i \in Ids : Kept(i)' <=> Kept(i)
  BY <1>3, <1>6, ThreadKept DEF ForImporter, ForExporter, ImpRest
<1>9. \A i : Recorded(i)' <=> Recorded(i)
  BY <1>2, <1>3, <1>8 DEF Recorded, ImpRest, Unimports
<1>10. KeptRecorded' /\ AckRecorded'
  BY <1>3, <1>8, <1>9 DEF KeptRecorded, AckRecorded, Known, ShareInv
<1>11. ExportsRecorded' /\ ClosedKnown'
  BY <1>2, <1>3, <1>8 DEF ExportsRecorded, ClosedKnown, Known, ShareInv, ImpRest
<1>12. RecordedForSomebody'
  BY <1>3, <1>8 DEF RecordedForSomebody, Known, ShareInv, ImpRest
<1> QED
  BY <1>7, <1>10, <1>11, <1>12 DEF ShareInv

(***************************************************************************)
(* The two places that send UNIMPORT, or fail to: from then on the         *)
(* descriptor is no longer kept.                                           *)
(***************************************************************************)
LEMMA UnimportShare ==
  ASSUME Known, NEW t \in Threads, RollbackSend(t) \/ UnimportSend(t)
  PROVE  ShareInv'
<1> USE DEF expDesc, reclaim, expChan, expSide, impWhse, impChan, impThread,
        impSide, chans
<1>1. PICK m : m = Msg("UNIMPORT", req[t].id)
  OBVIOUS
<1>2. m \in ToExporter /\ m.type = "UNIMPORT" /\ m.id = req[t].id
  <2>1. req[t].id \in Ids
    BY DEF Known, TypeOK
  <2>2. m \in ToExporter
    BY <1>1, <2>1, MsgType
  <2> QED
    BY <1>1, <2>2 DEF Msg
<1>3. /\ ImpRest /\ Importer(t)
      /\ UNCHANGED <<imp_closed, imp_otherend_closed, imp_rx, imp_rxq, imp_whse, req, to_imp>>
      /\ pc[t] # "ack_wait"
      /\ \/ to_exp' = Append(to_exp, m)
         \/ "unsent" \in Faults /\ to_exp' = to_exp
      /\ pc'[t] \in {"rollback_remove", "unimp_remove"}
  BY <1>1 DEF ImpRest, Importer, ImportStep, UnimportStep, RollbackSend, UnimportSend,
     TellExporter, Known, TypeOK
<1>4. ~AllWait
  BY <1>3 DEF AllWait
<1>5. to_exp \in Seq(ToExporter)
  BY DEF Known, TypeOK
<1>6. \/ Msgs(to_exp') = Msgs(to_exp) \cup {m}
      \/ "unsent" \in Faults /\ to_exp' = to_exp /\ Msgs(to_exp') = Msgs(to_exp)
  <2>1. Msgs(Append(to_exp, m)) = Msgs(to_exp) \cup {m}
    BY <1>2, <1>5, MsgsAppend
  <2> QED
    BY <1>3, <2>1
<1>7. Turn'
  <2> SUFFICES ASSUME ~imp_otherend_closed' PROVE Turn'
    BY DEF Turn
  <2>1. /\ NoImport(to_exp) /\ NoImport(exp_rx) /\ NoAnswer(to_imp) /\ NoAnswer(imp_rx)
        /\ imp_rxq = << >> /\ OneAnswer(to_imp) /\ Len(imp_rxq) <= 1
        /\ LastImport(to_exp)
    BY <1>3, <1>4 DEF Turn, Known, ShareInv
  <2>2. LastImport(to_exp')
    <3>1. LastImport(Append(to_exp, m))
      BY <1>2, <1>5, <2>1, OnlyOneAppended
    <3> QED
      BY <1>3, <2>1, <3>1
  <2>3. NoImport(to_exp')
    BY <1>2, <1>6, <2>1 DEF NoImport
  <2> QED
    BY <1>3, <2>1, <2>2, <2>3 DEF Turn, ImpRest
<1>8. /\ ForImporter' = ForImporter
      /\ \/ ForExporter' = ForExporter \cup {m}
         \/ "unsent" \in Faults /\ ForExporter' = ForExporter
      /\ \A i \in Ids : Kept(i)' => Kept(i)
      /\ \A i \in Ids : Kept(i) /\ ~Kept(i)' => i = m.id
  BY <1>2, <1>3, <1>6, ThreadKept DEF ForImporter, ForExporter, ImpRest
<1>9. ~Kept(m.id)'
  BY <1>2, <1>3 DEF Kept
<1>10. \A i : i # m.id /\ Recorded(i) => Recorded(i)'
  BY <1>2, <1>3, <1>8 DEF Recorded, ImpRest
<1>11. KeptRecorded'
  BY <1>8, <1>9, <1>10 DEF KeptRecorded, Known, ShareInv
<1>12. AckRecorded'
  <2>1. ~imp_otherend_closed => NoAnswer(to_imp) /\ NoAnswer(imp_rx)
    BY <1>4 DEF Turn, Known, ShareInv
  <2> QED
    BY <1>3, <1>8, <2>1 DEF AckRecorded, NoAnswer, Answers, ForImporter
<1>13. ExportsRecorded' /\ ClosedKnown'
  BY <1>2, <1>3, <1>8 DEF ExportsRecorded, ClosedKnown, Known, ShareInv, ImpRest
<1>14. RecordedForSomebody'
  BY <1>2, <1>3, <1>8 DEF RecordedForSomebody, Known, ShareInv, ImpRest
<1> QED
  BY <1>7, <1>11, <1>12, <1>13, <1>14 DEF ShareInv
-----------------------------------------------------------------------------
(* Teardown and receive path of the importer *)

(***************************************************************************)
(* Once the importer closes, only the records of what it still keeps       *)
(* matter, and hab_ctx_free sends UNIMPORT only for what it just dropped.  *)
(***************************************************************************)
LEMMA TeardownShare ==
  ASSUME Known, ImpTeardown
  PROVE  ShareInv'
<1> USE DEF expDesc, reclaim, expChan, expSide, impWhse, impChan, impThread,
        impSide, chans
<1>1. /\ ImpRest /\ imp_closed' /\ imp_otherend_closed'
      /\ UNCHANGED <<imp_rx, to_imp, pc, req>>
  BY DEF ImpTeardown, ImpClose, ImpCtxFreeNode, ImpCtxFreeDone, ImpUnreferenced, ImpRest,
     Known, ShareInv, ClosedKnown
<1>2. Turn' /\ AckRecorded' /\ RecordedForSomebody'
  BY <1>1 DEF Turn, AckRecorded, RecordedForSomebody
<1>3. ExportsRecorded'
  BY <1>1 DEF ExportsRecorded, ImpRest, Known, ShareInv
<1>4. ForImporter' = ForImporter
  BY <1>1 DEF ForImporter
<1>5. to_exp \in Seq(ToExporter) /\ imp_whse \in [Ids -> NodeStates]
  BY DEF Known, TypeOK
<1>6. ClosedKnown'
  BY <1>1, <1>4 DEF ClosedKnown, ImpRest, Known, ShareInv
<1>7. KeptRecorded'
  <2>1. CASE ImpCtxFreeDone
    BY <1>1, <2>1 DEF ImpCtxFreeDone, KeptRecorded, Kept, Recorded, ForExporter, ImpRest,
       Known, ShareInv
  <2>2. CASE ImpClose
    <3>1. CloseMsg \in ToExporter /\ CloseMsg.type = "CLOSE"
      BY DEF ToExporter, CloseMsg, Msg
    <3>2. Msgs(Append(to_exp, CloseMsg)) = Msgs(to_exp) \cup {CloseMsg}
      BY <1>5, <3>1, MsgsAppend
    <3>3. UNCHANGED imp_whse /\ (to_exp' = to_exp \/ to_exp' = Append(to_exp, CloseMsg))
      BY <2>2 DEF ImpClose, TellExporter
    <3>4. ForExporter' \subseteq ForExporter \cup {CloseMsg}
      BY <1>1, <3>2, <3>3 DEF ForExporter, ImpRest
    <3>5. \A i : Recorded(i) => Recorded(i)'
      BY <1>1, <3>1, <3>4 DEF Recorded, Unimports, ImpRest
    <3> QED
      BY <1>1, <3>3, <3>5 DEF KeptRecorded, Kept, Known, ShareInv
  <2>3. ASSUME NEW id \in Ids, ImpCtxFreeNode(id) PROVE KeptRecorded'
    <3>1. PICK m : m = Msg("UNIMPORT_NV", id)
      OBVIOUS
    <3>2. m \in ToExporter
      BY <3>1, MsgType
    <3>3. m.id = id
      BY <3>1 DEF Msg
    <3>4. /\ to_exp' = Append(to_exp, m) \/ to_exp' = to_exp
          /\ imp_whse' = [imp_whse EXCEPT ![id] = "none"]
      BY <2>3, <3>1 DEF ImpCtxFreeNode, TellExporter
    <3>5. Msgs(to_exp') \subseteq Msgs(to_exp) \cup {m}
      <4>1. Msgs(Append(to_exp, m)) = Msgs(to_exp) \cup {m}
        BY <1>5, <3>2, MsgsAppend
      <4> QED
        BY <3>4, <4>1
    <3>6. ForExporter' \subseteq ForExporter \cup {m}
      BY <1>1, <3>5 DEF ForExporter, ImpRest
    <3>7. \A i \in Ids : i # id /\ Recorded(i) => Recorded(i)'
      BY <1>1, <3>3, <3>6 DEF Recorded, ImpRest
    <3>8. \A i \in Ids : Kept(i)' => Kept(i) /\ i # id
      BY <1>1, <1>5, <3>4 DEF Kept
    <3> QED
      BY <3>7, <3>8 DEF KeptRecorded, Known, ShareInv
  <2> QED
    BY <2>1, <2>2, <2>3 DEF ImpTeardown
<1> QED
  BY <1>2, <1>3, <1>6, <1>7 DEF ShareInv

(***************************************************************************)
(* Messages for the importer that disappear after a close, or move on,     *)
(* change no record.                                                       *)
(***************************************************************************)
LEMMA ImpTaken ==
  ASSUME Known, ImpRest,
         UNCHANGED <<imp_whse, imp_closed, pc, req, to_exp>>,
         imp_otherend_closed => imp_otherend_closed',
         imp_otherend_closed' => imp_closed \/ exp_closed,
         ForImporter' \subseteq ForImporter,
         imp_closed \/ exp_closed \/
           \A m \in ForImporter : m.type = "IMPORT_ACK" => m \in ForImporter'
  PROVE  /\ KeptRecorded' /\ AckRecorded' /\ ExportsRecorded'
         /\ ClosedKnown' /\ RecordedForSomebody'
<1>1. \A id : Kept(id)' <=> Kept(id)
  BY DEF Kept
<1>2. ForExporter' = ForExporter
  BY DEF ForExporter, ImpRest
<1>3. \A id : Recorded(id)' <=> Recorded(id)
  BY <1>2 DEF Recorded, ImpRest
<1>4. KeptRecorded' /\ AckRecorded'
  BY <1>1, <1>3 DEF KeptRecorded, AckRecorded, Known, ShareInv
<1>5. ExportsRecorded' /\ ClosedKnown'
  BY <1>2 DEF ExportsRecorded, ClosedKnown, Known, ShareInv, ImpRest
<1>6. RecordedForSomebody'
  BY <1>1, <1>2 DEF RecordedForSomebody, Known, ShareInv, ImpRest
<1> QED
  BY <1>4, <1>5, <1>6

(***************************************************************************)
(* hab_msg_recv of the importer: the vchan is looked up, or was closed     *)
(* since then, or is closed by the message.                                *)
(***************************************************************************)
LEMMA ImpRecvRestShare ==
  ASSUME Known, NoneGivenUp, ImpRecvGet \/ ImpRecvDrop \/ ImpRecvClose
  PROVE  ShareInv'
<1> USE DEF expDesc, reclaim, expChan, expSide, impWhse, impChan, impThread,
        impSide, chans
<1>1. /\ ImpRest /\ UNCHANGED <<imp_whse, imp_rxq, imp_closed, pc, req, to_exp>>
      /\ imp_otherend_closed => imp_otherend_closed'
  BY DEF ImpRecvGet, ImpRecvDrop, ImpRecvClose, ImpRest
<1>2. /\ to_imp \in Seq(ToImporter) /\ imp_rx \in Seq(ToImporter)
      /\ imp_closed => imp_otherend_closed
      /\ imp_otherend_closed => imp_closed \/ exp_closed
  BY DEF Known, TypeOK, ShareInv, ClosedKnown
<1>3. CASE ImpRecvDrop
  <2>1. imp_otherend_closed /\ imp_rx' = << >> /\ UNCHANGED <<to_imp, imp_otherend_closed>>
    BY <1>3 DEF ImpRecvDrop, NoneGivenUp
  <2>2. Turn'
    BY <2>1 DEF Turn
  <2>3. ForImporter' \subseteq ForImporter
    BY <2>1, MsgsEmpty DEF ForImporter
  <2> QED
    BY <1>1, <1>2, <2>1, <2>2, <2>3, ImpTaken DEF ShareInv
<1>4. CASE ImpRecvClose
  <2>1. /\ imp_otherend_closed' /\ imp_rx' = << >> /\ UNCHANGED to_imp
        /\ imp_rx # << >> /\ Head(imp_rx).type = "CLOSE"
    BY <1>4 DEF ImpRecvClose
  <2>2. Turn'
    BY <2>1 DEF Turn
  <2>3. ForImporter' \subseteq ForImporter
    BY <2>1, MsgsEmpty DEF ForImporter
  <2>4. Head(imp_rx) \in ForImporter
    BY <1>2, <2>1, MsgsTail DEF ForImporter
  <2>5. exp_closed
    BY <2>1, <2>4 DEF Known, ShareInv, ClosedKnown
  <2> QED
    BY <1>1, <1>2, <2>1, <2>2, <2>3, <2>5, ImpTaken DEF ShareInv
<1>5. CASE ImpRecvGet
  <2> DEFINE m == Head(to_imp)
  <2>1. /\ to_imp # << >> /\ imp_rx = << >> /\ to_imp' = Tail(to_imp)
        /\ UNCHANGED imp_otherend_closed
        /\ imp_otherend_closed => imp_rx' = << >>
        /\ ~imp_otherend_closed => imp_rx' = <<m>>
    BY <1>2, <1>5 DEF ImpRecvGet
  <2>2. Msgs(to_imp) = {m} \cup Msgs(to_imp') /\ Msgs(imp_rx) = {}
    BY <1>2, <2>1, MsgsTail, MsgsEmpty
  <2>3. /\ OneAnswer(to_imp) => OneAnswer(to_imp')
        /\ OneAnswer(to_imp) /\ m.type \in Answers => NoAnswer(to_imp')
    BY <1>2, <2>1, OnlyOneTaken
  <2> HIDE DEF m
  <2>4. CASE imp_otherend_closed
    <3>1. ForImporter' \subseteq ForImporter
      BY <2>1, <2>2, <2>4, MsgsEmpty DEF ForImporter
    <3>2. Turn'
      BY <2>1, <2>4 DEF Turn
    <3> QED
      BY <1>1, <1>2, <2>1, <2>4, <3>1, <3>2, ImpTaken DEF ShareInv
  <2>5. CASE ~imp_otherend_closed
    <3>1. Msgs(imp_rx') = {m}
      BY <2>1, <2>5, MsgsOne
    <3>2. ForImporter' = ForImporter
      BY <2>2, <3>1 DEF ForImporter
    <3>3. /\ NoAnswer(to_imp) => NoAnswer(to_imp') /\ NoAnswer(imp_rx')
          /\ NoAnswer(imp_rx') <=> m.type \notin Answers
          /\ m.type \in Answers => ~NoAnswer(to_imp)
          /\ NoAnswer(imp_rx)
      BY <2>2, <3>1 DEF NoAnswer
    <3>4. Turn'
      <4>1. CASE m.type \in Answers
        BY <1>1, <2>1, <2>3, <2>5, <3>3, <4>1 DEF Turn, AllWait, ImpRest, Known, ShareInv
      <4>2. CASE m.type \notin Answers
        BY <1>1, <2>1, <2>3, <2>5, <3>3, <4>2 DEF Turn, AllWait, ImpRest, Known, ShareInv
      <4> QED
        BY <4>1, <4>2
    <3> QED
      BY <1>1, <1>2, <2>1, <3>2, <3>4, ImpTaken DEF ShareInv
  <2> QED
    BY <2>4, <2>5
<1> QED
  BY <1>3, <1>4, <1>5

(***************************************************************************)
(* hab_receive_export_desc and hab_receive_import_ack_fail: the answer     *)
(* becomes the one ack in imp_rxq, and the descriptor of a positive one is *)
(* kept.                                                                   *)
(***************************************************************************)
LEMMA ImpRecvAckShare ==
  ASSUME Known, ImpRecvAck \/ ImpRecvAckFail
  PROVE  ShareInv'
<1> USE DEF expDesc, reclaim, expChan, expSide, impWhse, impChan, impThread,
        impSide, chans
<1> DEFINE m == Head(imp_rx)
<1>1. /\ ImpRest /\ UNCHANGED <<imp_closed, imp_otherend_closed, pc, req, to_exp, to_imp>>
      /\ imp_rx # << >> /\ imp_rx' = << >> /\ ~imp_otherend_closed
      /\ m.type \in Answers
  BY DEF ImpRecvAck, ImpRecvAckFail, ImpRest, Answers
<1>2. /\ imp_rx \in Seq(ToImporter) /\ Msgs(imp_rx') = {}
      /\ Msgs(imp_rx) = {m} \cup Msgs(Tail(imp_rx)) /\ Msgs(Tail(imp_rx)) = {}
  BY <1>1, MsgsTail, MsgsEmpty DEF Known, TypeOK, InHand
<1>3. m \in ToImporter /\ m.id \in Ids
  BY <1>1, <1>2, MsgId, ChannelHead DEF Answers
<1>4. PICK a \in Acks : imp_rxq' = Append(imp_rxq, a)
  BY <1>3 DEF ImpRecvAck, ImpRecvAckFail, Acks
<1>5. /\ imp_whse \in [Ids -> NodeStates]
      /\ \A id \in Ids : imp_whse'[id] # imp_whse[id] =>
           id = m.id /\ m.type = "IMPORT_ACK"
      /\ m.type = "IMPORT_ACK" => imp_whse'[m.id] # "none"
      /\ \A id \in Ids : imp_whse[id] # "none" => imp_whse'[id] # "none"
  <2>1. imp_whse \in [Ids -> NodeStates]
    BY DEF Known, TypeOK
  <2>2. CASE ImpRecvAck
    BY <1>3, <2>1, <2>2 DEF ImpRecvAck
  <2>3. CASE ImpRecvAckFail
    BY <2>1, <2>3 DEF ImpRecvAckFail
  <2> QED
    BY <2>1, <2>2, <2>3
<1>6. ~NoAnswer(imp_rx) /\ NoAnswer(imp_rx')
  BY <1>1, <1>2 DEF NoAnswer
<1>7. m \in ForImporter /\ ForImporter' \cup {m} = ForImporter
  BY <1>1, <1>2 DEF ForImporter
<1>8. ForExporter' = ForExporter
  BY <1>1 DEF ForExporter, ImpRest
<1> HIDE DEF m
<1>9. /\ imp_rxq = << >> /\ AllWait /\ NoAnswer(to_imp)
      /\ NoImport(to_exp) /\ NoImport(exp_rx)
  BY <1>1, <1>6 DEF Turn, Known, ShareInv
<1>10. Len(imp_rxq') <= 1
  <2>1. imp_rxq \in Seq(Acks)
    BY DEF Known, TypeOK
  <2>2. Len(imp_rxq') = Len(imp_rxq) + 1 /\ Len(imp_rxq) = 0
    BY <1>4, <1>9, <2>1, AppendProperties, EmptySeq
  <2> QED
    BY <2>2
<1>11. Turn'
  BY <1>1, <1>6, <1>9, <1>10 DEF Turn, AllWait, ImpRest, Known, ShareInv
<1>12. \A id : Recorded(id)' <=> Recorded(id)
  BY <1>1, <1>8 DEF Recorded, ImpRest
<1>13. m.type = "IMPORT_ACK" => Recorded(m.id)
  BY <1>1, <1>7 DEF AckRecorded, Known, ShareInv
<1>14. /\ \A id \in Ids : Kept(id)' => Kept(id) \/ (id = m.id /\ m.type = "IMPORT_ACK")
       /\ \A id \in Ids : Kept(id) => Kept(id)'
       /\ \A id \in Ids : id = m.id /\ m.type = "IMPORT_ACK" => Kept(id)'
  BY <1>1, <1>3, <1>5, <1>9 DEF Kept, AllWait
<1>15. KeptRecorded'
  BY <1>12, <1>13, <1>14 DEF KeptRecorded, Known, ShareInv
<1>16. AckRecorded'
  BY <1>1, <1>7, <1>12 DEF AckRecorded, Known, ShareInv
<1>17. ExportsRecorded' /\ ClosedKnown'
  BY <1>1, <1>7, <1>8 DEF ExportsRecorded, ClosedKnown, Known, ShareInv, ImpRest
<1>18. RecordedForSomebody'
  <2> SUFFICES ASSUME "unsent" \notin Faults, ~imp_closed', ~exp_closed',
                      NEW id \in Ids, remote_imported'[id]
               PROVE  \/ Kept(id)'
                      \/ \E x \in ForImporter' : x.type = "IMPORT_ACK" /\ x.id = id
                      \/ \E x \in ForExporter' : x.type = "UNIMPORT" /\ x.id = id
    BY DEF RecordedForSomebody
  <2>1. \/ Kept(id)
        \/ \E x \in ForImporter : x.type = "IMPORT_ACK" /\ x.id = id
        \/ \E x \in ForExporter : x.type = "UNIMPORT" /\ x.id = id
    BY <1>1 DEF RecordedForSomebody, Known, ShareInv, ImpRest
  <2> QED
    BY <1>7, <1>8, <1>14, <2>1
<1> QED
  BY <1>11, <1>15, <1>16, <1>17, <1>18 DEF ShareInv
-----------------------------------------------------------------------------
(* Results *)

(***************************************************************************)
(* The receive path of either side has at most one message in hand.        *)
(***************************************************************************)
LEMMA InHandStep == InHand /\ [Next]_vars => InHand'
<1> SUFFICES ASSUME InHand, [Next]_vars PROVE InHand'
  OBVIOUS
<1> USE DEF expDesc, reclaim, expChan, expSide, impWhse, impChan, impThread,
        impSide, chans
<1>1. \A m : Tail(<<m>>) = << >>
  OBVIOUS
<1>2. CASE Exporter \/ ReclaimWorker
  BY <1>2 DEF InHand, Exporter, ReclaimWorker, ExportGrant, ExportPublish, ExportTooLarge,
     ExportGrantFail, Unexport, UnexportRelease, ExpCtxFreeExport,
     ExpCtxFreeEnlist, ExpClose, ReclaimScan, ReclaimFree
<1>3. CASE ExpRecv
  BY <1>1, <1>3 DEF InHand, ExpRecv, ExpRecvGet, ExpRecvDrop, ExpRecvImport,
     ExpRecvUnimport, ExpRecvClose
<1>4. ASSUME NEW t \in Threads, Importer(t) PROVE InHand'
  BY <1>4 DEF InHand, Importer, ImportStep, UnimportStep, ImportSend, ImportSendFail, ImportTimeout,
     ImportAckExpire, ImportAck, ImportClosed, ImportLookup, ImportMap,
     ImportMapFail, RollbackSend, RollbackRemove, UnimportFind, UnimportUnmap,
     UnimportSend, UnimportRemove
<1>5. CASE ImpTeardown \/ ImpRecv
  BY <1>1, <1>5 DEF InHand, ImpTeardown, ImpRecv, ImpClose, ImpCtxFreeNode, ImpCtxFreeDone,
     ImpRecvGet, ImpRecvDrop, ImpRecvAck, ImpRecvAckNoMem, ImpRecvAckFail,
     ImpRecvClose
<1>6. CASE UNCHANGED vars
  BY <1>6 DEF InHand, vars
<1> QED
  BY <1>2, <1>3, <1>4, <1>5, <1>6 DEF Next

(***************************************************************************)
(* Every step keeps the invariant.                                         *)
(***************************************************************************)
LEMMA ShareStep ==
  ASSUME Known, OneThread, NoneGivenUp, [Next]_vars
  PROVE  ShareInv'
<1>1. CASE Exporter \/ ReclaimWorker
  BY <1>1, ExporterShare, ExpCloseShare
<1>2. CASE ExpRecv
  BY <1>2, ExpRecvGetShare, ExpRecvRestShare, ExpRecvImportShare DEF ExpRecv
<1>3. ASSUME NEW t \in Threads, Importer(t) PROVE ShareInv'
  <2>1. ~ImportTimeout(t)
    BY DEF ImportTimeout, NoneGivenUp
  <2> QED
    BY <1>3, <2>1, ThreadShare, AckShare, SendShare, SendFailShare, UnimportShare
    DEF Importer, ImportStep, UnimportStep
<1>4. CASE ImpTeardown
  BY <1>4, TeardownShare
<1>5. CASE ImpRecv
  <2>1. ~ImpRecvAckNoMem
    BY DEF ImpRecvAckNoMem, NoneGivenUp
  <2> QED
    BY <1>5, <2>1, ImpRecvRestShare, ImpRecvAckShare DEF ImpRecv
<1>6. CASE UNCHANGED vars
  <2>1. ExportsRecorded'
    BY <1>6 DEF ExportsRecorded, vars, expSide, expDesc, reclaim, Known, ShareInv
  <2> QED
    BY <1>6, <2>1, ShareFrame DEF vars, expSide, expDesc, reclaim, expChan, impSide, impWhse,
       impChan, impThread, chans, Known, ShareInv
<1> QED
  BY <1>1, <1>2, <1>3, <1>4, <1>5, <1>6 DEF Next

(***************************************************************************)
(* The invariant holds of a vchan that was just opened.                    *)
(***************************************************************************)
LEMMA ShareInit == Init => ShareInv /\ InHand
<1> SUFFICES ASSUME Init PROVE ShareInv /\ InHand
  OBVIOUS
<1>1. /\ to_exp = << >> /\ to_imp = << >> /\ exp_rx = << >> /\ imp_rx = << >>
      /\ imp_rxq = << >> /\ free_list = {}
      /\ imp_closed = FALSE /\ exp_closed = FALSE
      /\ imp_otherend_closed = FALSE /\ exp_otherend_closed = FALSE
      /\ \A id \in Ids : ~remote_imported[id] /\ imp_whse[id] = "none"
  BY DEF Init
<1>2. ForExporter = {} /\ ForImporter = {}
  BY <1>1, MsgsEmpty DEF ForExporter, ForImporter
<1>3. /\ NoImport(<< >>) /\ NoAnswer(<< >>) /\ LastImport(<< >>) /\ OneAnswer(<< >>)
      /\ Len(<< >>) = 0
  BY MsgsEmpty DEF NoImport, NoAnswer, LastImport, OneAnswer
<1>4. Turn
  BY <1>1, <1>3 DEF Turn
<1> QED
  BY <1>1, <1>2, <1>4 DEF ShareInv, InHand, KeptRecorded, Kept, AckRecorded, ExportsRecorded,
     ClosedKnown, RecordedForSomebody

(***************************************************************************)
(* The inductive invariant holds for one thread that gives no import up.   *)
(***************************************************************************)
THEOREM ShareInvariant ==
  ASSUME OneThread, NoneGivenUp
  PROVE  Spec => []Known
<1>1. Init => ShareInv /\ InHand
  BY ShareInit
<1>2. /\ TypeOK /\ OneTokenPerNode /\ ExportOwnership /\ InHand /\ ShareInv /\ [Next]_vars
         => ShareInv' /\ InHand'
  BY ShareStep, InHandStep DEF Known
<1>3. Known <=> TypeOK /\ OneTokenPerNode /\ ExportOwnership /\ InHand /\ ShareInv
  BY DEF Known
<1> QED
  BY <1>1, <1>2, <1>3, TypeCorrect, TokensCorrect, OwnershipCorrect, PTL DEF Spec

(***************************************************************************)
(* An import that has succeeded is on the exporter's record until it is    *)
(* undone, so hab_mem_unexport refuses (remote_imported, "sync import");   *)
(* also when an IMPORT, an ack, an UNIMPORT or a CLOSE is not sent.        *)
(***************************************************************************)
THEOREM RecordCorrect ==
  ASSUME OneThread, NoneGivenUp
  PROVE  Spec => []ImportedIsRecorded
<1>1. Known => ImportedIsRecorded
  <2> SUFFICES ASSUME Known, NEW id \in Ids, imp_whse[id] = "IMPORTED"
               PROVE  remote_imported[id]
    BY DEF ImportedIsRecorded
  <2>1. Kept(id)
    BY DEF Known, OneTokenPerNode, NoUseAfterFree, Holding, Expected, Kept
  <2> QED
    BY <2>1 DEF Known, ShareInv, KeptRecorded, Recorded
<1> QED
  BY <1>1, ShareInvariant, PTL

(***************************************************************************)
(* With the channel open, idle and drained, and no ack or UNIMPORT that    *)
(* failed to be sent (hab_send_import_ack, hab_send_unimport_msg),         *)
(* hab_mem_unexport answers -EBUSY only for what the importer still has.   *)
(***************************************************************************)
THEOREM NotBusyCorrect ==
  ASSUME OneThread, NoneGivenUp, "unsent" \notin Faults
  PROVE  Spec => []NotBusyForNobody
<1>1. Known => NotBusyForNobody
  <2> SUFFICES ASSUME Known, Drained, ~imp_closed, ~exp_closed, NEW id \in idr,
                      remote_imported[id]
               PROVE  imp_whse[id] # "none"
    BY DEF NotBusyForNobody
  <2>1. id \in Ids
    BY DEF Known, TypeOK
  <2>2. ForImporter = {} /\ ForExporter = {}
    BY MsgsEmpty DEF Drained, ForImporter, ForExporter
  <2>3. Kept(id)
    BY <2>1, <2>2 DEF Known, ShareInv, RecordedForSomebody
  <2> QED
    BY <2>3 DEF Kept
<1> QED
  BY <1>1, ShareInvariant, PTL

(***************************************************************************)
(* A descriptor the importer keeps is that of an export that exists.       *)
(***************************************************************************)
LEMMA KeptIsHeld ==
  ASSUME Known, NEW id \in Ids, Kept(id)
  PROVE  remote_imported[id] /\ id \in idr /\ id \in pinned
<1>1. remote_imported[id]
  BY DEF Known, ShareInv, KeptRecorded, Recorded
<1>2. id \in idr
  BY <1>1 DEF Known, ShareInv, ExportsRecorded
<1>3. idr \subseteq pinned
  BY DEF Known, ExportOwnership, ExportReleasedOnce
<1> QED
  BY <1>1, <1>2, <1>3

(***************************************************************************)
(* The exporter's steps grant a buffer, release one, or do neither.        *)
(***************************************************************************)
LEMMA ExporterIsShare ==
  ASSUME Known, NoneGivenUp, Exporter \/ ReclaimWorker,
         \A id \in Imported : id \in Ids /\ remote_imported[id] /\ id \in idr /\ id \in pinned
  PROVE  [Share!Next]_<<pinned, Imported>>
<1> USE DEF expDesc, reclaim, expChan, expSide, impWhse, impChan, impThread,
        impSide, chans
<1>1. UNCHANGED <<imp_whse, pc, req>>
  BY DEF Exporter, ReclaimWorker, ExportGrant, ExportPublish, ExportTooLarge,
         ExportGrantFail, Unexport, UnexportRelease, ExpCtxFreeExport,
         ExpCtxFreeEnlist, ExpClose, ReclaimScan, ReclaimFree
<1>2. Imported' = Imported
  BY <1>1 DEF Imported
<1>3. ASSUME NEW id \in Ids, id \in pinned, id \notin Imported, pinned' = pinned \ {id}
      PROVE  Share!Next
  BY <1>2, <1>3 DEF Share!Next, Share!Release
<1>4. /\ unexporting \subseteq pinned /\ exp_whse \subseteq pinned /\ free_list \subseteq pinned
      /\ unexporting \cap idr = {} /\ \A id \in pinned : id < idr_next
  BY DEF Known, ExportOwnership, ExportReleasedOnce
<1>5. CASE ExportGrant
  <2>1. idr_next \in Ids
    BY <1>5, MimexAssumption DEF ExportGrant, Ids, Known, TypeOK
  <2>2. idr_next \notin pinned
    BY <1>4, <2>1 DEF Ids
  <2> QED
    BY <1>2, <1>5, <2>1, <2>2 DEF ExportGrant, Share!Next, Share!Grant
<1>6. CASE ExpClose \/ ReclaimScan \/ \E id \in Ids : ExportPublish(id) \/ ExportTooLarge(id)
             \/ Unexport(id) \/ ExpCtxFreeEnlist(id)
  BY <1>2, <1>6 DEF ExpClose, ReclaimScan, ExportPublish, ExportTooLarge, Unexport,
     ExpCtxFreeEnlist
<1>7. ASSUME NEW id \in Ids, UnexportRelease(id) PROVE Share!Next
  BY <1>3, <1>4, <1>7 DEF UnexportRelease
<1>8. ASSUME NEW id \in Ids, ExpCtxFreeExport(id) PROVE [Share!Next]_<<pinned, Imported>>
  <2>1. CASE remote_imported[id]
    BY <1>2, <1>8, <2>1 DEF ExpCtxFreeExport
  <2>2. CASE ~remote_imported[id]
    BY <1>3, <1>4, <1>8, <2>2 DEF ExpCtxFreeExport
  <2> QED
    BY <2>1, <2>2
<1>9. ASSUME NEW id \in Ids, ReclaimFree(id) PROVE Share!Next
  BY <1>3, <1>4, <1>9 DEF ReclaimFree, Known, ShareInv, ExportsRecorded
<1>10. ~(\E id \in Ids : ExportGrantFail(id))
  BY DEF NoneGivenUp, ExportGrantFail
<1> QED
  BY <1>5, <1>6, <1>7, <1>8, <1>9, <1>10 DEF Exporter, ReclaimWorker

(***************************************************************************)
(* hab_mem_import takes the buffer into use when it maps it and            *)
(* hab_mem_unimport gives it up when it unmaps it, before either side      *)
(* tells the other.                                                        *)
(***************************************************************************)
LEMMA ImporterIsShare ==
  ASSUME Known, NEW t \in Threads, Importer(t)
  PROVE  [Share!Next]_<<pinned, Imported>>
<1> USE DEF expDesc, reclaim, expChan, expSide, impWhse, impChan, impThread,
        impSide, chans
<1>1. UNCHANGED pinned
  BY ImporterFrame
<1>2. TypeOK /\ NoUseAfterFree /\ req[t].id \in Ids
  BY DEF Known, OneTokenPerNode, TypeOK
<1>3. CASE ImportMap(t)
  <2>1. imp_whse[req[t].id] = "IMPORTING" /\ Holding(t)
    BY <1>2, <1>3 DEF ImportMap, NoUseAfterFree, Holding, Expected
  <2>2. req[t].id \notin Imported
    BY <1>2, <1>3, <2>1 DEF Imported, ImportMap, NoUseAfterFree, Holding, Expected
  <2>3. Kept(req[t].id)
    BY <1>2, <1>3, <2>1 DEF Kept, ImportMap, NoUseAfterFree, Holding, Expected
  <2>4. req[t].id \in pinned
    BY <1>2, <2>3, KeptIsHeld
  <2>5. Imported' = Imported \cup {req[t].id}
    BY <1>2, <1>3 DEF Imported, ImportMap, TypeOK
  <2> QED
    BY <1>1, <1>2, <2>2, <2>4, <2>5 DEF Share!Next, Share!Import
<1>4. CASE UnimportUnmap(t)
  <2>1. imp_whse[req[t].id] = "UNIMPORTING" /\ Holding(t)
    BY <1>2, <1>4 DEF UnimportUnmap, NoUseAfterFree, Holding, Expected
  <2>2. req[t].id \in Imported
    BY <1>2, <1>4 DEF Imported, UnimportUnmap
  <2>3. \A u \in Threads : u # t /\ pc[u] = "unmap" => req[u].id # req[t].id
    BY <1>2, <2>1 DEF NoUseAfterFree, Holding
  <2>4. /\ UNCHANGED <<imp_whse, req>> /\ pc'[t] # "unmap" /\ pc[t] = "unmap"
        /\ \A u \in Threads : u # t => pc'[u] = pc[u]
    BY <1>2, <1>4 DEF UnimportUnmap, TypeOK
  <2>5. Imported' = Imported \ {req[t].id}
    BY <2>1, <2>3, <2>4 DEF Imported
  <2> QED
    BY <1>1, <1>2, <2>2, <2>5 DEF Share!Next, Share!GiveUp
<1>5. CASE ImportLookup(t) \/ ImportMapFail(t) \/ RollbackRemove(t) \/ UnimportRemove(t)
  <2>1. /\ pc[t] # "unmap" /\ pc'[t] # "unmap" /\ UNCHANGED req
        /\ \A u \in Threads : u # t => pc'[u] = pc[u]
    BY <1>2, <1>5 DEF ImportLookup, ImportMapFail, RollbackRemove, UnimportRemove, TypeOK
  <2>2. ~ImportLookup(t) => imp_whse[req[t].id] # "IMPORTED"
    BY <1>2, <1>5 DEF ImportMapFail, RollbackRemove, UnimportRemove, NoUseAfterFree, Holding,
       Expected
  <2>3. \A id \in Ids : imp_whse'[id] = "IMPORTED" <=> imp_whse[id] = "IMPORTED"
    BY <1>2, <1>5, <2>2 DEF ImportLookup, ImportMapFail, RollbackRemove, UnimportRemove, TypeOK
  <2>4. Imported' = Imported
    BY <2>1, <2>3 DEF Imported
  <2> QED
    BY <1>1, <2>4
<1>6. ASSUME NEW id \in Ids, UnimportFind(t, id) PROVE [Share!Next]_<<pinned, Imported>>
  <2>1. /\ pc[t] # "unmap" /\ pc'[t] = "unmap" /\ req'[t].id = id
        /\ \A u \in Threads : u # t => pc'[u] = pc[u] /\ req'[u] = req[u]
        /\ imp_whse[id] = "IMPORTED" /\ imp_whse'[id] # "IMPORTED"
        /\ \A i \in Ids : i # id => imp_whse'[i] = imp_whse[i]
    BY <1>2, <1>6 DEF UnimportFind, TypeOK
  <2>2. Imported' = Imported
    BY <2>1 DEF Imported
  <2> QED
    BY <1>1, <2>2
<1>7. CASE \/ \E id \in Ids, match \in BOOLEAN : ImportSend(t, id, match)
           \/ ImportTimeout(t) \/ ImportAckExpire(t) \/ ImportAck(t) \/ ImportClosed(t)
           \/ RollbackSend(t) \/ UnimportSend(t) \/ ImportSendFail(t)
  <2>1. /\ UNCHANGED imp_whse /\ pc[t] # "unmap" /\ pc'[t] # "unmap"
        /\ \A u \in Threads : u # t => pc'[u] = pc[u] /\ req'[u] = req[u]
    BY <1>2, <1>7 DEF ImportSend, ImportSendFail, ImportTimeout, ImportAckExpire, ImportAck, ImportClosed,
       RollbackSend, UnimportSend, TypeOK
  <2>2. Imported' = Imported
    BY <2>1 DEF Imported
  <2> QED
    BY <1>1, <2>2
<1> QED
  BY <1>3, <1>4, <1>5, <1>6, <1>7 DEF Importer, ImportStep, UnimportStep

(***************************************************************************)
(* hab_ctx_free gives up what is still imported; receiving changes nothing *)
(* a user of the importer sees.                                            *)
(***************************************************************************)
LEMMA ImpRestIsShare ==
  ASSUME Known, ImpTeardown \/ ImpRecv
  PROVE  [Share!Next]_<<pinned, Imported>>
<1> USE DEF expDesc, reclaim, expChan, expSide, impWhse, impChan, impThread,
        impSide, chans
<1>1. UNCHANGED <<pinned, pc, req>>
  BY DEF ImpTeardown, ImpRecv, ImpClose, ImpCtxFreeNode, ImpCtxFreeDone,
     ImpRecvGet, ImpRecvDrop, ImpRecvAck, ImpRecvAckNoMem, ImpRecvAckFail, ImpRecvClose
<1>2. imp_whse \in [Ids -> NodeStates]
  BY DEF Known, TypeOK
<1>3. CASE ImpClose \/ ImpCtxFreeDone \/ ImpRecvGet \/ ImpRecvDrop \/ ImpRecvAckNoMem
             \/ ImpRecvAckFail \/ ImpRecvClose
  <2>1. UNCHANGED imp_whse
    BY <1>3 DEF ImpClose, ImpCtxFreeDone, ImpRecvGet, ImpRecvDrop, ImpRecvAckNoMem,
       ImpRecvAckFail, ImpRecvClose
  <2> QED
    BY <1>1, <2>1 DEF Imported
<1>4. CASE ImpRecvAck
  <2>1. \A id \in Ids : imp_whse'[id] = "IMPORTED" <=> imp_whse[id] = "IMPORTED"
    BY <1>2, <1>4 DEF ImpRecvAck
  <2> QED
    BY <1>1, <2>1 DEF Imported
<1>5. ASSUME NEW id \in Ids, ImpCtxFreeNode(id) PROVE [Share!Next]_<<pinned, Imported>>
  <2>1. /\ \A t \in Threads : pc[t] # "unmap"
        /\ \A i \in Ids : imp_whse'[i] = IF i = id THEN "none" ELSE imp_whse[i]
    BY <1>2, <1>5 DEF ImpCtxFreeNode, ImpUnreferenced
  <2>2. Imported' = Imported \ {id}
    BY <1>1, <2>1 DEF Imported
  <2>3. CASE id \in Imported
    BY <1>1, <2>2, <2>3 DEF Share!Next, Share!GiveUp
  <2>4. CASE id \notin Imported
    BY <1>1, <2>2, <2>4
  <2> QED
    BY <2>3, <2>4
<1> QED
  BY <1>3, <1>4, <1>5 DEF ImpTeardown, ImpRecv

(***************************************************************************)
(* Memory is shared the way HabShare says: a buffer is imported only while *)
(* it is held and released only while nobody imports it, whatever fails to *)
(* be sent.                                                                *)
(***************************************************************************)
THEOREM MemoryIsShared ==
  ASSUME OneThread, NoneGivenUp
  PROVE  Spec => SharesMemory
<1>1. Init => Share!Init
  <2> SUFFICES ASSUME Init PROVE pinned = {} /\ Imported = {}
    BY DEF Share!Init
  <2> QED
    BY DEF Init, Imported
<1>2. ASSUME Known, [Next]_vars PROVE [Share!Next]_<<pinned, Imported>>
  <2> USE DEF expDesc, reclaim, expChan, expSide, impWhse, impChan, impThread,
          impSide, chans
  <2>1. \A id \in Imported : id \in Ids /\ remote_imported[id] /\ id \in idr /\ id \in pinned
    <3> SUFFICES ASSUME NEW id \in Ids,
                        \/ imp_whse[id] = "IMPORTED"
                        \/ \E t \in Threads : pc[t] = "unmap" /\ req[t].id = id
                 PROVE  remote_imported[id] /\ id \in idr /\ id \in pinned
      BY DEF Imported
    <3>1. CASE imp_whse[id] = "IMPORTED"
      <4>1. Kept(id)
        BY <1>2, <3>1 DEF Known, OneTokenPerNode, NoUseAfterFree, Holding, Expected, Kept
      <4> QED
        BY <1>2, <4>1, KeptIsHeld
    <3>2. ASSUME NEW t \in Threads, pc[t] = "unmap", req[t].id = id
          PROVE  remote_imported[id] /\ id \in idr /\ id \in pinned
      <4>1. imp_whse[id] = "UNIMPORTING"
        BY <1>2, <3>2 DEF Known, OneTokenPerNode, NoUseAfterFree, Holding, Expected
      <4>2. \A u \in Threads : pc[u] = "unmap"
        BY <3>2 DEF OneThread
      <4>3. Kept(id)
        BY <4>1, <4>2 DEF Kept
      <4> QED
        BY <1>2, <4>3, KeptIsHeld
    <3> QED
      BY <3>1, <3>2
  <2>2. CASE Exporter \/ ReclaimWorker
    BY <1>2, <2>1, <2>2, ExporterIsShare
  <2>3. CASE ExpRecv
    <3>1. UNCHANGED <<pinned, imp_whse, pc, req>>
      BY <2>3 DEF ExpRecv, ExpRecvGet, ExpRecvDrop, ExpRecvImport, ExpRecvUnimport,
         ExpRecvClose, RecvUnimport
    <3> QED
      BY <3>1 DEF Imported
  <2>4. ASSUME NEW t \in Threads, Importer(t) PROVE [Share!Next]_<<pinned, Imported>>
    BY <1>2, <2>4, ImporterIsShare
  <2>5. CASE ImpTeardown \/ ImpRecv
    BY <1>2, <2>5, ImpRestIsShare
  <2>6. CASE UNCHANGED vars
    BY <2>6 DEF Imported, vars
  <2> QED
    BY <1>2, <2>2, <2>3, <2>4, <2>5, <2>6 DEF Next
<1> QED
  BY <1>1, <1>2, ShareInvariant, PTL DEF Spec, SharesMemory, Share!Spec, Share!vars
=============================================================================
