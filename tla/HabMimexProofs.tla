--------------------------- MODULE HabMimexProofs ---------------------------
(***************************************************************************)
(* Proofs about HabMimex, for any number of threads, exports and calls and *)
(* any combination of faults.                                              *)
(***************************************************************************)
EXTENDS HabMimex, SequenceTheorems, TLAPS

(***************************************************************************)
(* Removing one ack from a queue of acks leaves a queue of acks, one       *)
(* shorter, whose elements are those of the old queue (hab_import_ack_find,*)
(* list_del).                                                              *)
(***************************************************************************)
LEMMA WithoutType ==
  ASSUME NEW S, NEW q \in Seq(S), NEW k \in 1 .. Len(q)
  PROVE  /\ Without(q, k) \in Seq(S)
         /\ Len(Without(q, k)) = Len(q) - 1
         /\ \A j \in 1 .. Len(q) - 1 :
              Without(q, k)[j] = IF j < k THEN q[j] ELSE q[j + 1]
<1> DEFINE n == Len(q) - 1
           f == [j \in 1 .. n |-> IF j < k THEN q[j] ELSE q[j + 1]]
<1>1. n \in Nat /\ Len(q) \in Nat
  BY LenProperties
<1>2. \A j \in 1 .. Len(q) : q[j] \in S
  BY ElementOfSeq
<1>3. ASSUME NEW j \in 1 .. n
      PROVE  (IF j < k THEN q[j] ELSE q[j + 1]) \in S
  BY <1>1, <1>2
<1>4. f \in [1 .. n -> S]
  BY <1>3
<1>5. f \in Seq(S)
  BY <1>1, <1>4, SeqDef
<1>6. Len(f) = n
  BY <1>1, <1>4, <1>5, LenProperties
<1> QED
  BY <1>5, <1>6 DEF Without

(***************************************************************************)
(* Messages built by the two sides are messages of their direction.        *)
(***************************************************************************)
LEMMA MsgType ==
  ASSUME NEW id \in Ids
  PROVE  /\ \A match \in BOOLEAN :
              [type |-> "IMPORT", id |-> id, match |-> match] \in ToExporter
         /\ Msg("UNIMPORT", id) \in ToExporter
         /\ Msg("UNIMPORT_NV", id) \in ToExporter
         /\ Msg("IMPORT_ACK", id) \in ToImporter
         /\ Msg("IMPORT_ACK_FAIL", id) \in ToImporter
BY DEF Msg, ToExporter, ToImporter

(***************************************************************************)
(* A message that is not CLOSE carries an export id.                       *)
(***************************************************************************)
LEMMA MsgId ==
  /\ \A m \in ToExporter : m.type # "CLOSE" => m.id \in Ids
  /\ \A m \in ToImporter : m.type # "CLOSE" => m.id \in Ids
<1> DEFINE E == [type : {"IMPORT", "UNIMPORT", "UNIMPORT_NV"}, id : Ids,
                 match : BOOLEAN]
           I == [type : {"IMPORT_ACK", "IMPORT_ACK_FAIL"}, id : Ids,
                 match : {TRUE}]
<1>1. \A m \in E : m.id \in Ids
  OBVIOUS
<1>2. \A m \in I : m.id \in Ids
  OBVIOUS
<1>3. CloseMsg.type = "CLOSE"
  BY DEF CloseMsg, Msg
<1> QED
  BY <1>1, <1>2, <1>3 DEF ToExporter, ToImporter

(***************************************************************************)
(* The empty queues, and the close message of either direction.            *)
(***************************************************************************)
LEMMA QueueBasics ==
  /\ << >> \in Seq(ToExporter) /\ << >> \in Seq(ToImporter)
  /\ << >> \in Seq(Acks)
  /\ \A q \in Seq(ToExporter) : Append(q, CloseMsg) \in Seq(ToExporter)
  /\ \A q \in Seq(ToImporter) : Append(q, CloseMsg) \in Seq(ToImporter)
<1>1. CloseMsg \in ToExporter /\ CloseMsg \in ToImporter
  BY DEF ToExporter, ToImporter
<1> QED
  BY <1>1, EmptySeq, AppendProperties

(***************************************************************************)
(* Taking the head of a non-empty channel.                                 *)
(***************************************************************************)
LEMMA ChannelHead ==
  ASSUME NEW S, NEW q \in Seq(S), q # << >>
  PROVE  Head(q) \in S /\ Tail(q) \in Seq(S) /\ <<Head(q)>> \in Seq(S)
BY HeadTailProperties

(***************************************************************************)
(* The steps of the exporter keep the types.                               *)
(***************************************************************************)
LEMMA ExporterType == TypeOK /\ (Exporter \/ ReclaimWorker) => TypeOK'
<1> SUFFICES ASSUME TypeOK, Exporter \/ ReclaimWorker PROVE TypeOK'
  OBVIOUS
<1> USE MimexAssumption DEF TypeOK, Ids, expDesc, reclaim, expChan, expSide,
        impWhse, impChan, impThread, impSide, chans
<1>1. CASE ExportGrant
  BY <1>1 DEF ExportGrant
<1>2. CASE ExpClose
  <2>1. to_imp' = to_imp \/ to_imp' = Append(to_imp, CloseMsg)
    BY <1>2 DEF ExpClose, TellImporter
  <2>2. to_imp' \in Seq(ToImporter)
    <3>1. Append(to_imp, CloseMsg) \in Seq(ToImporter)
      BY QueueBasics
    <3> QED
      BY <2>1, <3>1
  <2> QED
    BY <1>2, <2>2 DEF ExpClose
<1>3. ASSUME NEW id \in Ids, ExportPublish(id) \/ ExportTooLarge(id)
                               \/ ExportGrantFail(id)
      PROVE  TypeOK'
  BY <1>3 DEF ExportPublish, ExportTooLarge, ExportGrantFail
<1>4. ASSUME NEW id \in Ids, Unexport(id) \/ UnexportRelease(id)
      PROVE  TypeOK'
  BY <1>4 DEF Unexport, UnexportRelease
<1>5. ASSUME NEW id \in Ids, ExpCtxFreeExport(id) \/ ExpCtxFreeEnlist(id)
      PROVE  TypeOK'
  BY <1>5 DEF ExpCtxFreeExport, ExpCtxFreeEnlist
<1>6. CASE ReclaimScan
  BY <1>6 DEF ReclaimScan
<1>7. ASSUME NEW id \in Ids, ReclaimFree(id) PROVE TypeOK'
  BY <1>7 DEF ReclaimFree
<1> QED
  BY <1>1, <1>2, <1>3, <1>4, <1>5, <1>6, <1>7 DEF Exporter, ReclaimWorker

(***************************************************************************)
(* The receive path of the exporter keeps the types.                       *)
(***************************************************************************)
LEMMA ExpRecvType == TypeOK /\ ExpRecv => TypeOK'
<1> SUFFICES ASSUME TypeOK, ExpRecv PROVE TypeOK'
  OBVIOUS
<1> USE DEF expDesc, reclaim, expChan, expSide, impWhse, impChan, impThread,
        impSide, chans
<1>1. CASE ExpRecvGet
  <2>1. /\ Head(to_exp) \in ToExporter
        /\ Tail(to_exp) \in Seq(ToExporter)
        /\ <<Head(to_exp)>> \in Seq(ToExporter)
    BY <1>1, ChannelHead DEF ExpRecvGet, TypeOK
  <2> QED
    BY <1>1, <2>1 DEF ExpRecvGet, RecvUnimport, TypeOK
<1>2. CASE ExpRecvDrop
  BY <1>2 DEF ExpRecvDrop, TypeOK
<1>3. CASE ExpRecvImport
  <2>1. Head(exp_rx) \in ToExporter
    BY <1>3, ChannelHead DEF ExpRecvImport, TypeOK
  <2>2. Head(exp_rx).id \in Ids
    BY <1>3, <2>1, MsgId DEF ExpRecvImport
  <2>3. \A type \in {"IMPORT_ACK", "IMPORT_ACK_FAIL"} :
          Append(to_imp, Msg(type, Head(exp_rx).id)) \in Seq(ToImporter)
    BY <2>2, MsgType DEF TypeOK
  <2> QED
    BY <1>3, <2>2, <2>3, QueueBasics DEF ExpRecvImport, TellImporter, TypeOK
<1>4. CASE ExpRecvUnimport
  BY <1>4 DEF ExpRecvUnimport, RecvUnimport, TypeOK
<1>5. CASE ExpRecvClose
  BY <1>5 DEF ExpRecvClose, TypeOK
<1> QED
  BY <1>1, <1>2, <1>3, <1>4, <1>5 DEF ExpRecv

(***************************************************************************)
(* The threads of the importer keep the types.                             *)
(***************************************************************************)
LEMMA ImporterType ==
  ASSUME TypeOK, NEW t \in Threads, Importer(t)
  PROVE  TypeOK'
<1> USE DEF expDesc, reclaim, expChan, expSide, impWhse, impChan, impThread,
        impSide, chans, PC, NodeStates
<1>1. ASSUME NEW id \in Ids, NEW match \in BOOLEAN, ImportSend(t, id, match)
      PROVE  TypeOK'
  <2>1. to_exp' \in Seq(ToExporter)
    BY <1>1, MsgType DEF ImportSend, TypeOK
  <2> QED
    BY <1>1, <2>1, MimexAssumption DEF ImportSend, TypeOK
<1>2. CASE ImportAck(t) \/ ImportAckExpire(t)
  <2>1. imp_rxq' \in Seq(Acks)
    BY <1>2, WithoutType DEF ImportAck, ImportAckExpire, TypeOK
  <2> QED
    BY <1>2, <2>1 DEF ImportAck, ImportAckExpire, TypeOK
<1>3. CASE ImportTimeout(t) \/ ImportClosed(t)
  BY <1>3 DEF ImportTimeout, ImportClosed, TypeOK
<1>8. CASE ImportSendFail(t)
  BY <1>8, MimexAssumption DEF ImportSendFail, TypeOK
<1>4. CASE ImportLookup(t) \/ ImportMap(t) \/ ImportMapFail(t)
             \/ RollbackRemove(t)
  BY <1>4 DEF ImportLookup, ImportMap, ImportMapFail, RollbackRemove, TypeOK
<1>5. CASE RollbackSend(t) \/ UnimportSend(t)
  <2> DEFINE m == Msg("UNIMPORT", req[t].id)
  <2>1. m \in ToExporter
    BY MsgType DEF TypeOK
  <2> HIDE DEF m
  <2>2. to_exp' = Append(to_exp, m) \/ to_exp' = to_exp
    BY <1>5 DEF RollbackSend, UnimportSend, TellExporter, m
  <2>3. to_exp' \in Seq(ToExporter)
    <3>1. Append(to_exp, m) \in Seq(ToExporter)
      BY <2>1 DEF TypeOK
    <3> QED
      BY <2>2, <3>1 DEF TypeOK
  <2> QED
    BY <1>5, <2>3 DEF RollbackSend, UnimportSend, TypeOK
<1>6. ASSUME NEW id \in Ids, UnimportFind(t, id) PROVE TypeOK'
  BY <1>6 DEF UnimportFind, TypeOK
<1>7. CASE UnimportUnmap(t) \/ UnimportRemove(t)
  BY <1>7 DEF UnimportUnmap, UnimportRemove, TypeOK
<1> QED
  BY <1>1, <1>2, <1>3, <1>4, <1>5, <1>6, <1>7, <1>8
  DEF Importer, ImportStep, UnimportStep

(***************************************************************************)
(* The teardown and the receive path of the importer keep the types.       *)
(***************************************************************************)
LEMMA ImpRecvType == TypeOK /\ (ImpTeardown \/ ImpRecv) => TypeOK'
<1> SUFFICES ASSUME TypeOK, ImpTeardown \/ ImpRecv PROVE TypeOK'
  OBVIOUS
<1> USE DEF expDesc, reclaim, expChan, expSide, impWhse, impChan, impThread,
        impSide, chans, NodeStates
<1>1. CASE ImpClose
  <2>1. to_exp' = to_exp \/ to_exp' = Append(to_exp, CloseMsg)
    BY <1>1 DEF ImpClose, TellExporter
  <2>2. to_exp' \in Seq(ToExporter)
    <3>1. Append(to_exp, CloseMsg) \in Seq(ToExporter)
      BY QueueBasics DEF TypeOK
    <3> QED
      BY <2>1, <3>1 DEF TypeOK
  <2> QED
    BY <1>1, <2>2 DEF ImpClose, TypeOK
<1>2. ASSUME NEW id \in Ids, ImpCtxFreeNode(id) PROVE TypeOK'
  <2>1. to_exp' \in Seq(ToExporter)
    <3>1. Append(to_exp, Msg("UNIMPORT_NV", id)) \in Seq(ToExporter)
      BY MsgType DEF TypeOK
    <3>2. \/ to_exp' = Append(to_exp, Msg("UNIMPORT_NV", id))
          \/ to_exp' = to_exp
      BY <1>2 DEF ImpCtxFreeNode, TellExporter
    <3> QED
      BY <3>1, <3>2 DEF TypeOK
  <2> QED
    BY <1>2, <2>1 DEF ImpCtxFreeNode, TypeOK
<1>3. CASE ImpCtxFreeDone
  BY <1>3 DEF ImpCtxFreeDone, TypeOK
<1>4. CASE ImpRecvGet
  <2>1. /\ Tail(to_imp) \in Seq(ToImporter)
        /\ <<Head(to_imp)>> \in Seq(ToImporter)
    BY <1>4, ChannelHead DEF ImpRecvGet, TypeOK
  <2> QED
    BY <1>4, <2>1 DEF ImpRecvGet, TypeOK
<1>5. CASE ImpRecvDrop \/ ImpRecvClose
  BY <1>5, QueueBasics DEF ImpRecvDrop, ImpRecvClose, TypeOK
<1>6. CASE ImpRecvAck \/ ImpRecvAckNoMem \/ ImpRecvAckFail
  <2>1. Head(imp_rx).id \in Ids
    BY <1>6, ChannelHead, MsgId
    DEF ImpRecvAck, ImpRecvAckNoMem, ImpRecvAckFail, TypeOK
  <2>2. \A added \in BOOLEAN :
          Append(imp_rxq, [id |-> Head(imp_rx).id, added |-> added])
            \in Seq(Acks)
    BY <2>1 DEF Acks, TypeOK
  <2>3. Append(to_exp, Msg("UNIMPORT", Head(imp_rx).id)) \in Seq(ToExporter)
    BY <2>1, MsgType DEF TypeOK
  <2>4. CASE ImpRecvAck
    BY <2>1, <2>2, <2>4, QueueBasics DEF ImpRecvAck, TypeOK
  <2>5. CASE ImpRecvAckNoMem
    BY <2>2, <2>3, <2>5, QueueBasics DEF ImpRecvAckNoMem, TellExporter, TypeOK
  <2>6. CASE ImpRecvAckFail
    BY <2>2, <2>6, QueueBasics DEF ImpRecvAckFail, TypeOK
  <2> QED
    BY <1>6, <2>4, <2>5, <2>6
<1> QED
  BY <1>1, <1>2, <1>3, <1>4, <1>5, <1>6 DEF ImpTeardown, ImpRecv

(***************************************************************************)
(* Type correctness: the state of both sides and of the channels stays in  *)
(* its type; in particular every message handled carries a valid id.       *)
(***************************************************************************)
THEOREM TypeCorrect == Spec => []TypeOK
<1>1. ASSUME Init PROVE TypeOK
  <2>1. 1 \in Ids /\ 1 \in 1 .. MaxId + 1 /\ 0 \in 0 .. MaxCalls
    BY MimexAssumption DEF Ids
  <2>2. /\ req \in [Threads -> [id : Ids, match : BOOLEAN]]
        /\ pc \in [Threads -> PC]
        /\ imp_whse \in [Ids -> NodeStates]
        /\ exp_state \in [Ids -> {"EXPORTING", "SUCCESS"}]
        /\ remote_imported \in [Ids -> BOOLEAN]
    BY <1>1, <2>1 DEF Init, PC, NodeStates
  <2> QED
    BY <1>1, <2>1, <2>2, QueueBasics DEF Init, TypeOK
<1>2. TypeOK /\ [Next]_vars => TypeOK'
  <2> SUFFICES ASSUME TypeOK, [Next]_vars PROVE TypeOK'
    OBVIOUS
  <2>1. CASE Next
    BY <2>1, ExporterType, ExpRecvType, ImporterType, ImpRecvType DEF Next
  <2>2. CASE UNCHANGED vars
    BY <2>2 DEF vars, expSide, impSide, chans, expDesc, reclaim, expChan,
                impWhse, impChan, impThread, TypeOK
  <2> QED
    BY <2>1, <2>2
<1> QED
  BY <1>1, <1>2, PTL DEF Spec
-----------------------------------------------------------------------------
(* Tokens *)

(***************************************************************************)
(* Steps that touch neither the importer's tree and queue nor its threads  *)
(* and its receive path keep the token invariant.                          *)
(***************************************************************************)
LEMMA TokenFrame ==
  ASSUME OneTokenPerNode,
         UNCHANGED <<imp_whse, imp_rxq, pc, req, imp_closed, imp_rx>>
  PROVE  OneTokenPerNode'
BY DEF OneTokenPerNode, LookupFindsInit, NoUseAfterFree, OwnersDiffer,
       ImpTornDown, QueuedTokens, Owns, Holding

(***************************************************************************)
(* A thread that owns a descriptor, or a token for one, keeps it from the  *)
(* state IMPORTED and from being absent.                                   *)
(***************************************************************************)
LEMMA OwnedState ==
  ASSUME OneTokenPerNode, NEW t \in Threads, Owns(t)
  PROVE  imp_whse[req[t].id] \in {"INIT", "IMPORTING", "UNIMPORTING"}
BY DEF OneTokenPerNode, LookupFindsInit, NoUseAfterFree, Owns, Expected

(***************************************************************************)
(* A thread with a call in progress, or a channel that is still open,      *)
(* means that hab_ctx_free has not begun: the queued tokens are good.      *)
(***************************************************************************)
LEMMA NotTornDown ==
  ASSUME OneTokenPerNode,
         ~imp_closed \/ imp_rx # << >> \/ \E t \in Threads : pc[t] # "idle"
  PROVE  QueuedTokens
BY DEF OneTokenPerNode, ImpTornDown

(***************************************************************************)
(* The steps of hab_mem_import and hab_mem_unimport that leave imp_rxq     *)
(* alone.  Each changes the state of the node its thread owns, or of an    *)
(* IMPORTED node that nobody owns.                                         *)
(***************************************************************************)
LEMMA ThreadStepTokens ==
  ASSUME TypeOK, OneTokenPerNode, NEW t \in Threads,
         \/ \E id \in Ids, match \in BOOLEAN : ImportSend(t, id, match)
         \/ ImportTimeout(t) \/ ImportClosed(t) \/ ImportLookup(t)
         \/ ImportMap(t) \/ ImportMapFail(t)
         \/ RollbackSend(t) \/ RollbackRemove(t)
         \/ \E id \in Ids : UnimportFind(t, id)
         \/ UnimportStep(t)
  PROVE  OneTokenPerNode'
<1> USE DEF expDesc, reclaim, expChan, expSide, impWhse, impChan, impThread,
        impSide, chans
<1>0. QueuedTokens
  BY NotTornDown
  DEF ImportSend, ImportTimeout, ImportClosed, ImportLookup, ImportMap,
      ImportMapFail, RollbackSend, RollbackRemove, UnimportFind, UnimportStep,
      UnimportUnmap, UnimportSend, UnimportRemove
<1> SUFFICES LookupFindsInit' /\ NoUseAfterFree' /\ OwnersDiffer'
               /\ QueuedTokens'
  BY DEF OneTokenPerNode
<1> USE <1>0 DEF TypeOK, OneTokenPerNode, LookupFindsInit, NoUseAfterFree,
        OwnersDiffer, QueuedTokens, Owns, Holding, Expected, Acks
<1>1. ASSUME NEW id \in Ids, NEW match \in BOOLEAN, ImportSend(t, id, match)
      PROVE  LookupFindsInit' /\ NoUseAfterFree' /\ OwnersDiffer'
               /\ QueuedTokens'
  BY <1>1 DEF ImportSend
<1>2. CASE ImportTimeout(t)
  BY <1>2 DEF ImportTimeout
<1>10. CASE ImportClosed(t)
  BY <1>10 DEF ImportClosed
<1>3. CASE ImportLookup(t)
  BY <1>3 DEF ImportLookup
<1>4. CASE ImportMap(t)
  BY <1>4 DEF ImportMap
<1>5. CASE ImportMapFail(t)
  BY <1>5 DEF ImportMapFail
<1>6. CASE RollbackSend(t)
  BY <1>6 DEF RollbackSend
<1>7. CASE RollbackRemove(t)
  BY <1>7 DEF RollbackRemove
<1>8. ASSUME NEW id \in Ids, UnimportFind(t, id)
      PROVE  LookupFindsInit' /\ NoUseAfterFree' /\ OwnersDiffer'
               /\ QueuedTokens'
  BY <1>8, OwnedState DEF UnimportFind
<1>9. CASE UnimportUnmap(t)
  BY <1>9 DEF UnimportUnmap
<1>11. CASE UnimportSend(t)
  BY <1>11 DEF UnimportSend
<1>12. CASE UnimportRemove(t)
  BY <1>12 DEF UnimportRemove
<1> QED
  BY <1>1, <1>2, <1>3, <1>4, <1>5, <1>6, <1>7, <1>8, <1>9, <1>10, <1>11, <1>12
  DEF UnimportStep

(***************************************************************************)
(* hab_import_ack_find: the thread that takes a positive ack takes its     *)
(* token; an ack that ages out takes its token with it.                    *)
(***************************************************************************)
LEMMA AckStepTokens ==
  ASSUME TypeOK, OneTokenPerNode, NEW t \in Threads,
         ImportAck(t) \/ ImportAckExpire(t)
  PROVE  OneTokenPerNode'
<1> USE DEF expDesc, reclaim, expChan, expSide, impWhse, impChan, impThread,
        impSide, chans
<1>1. QueuedTokens
  BY NotTornDown DEF ImportAck, ImportAckExpire
<1> SUFFICES LookupFindsInit' /\ NoUseAfterFree' /\ OwnersDiffer'
               /\ QueuedTokens'
  BY DEF OneTokenPerNode
<1>2. PICK k \in 1 .. Len(imp_rxq) : imp_rxq' = Without(imp_rxq, k)
        /\ \/ ImportAckExpire(t) /\ UNCHANGED pc
           \/ /\ ImportAck(t)
              /\ IsFirstMatch(k, req[t].id)
              /\ pc' = [pc EXCEPT ![t] =
                          IF ~imp_otherend_closed /\ imp_rxq[k].added
                            THEN "lookup" ELSE "idle"]
  BY DEF ImportAck, ImportAckExpire
<1> DEFINE old(j) == IF j < k THEN j ELSE j + 1
<1>3. /\ Len(imp_rxq) \in Nat
      /\ imp_rxq' \in Seq(Acks)
      /\ Len(imp_rxq') = Len(imp_rxq) - 1
      /\ \A j \in 1 .. Len(imp_rxq') : imp_rxq'[j] = imp_rxq[old(j)]
  <2>1. imp_rxq \in Seq(Acks) /\ Len(imp_rxq) \in Nat
    BY LenProperties DEF TypeOK
  <2>2. /\ Without(imp_rxq, k) \in Seq(Acks)
        /\ Len(Without(imp_rxq, k)) = Len(imp_rxq) - 1
        /\ \A j \in 1 .. Len(imp_rxq) - 1 :
             Without(imp_rxq, k)[j] = IF j < k THEN imp_rxq[j] ELSE imp_rxq[j + 1]
    BY <2>1, WithoutType
  <2>3. \A j \in 1 .. Len(imp_rxq) - 1 :
          Without(imp_rxq, k)[j] = imp_rxq[old(j)]
    BY <2>2
  <2> QED
    BY <1>2, <2>1, <2>2, <2>3
<1>4. /\ \A j \in 1 .. Len(imp_rxq') : old(j) \in 1 .. Len(imp_rxq) /\ old(j) # k
      /\ \A i, j \in 1 .. Len(imp_rxq') : i # j => old(i) # old(j)
  BY <1>3
<1> HIDE DEF old
<1>5. UNCHANGED <<imp_whse, req>> /\ pc[t] = "ack_wait"
  BY DEF ImportAck, ImportAckExpire
<1>6. CASE ImportAckExpire(t) /\ UNCHANGED pc
  BY <1>1, <1>3, <1>4, <1>5, <1>6
  DEF OneTokenPerNode, LookupFindsInit, NoUseAfterFree, OwnersDiffer,
      QueuedTokens, Owns, Holding
<1>7. CASE ~imp_rxq[k].added \/ imp_otherend_closed
  <2>1. \/ UNCHANGED pc
        \/ pc' = [pc EXCEPT ![t] = "idle"]
    BY <1>2, <1>7
  <2>2. \A u \in Threads : Owns(u)' => Owns(u)
    BY <1>5, <2>1 DEF Owns, Holding, TypeOK
  <2>3. QueuedTokens'
    <3> SUFFICES ASSUME NEW j \in 1 .. Len(imp_rxq'), imp_rxq'[j].added
                 PROVE  /\ imp_whse'[imp_rxq'[j].id] = "INIT"
                        /\ \A u \in Threads :
                             Owns(u)' => req'[u].id # imp_rxq'[j].id
                        /\ \A i \in 1 .. Len(imp_rxq') :
                             i # j /\ imp_rxq'[i].added
                               => imp_rxq'[i].id # imp_rxq'[j].id
      BY DEF QueuedTokens
    <3>1. imp_rxq[old(j)].added /\ imp_rxq'[j] = imp_rxq[old(j)]
      BY <1>3
    <3>2. /\ imp_whse[imp_rxq[old(j)].id] = "INIT"
          /\ \A u \in Threads : Owns(u) => req[u].id # imp_rxq[old(j)].id
          /\ \A i \in 1 .. Len(imp_rxq) :
               i # old(j) /\ imp_rxq[i].added
                 => imp_rxq[i].id # imp_rxq[old(j)].id
      BY <1>1, <1>4, <3>1 DEF QueuedTokens
    <3> QED
      BY <1>3, <1>4, <1>5, <2>2, <3>1, <3>2
  <2>4. LookupFindsInit' /\ NoUseAfterFree' /\ OwnersDiffer'
    BY <1>5, <2>1, <2>2
    DEF OneTokenPerNode, LookupFindsInit, NoUseAfterFree, OwnersDiffer, Owns,
        Holding, TypeOK
  <2> QED
    BY <2>3, <2>4
<1>8. CASE /\ imp_rxq[k].added /\ imp_rxq[k].id = req[t].id
           /\ pc' = [pc EXCEPT ![t] = "lookup"]
  <2>1. /\ imp_whse[req[t].id] = "INIT"
        /\ \A u \in Threads : Owns(u) => req[u].id # req[t].id
    BY <1>1, <1>8 DEF QueuedTokens
  <2>2. \A u \in Threads : Owns(u)' => Owns(u) \/ u = t
    BY <1>8 DEF Owns, Holding, TypeOK
  <2>3. LookupFindsInit' /\ NoUseAfterFree'
    BY <1>5, <1>8, <2>1, <2>2
    DEF OneTokenPerNode, LookupFindsInit, NoUseAfterFree, Owns, Holding, TypeOK
  <2>4. OwnersDiffer'
    BY <1>5, <2>1, <2>2 DEF OneTokenPerNode, OwnersDiffer
  <2>5. QueuedTokens'
    <3> SUFFICES ASSUME NEW j \in 1 .. Len(imp_rxq'), imp_rxq'[j].added
                 PROVE  /\ imp_whse'[imp_rxq'[j].id] = "INIT"
                        /\ \A u \in Threads :
                             Owns(u)' => req'[u].id # imp_rxq'[j].id
                        /\ \A i \in 1 .. Len(imp_rxq') :
                             i # j /\ imp_rxq'[i].added
                               => imp_rxq'[i].id # imp_rxq'[j].id
      BY DEF QueuedTokens
    <3>1. imp_rxq[old(j)].added /\ imp_rxq'[j] = imp_rxq[old(j)]
      BY <1>3
    <3>2. /\ imp_whse[imp_rxq[old(j)].id] = "INIT"
          /\ \A u \in Threads : Owns(u) => req[u].id # imp_rxq[old(j)].id
          /\ \A i \in 1 .. Len(imp_rxq) :
               i # old(j) /\ imp_rxq[i].added
                 => imp_rxq[i].id # imp_rxq[old(j)].id
      BY <1>1, <1>4, <3>1 DEF QueuedTokens
    <3> QED
      BY <1>3, <1>4, <1>5, <1>8, <2>2, <3>1, <3>2
  <2> QED
    BY <2>3, <2>4, <2>5
<1> QED
  BY <1>2, <1>6, <1>7, <1>8 DEF IsFirstMatch, Matches

(***************************************************************************)
(* The receive path: hab_receive_export_desc creates a token only together *)
(* with a descriptor that was not there.                                   *)
(***************************************************************************)
LEMMA RecvStepTokens ==
  ASSUME TypeOK, OneTokenPerNode, ImpRecv
  PROVE  OneTokenPerNode'
<1> USE DEF expDesc, reclaim, expChan, expSide, impWhse, impChan, impThread,
        impSide, chans
<1>1. CASE ImpRecvGet
  <2>1. UNCHANGED <<imp_whse, imp_rxq, pc, req>> /\ (ImpTornDown => ImpTornDown')
    BY <1>1 DEF ImpRecvGet, ImpTornDown
  <2> QED
    BY <2>1 DEF OneTokenPerNode, LookupFindsInit, NoUseAfterFree,
                OwnersDiffer, QueuedTokens, Owns, Holding
<1>2. CASE ImpRecvDrop \/ ImpRecvClose
  <2>1. UNCHANGED <<imp_whse, imp_rxq, pc, req>> /\ QueuedTokens
    BY <1>2, NotTornDown DEF ImpRecvDrop, ImpRecvClose
  <2> QED
    BY <2>1 DEF OneTokenPerNode, LookupFindsInit, NoUseAfterFree,
                OwnersDiffer, QueuedTokens, Owns, Holding
<1>3. CASE ImpRecvAck \/ ImpRecvAckNoMem \/ ImpRecvAckFail
  <2> DEFINE id == Head(imp_rx).id
  <2>1. QueuedTokens /\ UNCHANGED <<pc, req>>
    BY <1>3, NotTornDown DEF ImpRecvAck, ImpRecvAckNoMem, ImpRecvAckFail
  <2>2. id \in Ids
    BY <1>3, ChannelHead, MsgId
    DEF ImpRecvAck, ImpRecvAckNoMem, ImpRecvAckFail, TypeOK
  <2> HIDE DEF id
  <2>3. \/ UNCHANGED <<imp_whse, imp_rxq>>
        \/ /\ imp_rxq' = Append(imp_rxq, [id |-> id, added |-> FALSE])
           /\ UNCHANGED imp_whse
        \/ /\ imp_rxq' = Append(imp_rxq, [id |-> id, added |-> TRUE])
           /\ imp_whse[id] = "none"
           /\ imp_whse' = [imp_whse EXCEPT ![id] = "INIT"]
    BY <1>3 DEF ImpRecvAck, ImpRecvAckNoMem, ImpRecvAckFail, id
  <2>4. ASSUME NEW a \in Acks, imp_rxq' = Append(imp_rxq, a)
        PROVE  /\ Len(imp_rxq) \in Nat
               /\ Len(imp_rxq') = Len(imp_rxq) + 1
               /\ \A j \in 1 .. Len(imp_rxq) : imp_rxq'[j] = imp_rxq[j]
               /\ imp_rxq'[Len(imp_rxq) + 1] = a
    BY <2>4, LenProperties, AppendProperties DEF TypeOK
  <2>5. CASE UNCHANGED <<imp_whse, imp_rxq>>
    BY <2>1, <2>5
    DEF OneTokenPerNode, LookupFindsInit, NoUseAfterFree, OwnersDiffer,
        QueuedTokens, Owns, Holding
  <2>6. CASE /\ imp_rxq' = Append(imp_rxq, [id |-> id, added |-> FALSE])
             /\ UNCHANGED imp_whse
    <3> DEFINE a == [id |-> id, added |-> FALSE]
    <3>1. a \in Acks /\ ~a.added
      BY <2>2 DEF Acks
    <3>2. QueuedTokens'
      BY <2>1, <2>4, <2>6, <3>1 DEF QueuedTokens, Owns, Holding
    <3> QED
      BY <2>1, <2>6, <3>2
      DEF OneTokenPerNode, LookupFindsInit, NoUseAfterFree, OwnersDiffer,
          Owns, Holding
  <2>7. CASE /\ imp_rxq' = Append(imp_rxq, [id |-> id, added |-> TRUE])
             /\ imp_whse[id] = "none"
             /\ imp_whse' = [imp_whse EXCEPT ![id] = "INIT"]
    <3> DEFINE a == [id |-> id, added |-> TRUE]
    <3>1. a \in Acks /\ a.id = id
      BY <2>2 DEF Acks
    <3>2. \A t \in Threads : Owns(t) => req[t].id # id
      BY <2>7, OwnedState
    <3>3. \A k \in 1 .. Len(imp_rxq) : imp_rxq[k].added => imp_rxq[k].id # id
      BY <2>1, <2>7 DEF QueuedTokens
    <3>4. \A i \in Ids : i # id => imp_whse'[i] = imp_whse[i]
      BY <2>7 DEF TypeOK
    <3>5. imp_whse'[id] = "INIT"
      BY <2>2, <2>7 DEF TypeOK
    <3>6. LookupFindsInit' /\ NoUseAfterFree' /\ OwnersDiffer'
      BY <2>1, <3>2, <3>4
      DEF OneTokenPerNode, LookupFindsInit, NoUseAfterFree, OwnersDiffer,
          Owns, Holding, TypeOK
    <3>7. QueuedTokens'
      <4>1. \A k \in 1 .. Len(imp_rxq) : imp_rxq[k].id \in Ids
        <5>1. \A k \in 1 .. Len(imp_rxq) : imp_rxq[k] \in Acks
          BY ElementOfSeq DEF TypeOK
        <5> QED
          BY <5>1 DEF Acks
      <4>2. /\ Len(imp_rxq) \in Nat
            /\ Len(imp_rxq') = Len(imp_rxq) + 1
            /\ \A j \in 1 .. Len(imp_rxq) : imp_rxq'[j] = imp_rxq[j]
            /\ imp_rxq'[Len(imp_rxq) + 1].id = id
        BY <2>4, <2>7, <3>1
      <4>3. \A t \in Threads : Owns(t)' <=> Owns(t)
        BY <2>1 DEF Owns, Holding
      <4> QED
        BY <2>1, <3>2, <3>3, <3>4, <3>5, <4>1, <4>2, <4>3 DEF QueuedTokens
    <3> QED
      BY <3>6, <3>7 DEF OneTokenPerNode
  <2> QED
    BY <2>3, <2>5, <2>6, <2>7
<1> QED
  BY <1>1, <1>2, <1>3 DEF ImpRecv

(***************************************************************************)
(* The teardown: closing changes no token, and hab_ctx_free runs when no   *)
(* thread is left that could own one.                                      *)
(***************************************************************************)
LEMMA TeardownTokens ==
  ASSUME TypeOK, OneTokenPerNode, ImpTeardown
  PROVE  OneTokenPerNode'
<1> USE DEF expDesc, reclaim, expChan, expSide, impWhse, impChan, impThread,
        impSide, chans
<1>1. CASE ImpClose
  <2>1. UNCHANGED <<imp_whse, imp_rxq, pc, req>> /\ QueuedTokens
    BY <1>1, NotTornDown DEF ImpClose
  <2> QED
    BY <2>1 DEF OneTokenPerNode, LookupFindsInit, NoUseAfterFree,
                OwnersDiffer, QueuedTokens, Owns, Holding
<1>2. CASE (\E id \in Ids : ImpCtxFreeNode(id)) \/ ImpCtxFreeDone
  <2>1. /\ ImpTornDown /\ ImpTornDown'
        /\ \A t \in Threads : pc'[t] = "idle"
    BY <1>2 DEF ImpCtxFreeNode, ImpCtxFreeDone, ImpUnreferenced, ImpTornDown
  <2> QED
    BY <2>1 DEF OneTokenPerNode, LookupFindsInit, NoUseAfterFree,
                OwnersDiffer, Owns, Holding
<1> QED
  BY <1>1, <1>2 DEF ImpTeardown

(***************************************************************************)
(* The token invariant holds in every reachable state: a positive import   *)
(* ack is never doubled, for any number of importing threads, exports and  *)
(* faults.                                                                 *)
(***************************************************************************)
THEOREM TokensCorrect == Spec => []OneTokenPerNode
<1>1. Init => OneTokenPerNode
  BY DEF Init, OneTokenPerNode, LookupFindsInit, NoUseAfterFree, OwnersDiffer,
         QueuedTokens, Owns, Holding
<1>2. TypeOK /\ OneTokenPerNode /\ [Next]_vars => OneTokenPerNode'
  <2> SUFFICES ASSUME TypeOK, OneTokenPerNode, [Next]_vars
               PROVE  OneTokenPerNode'
    OBVIOUS
  <2>1. CASE Exporter \/ ReclaimWorker \/ ExpRecv
    <3>1. UNCHANGED impSide
      BY <2>1
      DEF Exporter, ReclaimWorker, ExpRecv, ExportGrant, ExportPublish,
          ExportTooLarge, ExportGrantFail, Unexport, UnexportRelease,
          ExpCtxFreeExport, ExpCtxFreeEnlist, ExpClose, ReclaimScan,
          ReclaimFree, ExpRecvGet, ExpRecvDrop, ExpRecvImport,
          ExpRecvUnimport, ExpRecvClose
    <3> QED
      BY <3>1, TokenFrame DEF impSide, impWhse, impChan, impThread
  <2>2. ASSUME NEW t \in Threads, Importer(t) PROVE OneTokenPerNode'
    <3>1. CASE ImportSendFail(t)
      BY <3>1, TokenFrame DEF ImportSendFail, impWhse, impChan
    <3> QED
      BY <2>2, <3>1, ThreadStepTokens, AckStepTokens DEF Importer, ImportStep
  <2>3. CASE ImpTeardown \/ ImpRecv
    BY <2>3, TeardownTokens, RecvStepTokens
  <2>4. CASE UNCHANGED vars
    BY <2>4, TokenFrame DEF vars, impSide, impWhse, impChan, impThread
  <2> QED
    BY <2>1, <2>2, <2>3, <2>4 DEF Next
<1> QED
  BY <1>1, <1>2, TypeCorrect, PTL DEF Spec

(***************************************************************************)
(* The four races described at enum exp_desc_state cannot happen: no       *)
(* thread uses a descriptor that another thread uses or has freed.         *)
(***************************************************************************)
THEOREM UseAfterFreeExcluded == Spec => []NoUseAfterFree
<1>1. OneTokenPerNode => NoUseAfterFree
  BY DEF OneTokenPerNode
<1> QED
  BY <1>1, TokensCorrect, PTL

(***************************************************************************)
(* The lookup of hab_mem_import after a positive ack always finds its      *)
(* descriptor in state INIT: its two error returns are never taken.        *)
(***************************************************************************)
THEOREM LookupCorrect == Spec => []LookupFindsInit
<1>1. OneTokenPerNode => LookupFindsInit
  BY DEF OneTokenPerNode
<1> QED
  BY <1>1, TokensCorrect, PTL

(***************************************************************************)
(* A descriptor is freed by its owner, in the last step of that owner.     *)
(***************************************************************************)
THEOREM FreeCorrect == Spec => FreedByOwnerOnly
<1> DEFINE P == \A t \in Threads, id \in Ids :
                  /\ imp_whse[id] # "none" /\ imp_whse'[id] = "none"
                  /\ Holding(t) /\ req[t].id = id
                  => pc'[t] = "idle"
<1>1. TypeOK /\ OneTokenPerNode /\ [Next]_vars => [P]_vars
  <2> SUFFICES ASSUME TypeOK, OneTokenPerNode, Next,
                      NEW t \in Threads, NEW id \in Ids,
                      imp_whse[id] # "none", imp_whse'[id] = "none",
                      Holding(t), req[t].id = id
               PROVE  pc'[t] = "idle"
    OBVIOUS
  <2> USE DEF expDesc, reclaim, expChan, expSide, impWhse, impChan, impThread,
          impSide, chans
  <2>1. CASE Exporter \/ ReclaimWorker \/ ExpRecv
    BY <2>1
    DEF Exporter, ReclaimWorker, ExpRecv, ExportGrant, ExportPublish,
        ExportTooLarge, ExportGrantFail, Unexport, UnexportRelease,
        ExpCtxFreeExport, ExpCtxFreeEnlist, ExpClose, ReclaimScan,
        ReclaimFree, ExpRecvGet, ExpRecvDrop, ExpRecvImport,
        ExpRecvUnimport, ExpRecvClose
  <2>2. ASSUME NEW u \in Threads, Importer(u) PROVE pc'[t] = "idle"
    <3>1. CASE RollbackRemove(u) \/ UnimportRemove(u)
      <4>1. req[u].id = id /\ Holding(u) /\ pc' = [pc EXCEPT ![u] = "idle"]
        BY <3>1 DEF RollbackRemove, UnimportRemove, TypeOK, Holding
      <4>2. t = u
        BY <4>1 DEF OneTokenPerNode, OwnersDiffer, Owns
      <4> QED
        BY <4>1, <4>2 DEF TypeOK
    <3>2. CASE ImportLookup(u) \/ ImportMap(u) \/ ImportMapFail(u)
      BY <3>2 DEF ImportLookup, ImportMap, ImportMapFail, TypeOK
    <3>3. CASE \E i \in Ids : UnimportFind(u, i)
      BY <3>3 DEF UnimportFind, TypeOK
    <3>4. CASE \/ \E i \in Ids, match \in BOOLEAN : ImportSend(u, i, match)
               \/ ImportTimeout(u) \/ ImportAckExpire(u) \/ ImportAck(u)
               \/ ImportClosed(u) \/ RollbackSend(u) \/ UnimportUnmap(u)
               \/ UnimportSend(u) \/ ImportSendFail(u)
      BY <3>4 DEF ImportSend, ImportSendFail, ImportTimeout, ImportAckExpire, ImportAck,
                  ImportClosed, RollbackSend, UnimportUnmap, UnimportSend
    <3> QED
      BY <2>2, <3>1, <3>2, <3>3, <3>4 DEF Importer, ImportStep, UnimportStep
  <2>3. CASE ImpTeardown
    BY <2>3 DEF ImpTeardown, ImpClose, ImpCtxFreeNode, ImpCtxFreeDone,
                ImpUnreferenced, Holding
  <2>4. CASE ImpRecv
    BY <2>4 DEF ImpRecv, ImpRecvGet, ImpRecvDrop, ImpRecvAck, ImpRecvAckNoMem,
                ImpRecvAckFail, ImpRecvClose, TypeOK
  <2> QED
    BY <2>1, <2>2, <2>3, <2>4 DEF Next
<1> QED
  BY <1>1, TypeCorrect, TokensCorrect, PTL DEF Spec, FreedByOwnerOnly
-----------------------------------------------------------------------------
(* Release of exports *)

(***************************************************************************)
(* The exporter's own steps keep the ownership of exports.                 *)
(***************************************************************************)
LEMMA ExporterOwnership ==
  ASSUME TypeOK, ExportOwnership, Exporter \/ ReclaimWorker
  PROVE  ExportOwnership'
<1> USE DEF TypeOK, Ids, ExportOwnership, ExportReleasedOnce, expDesc, reclaim,
        expChan, expSide
<1>1. CASE ExportGrant
  <2>1. idr_next \notin pinned /\ idr_next \in Ids
    BY <1>1 DEF ExportGrant
  <2>2. reclaiming = {} /\ reclaim_list = {} /\ free_list = {}
    BY <1>1 DEF ExportGrant
  <2>3. exp_state[idr_next] = "EXPORTING"
    BY <1>1, <2>1 DEF ExportGrant
  <2>8. ExportReleasedOnce'
    BY <1>1, <2>1, <2>2, <2>3 DEF ExportGrant
  <2>9. /\ (exporting \subseteq idr)'
        /\ (unexporting \cap idr = {})'
        /\ (exp_whse \subseteq idr \cup unexporting)'
    BY <1>1, <2>1, <2>2, <2>3 DEF ExportGrant
  <2>10. /\ (reclaiming \cup reclaim_list \cup free_list # {} =>
                exp_closed /\ exporting = {} /\ unexporting = {})'
         /\ (exp_closed => exp_otherend_closed)'
         /\ (\A i \in exporting : exp_state[i] = "EXPORTING")'
    BY <1>1, <2>1, <2>2, <2>3 DEF ExportGrant
  <2>11. /\ (\A i \in pinned : i < idr_next)'
         /\ (\A i \in Ids : i >= idr_next => exp_state[i] = "EXPORTING")'
    BY <1>1, <2>1, <2>2, <2>3 DEF ExportGrant
  <2> QED
    BY <2>8, <2>9, <2>10, <2>11
<1>2. CASE ExpClose
  BY <1>2 DEF ExpClose
<1>3. ASSUME NEW id \in Ids, ExportPublish(id) PROVE ExportOwnership'
  <2>1. id < idr_next
    BY <1>3 DEF ExportPublish
  <2>8. ExportReleasedOnce'
    BY <1>3, <2>1 DEF ExportPublish
  <2>9. /\ (exporting \subseteq idr)'
        /\ (unexporting \cap idr = {})'
        /\ (exp_whse \subseteq idr \cup unexporting)'
    BY <1>3, <2>1 DEF ExportPublish
  <2>10. /\ (reclaiming \cup reclaim_list \cup free_list # {} =>
                exp_closed /\ exporting = {} /\ unexporting = {})'
         /\ (exp_closed => exp_otherend_closed)'
         /\ (\A i \in exporting : exp_state[i] = "EXPORTING")'
    BY <1>3, <2>1 DEF ExportPublish
  <2>11. /\ (\A i \in pinned : i < idr_next)'
         /\ (\A i \in Ids : i >= idr_next => exp_state[i] = "EXPORTING")'
    BY <1>3, <2>1 DEF ExportPublish
  <2> QED
    BY <2>8, <2>9, <2>10, <2>11
<1>4. ASSUME NEW id \in Ids, ExportTooLarge(id) PROVE ExportOwnership'
  BY <1>4 DEF ExportTooLarge
<1>5. ASSUME NEW id \in Ids, ExportGrantFail(id) PROVE ExportOwnership'
  <2>1. id \notin exp_whse /\ id \notin unexporting
        /\ reclaiming \cup reclaim_list \cup free_list = {}
    BY <1>5 DEF ExportGrantFail
  <2>8. ExportReleasedOnce'
    BY <1>5, <2>1 DEF ExportGrantFail
  <2>9. /\ (exporting \subseteq idr)'
        /\ (unexporting \cap idr = {})'
        /\ (exp_whse \subseteq idr \cup unexporting)'
    BY <1>5, <2>1 DEF ExportGrantFail
  <2>10. /\ (reclaiming \cup reclaim_list \cup free_list # {} =>
                exp_closed /\ exporting = {} /\ unexporting = {})'
         /\ (exp_closed => exp_otherend_closed)'
         /\ (\A i \in exporting : exp_state[i] = "EXPORTING")'
    BY <1>5, <2>1 DEF ExportGrantFail
  <2>11. /\ (\A i \in pinned : i < idr_next)'
         /\ (\A i \in Ids : i >= idr_next => exp_state[i] = "EXPORTING")'
    BY <1>5, <2>1 DEF ExportGrantFail
  <2> QED
    BY <2>8, <2>9, <2>10, <2>11
<1>6. ASSUME NEW id \in Ids, Unexport(id) PROVE ExportOwnership'
  <2>1. id \notin exporting /\ id \in pinned
        /\ reclaiming \cup reclaim_list \cup free_list = {}
    BY <1>6 DEF Unexport
  <2>8. ExportReleasedOnce'
    BY <1>6, <2>1 DEF Unexport
  <2>9. /\ (exporting \subseteq idr)'
        /\ (unexporting \cap idr = {})'
        /\ (exp_whse \subseteq idr \cup unexporting)'
    BY <1>6, <2>1 DEF Unexport
  <2>10. /\ (reclaiming \cup reclaim_list \cup free_list # {} =>
                exp_closed /\ exporting = {} /\ unexporting = {})'
         /\ (exp_closed => exp_otherend_closed)'
         /\ (\A i \in exporting : exp_state[i] = "EXPORTING")'
    BY <1>6, <2>1 DEF Unexport
  <2>11. /\ (\A i \in pinned : i < idr_next)'
         /\ (\A i \in Ids : i >= idr_next => exp_state[i] = "EXPORTING")'
    BY <1>6, <2>1 DEF Unexport
  <2> QED
    BY <2>8, <2>9, <2>10, <2>11
<1>7. ASSUME NEW id \in Ids, UnexportRelease(id) PROVE ExportOwnership'
  <2>1. id \notin exporting /\ id \notin idr
        /\ reclaiming \cup reclaim_list \cup free_list = {}
    BY <1>7 DEF UnexportRelease
  <2>8. ExportReleasedOnce'
    BY <1>7, <2>1 DEF UnexportRelease
  <2>9. /\ (exporting \subseteq idr)'
        /\ (unexporting \cap idr = {})'
        /\ (exp_whse \subseteq idr \cup unexporting)'
    BY <1>7, <2>1 DEF UnexportRelease
  <2>10. /\ (reclaiming \cup reclaim_list \cup free_list # {} =>
                exp_closed /\ exporting = {} /\ unexporting = {})'
         /\ (exp_closed => exp_otherend_closed)'
         /\ (\A i \in exporting : exp_state[i] = "EXPORTING")'
    BY <1>7, <2>1 DEF UnexportRelease
  <2>11. /\ (\A i \in pinned : i < idr_next)'
         /\ (\A i \in Ids : i >= idr_next => exp_state[i] = "EXPORTING")'
    BY <1>7, <2>1 DEF UnexportRelease
  <2> QED
    BY <2>8, <2>9, <2>10, <2>11
<1>8. ASSUME NEW id \in Ids, ExpCtxFreeExport(id) PROVE ExportOwnership'
  <2>1. id \in exp_whse /\ id \in idr /\ id \in pinned
        /\ id \notin reclaiming \cup reclaim_list \cup free_list
    BY <1>8 DEF ExpCtxFreeExport
  <2>2. \/ /\ reclaiming' = reclaiming \cup {id}
           /\ UNCHANGED <<idr, pinned>>
        \/ /\ idr' = idr \ {id}
           /\ pinned' = pinned \ {id}
           /\ UNCHANGED reclaiming
    BY <1>8 DEF ExpCtxFreeExport
  <2>3. /\ exp_closed /\ exporting = {} /\ unexporting = {}
        /\ exp_whse' = exp_whse \ {id}
        /\ UNCHANGED <<idr_next, exp_state, exporting, unexporting, reclaim_list,
                       free_list, exp_closed, exp_otherend_closed>>
    BY <1>8 DEF ExpCtxFreeExport
  <2>8. ExportReleasedOnce'
    <3>1. CASE reclaiming' = reclaiming \cup {id} /\ UNCHANGED <<idr, pinned>>
      BY <2>1, <2>3, <3>1
    <3>2. CASE /\ idr' = idr \ {id}
               /\ pinned' = pinned \ {id}
               /\ UNCHANGED reclaiming
      <4>1. /\ idr' \subseteq pinned'
            /\ unexporting' \cup exp_whse' \cup exporting' \subseteq pinned'
        BY <2>1, <2>3, <3>2
      <4>2. /\ reclaiming' \cup reclaim_list' \cup free_list' \subseteq pinned'
            /\ reclaiming' \cup reclaim_list' \cup free_list' \subseteq idr'
        BY <2>1, <2>3, <3>2
      <4> QED
        BY <2>1, <2>3, <3>2, <4>1, <4>2
    <3> QED
      BY <2>2, <3>1, <3>2
  <2>9. /\ (exporting \subseteq idr)'
        /\ (unexporting \cap idr = {})'
        /\ (exp_whse \subseteq idr \cup unexporting)'
    BY <2>1, <2>2, <2>3
  <2>10. /\ (reclaiming \cup reclaim_list \cup free_list # {} =>
                exp_closed /\ exporting = {} /\ unexporting = {})'
         /\ (exp_closed => exp_otherend_closed)'
         /\ (\A i \in exporting : exp_state[i] = "EXPORTING")'
    BY <2>1, <2>2, <2>3
  <2>11. /\ (\A i \in pinned : i < idr_next)'
         /\ (\A i \in Ids : i >= idr_next => exp_state[i] = "EXPORTING")'
    BY <2>1, <2>2, <2>3
  <2> QED
    BY <2>8, <2>9, <2>10, <2>11
<1>9. ASSUME NEW id \in Ids, ExpCtxFreeEnlist(id) PROVE ExportOwnership'
  <2>1. exp_closed /\ exporting = {} /\ unexporting = {}
    BY <1>9 DEF ExpCtxFreeEnlist
  <2>8. ExportReleasedOnce'
    BY <1>9, <2>1 DEF ExpCtxFreeEnlist
  <2>9. /\ (exporting \subseteq idr)'
        /\ (unexporting \cap idr = {})'
        /\ (exp_whse \subseteq idr \cup unexporting)'
    BY <1>9, <2>1 DEF ExpCtxFreeEnlist
  <2>10. /\ (reclaiming \cup reclaim_list \cup free_list # {} =>
                exp_closed /\ exporting = {} /\ unexporting = {})'
         /\ (exp_closed => exp_otherend_closed)'
         /\ (\A i \in exporting : exp_state[i] = "EXPORTING")'
    BY <1>9, <2>1 DEF ExpCtxFreeEnlist
  <2>11. /\ (\A i \in pinned : i < idr_next)'
         /\ (\A i \in Ids : i >= idr_next => exp_state[i] = "EXPORTING")'
    BY <1>9, <2>1 DEF ExpCtxFreeEnlist
  <2> QED
    BY <2>8, <2>9, <2>10, <2>11
<1>10. CASE ReclaimScan
  BY <1>10 DEF ReclaimScan
<1>11. ASSUME NEW id \in Ids, ReclaimFree(id) PROVE ExportOwnership'
  <2>1. exp_closed /\ exporting = {} /\ unexporting = {}
    BY <1>11 DEF ReclaimFree
  <2>8. ExportReleasedOnce'
    BY <1>11, <2>1 DEF ReclaimFree
  <2>9. /\ (exporting \subseteq idr)'
        /\ (unexporting \cap idr = {})'
        /\ (exp_whse \subseteq idr \cup unexporting)'
    BY <1>11, <2>1 DEF ReclaimFree
  <2>10. /\ (reclaiming \cup reclaim_list \cup free_list # {} =>
                exp_closed /\ exporting = {} /\ unexporting = {})'
         /\ (exp_closed => exp_otherend_closed)'
         /\ (\A i \in exporting : exp_state[i] = "EXPORTING")'
    BY <1>11, <2>1 DEF ReclaimFree
  <2>11. /\ (\A i \in pinned : i < idr_next)'
         /\ (\A i \in Ids : i >= idr_next => exp_state[i] = "EXPORTING")'
    BY <1>11, <2>1 DEF ReclaimFree
  <2> QED
    BY <2>8, <2>9, <2>10, <2>11
<1> QED
  BY <1>1, <1>2, <1>3, <1>4, <1>5, <1>6, <1>7, <1>8, <1>9, <1>10, <1>11
  DEF Exporter, ReclaimWorker

(***************************************************************************)
(* What the exporter receives takes no export from its owner.              *)
(***************************************************************************)
LEMMA RecvOwnership ==
  ASSUME TypeOK, ExportOwnership, ExpRecv
  PROVE  ExportOwnership'
<1>1. /\ UNCHANGED <<idr, idr_next, exp_state, exp_whse, pinned, exporting,
                     unexporting, reclaiming, reclaim_list, free_list, exp_closed>>
      /\ exp_otherend_closed => exp_otherend_closed'
  BY DEF ExpRecv, ExpRecvGet, ExpRecvDrop, ExpRecvImport, ExpRecvUnimport,
         ExpRecvClose, RecvUnimport, expDesc, reclaim, TypeOK
<1> QED
  BY <1>1 DEF ExportOwnership, ExportReleasedOnce

(***************************************************************************)
(* The importer's side never writes the exporter's state.                  *)
(***************************************************************************)
LEMMA ImporterFrame ==
  ASSUME (\E t \in Threads : Importer(t)) \/ ImpTeardown \/ ImpRecv
  PROVE  UNCHANGED expSide
<1>1. ASSUME NEW t \in Threads, Importer(t) PROVE UNCHANGED expSide
  BY <1>1 DEF Importer, ImportStep, UnimportStep, ImportSend,
     ImportSendFail, ImportTimeout, ImportAckExpire, ImportAck, ImportClosed, ImportLookup, ImportMap,
     ImportMapFail, RollbackSend, RollbackRemove, UnimportFind, UnimportUnmap,
     UnimportSend, UnimportRemove
<1>2. ASSUME ImpTeardown \/ ImpRecv PROVE UNCHANGED expSide
  BY <1>2 DEF ImpTeardown, ImpRecv, ImpClose, ImpCtxFreeNode, ImpCtxFreeDone,
     ImpRecvGet, ImpRecvDrop, ImpRecvAck, ImpRecvAckNoMem, ImpRecvAckFail,
     ImpRecvClose
<1> QED
  BY <1>1, <1>2

(***************************************************************************)
(* Nor does a step that leaves the exporter alone.                         *)
(***************************************************************************)
LEMMA OwnershipFrame ==
  ASSUME ExportOwnership, UNCHANGED expSide
  PROVE  ExportOwnership'
BY DEF ExportOwnership, ExportReleasedOnce, expSide, expDesc, reclaim, expChan

(***************************************************************************)
(* The ownership of the export descriptors is kept by every step: by the   *)
(* exporter's threads and the reclaim worker because each takes an export  *)
(* over only from the one before it, by the rest because they touch only   *)
(* remote_imported and the pending work.                                   *)
(***************************************************************************)
THEOREM OwnershipCorrect == Spec => []ExportOwnership
<1>1. Init => ExportOwnership
  BY MimexAssumption DEF Init, ExportOwnership, ExportReleasedOnce, Ids
<1>2. TypeOK /\ ExportOwnership /\ [Next]_vars => ExportOwnership'
  <2> SUFFICES ASSUME TypeOK, ExportOwnership, [Next]_vars
               PROVE  ExportOwnership'
    OBVIOUS
  <2>1. CASE Exporter \/ ReclaimWorker
    BY <2>1, ExporterOwnership
  <2>2. CASE ExpRecv
    BY <2>2, RecvOwnership
  <2>3. CASE (\E t \in Threads : Importer(t)) \/ ImpTeardown \/ ImpRecv
    BY <2>3, ImporterFrame, OwnershipFrame
  <2>4. CASE UNCHANGED vars
    BY <2>4, OwnershipFrame DEF vars
  <2> QED
    BY <2>1, <2>2, <2>3, <2>4 DEF Next
<1> QED
  BY <1>1, <1>2, TypeCorrect, PTL DEF Spec

(***************************************************************************)
(* Every export the receive path can find exists, and each is released by  *)
(* a single owner (hab_mem_unexport, hab_ctx_free, reclaim_cleanup).       *)
(***************************************************************************)
THEOREM ReleaseCorrect == Spec => []ExportReleasedOnce
<1>1. ExportOwnership => ExportReleasedOnce
  BY DEF ExportOwnership
<1> QED
  BY <1>1, OwnershipCorrect, PTL

(***************************************************************************)
(* When no other context holds the vchan an UNIMPORT without vchan would   *)
(* be taken for, hab_recv_unimport_msg always finds the reclaim worker to  *)
(* schedule: an export on the reclaim list that is no longer imported is   *)
(* one the worker is still going to see.                                   *)
(***************************************************************************)
THEOREM ReclaimCorrect ==
  ASSUME ~SharedFirst
  PROVE  Spec => []ReclaimNotLost
<1>1. Init => ReclaimNotLost
  BY DEF Init, ReclaimNotLost
<1>2. TypeOK /\ ExportOwnership /\ ReclaimNotLost /\ [Next]_vars
        => ReclaimNotLost'
  <2> SUFFICES ASSUME TypeOK, ExportOwnership, ReclaimNotLost, [Next]_vars
               PROVE  ReclaimNotLost'
    OBVIOUS
  <2> USE DEF ReclaimNotLost, expDesc, reclaim, expChan, expSide
  <2>1. CASE Exporter
    BY <2>1 DEF Exporter, ExportGrant, ExportPublish, ExportTooLarge,
       ExportGrantFail, Unexport, UnexportRelease, ExpCtxFreeExport,
       ExpCtxFreeEnlist, ExpClose
  <2>2. CASE ReclaimWorker
    BY <2>2 DEF ReclaimWorker, ReclaimScan, ReclaimFree
  <2>4. CASE ExpRecvGet
    <3>1. SharedFirst = FALSE
      BY MimexAssumption
    <3>2. \/ UNCHANGED <<expDesc, reclaim>>
          \/ RecvUnimport(Head(to_exp).id, FALSE)
      BY <2>4, <3>1 DEF ExpRecvGet
    <3>3. CASE UNCHANGED <<expDesc, reclaim>>
      BY <3>3
    <3>4. CASE RecvUnimport(Head(to_exp).id, FALSE)
      BY <3>4 DEF RecvUnimport
    <3> QED
      BY <3>2, <3>3, <3>4
  <2>5. CASE ExpRecvDrop \/ ExpRecvClose
    BY <2>5 DEF ExpRecvDrop, ExpRecvClose
  <2>6. CASE ExpRecvImport
    BY <2>6 DEF ExpRecvImport, TypeOK
  <2>7. CASE ExpRecvUnimport
    <3>1. reclaim_list = {}
      BY <2>7 DEF ExpRecvUnimport, ExportOwnership
    <3> QED
      BY <2>7, <3>1 DEF ExpRecvUnimport, RecvUnimport
  <2>8. CASE (\E t \in Threads : Importer(t)) \/ ImpTeardown \/ ImpRecv
    BY <2>8, ImporterFrame
  <2>9. CASE UNCHANGED vars
    BY <2>9 DEF vars
  <2> QED
    BY <2>1, <2>2, <2>4, <2>5, <2>6, <2>7, <2>8, <2>9 DEF Next, ExpRecv
<1> QED
  BY <1>1, <1>2, TypeCorrect, OwnershipCorrect, PTL DEF Spec
=============================================================================
