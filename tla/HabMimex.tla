------------------------------ MODULE HabMimex ------------------------------
(***************************************************************************)
(* Memory sharing between an exporting and an importing context over one   *)
(* virtual channel, memory protocol 1 (hab_mimex.c, hab_msg.c, the         *)
(* garbage collection of hab_ctx_free in hab.c and the reclaim worker in   *)
(* hab_linux.c).                                                           *)
(*                                                                         *)
(* The exporter keeps the export descriptors of the physical channel       *)
(* (expid_idr) and of its context (exp_whse).  The importer keeps a tree   *)
(* of received descriptors (imp_whse) and a queue of received import acks  *)
(* (imp_rxq); several of its threads may be inside hab_mem_import and      *)
(* hab_mem_unimport at once.  The two sides exchange messages over two     *)
(* FIFO channels, each drained by the receive path of one side.            *)
(*                                                                         *)
(* Atomicity follows the locks: what the code does under expid_lock,       *)
(* exp_lock, imp_lock or impq_lock is one step, and every unlock is a      *)
(* point where any other thread may run.                                   *)
(***************************************************************************)
EXTENDS Integers, Sequences

CONSTANTS
  MaxId,       \* bound: number of exports (expid_idr hands out ids cyclically)
  MaxCalls,    \* bound: number of calls of hab_mem_import
  Threads,     \* threads of the importing process
  Faults,      \* which of "timeout", "nomem", "aging", "toobig", "send" (an
               \* IMPORT is not sent and the caller sees it), "unsent" (any
               \* other message is not sent and nobody looks) can happen
  SharedFirst  \* TRUE: another context of the exporting VM holds the virtual
               \* channel with id 1 and session 1 open on the same pchan

ASSUME MimexAssumption ==
  /\ MaxId \in Nat \ {0}
  /\ MaxCalls \in Nat
  /\ Faults \subseteq {"timeout", "nomem", "aging", "toobig", "send", "unsent"}
  /\ SharedFirst \in BOOLEAN

Ids == 1 .. MaxId

(***************************************************************************)
(* import_state of a descriptor in imp_whse; "none": not in the tree.      *)
(***************************************************************************)
NodeStates == {"none", "INIT", "IMPORTING", "IMPORTED", "UNIMPORTING"}

(***************************************************************************)
(* Where a thread of the importer stands:                                  *)
(*   ack_wait         IMPORT sent, in hab_import_ack_wait                  *)
(*   lookup           positive ack consumed, imp_lock not yet taken        *)
(*   importing        owns the node it found (IMPORTING)                   *)
(*   rollback         import failed after the node was found               *)
(*   rollback_remove  UNIMPORT sent, node not yet removed                  *)
(*   unmap            owns the node it found (UNIMPORTING)                 *)
(*   unimp_send       buffer unmapped, UNIMPORT not yet sent               *)
(*   unimp_remove     UNIMPORT sent, node not yet removed                  *)
(***************************************************************************)
PC == {"idle", "ack_wait", "lookup", "importing", "rollback",
       "rollback_remove", "unmap", "unimp_send", "unimp_remove"}

(***************************************************************************)
(* Messages.  UNIMPORT is addressed to the exporter's vchan; UNIMPORT_NV   *)
(* carries HAB_VCID_UNIMPORT and HAB_SESSIONID_UNIMPORT instead.  "match"  *)
(* says whether the page count of an IMPORT equals that of the export.     *)
(***************************************************************************)
Msg(type, id) == [type |-> type, id |-> id, match |-> TRUE]
CloseMsg == Msg("CLOSE", 0)

ToExporter ==
  [type : {"IMPORT", "UNIMPORT", "UNIMPORT_NV"}, id : Ids, match : BOOLEAN]
    \cup {CloseMsg}
ToImporter ==
  [type : {"IMPORT_ACK", "IMPORT_ACK_FAIL"}, id : Ids, match : {TRUE}]
    \cup {CloseMsg}

Acks == [id : Ids, added : BOOLEAN]

VARIABLES
  \* exporter
  idr,              \* export ids in pchan->expid_idr
  idr_next,         \* the cursor of idr_alloc_cyclic
  exp_state,        \* exp_state of each export descriptor
  remote_imported,  \* remote_imported of each export descriptor
  exp_whse,         \* ctx->exp_whse
  pinned,           \* exports whose buffer is still held (habmem_exp_release)
  exporting,        \* exports with a thread still in hab_mem_export
  unexporting,      \* exports with a thread in hab_mem_unexport past idr_remove
  exp_closed,       \* vchan->closed of the exporter's vchan
  exp_otherend_closed,
  exp_rx,           \* the message hab_msg_recv handles with a vchan reference
  reclaiming,       \* exports on their way to the reclaim list
  reclaim_list,     \* hab_driver.reclaim_list
  reclaim_work,     \* hab_driver.reclaim_work is pending
  free_list,        \* free_list of the running reclaim_cleanup
  \* importer
  imp_whse,         \* import_state of each descriptor in ctx->imp_whse
  imp_rxq,          \* ctx->imp_rxq
  imp_closed,
  imp_otherend_closed,
  imp_rx,
  imp_freed,        \* hab_ctx_free has finished
  pc, req,          \* step and request of each thread of the importer
  calls,            \* number of imports called so far
  \* physical channel
  to_exp, to_imp

expDesc   == <<idr, idr_next, exp_state, remote_imported, exp_whse, pinned,
               exporting, unexporting>>
reclaim   == <<reclaiming, reclaim_list, reclaim_work, free_list>>
expChan   == <<exp_closed, exp_otherend_closed, exp_rx>>
expSide   == <<expDesc, reclaim, expChan>>
impWhse   == <<imp_whse, imp_rxq>>
impChan   == <<imp_closed, imp_otherend_closed, imp_rx, imp_freed>>
impThread == <<pc, req, calls>>
impSide   == <<impWhse, impChan, impThread>>
chans     == <<to_exp, to_imp>>
vars      == <<expSide, impSide, chans>>

TypeOK ==
  /\ idr \subseteq Ids
  /\ idr_next \in 1 .. MaxId + 1
  /\ exp_state \in [Ids -> {"EXPORTING", "SUCCESS"}]
  /\ remote_imported \in [Ids -> BOOLEAN]
  /\ exp_whse \subseteq Ids
  /\ pinned \subseteq Ids
  /\ exporting \subseteq Ids
  /\ unexporting \subseteq Ids
  /\ exp_closed \in BOOLEAN
  /\ exp_otherend_closed \in BOOLEAN
  /\ exp_rx \in Seq(ToExporter)
  /\ reclaiming \subseteq Ids
  /\ reclaim_list \subseteq Ids
  /\ reclaim_work \in BOOLEAN
  /\ free_list \subseteq Ids
  /\ imp_whse \in [Ids -> NodeStates]
  /\ imp_rxq \in Seq(Acks)
  /\ imp_closed \in BOOLEAN
  /\ imp_otherend_closed \in BOOLEAN
  /\ imp_rx \in Seq(ToImporter)
  /\ imp_freed \in BOOLEAN
  /\ pc \in [Threads -> PC]
  /\ req \in [Threads -> [id : Ids, match : BOOLEAN]]
  /\ calls \in 0 .. MaxCalls
  /\ to_exp \in Seq(ToExporter)
  /\ to_imp \in Seq(ToImporter)

(***************************************************************************)
(* A virtual channel that is open on both sides, nothing exported yet.     *)
(***************************************************************************)
Init ==
  /\ idr = {}
  /\ idr_next = 1
  /\ exp_state = [i \in Ids |-> "EXPORTING"]
  /\ remote_imported = [i \in Ids |-> FALSE]
  /\ exp_whse = {}
  /\ pinned = {}
  /\ exporting = {}
  /\ unexporting = {}
  /\ exp_closed = FALSE
  /\ exp_otherend_closed = FALSE
  /\ exp_rx = << >>
  /\ reclaiming = {}
  /\ reclaim_list = {}
  /\ reclaim_work = FALSE
  /\ free_list = {}
  /\ imp_whse = [i \in Ids |-> "none"]
  /\ imp_rxq = << >>
  /\ imp_closed = FALSE
  /\ imp_otherend_closed = FALSE
  /\ imp_rx = << >>
  /\ imp_freed = FALSE
  /\ pc = [t \in Threads |-> "idle"]
  /\ req = [t \in Threads |-> [id |-> 1, match |-> TRUE]]
  /\ calls = 0
  /\ to_exp = << >>
  /\ to_imp = << >>

(***************************************************************************)
(* physical_channel_send where its result is dropped or only logged:       *)
(* hab_send_close_msg, hab_send_unimport_msg, both import acks, and the    *)
(* UNIMPORT of hab_ctx_free.                                               *)
(***************************************************************************)
TellImporter(m) == \/ to_imp' = Append(to_imp, m)
                   \/ "unsent" \in Faults /\ UNCHANGED to_imp
TellExporter(m) == \/ to_exp' = Append(to_exp, m)
                   \/ "unsent" \in Faults /\ UNCHANGED to_exp
-----------------------------------------------------------------------------
(* Exporter *)

(***************************************************************************)
(* hab_mem_export up to the end of habmem_hyp_grant: habmem_add_export     *)
(* allocates the descriptor and its id; the buffer is now held.            *)
(***************************************************************************)
ExportGrant ==
  /\ ~exp_closed /\ ~exp_otherend_closed
  /\ idr_next <= MaxId
  /\ idr' = idr \cup {idr_next}
  /\ pinned' = pinned \cup {idr_next}
  /\ exporting' = exporting \cup {idr_next}
  /\ idr_next' = idr_next + 1
  /\ UNCHANGED <<exp_state, remote_imported, exp_whse, unexporting>>
  /\ UNCHANGED <<reclaim, expChan, impSide, chans>>

(***************************************************************************)
(* The rest of hab_mem_export: habmem_export_vchan publishes the export.   *)
(***************************************************************************)
ExportPublish(id) ==
  /\ id \in exporting
  /\ exporting' = exporting \ {id}
  /\ exp_whse' = exp_whse \cup {id}
  /\ exp_state' = [exp_state EXCEPT ![id] = "SUCCESS"]
  /\ UNCHANGED <<idr, idr_next, remote_imported, pinned, unexporting>>
  /\ UNCHANGED <<reclaim, expChan, impSide, chans>>

(***************************************************************************)
(* habmem_export_vchan refuses a descriptor larger than a message can be;  *)
(* nothing takes the export out of expid_idr again.                        *)
(***************************************************************************)
ExportTooLarge(id) ==
  /\ "toobig" \in Faults
  /\ id \in exporting
  /\ exporting' = exporting \ {id}
  /\ UNCHANGED <<idr, idr_next, exp_state, remote_imported, exp_whse, pinned,
                 unexporting>>
  /\ UNCHANGED <<reclaim, expChan, impSide, chans>>

(***************************************************************************)
(* habmem_add_export_compress: the pages of the buffer cannot be listed,   *)
(* so the id is taken back and the buffer put before hab_mem_export fails. *)
(***************************************************************************)
ExportGrantFail(id) ==
  /\ "nomem" \in Faults
  /\ id \in exporting
  /\ exporting' = exporting \ {id}
  /\ idr' = idr \ {id}
  /\ pinned' = pinned \ {id}
  /\ UNCHANGED <<idr_next, exp_state, remote_imported, exp_whse, unexporting>>
  /\ UNCHANGED <<reclaim, expChan, impSide, chans>>

\* Mutant: remote_imported is not looked at.
UnexportWhileImported(id) ==
  /\ ~exp_closed
  /\ id \in idr
  /\ exp_state[id] = "SUCCESS"
  /\ idr' = idr \ {id}
  /\ unexporting' = unexporting \cup {id}
  /\ UNCHANGED <<idr_next, exp_state, remote_imported, exp_whse, pinned,
                 exporting>>
  /\ UNCHANGED <<reclaim, expChan, impSide, chans>>

(***************************************************************************)
(* hab_mem_unexport under expid_lock.                                      *)
(***************************************************************************)
Unexport(id) ==
  /\ ~exp_closed
  /\ id \in idr
  /\ exp_state[id] = "SUCCESS"
  /\ ~remote_imported[id]
  /\ idr' = idr \ {id}
  /\ unexporting' = unexporting \cup {id}
  /\ UNCHANGED <<idr_next, exp_state, remote_imported, exp_whse, pinned,
                 exporting>>
  /\ UNCHANGED <<reclaim, expChan, impSide, chans>>

(***************************************************************************)
(* hab_mem_unexport after expid_lock: the export leaves exp_whse and       *)
(* habmem_remove_export drops the last reference.                          *)
(***************************************************************************)
UnexportRelease(id) ==
  /\ id \in unexporting
  /\ unexporting' = unexporting \ {id}
  /\ exp_whse' = exp_whse \ {id}
  /\ pinned' = pinned \ {id}
  /\ UNCHANGED <<idr, idr_next, exp_state, remote_imported, exporting>>
  /\ UNCHANGED <<reclaim, expChan, impSide, chans>>

(***************************************************************************)
(* hab_vchan_close / hab_release on the exporter's vchan.                  *)
(***************************************************************************)
ExpClose ==
  /\ ~exp_closed
  /\ exp_closed' = TRUE
  /\ exp_otherend_closed' = TRUE
  /\ IF exp_otherend_closed THEN UNCHANGED to_imp ELSE TellImporter(CloseMsg)
  /\ UNCHANGED <<expDesc, reclaim, exp_rx, impSide, to_exp>>

\* Mutant: a thread in hab_mem_unexport holds no reference to the vchan.
ExpCtxFreeExportEarly(id) ==
  /\ exp_closed /\ exp_rx = << >> /\ exporting = {}
  /\ id \in exp_whse
  /\ exp_whse' = exp_whse \ {id}
  /\ IF remote_imported[id]
       THEN /\ reclaiming' = reclaiming \cup {id}
            /\ UNCHANGED <<idr, pinned>>
       ELSE /\ idr' = idr \ {id}
            /\ pinned' = pinned \ {id}
            /\ UNCHANGED reclaiming
  /\ UNCHANGED <<idr_next, exp_state, remote_imported, exporting, unexporting>>
  /\ UNCHANGED <<reclaim_list, reclaim_work, free_list, expChan, impSide, chans>>

(***************************************************************************)
(* hab_ctx_free on the exporter, one export of exp_whse: the last          *)
(* reference is gone, so no thread and no received message holds the vchan.*)
(***************************************************************************)
ExpCtxFreeExport(id) ==
  /\ exp_closed /\ exp_rx = << >> /\ exporting = {} /\ unexporting = {}
  /\ id \in exp_whse
  /\ exp_whse' = exp_whse \ {id}
  /\ IF remote_imported[id]
       THEN /\ reclaiming' = reclaiming \cup {id}
            /\ UNCHANGED <<idr, pinned>>
       ELSE /\ idr' = idr \ {id}
            /\ pinned' = pinned \ {id}
            /\ UNCHANGED reclaiming
  /\ UNCHANGED <<idr_next, exp_state, remote_imported, exporting, unexporting>>
  /\ UNCHANGED <<reclaim_list, reclaim_work, free_list, expChan, impSide, chans>>

\* Mutant: no schedule_work after list_add_tail.
ExpCtxFreeEnlistQuietly(id) ==
  /\ id \in reclaiming
  /\ reclaiming' = reclaiming \ {id}
  /\ reclaim_list' = reclaim_list \cup {id}
  /\ UNCHANGED <<expDesc, reclaim_work, free_list, expChan, impSide, chans>>

(***************************************************************************)
(* hab_ctx_free, an export that is still imported: list_add_tail under     *)
(* reclaim_lock, then schedule_work.                                       *)
(***************************************************************************)
ExpCtxFreeEnlist(id) ==
  /\ id \in reclaiming
  /\ reclaiming' = reclaiming \ {id}
  /\ reclaim_list' = reclaim_list \cup {id}
  /\ reclaim_work' = TRUE
  /\ UNCHANGED <<expDesc, free_list, expChan, impSide, chans>>

(***************************************************************************)
(* reclaim_cleanup: the scan of the list under reclaim_lock.               *)
(***************************************************************************)
ReclaimScan ==
  /\ reclaim_work /\ free_list = {}
  /\ reclaim_work' = FALSE
  /\ free_list' = {id \in reclaim_list : ~remote_imported[id]}
  /\ reclaim_list' = {id \in reclaim_list : remote_imported[id]}
  /\ UNCHANGED <<expDesc, reclaiming, expChan, impSide, chans>>

(***************************************************************************)
(* reclaim_cleanup: one export of free_list.                               *)
(***************************************************************************)
ReclaimFree(id) ==
  /\ id \in free_list
  /\ free_list' = free_list \ {id}
  /\ idr' = idr \ {id}
  /\ pinned' = pinned \ {id}
  /\ UNCHANGED <<idr_next, exp_state, remote_imported, exp_whse, exporting,
                 unexporting>>
  /\ UNCHANGED <<reclaiming, reclaim_list, reclaim_work, expChan, impSide,
                 chans>>

\* Mutant: schedule_work only when a vchan was found.
RecvUnimportUnscheduled(id, exists) ==
  /\ remote_imported' =
       IF id \in idr THEN [remote_imported EXCEPT ![id] = FALSE]
                     ELSE remote_imported
  /\ reclaim_work' = (reclaim_work \/ exists)
  /\ UNCHANGED <<idr, idr_next, exp_state, exp_whse, pinned, exporting,
                 unexporting, reclaiming, reclaim_list, free_list>>

(***************************************************************************)
(* hab_recv_unimport_msg under expid_lock; exists: a vchan was found.      *)
(***************************************************************************)
RecvUnimport(id, exists) ==
  /\ remote_imported' =
       IF id \in idr THEN [remote_imported EXCEPT ![id] = FALSE]
                     ELSE remote_imported
  /\ reclaim_work' = (reclaim_work \/ ~exists)
  /\ UNCHANGED <<idr, idr_next, exp_state, exp_whse, pinned, exporting,
                 unexporting, reclaiming, reclaim_list, free_list>>

(***************************************************************************)
(* hab_msg_recv on the exporter's side: hab_vchan_get.  Without a vchan    *)
(* only an UNIMPORT is handled; UNIMPORT_NV finds a vchan only when the    *)
(* ids it carries are those of another context's vchan.                    *)
(***************************************************************************)
ExpRecvGet ==
  /\ to_exp # << >>
  /\ exp_rx = << >>
  /\ to_exp' = Tail(to_exp)
  /\ LET m == Head(to_exp) IN
       \/ /\ m.type # "UNIMPORT_NV"
          /\ ~exp_closed /\ ~exp_otherend_closed
          /\ exp_rx' = <<m>>
          /\ UNCHANGED <<expDesc, reclaim>>
       \/ /\ m.type = "UNIMPORT"
          /\ exp_closed \/ exp_otherend_closed
          /\ RecvUnimport(m.id, FALSE)
          /\ UNCHANGED exp_rx
       \/ /\ m.type = "UNIMPORT_NV"
          /\ RecvUnimport(m.id, SharedFirst)
          /\ UNCHANGED exp_rx
       \/ /\ m.type \in {"IMPORT", "CLOSE"}
          /\ exp_closed \/ exp_otherend_closed
          /\ UNCHANGED <<expDesc, reclaim, exp_rx>>
  /\ UNCHANGED <<exp_closed, exp_otherend_closed, impSide, to_imp>>

(***************************************************************************)
(* hab_msg_recv, the vchan was found: the rest of the function.  A vchan   *)
(* closed since then makes it drop the message.                            *)
(***************************************************************************)
ExpRecvDrop ==
  /\ exp_rx # << >> /\ exp_otherend_closed
  /\ exp_rx' = << >>
  /\ UNCHANGED <<expDesc, reclaim, exp_closed, exp_otherend_closed, impSide,
                 chans>>
\* Mutant: remote_imported is not set before the ack is sent.
ExpRecvImportUnrecorded ==
  /\ exp_rx # << >> /\ ~exp_otherend_closed
  /\ LET m == Head(exp_rx)
         ok == m.id \in idr /\ m.match /\ exp_state[m.id] = "SUCCESS"
     IN /\ m.type = "IMPORT"
        /\ TellImporter(Msg(IF ok THEN "IMPORT_ACK" ELSE "IMPORT_ACK_FAIL",
                            m.id))
  /\ exp_rx' = << >>
  /\ UNCHANGED <<expDesc, reclaim, exp_closed, exp_otherend_closed, impSide,
                 to_exp>>

\* Mutant: a refused import is not answered.
ExpRecvImportSilent ==
  /\ exp_rx # << >> /\ ~exp_otherend_closed
  /\ LET m == Head(exp_rx) IN
       /\ m.type = "IMPORT"
       /\ IF m.id \in idr /\ m.match /\ exp_state[m.id] = "SUCCESS"
            THEN /\ remote_imported' = [remote_imported EXCEPT ![m.id] = TRUE]
                 /\ TellImporter(Msg("IMPORT_ACK", m.id))
            ELSE UNCHANGED <<remote_imported, to_imp>>
  /\ exp_rx' = << >>
  /\ UNCHANGED <<idr, idr_next, exp_state, exp_whse, pinned, exporting,
                 unexporting, reclaim>>
  /\ UNCHANGED <<exp_closed, exp_otherend_closed, impSide, to_exp>>


ExpRecvImport ==
  /\ exp_rx # << >> /\ ~exp_otherend_closed
  /\ LET m == Head(exp_rx) IN
       /\ m.type = "IMPORT"
       /\ IF m.id \in idr /\ m.match /\ exp_state[m.id] = "SUCCESS"
            THEN /\ remote_imported' = [remote_imported EXCEPT ![m.id] = TRUE]
                 /\ TellImporter(Msg("IMPORT_ACK", m.id))
            ELSE /\ TellImporter(Msg("IMPORT_ACK_FAIL", m.id))
                 /\ UNCHANGED remote_imported
  /\ exp_rx' = << >>
  /\ UNCHANGED <<idr, idr_next, exp_state, exp_whse, pinned, exporting,
                 unexporting, reclaim>>
  /\ UNCHANGED <<exp_closed, exp_otherend_closed, impSide, to_exp>>

ExpRecvUnimport ==
  /\ exp_rx # << >> /\ ~exp_otherend_closed
  /\ Head(exp_rx).type = "UNIMPORT"
  /\ RecvUnimport(Head(exp_rx).id, TRUE)
  /\ exp_rx' = << >>
  /\ UNCHANGED <<exp_closed, exp_otherend_closed, impSide, chans>>

ExpRecvClose ==
  /\ exp_rx # << >> /\ ~exp_otherend_closed
  /\ Head(exp_rx).type = "CLOSE"
  /\ exp_otherend_closed' = TRUE
  /\ exp_rx' = << >>
  /\ UNCHANGED <<expDesc, reclaim, exp_closed, impSide, chans>>
-----------------------------------------------------------------------------
(* Importer *)

(***************************************************************************)
(* hab_import_ack_find: the position of the first ack for an export id, 0  *)
(* when there is none.                                                     *)
(***************************************************************************)
Matches(id) == {k \in 1 .. Len(imp_rxq) : imp_rxq[k].id = id}
IsFirstMatch(k, id) == k \in Matches(id) /\ \A j \in Matches(id) : k <= j
Without(q, k) == [j \in 1 .. Len(q) - 1 |-> IF j < k THEN q[j] ELSE q[j + 1]]

(***************************************************************************)
(* hab_mem_import up to physical_channel_send.                             *)
(***************************************************************************)
ImportSend(t, id, match) ==
  /\ pc[t] = "idle"
  /\ ~imp_closed /\ ~imp_otherend_closed
  /\ calls < MaxCalls
  /\ calls' = calls + 1
  /\ req' = [req EXCEPT ![t] = [id |-> id, match |-> match]]
  /\ pc' = [pc EXCEPT ![t] = "ack_wait"]
  /\ to_exp' = Append(to_exp, [type |-> "IMPORT", id |-> id, match |-> match])
  /\ UNCHANGED <<expSide, impWhse, impChan, to_imp>>

(***************************************************************************)
(* hab_mem_import: IMPORT cannot be sent, and the call fails.              *)
(***************************************************************************)
ImportSendFail(t) ==
  /\ "send" \in Faults
  /\ pc[t] = "idle"
  /\ ~imp_closed /\ ~imp_otherend_closed
  /\ calls < MaxCalls
  /\ calls' = calls + 1
  /\ UNCHANGED <<expSide, impWhse, impChan, pc, req, chans>>

(***************************************************************************)
(* hab_import_ack_wait finds an ack.  A closed vchan makes the import fail *)
(* with -ENODEV although the ack is consumed; a negative ack fails it with *)
(* -EINVAL.                                                                *)
(***************************************************************************)
ImportAck(t) ==
  /\ pc[t] = "ack_wait"
  /\ \E k \in 1 .. Len(imp_rxq) :
       /\ IsFirstMatch(k, req[t].id)
       /\ imp_rxq' = Without(imp_rxq, k)
       /\ pc' = [pc EXCEPT ![t] =
                   IF ~imp_otherend_closed /\ imp_rxq[k].added
                     THEN "lookup" ELSE "idle"]
  /\ UNCHANGED <<expSide, imp_whse, impChan, req, calls, chans>>

(***************************************************************************)
(* hab_import_ack_wait ends without an ack because the vchan was closed.   *)
(***************************************************************************)
ImportClosed(t) ==
  /\ pc[t] = "ack_wait"
  /\ Matches(req[t].id) = {}
  /\ imp_otherend_closed
  /\ pc' = [pc EXCEPT ![t] = "idle"]
  /\ UNCHANGED <<expSide, impWhse, impChan, req, calls, chans>>

(***************************************************************************)
(* hab_import_ack_wait ends by HAB_HS_TIMEOUT or by a signal (-EAGAIN).    *)
(***************************************************************************)
ImportTimeout(t) ==
  /\ "timeout" \in Faults
  /\ pc[t] = "ack_wait"
  /\ Matches(req[t].id) = {}
  /\ ~imp_otherend_closed
  /\ pc' = [pc EXCEPT ![t] = "idle"]
  /\ UNCHANGED <<expSide, impWhse, impChan, req, calls, chans>>

(***************************************************************************)
(* hab_import_ack_find passes over an ack that is not its own and finds it *)
(* older than Q_AGE_THRESHOLD.  The age itself is not kept: any ack may    *)
(* have reached it.                                                        *)
(***************************************************************************)
ImportAckExpire(t) ==
  /\ "aging" \in Faults
  /\ pc[t] = "ack_wait"
  /\ \E k \in 1 .. Len(imp_rxq) :
       /\ imp_rxq[k].id # req[t].id
       /\ \A j \in Matches(req[t].id) : k < j
       /\ imp_rxq' = Without(imp_rxq, k)
  /\ UNCHANGED <<expSide, imp_whse, impChan, impThread, chans>>

(***************************************************************************)
(* hab_mem_import under imp_lock: only a node in state INIT may be taken.  *)
(***************************************************************************)
ImportLookup(t) ==
  /\ pc[t] = "lookup"
  /\ LET id == req[t].id
         found == imp_whse[id] = "INIT"
     IN /\ imp_whse' = IF found THEN [imp_whse EXCEPT ![id] = "IMPORTING"]
                                ELSE imp_whse
        /\ pc' = [pc EXCEPT ![t] = IF found THEN "importing" ELSE "idle"]
  /\ UNCHANGED <<expSide, imp_rxq, impChan, req, calls, chans>>

(***************************************************************************)
(* hab_mem_import after imp_lock: the size matches and the buffer is       *)
(* mapped.                                                                 *)
(***************************************************************************)
ImportMap(t) ==
  /\ pc[t] = "importing"
  /\ req[t].match
  /\ imp_whse' = [imp_whse EXCEPT ![req[t].id] = "IMPORTED"]
  /\ pc' = [pc EXCEPT ![t] = "idle"]
  /\ UNCHANGED <<expSide, imp_rxq, impChan, req, calls, chans>>

\* Mutant: the state of the export descriptor's other enum, export_state.
ImportMapFailOtherEnum(t) ==
  /\ pc[t] = "importing"
  /\ imp_whse' = [imp_whse EXCEPT ![req[t].id] = "EXPORTING"]
  /\ pc' = [pc EXCEPT ![t] = "rollback"]
  /\ UNCHANGED <<expSide, imp_rxq, impChan, req, calls, chans>>

(***************************************************************************)
(* hab_mem_import after imp_lock: the size differs, or habmem_imp_hyp_map  *)
(* fails.                                                                  *)
(***************************************************************************)
ImportMapFail(t) ==
  /\ pc[t] = "importing"
  /\ imp_whse' = [imp_whse EXCEPT ![req[t].id] = "INIT"]
  /\ pc' = [pc EXCEPT ![t] = "rollback"]
  /\ UNCHANGED <<expSide, imp_rxq, impChan, req, calls, chans>>

(***************************************************************************)
(* The rollback at the end of hab_mem_import: UNIMPORT, then the node.     *)
(***************************************************************************)
RollbackSend(t) ==
  /\ pc[t] = "rollback"
  /\ pc' = [pc EXCEPT ![t] = "rollback_remove"]
  /\ TellExporter(Msg("UNIMPORT", req[t].id))
  /\ UNCHANGED <<expSide, impWhse, impChan, req, calls, to_imp>>

RollbackRemove(t) ==
  /\ pc[t] = "rollback_remove"
  /\ imp_whse' = [imp_whse EXCEPT ![req[t].id] = "none"]
  /\ pc' = [pc EXCEPT ![t] = "idle"]
  /\ UNCHANGED <<expSide, imp_rxq, impChan, req, calls, chans>>

\* Mutant: import_state is not looked at.
UnimportFindAnyState(t, id) ==
  /\ pc[t] = "idle"
  /\ ~imp_closed
  /\ imp_whse[id] # "none"
  /\ imp_whse' = [imp_whse EXCEPT ![id] = "UNIMPORTING"]
  /\ req' = [req EXCEPT ![t] = [id |-> id, match |-> TRUE]]
  /\ pc' = [pc EXCEPT ![t] = "unmap"]
  /\ UNCHANGED <<expSide, imp_rxq, impChan, calls, chans>>

(***************************************************************************)
(* hab_mem_unimport under imp_lock: only a node in state IMPORTED may be   *)
(* taken.                                                                  *)
(***************************************************************************)
UnimportFind(t, id) ==
  /\ pc[t] = "idle"
  /\ ~imp_closed
  /\ imp_whse[id] = "IMPORTED"
  /\ imp_whse' = [imp_whse EXCEPT ![id] = "UNIMPORTING"]
  /\ req' = [req EXCEPT ![t] = [id |-> id, match |-> TRUE]]
  /\ pc' = [pc EXCEPT ![t] = "unmap"]
  /\ UNCHANGED <<expSide, imp_rxq, impChan, calls, chans>>

(***************************************************************************)
(* habmm_imp_hyp_unmap, which always returns 0 in hab_mem_linux.c.         *)
(***************************************************************************)
UnimportUnmap(t) ==
  /\ pc[t] = "unmap"
  /\ pc' = [pc EXCEPT ![t] = "unimp_send"]
  /\ UNCHANGED <<expSide, impWhse, impChan, req, calls, chans>>

\* Mutant: the exporter is not told.
UnimportUnsent(t) ==
  /\ pc[t] = "unimp_send"
  /\ pc' = [pc EXCEPT ![t] = "unimp_remove"]
  /\ UNCHANGED <<expSide, impWhse, impChan, req, calls, chans>>

(***************************************************************************)
(* The end of hab_mem_unimport: UNIMPORT first, the node afterwards.       *)
(***************************************************************************)
UnimportSend(t) ==
  /\ pc[t] = "unimp_send"
  /\ pc' = [pc EXCEPT ![t] = "unimp_remove"]
  /\ TellExporter(Msg("UNIMPORT", req[t].id))
  /\ UNCHANGED <<expSide, impWhse, impChan, req, calls, to_imp>>

UnimportRemove(t) ==
  /\ pc[t] = "unimp_remove"
  /\ imp_whse' = [imp_whse EXCEPT ![req[t].id] = "none"]
  /\ pc' = [pc EXCEPT ![t] = "idle"]
  /\ UNCHANGED <<expSide, imp_rxq, impChan, req, calls, chans>>

(***************************************************************************)
(* hab_vchan_close / hab_release on the importer's vchan.                  *)
(***************************************************************************)
ImpClose ==
  /\ ~imp_closed
  /\ imp_closed' = TRUE
  /\ imp_otherend_closed' = TRUE
  /\ IF imp_otherend_closed THEN UNCHANGED to_exp ELSE TellExporter(CloseMsg)
  /\ UNCHANGED <<expSide, impWhse, imp_rx, imp_freed, impThread, to_imp>>

(***************************************************************************)
(* hab_ctx_free on the importer: nothing holds the vchan any more.  It     *)
(* takes the smallest node off imp_whse, unmaps it and sends an UNIMPORT   *)
(* that names no vchan.                                                    *)
(***************************************************************************)
ImpUnreferenced ==
  /\ imp_closed /\ ~imp_freed
  /\ imp_rx = << >>
  /\ \A t \in Threads : pc[t] = "idle"

ImpCtxFreeNode(id) ==
  /\ ImpUnreferenced
  /\ imp_whse[id] # "none"
  /\ \A j \in Ids : j < id => imp_whse[j] = "none"
  /\ imp_whse' = [imp_whse EXCEPT ![id] = "none"]
  /\ TellExporter(Msg("UNIMPORT_NV", id))
  /\ UNCHANGED <<expSide, imp_rxq, impChan, impThread, to_imp>>

ImpCtxFreeDone ==
  /\ ImpUnreferenced
  /\ \A id \in Ids : imp_whse[id] = "none"
  /\ imp_freed' = TRUE
  /\ imp_rxq' = << >>
  /\ UNCHANGED <<expSide, imp_whse, imp_closed, imp_otherend_closed, imp_rx,
                 impThread, chans>>

(***************************************************************************)
(* hab_msg_recv on the importer's side: hab_vchan_get, or hab_msg_drop.    *)
(***************************************************************************)
ImpRecvGet ==
  /\ to_imp # << >>
  /\ imp_rx = << >>
  /\ to_imp' = Tail(to_imp)
  /\ imp_rx' = IF imp_closed \/ imp_otherend_closed THEN << >>
                                                   ELSE <<Head(to_imp)>>
  /\ UNCHANGED <<expSide, impWhse, imp_closed, imp_otherend_closed, imp_freed,
                 impThread, to_exp>>

(***************************************************************************)
(* The message is dropped: the vchan was closed since hab_vchan_get, or    *)
(* the descriptor or the ack of a refusal cannot be allocated.             *)
(***************************************************************************)
ImpRecvDrop ==
  /\ imp_rx # << >>
  /\ \/ imp_otherend_closed
     \/ "nomem" \in Faults /\ Head(imp_rx).type # "CLOSE"
  /\ imp_rx' = << >>
  /\ UNCHANGED <<expSide, impWhse, imp_closed, imp_otherend_closed, imp_freed,
                 impThread, chans>>

\* Mutant: the ack of a node hab_export_enqueue refused counts all the same.
ImpRecvAckTwice ==
  /\ imp_rx # << >> /\ ~imp_otherend_closed
  /\ Head(imp_rx).type = "IMPORT_ACK"
  /\ LET id == Head(imp_rx).id
     IN /\ imp_whse' = IF imp_whse[id] = "none"
                         THEN [imp_whse EXCEPT ![id] = "INIT"] ELSE imp_whse
        /\ imp_rxq' = Append(imp_rxq, [id |-> id, added |-> TRUE])
  /\ imp_rx' = << >>
  /\ UNCHANGED <<expSide, imp_closed, imp_otherend_closed, imp_freed,
                 impThread, chans>>

(***************************************************************************)
(* hab_receive_export_desc: hab_export_enqueue refuses a second node for   *)
(* the same id; the ack records whether the node went in.                  *)
(***************************************************************************)
ImpRecvAck ==
  /\ imp_rx # << >> /\ ~imp_otherend_closed
  /\ Head(imp_rx).type = "IMPORT_ACK"
  /\ LET id == Head(imp_rx).id
         added == imp_whse[id] = "none"
     IN /\ imp_whse' = IF added THEN [imp_whse EXCEPT ![id] = "INIT"]
                                ELSE imp_whse
        /\ imp_rxq' = Append(imp_rxq, [id |-> id, added |-> added])
  /\ imp_rx' = << >>
  /\ UNCHANGED <<expSide, imp_closed, imp_otherend_closed, imp_freed,
                 impThread, chans>>

(***************************************************************************)
(* hab_receive_export_desc, err_imp: the ack cannot be allocated.          *)
(* hab_create_invalid_ack may fail as well.                                *)
(***************************************************************************)
ImpRecvAckNoMem ==
  /\ "nomem" \in Faults
  /\ imp_rx # << >> /\ ~imp_otherend_closed
  /\ Head(imp_rx).type = "IMPORT_ACK"
  /\ LET id == Head(imp_rx).id IN
       /\ imp_rxq' \in {imp_rxq, Append(imp_rxq, [id |-> id, added |-> FALSE])}
       /\ TellExporter(Msg("UNIMPORT", id))
  /\ imp_rx' = << >>
  /\ UNCHANGED <<expSide, imp_whse, imp_closed, imp_otherend_closed, imp_freed,
                 impThread, to_imp>>

(***************************************************************************)
(* hab_receive_import_ack_fail.                                            *)
(***************************************************************************)
ImpRecvAckFail ==
  /\ imp_rx # << >> /\ ~imp_otherend_closed
  /\ Head(imp_rx).type = "IMPORT_ACK_FAIL"
  /\ imp_rxq' = Append(imp_rxq, [id |-> Head(imp_rx).id, added |-> FALSE])
  /\ imp_rx' = << >>
  /\ UNCHANGED <<expSide, imp_whse, imp_closed, imp_otherend_closed, imp_freed,
                 impThread, chans>>

ImpRecvClose ==
  /\ imp_rx # << >> /\ ~imp_otherend_closed
  /\ Head(imp_rx).type = "CLOSE"
  /\ imp_otherend_closed' = TRUE
  /\ imp_rx' = << >>
  /\ UNCHANGED <<expSide, impWhse, imp_closed, imp_freed, impThread, chans>>
-----------------------------------------------------------------------------
Exporter ==
  \/ ExportGrant
  \/ \E id \in Ids : \/ ExportPublish(id) \/ ExportTooLarge(id)
                      \/ ExportGrantFail(id)
                      \/ Unexport(id) \/ UnexportRelease(id)
                      \/ ExpCtxFreeExport(id) \/ ExpCtxFreeEnlist(id)
  \/ ExpClose

ReclaimWorker == ReclaimScan \/ \E id \in Ids : ReclaimFree(id)

ExpRecv == ExpRecvGet \/ ExpRecvDrop \/ ExpRecvImport \/ ExpRecvUnimport
             \/ ExpRecvClose

ImportStep(t) ==
  ImportAck(t) \/ ImportClosed(t) \/ ImportLookup(t) \/ ImportMap(t)
    \/ ImportMapFail(t) \/ RollbackSend(t) \/ RollbackRemove(t)

UnimportStep(t) == UnimportUnmap(t) \/ UnimportSend(t) \/ UnimportRemove(t)

Importer(t) ==
  \/ \E id \in Ids, match \in BOOLEAN : ImportSend(t, id, match)
  \/ ImportSendFail(t) \/ ImportTimeout(t) \/ ImportAckExpire(t)
  \/ ImportStep(t)
  \/ \E id \in Ids : UnimportFind(t, id)
  \/ UnimportStep(t)

ImpTeardown ==
  ImpClose \/ (\E id \in Ids : ImpCtxFreeNode(id)) \/ ImpCtxFreeDone

ImpRecv == ImpRecvGet \/ ImpRecvDrop \/ ImpRecvAck \/ ImpRecvAckNoMem
             \/ ImpRecvAckFail \/ ImpRecvClose

Next ==
  \/ Exporter \/ ReclaimWorker \/ ExpRecv
  \/ \E t \in Threads : Importer(t)
  \/ ImpTeardown \/ ImpRecv

Spec == Init /\ [][Next]_vars

(***************************************************************************)
(* The receive paths, the work queue and the threads inside a call keep    *)
(* running; nothing forces an application to make or to finish a sequence  *)
(* of calls.                                                               *)
(***************************************************************************)
Fairness ==
  /\ WF_vars(ExpRecv)
  /\ WF_vars(ImpRecv)
  /\ WF_vars(ReclaimWorker)
  /\ \A t \in Threads : WF_vars(ImportStep(t)) /\ WF_vars(UnimportStep(t))

FairSpec == Spec /\ Fairness
-----------------------------------------------------------------------------
(* Properties *)

(***************************************************************************)
(* The state a thread expects of the node it has a pointer to.             *)
(***************************************************************************)
Expected(step) ==
  CASE step = "importing" -> "IMPORTING"
    [] step \in {"rollback", "rollback_remove"} -> "INIT"
    [] OTHER -> "UNIMPORTING"

Holding(t) == pc[t] \in {"importing", "rollback", "rollback_remove", "unmap",
                         "unimp_send", "unimp_remove"}

(***************************************************************************)
(* The four races of the comment on enum exp_desc_state in hab.h: while    *)
(* hab_mem_import or hab_mem_unimport uses a descriptor without imp_lock,  *)
(* the descriptor is in the tree, in the state that thread gave it, and no *)
(* other thread uses it.                                                   *)
(***************************************************************************)
NoUseAfterFree ==
  \A t \in Threads : Holding(t) =>
    /\ imp_whse[req[t].id] = Expected(pc[t])
    /\ \A u \in Threads \ {t} : Holding(u) => req[u].id # req[t].id

(***************************************************************************)
(* A positive ack is good for exactly one import: the thread that consumed *)
(* it finds the descriptor in the tree and untouched, whatever timeouts,   *)
(* retries and other imports of the same id happened before it took        *)
(* imp_lock (hab_mem_import, the two error returns of the lookup).         *)
(***************************************************************************)
LookupFindsInit ==
  \A t \in Threads : pc[t] = "lookup" => imp_whse[req[t].id] = "INIT"

(***************************************************************************)
(* Why these two hold, as an inductive invariant: a positive ack is a      *)
(* token for its descriptor.  hab_receive_export_desc creates it together  *)
(* with the descriptor, at most one thread or one queued ack has it, and   *)
(* while it exists the descriptor is not in state IMPORTED.  It may get    *)
(* lost (timeouts, aging, a closed vchan) but is never doubled.  Only      *)
(* hab_ctx_free, with no thread and no message left, outlives the tokens.  *)
(***************************************************************************)
Owns(t) == pc[t] = "lookup" \/ Holding(t)

ImpTornDown ==
  imp_closed /\ imp_rx = << >> /\ \A t \in Threads : pc[t] = "idle"

OwnersDiffer ==
  \A t, u \in Threads : t # u /\ Owns(t) /\ Owns(u) => req[t].id # req[u].id

QueuedTokens ==
  \A k \in 1 .. Len(imp_rxq) : imp_rxq[k].added =>
    /\ imp_whse[imp_rxq[k].id] = "INIT"
    /\ \A t \in Threads : Owns(t) => req[t].id # imp_rxq[k].id
    /\ \A j \in 1 .. Len(imp_rxq) :
         j # k /\ imp_rxq[j].added => imp_rxq[j].id # imp_rxq[k].id

OneTokenPerNode ==
  /\ LookupFindsInit
  /\ NoUseAfterFree
  /\ OwnersDiffer
  /\ ImpTornDown \/ QueuedTokens

(***************************************************************************)
(* A descriptor leaves the tree, to be freed, only in the last step of the *)
(* thread that owns it: no thread goes on with a pointer to a descriptor   *)
(* that was freed and perhaps replaced by another under the same id.       *)
(***************************************************************************)
FreedByOwnerOnly ==
  [][\A t \in Threads, id \in Ids :
       /\ imp_whse[id] # "none" /\ imp_whse'[id] = "none"
       /\ Holding(t) /\ req[t].id = id
       => pc'[t] = "idle"]_vars

(***************************************************************************)
(* Every export descriptor that the receive path can find in expid_idr     *)
(* still exists, and each one is released by a single owner: the thread in *)
(* hab_mem_export or hab_mem_unexport, hab_ctx_free, or the reclaim worker.*)
(***************************************************************************)
ExportReleasedOnce ==
  LET late == reclaiming \cup reclaim_list \cup free_list
  IN /\ idr \subseteq pinned
     /\ unexporting \cup exp_whse \cup late \cup exporting \subseteq pinned
     /\ late \cap (exp_whse \cup unexporting \cup exporting) = {}
     /\ late \subseteq idr
     /\ reclaiming \cap (reclaim_list \cup free_list) = {}
     /\ reclaim_list \cap free_list = {}
     /\ exporting \cap exp_whse = {}

(***************************************************************************)
(* The inductive form of the above: what keeps the owners apart.           *)
(* hab_ctx_free starts only after the vchan is closed and every thread has *)
(* left, an export in progress is not yet in state SUCCESS, and ids above  *)
(* the cursor have never been used.                                        *)
(***************************************************************************)
ExportOwnership ==
  /\ ExportReleasedOnce
  /\ exporting \subseteq idr
  /\ unexporting \cap idr = {}
  /\ reclaiming \cup reclaim_list \cup free_list # {} =>
       exp_closed /\ exporting = {} /\ unexporting = {}
  /\ exp_closed => exp_otherend_closed
  /\ \A id \in exporting : exp_state[id] = "EXPORTING"
  /\ exp_whse \subseteq idr \cup unexporting
  /\ \A id \in pinned : id < idr_next
  /\ \A id \in Ids : id >= idr_next => exp_state[id] = "EXPORTING"

(***************************************************************************)
(* No wakeup of the reclaim worker is lost: an export on the reclaim list  *)
(* that the importer has given up is one the worker is still going to see  *)
(* (hab_recv_unimport_msg, hab_ctx_free).                                  *)
(***************************************************************************)
ReclaimNotLost ==
  \A id \in reclaim_list : ~remote_imported[id] => reclaim_work

(***************************************************************************)
(* "sync import" (hab.h:203): an import that has succeeded is recorded by  *)
(* the exporter until it is undone, so that hab_mem_unexport refuses.      *)
(***************************************************************************)
ImportedIsRecorded ==
  \A id \in Ids : imp_whse[id] = "IMPORTED" => remote_imported[id]

(***************************************************************************)
(* With the channel open, idle and drained, the exporter records as        *)
(* imported only what the importer still has: otherwise hab_mem_unexport   *)
(* answers -EBUSY with nobody left to release the buffer.                  *)
(***************************************************************************)
Drained ==
  /\ to_exp = << >> /\ to_imp = << >> /\ exp_rx = << >> /\ imp_rx = << >>
  /\ \A t \in Threads : pc[t] = "idle"

NotBusyForNobody ==
  Drained /\ ~imp_closed /\ ~exp_closed =>
    \A id \in idr : remote_imported[id] => imp_whse[id] # "none"

(***************************************************************************)
(* What the protocol is for, HabShare: buffers are granted, imported,      *)
(* given up and released, and none is released while it is imported.       *)
(***************************************************************************)
Imported == {id \in Ids : \/ imp_whse[id] = "IMPORTED"
                          \/ \E t \in Threads : pc[t] = "unmap" /\ req[t].id = id}

Share == INSTANCE HabShare WITH Buffers <- Ids, held <- pinned,
                                imported <- Imported
SharesMemory == Share!Spec

(***************************************************************************)
(* hab_send_import_ack_fail exists so that no importer waits forever: every*)
(* import gets an answer, or learns that the channel was closed, even when *)
(* it cannot time out.                                                     *)
(***************************************************************************)
ImportAnswered ==
  \A t \in Threads : pc[t] = "ack_wait" ~> pc[t] # "ack_wait"

(***************************************************************************)
(* An export left behind by its context is released once the importer has  *)
(* given it up (reclaim_cleanup).                                          *)
(***************************************************************************)
ReclaimedEventually ==
  \A id \in Ids :
    (id \in reclaim_list /\ ~remote_imported[id]) ~> id \notin pinned
=============================================================================
