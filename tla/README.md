# TLA+ models of the HAB driver

HAB (hypervisor abstraction) lets programs in two virtual machines open
channels to each other, send messages, and share memory.  This directory holds
TLA+ modules that model the driver in `src/`, TLC configurations that check them
on small instances, and TLAPS proofs that hold for every size.  Line numbers are
those of the source beside this directory.

## The system

| Part | Source | State | Operations |
|---|---|---|---|
| Physical channel (pchan) | `hab_pchan.c`, `hab.h` | reference count, `vchan_idr`, `expid_idr`, `mem_proto`, the locks on them | find, get, put |
| Open handshake | `hab.c` (`frontend_open`, `backend_listen`, `hab_vchan_open`), `hab_open.c` | the device's open queue, `open_id_counter`, `forbidden_chans` | INIT, INIT_ACK, INIT_DONE, INIT_CANCEL, expiry of requests, `hab_stop` |
| Virtual channel (vchan) | `hab_vchan.c`, `hab.c` | `closed`, `otherend_closed`, reference count, session and other end's id | alloc, get, put, stop, free |
| Messages | `hab_msg.c`, `hab.c` (`hab_vchan_send`, `hab_vchan_recv`) | `rx_list` of each vchan | send, receive with and without wait, the receive path `hab_msg_recv` |
| Memory sharing | `hab_mimex.c`, parts of `hab_msg.c` | `exp_whse`, `imp_whse`, `imp_rxq`, state of each descriptor | export, unexport, import, unimport |
| Contexts | `hab.c` (`hab_ctx_free`), `hab_linux.c` (`hab_release`, `reclaim_cleanup`) | the vchans and descriptors of a process, `reclaim_list`, `reclaim_work` | teardown when the process ends, deferred release |
| Memory back end | `os/linux/hab_mem_linux.c` | `dma_buf` references and attachments, tables of regions, lists of pages | grant, map, unmap, release, compress and expand page lists, mmap |
| virtio front end | `hypervisor/virtio/hab_virtio.c` | four pools of buffers, two virtqueues per pchan, a tasklet | send, callbacks of both queues, probe, suspend, resume, statistics |
| vhost back end | `hypervisor/virtio/hab_vhost.c` | send list, a worker, `private_data` of each queue, `otherend_closed` | send, receive, open, start, reset, release |
| Shared memory pipe | `hab_pipe.c` | ring buffer, published counts, private indices | write, commit, read |
| Loopback channel | `hab_comm.c` | a list of messages | send, receive (not built by `Kbuild`) |
| Configuration, start, statistics, tests | `hab_parser.c`, `hab_linux.c`, `hab_stat.c`, `os/linux/khab_test.c` | static tables | run once, or read only |

How they meet.  A call of an application (ioctl or kernel API) enters `hab.c`,
takes a reference to its vchan, and either sends on the pchan or works on
queues.  The other VM's receive path (a tasklet or a worker, one at a time per
pchan) reads a header, finds the vchan by id and session, and either queues the
payload, changes descriptors, or wakes a waiter.  The reclaim worker releases
exports whose context is gone.  So four kinds of actor share the state:
application threads, the two receive paths, the reclaim worker, and process
teardown; locks are short and released before a message is sent or a wait
starts, so nearly every sequence of two critical sections is a race.

What is hard:

* *Answers that come late.* An import that timed out is retried while its ack is
  under way; an INIT_DONE races the back end's timeout; a cancel arrives after
  the listener it was meant for has gone.
* *Teardown against use.* Either process may die at any point of any protocol;
  an export must outlive its context while it is mapped elsewhere, and must not
  outlive that.
* *Pointers kept over an unlock.* `hab_mem_import` and `hab_mem_unimport` go on
  with a descriptor after they release `imp_lock`; only `import_state` protects
  it.
* *Reuse of ids.* vchan ids are reused, the session id has to tell old from new.
* *Waits without a timeout.* `frontend_open` and blocking receives wait until
  somebody wakes them.
* *Notifications that are switched off.* Both vhost workers ask the guest not to
  kick while they run; what arrives just before they stop must not be forgotten.
* *Devices that go away.* The guest suspends or restarts, the VMM resets or
  releases the device, while senders, workers and open calls are under way.
* *Long chains of steps that may fail.* An export or an import takes references,
  attachments, descriptors and lists one after the other.
* *Counters.* The pipe's counts are 32 bits and wrap around; reference counts are
  the only thing between a receive path and a freed vchan.

`PROJECT.json` lists these one by one, at the line where each can go wrong.

## Modules

| Module | Models | Abstract specification |
|---|---|---|
| `HabMimex` | memory sharing, protocol 1, with teardown and reclaim | `HabShare` |
| `HabOpen` | open handshake, close, ids, pchan references | - |
| `HabVchan` | messages and the life of an open vchan | `HabSocket` |
| `HabPipe` | one direction of the shared memory pipe | `HabFifo` |
| `HabVirtio` | the virtio front end of a pchan | - |
| `HabVhost` | the vhost back end of a pchan and the life of its device | - |
| `HabVq` | the virtqueues between them (kernel code, modelled from its use) | - |
| `HabSeq` | no code: subsequences without recursion, for the pools and for `HabChannel` | - |
| `HabTransport` | the two ends joined, with suspend and restart of the guest | `HabChannel`, once for each direction |
| `HabMem` | the memory back end: one export and its import | - |
| `HabMimexProofs`, `HabShareProofs` | theorems about `HabMimex`, the second about both sides together | |
| `HabOpenProofs`, `HabOpenMutualProofs` | theorems about `HabOpen`, the second about handshakes that nobody cancels | |
| `HabVchanProofs`, `HabPipeProofs`, `HabTransportProofs`, `HabMemProofs` | theorems about the module of that name | |
| `MCHabMimex`, `MCHabOpen`, `MCHabVchan`, `MCHabTransport`, `MCHabMem` | symmetry sets, message sizes and buffers for TLC | |

Definitions whose comment begins with "Mutant:" are plausible bugs of the
definition that follows them.  No specification uses them; putting one in the
place of its original must make TLC report the property named in
`PROJECT.json`.

### HabMimex

State, exporter: `idr` is `pchan->expid_idr`, `exp_whse` the context's list,
`exp_state` and `remote_imported` the fields of a descriptor, `pinned` the
buffers not yet given to `habmem_exp_release`; `exporting` and `unexporting` are
the threads inside those calls, `reclaiming`, `reclaim_list`, `free_list` and
`reclaim_work` the way of an export through `hab_ctx_free` and
`reclaim_cleanup`.  Importer: `imp_whse` is the tree with `import_state`,
`imp_rxq` the queue of acks, `pc` and `req` the threads inside
`hab_mem_import` and `hab_mem_unimport`.  `exp_rx` and `imp_rx` hold the message
that a receive path handles after it took a vchan reference and before it looks
at `otherend_closed` and takes the next lock.

A message may fail to be sent, in two ways.  When IMPORT fails (`"send"`), `hab_mem_import`
returns the error: `ImportSendFail`.  For both import acks, UNIMPORT and CLOSE (`"unsent"`)
`hab_msg.c` line 303 and `hab.c` lines 915 and 928 log the error or drop it, so the action goes on
as if the message were under way: `TellImporter`, `TellExporter`.

Actions: one per critical section.  Export is `ExportGrant` (id and descriptor),
then `ExportPublish`, `ExportTooLarge` or `ExportGrantFail`; unexport is `Unexport` and
`UnexportRelease`; import is `ImportSend` or `ImportSendFail`, then `ImportAck`, `ImportTimeout`,
`ImportClosed` or `ImportAckExpire`, then `ImportLookup`, `ImportMap` or `ImportMapFail`,
and on failure `RollbackSend`, `RollbackRemove`; unimport is `UnimportFind`,
`UnimportUnmap`, `UnimportSend`, `UnimportRemove`.  `ExpClose`,
`ExpCtxFree...`, `ImpClose`, `ImpCtxFree...` are the teardown, `ReclaimScan` and
`ReclaimFree` the worker, `ExpRecv...` and `ImpRecv...` the receive paths.

Abstracted: sizes of buffers to "the page count matches or not"; the page lists;
the vchan reference count, which `HabVchan` has.

### HabOpen

State: `chan` is each VM's `vchan_idr` with session, other end, `otherend_closed`
and whether the application has it; `openq` the device's open queue; `wire` the
messages under way; `proto` is `mem_proto`; `ref` the pchan's count; `mine` the
open id and vchan of the open in progress.  The threads of `frontend_open` and
`backend_listen` move through `wait_ack`, `wait_init` and `wait_done`.
`Receive` is the receive path for the four open messages and CLOSE, `ExpireRequest`
the removal of old requests by a thread that searches the queue, `Stop` is
`hab_stop`.  A failed send of INIT, INIT_ACK or INIT_DONE (`"send"`) ends the open; that of an
INIT_CANCEL or a CLOSE (`"unsent"`, `SendUnchecked`) is not looked at.  One mmid; both VMs
speak protocol 1, so `mem_proto` should become 1 and stay 1.

### HabVchan

State: `vc` has `closed`, `otherend_closed` (`dead`), the reference count and
presence in `vchan_idr` for both ends; `rx` the message queues; `path` the receive path
between `hab_vchan_get` and the end of the switch.  A send is the lookup
(`SendBegin`) and the physical send; a receive is the lookup, an optional wait
and the dequeue under `rx_lock`; a close is leaving the context's list, the CLOSE
message, and `hab_vchan_stop` with the put.  `hab_vchan_free` is two steps, messages
first, id last.  `hup` and `eof` are history variables for the refinement and are
never read by a guard.

The physical channel is modelled from its use: an ordered queue with a bounded
number of places (`WireCap`), a send that may fail, one receiver.  `RxMsgLost` is a message that
the receive path drops: for want of memory, or because a scheduler message or its ack is too short for its
time stamp (`"badsize"`; `hab_msg.c`, lines 762 and 784).

### HabPipe

Each byte of a `memcpy` is a step, so that reads and writes overlap.  Counts are
taken modulo `CountRange`, the code's 2^32.  A reader that looks for a header
in fewer bytes than a header has checks memory it has not filled: any result is
allowed.

### HabVirtio, HabVhost, HabTransport

The guest makes buffers available in the queues `tx` (its messages) and `rx`
(room for the host's); the host takes them, and returns them used.  `avail`,
`taken` and `used` are sequences of buffers, `mem` what is in each buffer, `notify`
what `vhost_enable_notify` and `vhost_disable_notify` set, `kick` and `call` the
two signals.

Front end: `list` are the free out buffers by pool, `hd` the buffer in the hand of the
tasklet, `link` the state of the device from probe to suspend.  `physical_channel_send`
is `SendStart`, then `SendSleep` or `SendQueue` under `lock[TX]`; `virthab_recv_txq`
is `RecvTxq`; `virthab_recv_rxq` is `RxRun`, `RxGet`, `RxRecv`, `RxReturn`, because
it gives up `lock[RX]` for `hab_msg_recv`; `StatLog` is the read of the statistics.
Message sizes are kept, because the choice of the pool depends on them.

Back end: `sendList` is the list that `physical_channel_send` fills and `rx_worker`
empties, `work` whether `rx_send_work` is queued, `wk` where the one worker thread is
(`Tx...` is `tx_worker`, `Rx...` `rx_worker`), `priv` is `private_data`.
`DevOpen`, `Ioctl`, `ResetStop` to `ResetEnd` and `Release` are the device file;
`Ioctl` is the default branch, which starts the queues that are accessible.
`ResetWait` is `hab_vchans_empty_wait_pchan`, so the vchans of back end
applications are there too (`vch`, `vstop`), as steps of `backend_listen` and
`hab_vchan_close`.

`lost` and `gcut` are history: the buffers that errors take out of circulation, and
whether a message may be missing.

What the kernel and the VMM are taken to do: a worker takes its works in the order
they were queued; the VMM calls from one thread and stops the device before
the guest drops its rings (`HostStopped`); the power management core has frozen the
senders, and the tasklet is idle, when `virthab_freeze` runs; a null pointer
followed under a spinlock stops the guest, one in a sender of the host stops
that sender (`oops`).  A corrupted ring (a negative head) is not in
the model, nor the weight limit of `rx_worker`, which one message cannot reach.  The
sequence number in a header serves a log message only.

### HabMem

A buffer is a sequence of chunks of contiguous pages, as a scatterlist has them, or
of single pages, as `get_user_pages` gives them.  `CompressSg` and `CompressPages` are the two
branches of `habmem_compress_pfns`, `Expand` is `pages_list_create`; their loops are
recursive functions of the number of entries done (`SgScan`, `PageScan`, `RegionScan`).  The exporter
(`ep`) goes through grant, descriptor, platform data, attach, map, compress; each may
fail, and `Undo` is what the error paths then return.  The importer (`ip`) goes through list, `imp_list`,
`dma_buf_export`, descriptor; `impRef` counts the references of its dma-buf, of which
a mapping has one.  The release waits for the import to end, as `HabMimex` makes it.

## What TLC checks

Bounds are constants of the modules; each is used in guards only.

| Run | Configuration | What it shows | States |
|---|---|---|---|
| `mimex_races` | `MCHabMimexRaces.cfg` | No use after free, no double free, no lost reclaim wakeup, with two threads, two exports, two imports, timeouts, aging, failing allocations, messages that are not sent and teardown of both sides | 2.1 M |
| `mimex_sync` | `MCHabMimexSync.cfg` | One importing thread that never times out, no message lost: `HabShare` is implemented, imports are answered, left exports are released | 195 k |
| `open_races` | `MCHabOpenRaces.cfg` | Pairing, closes that hit only their own vchan, pchan references, under seven kinds of fault | 1.0 M |
| `open_reuse` | `MCHabOpenReuse.cfg` | Without faults an open vchan always has an other end, ids are reused safely, handshakes end | 83 k |
| `pipe` | `MCHabPipe.cfg` | The ring implements `HabFifo` while counts and indices wrap | 332 k |
| `vchan` | `MCHabVchan.cfg` | The vchans implement `HabSocket`, are never freed in use, and are freed at last | 222 k |
| `transport` | `MCHabTransport.cfg` | Messages both ways, in order and once (`HabChannel`), each buffer in one place, nothing forgotten while notifications are off | 183 k |
| `vhost` | `MCHabVhost.cfg` | Start, reset, release, suspend, restart, statistics and faults: a stopped queue is left alone, what was signalled is received, the reset ends | 260 k |
| `memory` | `MCHabMem.cfg` | The importer's pages are the exported ones, failed exports leave nothing, lists live as long as they are used | 134 k |

Why the bounds are enough for the cases meant:

* `mimex_races`: a race over a descriptor needs two threads on one id and one
  more message for that id; two imports give a stale ack and its retry, two
  exports a second id to mix it up with.
* `mimex_sync`: three imports let one buffer be imported, given up, imported again
  and refused.  `MCHabMimexUnsent.cfg`, not one of the runs, has the same bounds and checks `ImportedIsRecorded` and
  `SharesMemory` where any message may fail to be sent (283 k states): that is what the theorems about both sides say.
* `open_races`: two openers and two listeners compete for one queue, each fault
  can hit each of them.  `open_reuse`: four opens over two ids reuse each id.
* `pipe`: three bytes in a ring whose counts wrap at 8, which 3 does not divide,
  so counts and indices wrap at different places; a header has two bytes, so that
  partial headers occur.
* `vchan`: two threads on one end make concurrent receives, and a close during a
  send or a receive; two messages can be reordered or lost; two places on the wire
  make both a full channel and messages queued before CLOSE.

* `transport`: one buffer in each pool and one place in the tx ring, so that senders
  sleep, the ring is full and the rx queue runs dry; sizes on both sides of the two limits (the guest
  sends 512 bytes, then 0 or 513; the host 0, then 5100, the most it may); the second message
  follows the first through every state of the worker.
* `vhost`: two opens of the device, one reset, one vchan, one message and one mishap
  (suspend, restart, statistics read or fault): each mishap meets each
  stage of the device, and a released device is opened again.
* `memory`: scatterlists of up to three chunks of one or two pages, and up to two chunks of
  up to three pages with every offset, next to each other, apart or in falling order,
  for one to four pages, more than the buffer has included; lists of up to four single pages.

Symmetry is used over threads, in the two runs without liveness that name it.

`CHECK_DEADLOCK FALSE` is set where behaviours end because applications closed
everything or the bounds are used up.  `HabPipe` never stops and is checked for
deadlock.

### Properties

`HabMimex`: `NoUseAfterFree`, `LookupFindsInit` and `FreedByOwnerOnly` are the four races
that the comment on `enum exp_desc_state` in `hab.h` describes; `ExportReleasedOnce`
says who may release an export; `ReclaimNotLost` and `ReclaimedEventually` that the
worker sees it; `ImportedIsRecorded`, `NotBusyForNobody` and `SharesMemory` relate the two
sides; `ImportAnswered` that no importer waits for ever.

`HabOpen`: `Paired`, `DeadPeerGone`, `OpenIsMutual` relate the two VMs; `RefsCoverUse` relates
the count to its users; `HandshakeEnds` is liveness.

`HabVchan`: `HeldWhileUsed`, `IsSocket` (order, each message once, and "return all the received
messages before the remote close"), `RecvReturns`, `FreedEventually`.

`HabPipe`: `RingConsistent`, `ReadIsStable`, `IsFifo`.

`HabTransport`: `BufferInOnePlace` relates the pools, the queues, the worker and the tasklet;
`HostGetsInOrder` and `GuestGetsInOrder` are the refinements of `HabChannel`, the contract
that `HabVchan` and `HabOpen` assume; `SendListDrains`, `TxDrains`, `RxDrains` and
`SenderWakes` say that no wakeup is lost; `StoppedStaysOut` that a stop is one; `ResetEnds`
that `VHOST_RESET_OWNER` returns.

`HabMem`: `AlignedPagesAgree` and `TableFits` are about the compression, `HeldByDescriptor`
and `ListedWhileUsed` about references, `FaultInRange` about a comparison that is off by one and
harmless because of another one.

The type invariants of `HabOpen`, `HabVchan` and `HabTransport` are stated for the reader and
hold on the same instances; the runs leave them out in favour of the properties above.

### Fairness

Weak fairness is assumed of the receive paths (a tasklet or worker that was
scheduled runs), of the work queue, and of threads inside a call at points where
they are not waiting or their wait condition holds.  In `HabVchan` the physical
send is such a point: a caller that blocks goes round its loop, and finds room or
the other end closed.  In `HabVhost` the works of the device have strong fairness: the worker
takes them from a list in order, so a work that is queued again and again still has
its turn.  The wait of the reset, `usleep_range` in a loop, is weakly fair, and so is the close of a
vchan that was told to stop: "hab driver is expecting BEs to close all the vchans"
(`hab_vhost.c`, line 578).  No other application has to call anything, so nothing assumes that a
process closes, receives or unimports; no signal, timeout or memory failure has to happen.

## Where code and comments disagree

Three runs look for a violation and find it.

| Run | Property | What happens |
|---|---|---|
| `mimex_first_vchan` | `ReclaimNotLost` | The ids reserved for an UNIMPORT without vchan are also those of the first vchan of a pchan; if another context holds it, the reclaim work is not scheduled. |
| `open_cancelled` | `CancelReachesListener` | The back end takes INIT_CANCEL for INIT_DONE: the test for it also requires an error code that is 0. |
| `mem_offset` | `PagesAgree` | `habmem_compress_pfns` forgets the offset when it computes the space behind the first region: a dma-buf exported from inside its first chunk on into its second shares pages that were not named. |

The models have more such places.  The first four have a configuration that is not part of
the runs and ends with the violation:

| Configuration, module | Property | What happens |
|---|---|---|
| `MCHabMimexRetry.cfg`, `MCHabMimex` | `ImportedIsRecorded` | A retry after a timeout succeeds on the ack of the first attempt, while the exporter has recorded an unimport; the buffer can be unexported while mapped. |
| `MCHabOpenDowngrade.cfg`, `MCHabOpen` | `ProtocolKept` | A late cancel is taken for an INIT with protocol 0 and sets `mem_proto` of the pchan to 0. |
| `MCHabOpenBailOut.cfg`, `MCHabOpen` | `CancelEndsWait` | A cancel that finds the INIT_ACK still queued deletes it and wakes nobody; the front end waits without a timeout. |
| `MCHabVchanLeak.cfg`, `MCHabVchan` | `NoRefLeak` | Three early returns of `hab_vchan_send` keep the vchan reference. |
| `MCHabVhost.cfg` with the invariant | `ResetTellsAll` | A vchan opened between `hab_vchans_stop` and the setting of `otherend_closed` is waited for and never told. |
| - | `SendOops` of `HabVirtio` | A send between the link of the queues and the filling of the pools, inside the probe. |
| - | `Restore` of `HabVirtio` | After a suspend `in_list` is empty, no in buffer is queued, and nothing is received. |
| - | `StatLog` of `HabVirtio` | A read of the statistics takes one used buffer from each queue and forgets it. |
| - | `PoolOf` of `HabVirtio` | The medium pool is never used: the size is compared with the number of its buffers. |
| - | `HostQueue` of `HabVhost` | A send after the release queues its work to freed memory. |
| - | `AllocPlatformData` of `HabMem` | The error path after a failed `kzalloc` goes through a null pointer. |

These behaviours are in the models, and the passing runs are stated so that
they hold beside them: `mimex_sync` has no timeouts and loses no message; `mimex_races` and the
theorem `ReclaimCorrect` have no other context on vchan 1; `OpenIsMutual` and
`HandshakeEnds` are checked without faults; `FreedEventually` starts when the
count is exactly that of the users; `ResetEnds` starts when every vchan has been told;
`SendListDrains` excepts a guest that has lost its in buffers and a fault on guest memory;
`AlignedPagesAgree` is `PagesAgree` for exports that begin with a chunk or stay in one region.

## What is proved

Eight modules hold theorems.  Each theorem is for any number of threads, ids, messages,
buffers and calls and, unless its row says otherwise, for any set of faults; the named assumptions of the
constants (natural bounds, finite and disjoint sets of threads, known faults, well-formed buffers) are all that is
used of them.  Every invariant below that is called inductive was first checked by TLC on the instances of the runs
(of `StopInv` the part `WorkerHasQueue`; the other quantifies over all sets).

| Module | Theorem | Statement |
|---|---|---|
| `HabMimexProofs` | `TypeCorrect` | `TypeOK` |
| | `TokensCorrect` | `OneTokenPerNode`, inductive |
| | `UseAfterFreeExcluded` | `NoUseAfterFree` |
| | `LookupCorrect` | `LookupFindsInit` |
| | `FreeCorrect` | `FreedByOwnerOnly`, an action property |
| | `OwnershipCorrect` | `ExportOwnership`, inductive |
| | `ReleaseCorrect` | `ExportReleasedOnce` |
| | `ReclaimCorrect` | `ReclaimNotLost`, if no other context holds vchan 1 of session 1 |
| `HabShareProofs` | `ShareInvariant` | `ShareInv`, inductive, for one importing thread and no import given up |
| | `RecordCorrect` | `ImportedIsRecorded`, under the same hypotheses; messages may be lost |
| | `NotBusyCorrect` | `NotBusyForNobody`, under the same hypotheses and if no ack, UNIMPORT or CLOSE is lost |
| | `MemoryIsShared` | `SharesMemory`, the refinement of `HabShare`, under the same hypotheses; messages may be lost |
| `HabOpenProofs` | `OpenInvariant` | `OpenInv`, inductive |
| | `RefsCorrect` | `RefsCoverUse` |
| | `PairedCorrect` | `Paired` |
| | `DeadPeerCorrect` | `DeadPeerGone` |
| `HabOpenMutualProofs` | `MutualUnlessCancelled` | `OpenIsMutual`, if no wait of the handshake is given up and every CLOSE is sent |
| `HabVchanProofs` | `VchanHeldCorrect` | `HeldWhileUsed` |
| | `OnlyBadSizeLeaks` | `NoRefLeak`, without a special message that is too small |
| | `VchanIsSocket` | `IsSocket`, the refinement of `HabSocket` |
| `HabPipeProofs` | `PipeTypeCorrect` | `TypeOK` |
| | `RingCorrect` | `RingConsistent` |
| | `ReadStableCorrect` | `ReadIsStable` |
| | `PipeIsFifo` | `IsFifo`, the refinement of `HabFifo` |
| `HabTransportProofs` | `WorkerInStartedQueue` | `StopInv`, inductive |
| | `StoppedDeviceStaysOut` | `StoppedStaysOut`, an action property |
| | `BuffersKept` | `BufInv`, inductive |
| | `BuffersCorrect` | `BufferInOnePlace` |
| | `HostInOrder` | `HostGetsInOrder`, the refinement of `HabChannel` to the host |
| | `GuestInOrder` | `GuestGetsInOrder`, the refinement of `HabChannel` to the guest |
| `HabMemProofs` | `MemInvariant` | `MemInv`, inductive |
| | `ExportHeldByDescriptor` | `HeldByDescriptor` |
| | `PagesListedWhileUsed` | `ListedWhileUsed` |
| | `FaultsInRange` | `FaultInRange` |
| | `TablesAreRight` | what `Compress` and `Expand` compute, for every buffer |
| | `TableFitsAlways` | `TableFits` |
| | `AlignedPagesAlwaysAgree` | `AlignedPagesAgree` |

*Import side.* `NoUseAfterFree` is not inductive: that the thread which takes
`imp_lock` finds the descriptor in state INIT depends on where its ack came from.
`OneTokenPerNode` says that a positive ack is a token.  `hab_receive_export_desc`
makes it together with a new descriptor and refuses when the tree has one already;
it then is in `imp_rxq` or with one thread, never twice; while it
exists the descriptor stays in INIT, which no unimport accepts.  A token may be
lost (timeout, aging, no memory, close), which only leaves a descriptor to `hab_ctx_free`.
`hab_ctx_free` removes descriptors and ignores tokens; the invariant allows that
once the vchan is closed and no thread and no message is left.  One lemma per
group of actions, with one step per action.

*Export side.* `ExportReleasedOnce` needs to know why a thread in
`hab_mem_export` and `hab_ctx_free` cannot own the same export: `ExportOwnership` adds that
late owners exist only after close, when both sets of threads are empty, that an export
in progress is not in state SUCCESS, and that ids above the cursor were never used.

*Both sides together.* `ShareInv` says that the two sides take turns: a request, its answer and the ack made of
it are never there at once (`Turn`); what the importer keeps is recorded by the exporter and no
UNIMPORT for it is under way (`KeptRecorded`, `AckRecorded`); what is recorded is kept, about to be, or about to be given up
(`RecordedForSomebody`, unless a message was lost).  A lost message only makes the exporter keep a buffer
longer: its record is made before the ack is sent and undone after an UNIMPORT has come, so safety does not
depend on either.  The hypotheses are needed.  After a timeout the request stays in the channel and the
retry is answered by the wrong ack (`MCHabMimexRetry.cfg`).  With two threads and no faults at all TLC
violates each of the three properties at one id and two calls: the import of the second thread is answered
while the first, which got the buffer, gives it up.

*Handshake.* Pairing depends on history that no single message shows.  `OpenInv` says that an open
id has one INIT and one vchan of the front end (`InitOnce`, `FeUnique`), and for each session that the
front end still has (`SessionOK`): no cancel or CLOSE of it is on its way to the back end, the INIT is answered once, whoever heard
the answer knows the only vchan that the back end can have, and whoever heard of the close knows that there is
none.  `MutualUnlessCancelled` needs more: while an INIT_DONE is under way the
session's INIT is no longer pending (`DoneLast`); until the front end hears INIT_ACK the back end cannot open
its vchan, and afterwards the front end has one or says that it closed it (`Fronts`); a back-end vchan that is open
or about to be is dead, has a front end or has its CLOSE under way (`BacksOK`).  It is stronger than the run, which has no faults: requests
may expire, be lost for want of memory and fail to be sent.  It fails with a signal, a timeout or
`hab_stop`, as `open_cancelled` shows, and when a CLOSE is not sent, since nobody sends it again.

*Vchan.* The proof of `HeldWhileUsed` counts: every step changes the reference count and the number of
users by the same amount.  `OnlyBadSizeLeaks` is the converse; it says that the early returns in
`MCHabVchanLeak.cfg` are the only leak.  The refinement of `HabSocket` maps the queue of an
end to what is in `rx_list`, in the hand of the receive path and on the wire before a CLOSE.  It needs to
know that a CLOSE comes from an end that is done with its close and that there is one (`CloseTravels`), that an
end that has heard of it has nothing left in its receive path, and that one thread closes (`OneCloser`).
`HabSocket` may lose a message only if one of `"nomem"` and `"badsize"` is among the faults (`Lossy`), so without
them the theorem says that all arrive.  The run has both faults: there order and the end of the stream are checked,
completeness is proved only.

*Pipe.* `PipeInv` adds to the three properties that a write in progress is ahead of the calls before it
(`WriteAhead`).  Its arithmetic is modulo `CountRange` and modulo `BufSize` at once, for every pair of sizes with
`BufSize` smaller: the code's 2^32 and any size of the ring.

*Transport, stops.* A stop clears `private_data` under `vq->mutex`, which the worker holds from its check to its
end; so a worker inside a queue implies that its `private_data` is set (`WorkerHasQueue`), and the steps that
touch the rings of a stopped queue are the guest's own, which only take from them.  The
invariant also says that rings are sequences, of anything: lengths need no more.

*Transport, buffers.* The three pools, the six parts of the two virtqueues and the tasklet's hand are ten sequences
(`Place`).  Every step moves the head of one to the end of another, drops a head, empties one into others, or fills
them all (probe, resume): one lemma for each kind of step, one step per action.  `BufferInOnePlace` is not
inductive, because a step that takes a head must know that there is one.  `BufInv` adds who has a
buffer in hand (`InHandOK`): `tx_worker` exactly one between `vhost_get_vq_desc` and `vhost_add_used`, `rx_worker` at least
one when it fills one, the tasklet one between `virtqueue_get_buf` and `virtqueue_add_inbuf`; that pools hold their own
buffers, so that `virthab_recv_txq` sorts each into exactly one; and that the lost buffers are exactly those in no
place, in both directions, from the end of the probe on.

*Transport, order.* The queue of `HabChannel` to the host is what is in `tx_worker`'s hand, then in
`avail` of the tx queue; to the guest, what is in the tasklet's hand, then in `used` of the rx queue, then the send list.
A message lies in a buffer, so the order of messages rests on that of buffers: a write to a buffer changes no message
under way because `BufInv` puts the written buffer elsewhere.  `HostInv` and `GuestInv` add
that what a sender is about to queue is new, not on its way, not received and with no other sender, and that
`rx_worker` fills a buffer only while the send list is not empty.  Suspend, restart, the read of the statistics and a
full ring drop messages: each is a `Cut` of the channel, which leaves the order of the rest.

*Memory back end.* `HeldByDescriptor` and `ListedWhileUsed` are not inductive: that an export which fails late returns everything depends
on what each step before it took.  `MemInv` adds that (`ExpInv`), and, for the importer,
that the references of its dma-buf are exactly those of the import and of the mapping (`ImpInv`),
so that the last put is the one that ends the last use.  `FaultsInRange` rests on the length of the list, which
`pages_list_create` checks, and not on what is in it.

*Memory back end, tables.* `AlignedPagesAgree` and `TableFits` are about loops over data of any length, so the
scans of `HabMem` are recursive functions (`SgScan`, `PageScan`, `RegionScan`, `PagesTo`), and the proofs about them
go by induction over the number of entries.  The library's induction rules take an operator as a parameter and are
of no use here; `LeastNat` and `UpTo` draw the same from `WFMin` and from the order of the naturals being
well-founded, with a set in the operator's place, and `RecExists` shows that the recursions define functions.
The invariant of the loop over the scatterlist (`SgInv`) is about the table so far *and* what `pages_list_create` would make of
it: while chunks are skipped only the offset shrinks; then the regions so far are no more than the pages they
stand for, expand to just these pages of the buffer, and `pre_page` is the last page of the last region; after
the break the table is complete.  The space of a region is written one round later, which changes only where the
next region starts (`RegionAppend`).  That `pre_page` is right needs the offset to be the start of a chunk
(`AlignedStart`); it does not matter when there is one region, and `mem_offset` shows the rest.  `PageInv` is the same for a
list of pages: the regions so far expand to all but the last run of pages.  A scatterlist that ends too early leaves a region of size zero,
which `pages_list_create` refuses.  `TablesAreRight` puts the two branches together, and `DataInv` says that the table is
that of the exported buffer and that a list of pages in use was made of it.

Only model-checked: everything under fairness (`ImportAnswered`, `ReclaimedEventually`, `HandshakeEnds`, `RecvReturns`,
  `FreedEventually`, `SendListDrains`, `TxDrains`, `RxDrains`, `SenderWakes`, `ResetEnds`), which needs ENABLED.

## Steps that are coarser than the code

An action is a critical section.  Where one action covers more, nothing in between can tell:

* `HabMimex.ExpClose` sets `closed`, sends CLOSE and sets `otherend_closed` in one step (`hab.c`, lines 945 to 958):
  the receive path and the waiters read only the last of the three.
* `HabMimex.ImpRecvAck` adds the descriptor under `imp_lock` and then the ack under the lock of `imp_rxq`
  (`hab_msg.c`, lines 533 to 539): a thread looks for the descriptor only when it has the ack, and the
  receive path is one.
* `HabVchan.CloseNotify` is the test of `otherend_closed` and the send of CLOSE: a CLOSE to an end that is
  just closing finds that end closed or gone.
* `HabVhost.StopAndFlush` clears `private_data` of both queues, each under its mutex, and flushes; it needs an
  idle worker.  Between the two the code may run one more work of the other queue, which here runs before.
* `HabMem.Unmap` is the unimport and the later close of the file descriptor, which puts the last reference.

Where the model takes a simpler course than the code:

* `HabVirtio.StatLog` takes a buffer from each queue without the queues' locks (`hab_virtio.c`, lines 1163 and 1164) in one
  step: what a second, concurrent update may do to the virtqueue is not in the model.
* `HabVhost.TxRecv`: a header that can be read only in part is logged and handed on (`hab_vhost.c`, lines 213 to
  217); in the model a fault is one of the whole message.
* `HabVhost.HostQueue` stops the sender when the device is gone: the code has the null pointer for kernels before 6.5 only (line 1047).
* `HabVhost.Ioctl` does not run beside a reset: line 681 starts the pchans without a lock, and the VMM is taken
  to call from one thread.
* `HabMem.Grant` gets all pages of a buffer or fails; `get_user_pages` may return fewer, and the code goes on with
  those (`hab_mem_linux.c`, lines 288 to 296).  The offset of an export is the one the caller names; line 249 computes it without `vm_pgoff`, so that
  for a mapping that begins inside the dma-buf it is another one.
* `HabPipe` is one pipe; the flag `signature_mismatch` (`hab_pipe.c`, line 149) is shared by all.

## What is not modelled

* Memory protocol 0 (EXPORT, EXPORT_ACK): used only against an older peer.
* Of the virtio front end: `virthab_remove`, failures of the probe, several pchans of one
  device, the checks for corrupted buffers.
* Of the vhost back end: the character devices, features, statistics, corrupted rings, a
  failed allocation in `physical_channel_send`, the pchan reference that
  `vhost_hab_release` puts.
* Of the memory back end: the export of a buffer that was itself imported (its list of pages is
  used from the start, whatever the offset), the pages `get_user_pages` pins, mapping for a device or
  the kernel, cache maintenance, and the width of `size` and `space` of a region, which are `int`s:
  gaps of 2^31 pages and more.
* The loopback channel, which is not built.
* The bit fields of the message header.
* A restart of one end of a pipe; no file of the repository uses the pipe.
* A version mismatch at open; VMs with different protocols.
* More than one context per VM on a pchan, except for the flag `SharedFirst`.
* Device tree parsing, driver start and stop, statistics, tests, tracing: run
  once in one thread, or input and output only.

## Plan

Done, in this order: memory sharing (the part with the most races) and its proofs;
the handshake; the pipe; messages and close; the two ends of the virtio transport and their
composition, with a first proof; the memory back end, its proofs and what its tables compute; the proofs of the handshake, of
messages and close, of the pipe and of the transport, with the refinements of `HabShare`, `HabSocket`,
`HabFifo` and `HabChannel`.

Next:

1. Protocol 0, and several contexts on one pchan, in `HabMimex`.
2. `HabHeader`: the bit fields against a record.
3. The restart of a pipe end; the loopback channel.
