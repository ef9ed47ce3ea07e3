------------------------------ MODULE HabPipe -------------------------------
(***************************************************************************)
(* One direction of a hab_pipe (hab_pipe.c): a ring buffer in memory that  *)
(* two VMs share.  The writer's VM keeps its index and its running count   *)
(* to itself and publishes the count with hab_pipe_write_commit; the       *)
(* reader's VM keeps its index and publishes the count of what it has read.*)
(* The counts are unsigned and wrap around; the indices do not follow them *)
(* when the size of the ring does not divide the range of the counts.      *)
(*                                                                         *)
(* The two sides run concurrently and copy byte by byte.  Each call reads  *)
(* the other side's count once.                                            *)
(***************************************************************************)
EXTENDS Integers, Sequences

CONSTANTS
  BufSize,     \* shared_buf_size
  CountRange,  \* 2^32 in the code: range of the counts
  Bytes,       \* byte values
  Signature,   \* the one that stands for 0xBEE1BEE1
  HeaderSize   \* sizeof(struct hab_header); the signature is its last byte

ASSUME PipeAssumption ==
  /\ BufSize \in Nat \ {0}
  /\ CountRange \in Nat /\ CountRange > BufSize
  /\ Signature \in Bytes
  /\ HeaderSize \in Nat \ {0}

Positions == 0 .. BufSize - 1
Counts == 0 .. CountRange - 1

(***************************************************************************)
(* Subtraction of two uint32_t, and the next position in the ring.         *)
(***************************************************************************)
Minus(a, b) == (a - b) % CountRange
Plus(a, n) == (a + n) % CountRange
After(i, n) == (i + n) % BufSize

VARIABLES
  data,      \* sh_buf->data
  wr_count,  \* sh_buf->wr_count
  rd_count,  \* sh_buf->rd_count
  tx,        \* ep->tx_info of the writer: index and wr_count
  rx_index,  \* ep->rx_info.index of the reader
  signature_mismatch,  \* the static variable of hab_pipe_read
  writing,   \* the call of hab_pipe_write in progress: what it has to copy
             \* and its ep_tx_index and ep_tx_wr_count
  reading,   \* the call of hab_pipe_read in progress
  result     \* the bytes the last hab_pipe_read returned

shared == <<data, wr_count, rd_count>>
vars == <<shared, tx, rx_index, signature_mismatch, writing, reading, result>>

NotWriting == [todo |-> << >>, index |-> 0, wr_count |-> 0, busy |-> FALSE]
NotReading == [todo |-> 0, got |-> << >>, header |-> FALSE]

TypeOK ==
  /\ data \in [Positions -> Bytes]
  /\ wr_count \in Counts
  /\ rd_count \in Counts
  /\ tx \in [index : Positions, wr_count : Counts]
  /\ rx_index \in Positions
  /\ signature_mismatch \in BOOLEAN
  /\ writing \in [todo : Seq(Bytes), index : Positions, wr_count : Counts,
                  busy : BOOLEAN]
  /\ reading \in [todo : 0 .. BufSize, got : Seq(Bytes), header : BOOLEAN]
  /\ result \in Seq(Bytes)

(***************************************************************************)
(* hab_pipe_init on both ends.  The data are whatever the memory held.     *)
(***************************************************************************)
Init ==
  /\ data \in [Positions -> Bytes]
  /\ wr_count = 0
  /\ rd_count = 0
  /\ tx = [index |-> 0, wr_count |-> 0]
  /\ rx_index = 0
  /\ signature_mismatch = FALSE
  /\ writing = NotWriting
  /\ reading = NotReading
  /\ result = << >>
-----------------------------------------------------------------------------
(* Writer *)

\* Mutant: one byte more than there is.
SpacePlusOne == BufSize - Minus(tx.wr_count, rd_count) + 1

(* Bytes that the writer may still put into the ring. *)
Space == BufSize - Minus(tx.wr_count, rd_count)

\* Mutant: num_bytes is not compared with the space.
WriteBeginUnchecked(p) ==
  /\ ~writing.busy
  /\ Minus(tx.wr_count, rd_count) <= BufSize
  /\ writing' = [todo |-> p, index |-> tx.index, wr_count |-> tx.wr_count,
                 busy |-> TRUE]
  /\ UNCHANGED <<shared, tx, rx_index, signature_mismatch, reading, result>>

(***************************************************************************)
(* hab_pipe_write up to the memcpy: it writes all of p or nothing.         *)
(***************************************************************************)
WriteBegin(p) ==
  /\ ~writing.busy
  /\ Minus(tx.wr_count, rd_count) <= BufSize
  /\ Len(p) <= Space
  /\ writing' = [todo |-> p, index |-> tx.index, wr_count |-> tx.wr_count,
                 busy |-> TRUE]
  /\ UNCHANGED <<shared, tx, rx_index, signature_mismatch, reading, result>>

\* Mutant: the index wraps one byte late.
WriteCopyLateWrap ==
  /\ writing.todo # << >>
  /\ data' = [data EXCEPT ![writing.index] = Head(writing.todo)]
  /\ writing' = [writing EXCEPT !.todo = Tail(@),
                                !.index = IF @ + 1 > BufSize THEN 0 ELSE @ + 1,
                                !.wr_count = Plus(@, 1)]
  /\ UNCHANGED <<wr_count, rd_count, tx, rx_index, signature_mismatch, reading,
                 result>>

(***************************************************************************)
(* One byte of the two memcpys.                                            *)
(***************************************************************************)
WriteCopy ==
  /\ writing.todo # << >>
  /\ data' = [data EXCEPT ![writing.index] = Head(writing.todo)]
  /\ writing' = [writing EXCEPT !.todo = Tail(@),
                                !.index = After(@, 1),
                                !.wr_count = Plus(@, 1)]
  /\ UNCHANGED <<wr_count, rd_count, tx, rx_index, signature_mismatch, reading,
                 result>>

WriteEnd ==
  /\ writing.busy /\ writing.todo = << >>
  /\ tx' = [index |-> writing.index, wr_count |-> writing.wr_count]
  /\ writing' = NotWriting
  /\ UNCHANGED <<shared, rx_index, signature_mismatch, reading, result>>

(***************************************************************************)
(* hab_pipe_write_commit.                                                  *)
(***************************************************************************)
WriteCommit ==
  /\ ~writing.busy
  /\ wr_count' = tx.wr_count
  /\ UNCHANGED <<data, rd_count, tx, rx_index, signature_mismatch, writing,
                 reading, result>>
-----------------------------------------------------------------------------
(* Reader *)

(***************************************************************************)
(* hab_pipe_read up to the memcpy.  "clear" asks for the check of the      *)
(* signature when the size is that of a header.                            *)
(***************************************************************************)
ReadBegin(size, clear) ==
  /\ reading.todo = 0 /\ reading.got = << >>
  /\ LET avail == Minus(wr_count, rd_count) IN
       /\ avail # 0
       /\ reading' = [todo |-> IF avail < size THEN avail ELSE size,
                      got |-> << >>,
                      header |-> clear /\ size = HeaderSize]
  /\ UNCHANGED <<shared, tx, rx_index, signature_mismatch, writing, result>>

ReadCopy ==
  /\ reading.todo > 0
  /\ reading' = [reading EXCEPT
       !.todo = @ - 1,
       !.got = Append(@, data[After(rx_index, Len(@))])]
  /\ UNCHANGED <<shared, tx, rx_index, signature_mismatch, writing, result>>

(***************************************************************************)
(* What the signature check can find.  When less than a header was there,  *)
(* it looks at a part of the caller's buffer that was not written.  The    *)
(* thousand retries copy the same committed bytes again.                   *)
(***************************************************************************)
MismatchAfter ==
  IF ~reading.header THEN {signature_mismatch}
  ELSE IF Len(reading.got) < HeaderSize THEN BOOLEAN
  ELSE {reading.got[HeaderSize] # Signature}

\* Mutant: after a mismatch the index is not put back.
ReadEndIndexKept ==
  /\ reading.todo = 0 /\ reading.got # << >>
  /\ \E mismatch \in MismatchAfter :
       LET n == IF mismatch THEN 1 ELSE Len(reading.got) IN
         /\ signature_mismatch' = mismatch
         /\ rx_index' = After(rx_index, Len(reading.got))
         /\ rd_count' = Plus(rd_count, n)
         /\ result' = IF mismatch THEN << >> ELSE reading.got
  /\ reading' = NotReading
  /\ UNCHANGED <<data, wr_count, tx, writing>>

(***************************************************************************)
(* The rest of hab_pipe_read: on a mismatch, also one left over from an    *)
(* earlier call, it moves on by a single byte and returns an error.        *)
(***************************************************************************)
ReadEnd ==
  /\ reading.todo = 0 /\ reading.got # << >>
  /\ \E mismatch \in MismatchAfter :
       LET n == IF mismatch THEN 1 ELSE Len(reading.got) IN
         /\ signature_mismatch' = mismatch
         /\ rx_index' = After(rx_index, n)
         /\ rd_count' = Plus(rd_count, n)
         /\ result' = IF mismatch THEN << >> ELSE reading.got
  /\ reading' = NotReading
  /\ UNCHANGED <<data, wr_count, tx, writing>>
-----------------------------------------------------------------------------
Writer ==
  \/ \E n \in 1 .. BufSize : \E p \in [1 .. n -> Bytes] : WriteBegin(p)
  \/ WriteCopy
  \/ WriteEnd
  \/ WriteCommit

Reader ==
  \/ \E size \in 1 .. BufSize + 1, clear \in BOOLEAN : ReadBegin(size, clear)
  \/ ReadCopy
  \/ ReadEnd

Next == Writer \/ Reader

Spec == Init /\ [][Next]_vars
-----------------------------------------------------------------------------
(* Properties *)

(***************************************************************************)
(* The indices stay as far apart as the counts and a write in progress     *)
(* stays within the free part, so that neither side's copy touches a byte  *)
(* that belongs to the other (hab_pipe_write, hab_pipe_read).              *)
(***************************************************************************)
RingConsistent ==
  /\ Minus(tx.wr_count, rd_count) <= BufSize
  /\ Minus(wr_count, rd_count) <= Minus(tx.wr_count, rd_count)
  /\ tx.index = After(rx_index, Minus(tx.wr_count, rd_count))
  /\ reading.todo + Len(reading.got) <= Minus(wr_count, rd_count)
  /\ writing.busy =>
       /\ Minus(writing.wr_count, rd_count) + Len(writing.todo) <= BufSize
       /\ writing.index = After(rx_index, Minus(writing.wr_count, rd_count))

(***************************************************************************)
(* What a read has copied is still in the ring: it is not overwritten      *)
(* before the reader gives its place back by counting it as read.          *)
(***************************************************************************)
ReadIsStable ==
  \A k \in 1 .. Len(reading.got) :
    reading.got[k] = data[After(rx_index, k - 1)]

(***************************************************************************)
(* The pipe is a bounded byte queue, although the reader copies while the  *)
(* writer fills other parts of the ring, the counts wrap around, and the   *)
(* indices wrap elsewhere.                                                 *)
(***************************************************************************)
Span(from, n) == [k \in 1 .. n |-> data[After(from, k - 1)]]
Unread == Span(rx_index, Minus(wr_count, rd_count))
Uncommitted == Span(After(rx_index, Minus(wr_count, rd_count)),
                    Minus(tx.wr_count, wr_count))

Fifo == INSTANCE HabFifo WITH Capacity <- BufSize, unread <- Unread,
                              uncommitted <- Uncommitted
IsFifo == Fifo!Spec
=============================================================================
