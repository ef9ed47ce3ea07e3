---------------------------- MODULE HabPipeProofs ----------------------------
(***************************************************************************)
(* Proofs about HabPipe, for any size of the ring, any range of the counts *)
(* that is larger, and any bytes: the two sides stay out of each other's   *)
(* part of the ring, and the pipe is a bounded byte queue.                 *)
(***************************************************************************)
EXTENDS HabPipe, SequenceTheorems, TLAPS

-----------------------------------------------------------------------------
(* Arithmetic of the counts and of the indices *)

(***************************************************************************)
(* The remainder of a number that is at most one turn away.                *)
(***************************************************************************)
LEMMA Remainder ==
  ASSUME NEW N \in Nat \ {0}, NEW x \in (-N) .. 2 * N - 1
  PROVE  /\ x % N \in 0 .. N - 1
         /\ x % N = IF x < 0 THEN x + N ELSE IF x < N THEN x ELSE x - N
<1>1. CASE x < 0
  BY <1>1
<1>2. CASE 0 <= x /\ x < N
  BY <1>2
<1>3. CASE N <= x
  BY <1>3
<1>4. QED
  BY <1>1, <1>2, <1>3

(***************************************************************************)
(* The difference of two counts, uint32_t in the code.                     *)
(***************************************************************************)
LEMMA MinusIs ==
  ASSUME NEW a \in Counts, NEW b \in Counts
  PROVE  /\ Minus(a, b) \in Counts
         /\ Minus(a, b) = IF a >= b THEN a - b ELSE a - b + CountRange
<1>1. a - b \in (-CountRange) .. 2 * CountRange - 1 /\ CountRange \in Nat \ {0}
  BY PipeAssumption DEF Counts
<1>2. /\ (a - b) % CountRange \in 0 .. CountRange - 1
      /\ (a - b) % CountRange = IF a - b < 0 THEN a - b + CountRange
                         ELSE IF a - b < CountRange THEN a - b ELSE a - b - CountRange
  BY <1>1, Remainder
<1>3. QED
  BY <1>1, <1>2, PipeAssumption DEF Minus, Counts

(***************************************************************************)
(* In particular the difference of two counts is a number.                 *)
(***************************************************************************)
LEMMA MinusInNat ==
  ASSUME NEW a \in Counts, NEW b \in Counts
  PROVE  Minus(a, b) \in Nat
<1>1. Minus(a, b) \in Counts
  BY MinusIs
<1>2. QED
  BY <1>1, PipeAssumption DEF Counts

(***************************************************************************)
(* A count that moves on by at most its range.                             *)
(***************************************************************************)
LEMMA PlusIs ==
  ASSUME NEW a \in Counts, NEW n \in 0 .. CountRange
  PROVE  /\ Plus(a, n) \in Counts
         /\ Plus(a, n) = IF a + n < CountRange THEN a + n ELSE a + n - CountRange
<1>1. PICK x \in 0 .. 2 * CountRange - 1 : x = a + n
  BY PipeAssumption DEF Counts
<1>2. x \in (-CountRange) .. 2 * CountRange - 1 /\ CountRange \in Nat \ {0}
  BY PipeAssumption
<1>3. /\ x % CountRange \in 0 .. CountRange - 1
      /\ x % CountRange = IF x < 0 THEN x + CountRange ELSE IF x < CountRange THEN x ELSE x - CountRange
  BY <1>2, Remainder
<1>4. Plus(a, n) = x % CountRange
  BY <1>1 DEF Plus
<1>5. Plus(a, n) \in Counts /\ Plus(a, n) = IF x < CountRange THEN x ELSE x - CountRange
  BY <1>3, <1>4 DEF Counts
<1>6. QED
  BY <1>1, <1>5, PipeAssumption DEF Counts

(***************************************************************************)
(* A position that moves on by at most the size of the ring.               *)
(***************************************************************************)
LEMMA AfterIs ==
  ASSUME NEW i \in Positions, NEW n \in 0 .. BufSize
  PROVE  /\ After(i, n) \in Positions
         /\ After(i, n) = IF i + n < BufSize THEN i + n ELSE i + n - BufSize
<1>1. PICK x \in 0 .. 2 * BufSize - 1 : x = i + n
  BY PipeAssumption DEF Positions
<1>2. x \in (-BufSize) .. 2 * BufSize - 1 /\ BufSize \in Nat \ {0}
  BY PipeAssumption
<1>3. /\ x % BufSize \in 0 .. BufSize - 1
      /\ x % BufSize = IF x < 0 THEN x + BufSize ELSE IF x < BufSize THEN x ELSE x - BufSize
  BY <1>2, Remainder
<1>4. After(i, n) = x % BufSize
  BY <1>1 DEF After
<1>5. After(i, n) \in Positions /\ After(i, n) = IF x < BufSize THEN x ELSE x - BufSize
  BY <1>3, <1>4 DEF Positions
<1>6. QED
  BY <1>1, <1>5, PipeAssumption DEF Positions

(***************************************************************************)
(* Two distances from the same position that differ by less than the size  *)
(* lead to different positions.                                            *)
(***************************************************************************)
LEMMA AfterDiffers ==
  ASSUME NEW i \in Positions, NEW m \in 0 .. BufSize - 1, NEW n \in 0 .. BufSize - 1, m # n
  PROVE  After(i, m) # After(i, n)
<1>1. /\ After(i, m) = IF i + m < BufSize THEN i + m ELSE i + m - BufSize
      /\ After(i, n) = IF i + n < BufSize THEN i + n ELSE i + n - BufSize
  BY AfterIs, PipeAssumption
<1>2. QED
  BY <1>1, PipeAssumption DEF Positions

(***************************************************************************)
(* Moving on in two steps.                                                 *)
(***************************************************************************)
LEMMA AfterAfter ==
  ASSUME NEW i \in Positions, NEW m \in 0 .. BufSize, NEW n \in 0 .. BufSize,
         m + n <= BufSize
  PROVE  After(After(i, m), n) = After(i, m + n)
<1>1. /\ After(i, m) = IF i + m < BufSize THEN i + m ELSE i + m - BufSize
      /\ After(i, m) \in Positions
  BY AfterIs
<1>2. m + n \in 0 .. BufSize
  BY PipeAssumption
<1>3. After(i, m + n) = IF i + (m + n) < BufSize THEN i + (m + n)
                                             ELSE i + (m + n) - BufSize
  BY <1>2, AfterIs
<1>4. After(After(i, m), n) = IF After(i, m) + n < BufSize THEN After(i, m) + n
                                                       ELSE After(i, m) + n - BufSize
  BY <1>1, AfterIs
<1>5. QED
  BY <1>1, <1>3, <1>4, PipeAssumption DEF Positions

(***************************************************************************)
(* What the counts c and the reader's count differ by, after the reader    *)
(* has moved on by n of these, and after the writer has moved on by n.     *)
(***************************************************************************)
LEMMA ReaderMoves ==
  ASSUME NEW c \in Counts, NEW rd \in Counts, NEW n \in Nat, n <= Minus(c, rd)
  PROVE  /\ Plus(rd, n) \in Counts
         /\ Minus(c, Plus(rd, n)) = Minus(c, rd) - n
<1>1. /\ Minus(c, rd) \in Counts
      /\ Minus(c, rd) = IF c >= rd THEN c - rd ELSE c - rd + CountRange
  BY MinusIs
<1>2. n \in 0 .. CountRange
  BY <1>1, PipeAssumption DEF Counts
<1>3. /\ Plus(rd, n) \in Counts
      /\ Plus(rd, n) = IF rd + n < CountRange THEN rd + n ELSE rd + n - CountRange
  BY <1>2, PlusIs
<1>4. Minus(c, Plus(rd, n)) = IF c >= Plus(rd, n) THEN c - Plus(rd, n)
                              ELSE c - Plus(rd, n) + CountRange
  BY <1>3, MinusIs
<1>5. QED
  BY <1>1, <1>2, <1>3, <1>4, PipeAssumption DEF Counts

(***************************************************************************)
(* The same when the writer moves one on and the buffer is not full.       *)
(***************************************************************************)
LEMMA WriterMoves ==
  ASSUME NEW c \in Counts, NEW rd \in Counts, Minus(c, rd) < BufSize
  PROVE  /\ Plus(c, 1) \in Counts
         /\ Minus(Plus(c, 1), rd) = Minus(c, rd) + 1
<1>1. /\ Minus(c, rd) \in Counts
      /\ Minus(c, rd) = IF c >= rd THEN c - rd ELSE c - rd + CountRange
  BY MinusIs
<1>2. /\ Plus(c, 1) \in Counts
      /\ Plus(c, 1) = IF c + 1 < CountRange THEN c + 1 ELSE c + 1 - CountRange
  BY PlusIs, PipeAssumption
<1>3. Minus(Plus(c, 1), rd) = IF Plus(c, 1) >= rd THEN Plus(c, 1) - rd
                              ELSE Plus(c, 1) - rd + CountRange
  BY <1>2, MinusIs
<1>4. QED
  BY <1>1, <1>2, <1>3, PipeAssumption DEF Counts

-----------------------------------------------------------------------------
(* The ring *)

(***************************************************************************)
(* Only a call in progress has bytes to copy, and the call has written at  *)
(* least as far as the calls before it.                                    *)
(***************************************************************************)
WriteAhead ==
  /\ writing.todo # << >> => writing.busy = TRUE
  /\ writing.busy =>
       Minus(tx.wr_count, rd_count) <= Minus(writing.wr_count, rd_count)

PipeInv == TypeOK /\ RingConsistent /\ WriteAhead /\ ReadIsStable

(***************************************************************************)
(* hab_pipe_init establishes the invariant.                                *)
(***************************************************************************)
LEMMA PipeInit == Init => PipeInv
<1> SUFFICES ASSUME Init PROVE PipeInv
  OBVIOUS
<1>1. 0 \in Counts /\ 0 \in Positions /\ 0 \in 0 .. BufSize
  BY PipeAssumption DEF Counts, Positions
<1>2. Minus(0, 0) = 0 /\ After(0, 0) = 0
  BY <1>1, MinusIs, AfterIs, PipeAssumption
<1>3. << >> \in Seq(Bytes) /\ Len(<< >>) = 0
  OBVIOUS
<1>4. TypeOK
  BY <1>1, <1>3 DEF Init, TypeOK, NotWriting, NotReading
<1>5. RingConsistent
  BY <1>2, <1>3, PipeAssumption DEF Init, RingConsistent, NotWriting, NotReading
<1>6. WriteAhead /\ ReadIsStable
  BY <1>3 DEF Init, WriteAhead, ReadIsStable, NotWriting, NotReading
<1>7. QED
  BY <1>4, <1>5, <1>6 DEF PipeInv

(***************************************************************************)
(* hab_pipe_write up to the copy: the bytes fit into the free part.        *)
(***************************************************************************)
LEMMA WriteBeginStep ==
  ASSUME PipeInv, NEW n \in 1 .. BufSize, NEW p \in [1 .. n -> Bytes], WriteBegin(p)
  PROVE  PipeInv'
<1>1. p \in Seq(Bytes) /\ Len(p) \in Nat
  BY PipeAssumption
<1>2. tx.wr_count \in Counts /\ tx.index \in Positions /\ rd_count \in Counts
  BY DEF PipeInv, TypeOK
<1>3. TypeOK'
  BY <1>1, <1>2 DEF PipeInv, TypeOK, WriteBegin, shared
<1>4. writing' = [todo |-> p, index |-> tx.index, wr_count |-> tx.wr_count, busy |-> TRUE]
  BY DEF WriteBegin
<1>5. Minus(tx.wr_count, rd_count) \in Nat
  BY <1>2, MinusInNat
<1>6. Minus(tx.wr_count, rd_count) + Len(p) <= BufSize
  BY <1>1, <1>5, PipeAssumption DEF WriteBegin, Space
<1>7. RingConsistent'
  BY <1>4, <1>6 DEF PipeInv, RingConsistent, WriteBegin, shared
<1>8. WriteAhead'
  BY <1>4, <1>5 DEF WriteAhead, WriteBegin, shared
<1>9. ReadIsStable'
  BY DEF PipeInv, ReadIsStable, WriteBegin, shared
<1>10. QED
  BY <1>3, <1>7, <1>8, <1>9 DEF PipeInv

(***************************************************************************)
(* The next byte of a write goes where neither what was committed nor what *)
(* waits for the commit is.                                                *)
(***************************************************************************)
LEMMA WriteIsFree ==
  ASSUME PipeInv, WriteCopy
  PROVE  /\ Minus(tx.wr_count, rd_count) <= Minus(writing.wr_count, rd_count)
         /\ Minus(writing.wr_count, rd_count) \in 0 .. BufSize - 1
         /\ writing.index = After(rx_index, Minus(writing.wr_count, rd_count))
         /\ \A k \in 0 .. BufSize - 1 :
              k < Minus(writing.wr_count, rd_count) =>
                data'[After(rx_index, k)] = data[After(rx_index, k)]
<1>1. writing.busy = TRUE /\ writing.todo # << >>
  BY DEF PipeInv, WriteAhead, WriteCopy
<1>2. /\ writing.wr_count \in Counts /\ rd_count \in Counts /\ rx_index \in Positions
      /\ writing.todo \in Seq(Bytes) /\ data \in [Positions -> Bytes]
  BY DEF PipeInv, TypeOK
<1>3. Len(writing.todo) \in Nat \ {0}
  BY <1>1, <1>2
<1>4. Minus(writing.wr_count, rd_count) \in Nat
  BY <1>2, MinusInNat
<1>5. /\ Minus(tx.wr_count, rd_count) <= Minus(writing.wr_count, rd_count)
      /\ Minus(writing.wr_count, rd_count) + Len(writing.todo) <= BufSize
      /\ writing.index = After(rx_index, Minus(writing.wr_count, rd_count))
  BY <1>1 DEF PipeInv, RingConsistent, WriteAhead
<1>6. Minus(writing.wr_count, rd_count) \in 0 .. BufSize - 1
  BY <1>3, <1>4, <1>5, PipeAssumption
<1>7. ASSUME NEW k \in 0 .. BufSize - 1, k < Minus(writing.wr_count, rd_count)
      PROVE  data'[After(rx_index, k)] = data[After(rx_index, k)]
  <2>1. After(rx_index, k) # writing.index
    BY <1>2, <1>5, <1>6, <1>7, AfterDiffers, PipeAssumption
  <2>2. After(rx_index, k) \in Positions
    BY <1>2, AfterIs, PipeAssumption
  <2>3. QED
    BY <1>2, <2>1, <2>2 DEF WriteCopy
<1>8. QED
  BY <1>5, <1>6, <1>7

(***************************************************************************)
(* What a read has copied is within what was committed.                    *)
(***************************************************************************)
LEMMA CopiedIsCommitted ==
  ASSUME PipeInv
  PROVE  /\ Len(reading.got) \in Nat /\ reading.todo \in Nat
         /\ Minus(wr_count, rd_count) \in Nat
         /\ Minus(tx.wr_count, rd_count) \in Nat
         /\ reading.todo + Len(reading.got) <= Minus(wr_count, rd_count)
         /\ Minus(wr_count, rd_count) <= Minus(tx.wr_count, rd_count)
         /\ Minus(tx.wr_count, rd_count) <= BufSize
<1>1. reading.got \in Seq(Bytes) /\ reading.todo \in 0 .. BufSize
  BY DEF PipeInv, TypeOK
<1>2. Minus(wr_count, rd_count) \in Counts /\ Minus(tx.wr_count, rd_count) \in Counts
  BY MinusIs DEF PipeInv, TypeOK
<1>3. QED
  BY <1>1, <1>2, PipeAssumption DEF PipeInv, RingConsistent, Counts

(***************************************************************************)
(* One byte of a memcpy in hab_pipe_write.                                 *)
(***************************************************************************)
LEMMA WriteCopyStep ==
  ASSUME PipeInv, WriteCopy
  PROVE  PipeInv'
<1> DEFINE w == Minus(writing.wr_count, rd_count)
<1>1. /\ writing.wr_count \in Counts /\ rd_count \in Counts /\ rx_index \in Positions
      /\ writing.todo \in Seq(Bytes) /\ writing.todo # << >>
      /\ writing.index \in Positions /\ writing.busy = TRUE
      /\ data \in [Positions -> Bytes]
  BY DEF PipeInv, TypeOK, WriteAhead, WriteCopy
<1>2. /\ Head(writing.todo) \in Bytes /\ Tail(writing.todo) \in Seq(Bytes)
      /\ Len(Tail(writing.todo)) = Len(writing.todo) - 1 /\ Len(writing.todo) \in Nat
  BY <1>1
<1>3. /\ w \in 0 .. BufSize - 1 /\ Minus(tx.wr_count, rd_count) <= w
      /\ writing.index = After(rx_index, w)
  BY WriteIsFree
<1>4. Plus(writing.wr_count, 1) \in Counts /\ Minus(Plus(writing.wr_count, 1), rd_count) = w + 1
  BY <1>1, <1>3, WriterMoves, PipeAssumption
<1>5. After(writing.index, 1) = After(rx_index, w + 1) /\ After(writing.index, 1) \in Positions
  BY <1>1, <1>3, AfterAfter, AfterIs, PipeAssumption
<1>6. writing' = [todo |-> Tail(writing.todo), index |-> After(writing.index, 1),
                  wr_count |-> Plus(writing.wr_count, 1), busy |-> TRUE]
  BY <1>1 DEF PipeInv, TypeOK, WriteCopy
<1>7. TypeOK'
  BY <1>1, <1>2, <1>4, <1>5, <1>6 DEF PipeInv, TypeOK, WriteCopy
<1>8. w + Len(writing.todo) <= BufSize
  BY <1>1 DEF PipeInv, RingConsistent
<1>9. RingConsistent'
  BY <1>2, <1>3, <1>4, <1>5, <1>6, <1>8, PipeAssumption DEF PipeInv, RingConsistent, WriteCopy
<1>10. Minus(tx.wr_count, rd_count) \in Nat
  BY CopiedIsCommitted
<1>11. WriteAhead'
  <2>1. Minus(tx.wr_count, rd_count) <= Minus(Plus(writing.wr_count, 1), rd_count)
    BY <1>3, <1>4, <1>10, PipeAssumption
  <2>2. UNCHANGED <<tx, rd_count>>
    BY DEF WriteCopy
  <2>3. writing'.busy = TRUE /\ writing'.wr_count = Plus(writing.wr_count, 1)
    BY <1>6
  <2>4. QED
    BY <2>1, <2>2, <2>3 DEF WriteAhead
<1>12. ReadIsStable'
  <2> SUFFICES ASSUME NEW k \in 1 .. Len(reading.got)
               PROVE  reading.got[k] = data'[After(rx_index, k - 1)]
    BY DEF ReadIsStable, WriteCopy
  <2>1. k - 1 \in 0 .. BufSize - 1 /\ k - 1 < w
    BY <1>3, CopiedIsCommitted, PipeAssumption
  <2>2. data'[After(rx_index, k - 1)] = data[After(rx_index, k - 1)]
    BY <2>1, WriteIsFree
  <2>3. QED
    BY <2>2 DEF PipeInv, ReadIsStable
<1>13. QED
  BY <1>7, <1>9, <1>11, <1>12 DEF PipeInv

(***************************************************************************)
(* The end of hab_pipe_write, and hab_pipe_write_commit.                   *)
(***************************************************************************)
LEMMA WriteEndStep ==
  ASSUME PipeInv, WriteEnd
  PROVE  PipeInv'
<1>1. /\ writing.busy = TRUE /\ writing.todo = << >> /\ Len(writing.todo) = 0
      /\ writing.wr_count \in Counts /\ writing.index \in Positions /\ rd_count \in Counts
      /\ Minus(writing.wr_count, rd_count) \in Nat
  BY MinusInNat DEF PipeInv, TypeOK, WriteEnd
<1>2. tx' = [index |-> writing.index, wr_count |-> writing.wr_count]
  BY DEF WriteEnd
<1>3. TypeOK'
  <2>1. 0 \in Counts /\ 0 \in Positions /\ << >> \in Seq(Bytes)
    BY PipeAssumption DEF Counts, Positions
  <2>2. QED
    BY <1>1, <1>2, <2>1 DEF PipeInv, TypeOK, WriteEnd, NotWriting, shared
<1>4. /\ Minus(tx.wr_count, rd_count) <= Minus(writing.wr_count, rd_count)
      /\ Minus(writing.wr_count, rd_count) <= BufSize
      /\ writing.index = After(rx_index, Minus(writing.wr_count, rd_count))
  BY <1>1, PipeAssumption DEF PipeInv, WriteAhead, RingConsistent
<1>5. Minus(wr_count, rd_count) <= Minus(writing.wr_count, rd_count)
  BY <1>1, <1>4, CopiedIsCommitted
<1>6. RingConsistent' /\ WriteAhead'
  BY <1>2, <1>4, <1>5 DEF PipeInv, RingConsistent, WriteAhead, WriteEnd, NotWriting, shared
<1>7. ReadIsStable'
  BY DEF PipeInv, ReadIsStable, WriteEnd, shared
<1>8. QED
  BY <1>3, <1>6, <1>7 DEF PipeInv

(***************************************************************************)
(* hab_pipe_write_commit: the counters of the writer become visible.       *)
(***************************************************************************)
LEMMA WriteCommitStep ==
  ASSUME PipeInv, WriteCommit
  PROVE  PipeInv'
<1>1. TypeOK' /\ WriteAhead' /\ ReadIsStable'
  BY DEF PipeInv, TypeOK, WriteAhead, ReadIsStable, WriteCommit
<1>2. /\ wr_count' = tx.wr_count
      /\ UNCHANGED <<rd_count, tx, rx_index, writing, reading>>
  BY DEF WriteCommit
<1>3. reading.todo + Len(reading.got) <= Minus(tx.wr_count, rd_count)
  BY CopiedIsCommitted
<1>4. Minus(tx.wr_count, rd_count) <= Minus(tx.wr_count, rd_count)
  BY CopiedIsCommitted
<1>5. RingConsistent'
  BY <1>2, <1>3, <1>4 DEF PipeInv, RingConsistent
<1>6. QED
  BY <1>1, <1>5 DEF PipeInv

(***************************************************************************)
(* hab_pipe_read up to the copy, and one byte of its memcpy.               *)
(***************************************************************************)
LEMMA ReadBeginStep ==
  ASSUME PipeInv, NEW size \in 1 .. BufSize + 1, NEW clear \in BOOLEAN,
         ReadBegin(size, clear)
  PROVE  PipeInv'
<1> DEFINE avail == Minus(wr_count, rd_count)
<1>1. avail \in 0 .. BufSize
  BY CopiedIsCommitted, PipeAssumption
<1>2. PICK n \in 0 .. BufSize : n <= avail /\ n = IF avail < size THEN avail ELSE size
  BY <1>1, PipeAssumption
<1>3. reading' = [todo |-> n, got |-> << >>, header |-> clear /\ size = HeaderSize]
  BY <1>2 DEF ReadBegin
<1>4. UNCHANGED <<data, wr_count, rd_count, tx, rx_index, signature_mismatch, writing, result>>
  BY DEF ReadBegin, shared
<1>5. TypeOK'
  BY <1>3, <1>4 DEF PipeInv, TypeOK
<1>6. reading'.todo + Len(reading'.got) <= avail
  BY <1>1, <1>2, <1>3
<1>7. RingConsistent'
  BY <1>4, <1>6 DEF PipeInv, RingConsistent
<1>8. WriteAhead' /\ ReadIsStable'
  BY <1>3, <1>4 DEF PipeInv, WriteAhead, ReadIsStable
<1>9. QED
  BY <1>5, <1>7, <1>8 DEF PipeInv

(***************************************************************************)
(* One step of the copy loop of hab_pipe_read.                             *)
(***************************************************************************)
LEMMA ReadCopyStep ==
  ASSUME PipeInv, ReadCopy
  PROVE  PipeInv'
<1> DEFINE len == Len(reading.got)
<1>1. /\ reading.got \in Seq(Bytes) /\ len \in Nat
      /\ reading.todo \in 1 .. BufSize /\ rx_index \in Positions
      /\ data \in [Positions -> Bytes]
  BY DEF PipeInv, TypeOK, ReadCopy
<1>2. len \in 0 .. BufSize
  BY <1>1, CopiedIsCommitted, PipeAssumption
<1>3. data[After(rx_index, len)] \in Bytes
  BY <1>1, <1>2, AfterIs
<1>4. PICK b \in Bytes : b = data[After(rx_index, len)]
  BY <1>3
<1>5. /\ reading'.todo = reading.todo - 1 /\ reading'.got = Append(reading.got, b)
      /\ reading' \in [todo : 0 .. BufSize, got : Seq(Bytes), header : BOOLEAN]
  <2>1. /\ reading = [todo |-> reading.todo, got |-> reading.got, header |-> reading.header]
        /\ reading.header \in BOOLEAN
    BY DEF PipeInv, TypeOK
  <2>2. reading' = [todo |-> reading.todo - 1, got |-> Append(reading.got, b),
                    header |-> reading.header]
    BY <1>4, <2>1 DEF ReadCopy
  <2>3. reading.todo - 1 \in 0 .. BufSize /\ Append(reading.got, b) \in Seq(Bytes)
    BY <1>1, PipeAssumption
  <2>4. QED
    BY <2>1, <2>2, <2>3
<1>6. UNCHANGED <<data, wr_count, rd_count, tx, rx_index, signature_mismatch, writing, result>>
  BY DEF ReadCopy, shared
<1>7. TypeOK'
  BY <1>5, <1>6 DEF PipeInv, TypeOK
<1>8. reading'.todo + Len(reading'.got) = reading.todo + len
  <2>1. Len(reading'.got) = len + 1
    BY <1>1, <1>5
  <2>2. reading'.todo = reading.todo - 1 /\ reading.todo \in Int /\ len \in Int
    BY <1>1, <1>5, PipeAssumption
  <2>3. QED
    BY <2>1, <2>2
<1>9. RingConsistent' /\ WriteAhead'
  BY <1>6, <1>8 DEF PipeInv, RingConsistent, WriteAhead
<1>10. ReadIsStable'
  <2> SUFFICES ASSUME NEW k \in 1 .. len + 1
               PROVE  Append(reading.got, b)[k] = data[After(rx_index, k - 1)]
    BY <1>1, <1>5, <1>6 DEF ReadIsStable
  <2>1. CASE k = len + 1
    BY <1>1, <1>4, <2>1
  <2>2. CASE k # len + 1
    <3>1. k \in 1 .. len
      BY <1>1, <2>2
    <3>2. Append(reading.got, b)[k] = reading.got[k]
      BY <1>1, <3>1
    <3>3. QED
      BY <3>1, <3>2 DEF PipeInv, ReadIsStable
  <2>3. QED
    BY <2>1, <2>2
<1>11. QED
  BY <1>7, <1>9, <1>10 DEF PipeInv

(***************************************************************************)
(* The end of hab_pipe_read: it moves on by n bytes, all it has copied or, *)
(* on a mismatch, one, which are committed.                                *)
(***************************************************************************)
LEMMA ReadEndMoves ==
  ASSUME PipeInv, ReadEnd
  PROVE  \E n \in 1 .. BufSize :
           /\ n <= Len(reading.got) /\ n <= Minus(wr_count, rd_count)
           /\ rx_index' = After(rx_index, n) /\ rd_count' = Plus(rd_count, n)
           /\ \/ result' = << >> /\ n = 1
              \/ result' = reading.got /\ n = Len(reading.got)
           /\ signature_mismatch' \in BOOLEAN
           /\ reading' = NotReading
           /\ UNCHANGED <<data, wr_count, tx, writing>>
<1>1. Len(reading.got) \in 1 .. BufSize /\ Len(reading.got) <= Minus(wr_count, rd_count)
  <2>1. reading.got \in Seq(Bytes) /\ reading.got # << >>
    BY DEF PipeInv, TypeOK, ReadEnd
  <2>2. QED
    BY <2>1, CopiedIsCommitted, PipeAssumption
<1>2. PICK mismatch \in MismatchAfter :
        LET n == IF mismatch THEN 1 ELSE Len(reading.got) IN
          /\ signature_mismatch' = mismatch
          /\ rx_index' = After(rx_index, n)
          /\ rd_count' = Plus(rd_count, n)
          /\ result' = IF mismatch THEN << >> ELSE reading.got
  BY DEF ReadEnd
<1>3. mismatch \in BOOLEAN
  BY DEF MismatchAfter, PipeInv, TypeOK
<1>4. reading' = NotReading /\ UNCHANGED <<data, wr_count, tx, writing>>
  BY DEF ReadEnd
<1>5. CASE mismatch = TRUE
  <2>1. 1 \in 1 .. BufSize /\ 1 <= Len(reading.got) /\ 1 <= Minus(wr_count, rd_count)
    BY <1>1, CopiedIsCommitted, PipeAssumption
  <2>2. QED
    BY <1>2, <1>3, <1>4, <1>5, <2>1
<1>6. CASE mismatch = FALSE
  BY <1>1, <1>2, <1>3, <1>4, <1>6
<1>7. QED
  BY <1>3, <1>5, <1>6

(***************************************************************************)
(* hab_pipe_read ends: it gives back what it copied, or clears it.         *)
(***************************************************************************)
LEMMA ReadEndStep ==
  ASSUME PipeInv, ReadEnd
  PROVE  PipeInv'
<1>1. PICK n \in 1 .. BufSize :
           /\ n <= Len(reading.got) /\ n <= Minus(wr_count, rd_count)
           /\ rx_index' = After(rx_index, n) /\ rd_count' = Plus(rd_count, n)
           /\ \/ result' = << >> /\ n = 1
              \/ result' = reading.got /\ n = Len(reading.got)
           /\ signature_mismatch' \in BOOLEAN
           /\ reading' = NotReading
           /\ UNCHANGED <<data, wr_count, tx, writing>>
  BY ReadEndMoves
<1>2. /\ rd_count \in Counts /\ wr_count \in Counts /\ tx.wr_count \in Counts
      /\ writing.wr_count \in Counts /\ rx_index \in Positions
      /\ reading.got \in Seq(Bytes)
  BY DEF PipeInv, TypeOK
<1>3. n \in Nat /\ n \in 0 .. BufSize
  BY <1>1, PipeAssumption
<1>4. /\ n <= Minus(tx.wr_count, rd_count)
      /\ writing.busy => n <= Minus(writing.wr_count, rd_count)
  <2>1. /\ Minus(tx.wr_count, rd_count) \in Nat /\ Minus(wr_count, rd_count) \in Nat
        /\ Minus(writing.wr_count, rd_count) \in Nat
    BY <1>2, MinusInNat
  <2>2. Minus(wr_count, rd_count) <= Minus(tx.wr_count, rd_count)
    BY CopiedIsCommitted
  <2>3. writing.busy => Minus(tx.wr_count, rd_count) <= Minus(writing.wr_count, rd_count)
    BY DEF PipeInv, WriteAhead
  <2>4. QED
    BY <1>1, <1>3, <2>1, <2>2, <2>3
<1>5. /\ Plus(rd_count, n) \in Counts
      /\ Minus(wr_count, Plus(rd_count, n)) = Minus(wr_count, rd_count) - n
      /\ Minus(tx.wr_count, Plus(rd_count, n)) = Minus(tx.wr_count, rd_count) - n
      /\ writing.busy => Minus(writing.wr_count, Plus(rd_count, n))
                           = Minus(writing.wr_count, rd_count) - n
  BY <1>1, <1>2, <1>3, <1>4, ReaderMoves
<1>6. After(rx_index, n) \in Positions
  BY <1>2, <1>3, AfterIs
<1>7. TypeOK'
  <2>1. result' \in Seq(Bytes)
    <3>1. << >> \in Seq(Bytes)
      OBVIOUS
    <3>2. result' = << >> \/ result' = reading.got
      BY <1>1
    <3>3. QED
      BY <1>2, <3>1, <3>2
  <2>2. reading' \in [todo : 0 .. BufSize, got : Seq(Bytes), header : BOOLEAN]
    BY <1>1, PipeAssumption DEF NotReading
  <2>3. QED
    BY <1>1, <1>5, <1>6, <2>1, <2>2 DEF PipeInv, TypeOK
<1>8. \A m \in 0 .. BufSize : n <= m => After(rx_index, m) = After(After(rx_index, n), m - n)
  <2> SUFFICES ASSUME NEW m \in 0 .. BufSize, n <= m
               PROVE  After(rx_index, m) = After(After(rx_index, n), m - n)
    OBVIOUS
  <2>1. m - n \in 0 .. BufSize /\ n + (m - n) = m /\ n + (m - n) <= BufSize
    BY <1>3, PipeAssumption
  <2>2. QED
    BY <1>2, <1>3, <2>1, AfterAfter
<1>9. /\ Minus(tx.wr_count, rd_count) \in 0 .. BufSize
      /\ Minus(wr_count, rd_count) \in 0 .. BufSize
      /\ Minus(wr_count, rd_count) <= Minus(tx.wr_count, rd_count)
  BY CopiedIsCommitted, PipeAssumption
<1>10. writing.busy =>
         /\ Minus(writing.wr_count, rd_count) \in 0 .. BufSize
         /\ Minus(tx.wr_count, rd_count) <= Minus(writing.wr_count, rd_count)
         /\ Minus(writing.wr_count, rd_count) + Len(writing.todo) <= BufSize
         /\ Len(writing.todo) \in Nat
  <2>1. Len(writing.todo) \in Nat
    BY DEF PipeInv, TypeOK
  <2>2. QED
    BY <1>2, <2>1, MinusInNat, PipeAssumption DEF PipeInv, RingConsistent, WriteAhead
<1>11. tx.index = After(After(rx_index, n), Minus(tx.wr_count, rd_count) - n)
  BY <1>4, <1>8, <1>9 DEF PipeInv, RingConsistent
<1>12. writing.busy =>
         writing.index = After(After(rx_index, n), Minus(writing.wr_count, rd_count) - n)
  BY <1>4, <1>8, <1>10 DEF PipeInv, RingConsistent
<1>13. /\ Minus(tx.wr_count, rd_count) - n <= BufSize
       /\ Minus(wr_count, rd_count) - n <= Minus(tx.wr_count, rd_count) - n
       /\ 0 <= Minus(wr_count, rd_count) - n
       /\ writing.busy =>
            /\ (Minus(writing.wr_count, rd_count) - n) + Len(writing.todo) <= BufSize
            /\ Minus(tx.wr_count, rd_count) - n <= Minus(writing.wr_count, rd_count) - n
  BY <1>1, <1>3, <1>9, <1>10, PipeAssumption
<1>14. reading'.todo + Len(reading'.got) = 0 /\ Len(reading'.got) = 0
  BY <1>1 DEF NotReading
<1>15. RingConsistent' /\ WriteAhead'
  BY <1>1, <1>5, <1>11, <1>12, <1>13, <1>14 DEF PipeInv, RingConsistent, WriteAhead
<1>16. ReadIsStable'
  BY <1>14 DEF ReadIsStable
<1>17. QED
  BY <1>7, <1>15, <1>16 DEF PipeInv

(***************************************************************************)
(* Every step of the writer and of the reader keeps the invariant.         *)
(***************************************************************************)
LEMMA PipeNext == PipeInv /\ [Next]_vars => PipeInv'
<1> SUFFICES ASSUME PipeInv, [Next]_vars PROVE PipeInv'
  OBVIOUS
<1>1. CASE Writer
  BY <1>1, WriteBeginStep, WriteCopyStep, WriteEndStep, WriteCommitStep DEF Writer
<1>2. CASE Reader
  BY <1>2, ReadBeginStep, ReadCopyStep, ReadEndStep DEF Reader
<1>3. CASE UNCHANGED vars
  BY <1>3 DEF vars, shared, PipeInv, TypeOK, RingConsistent, WriteAhead, ReadIsStable
<1>4. QED
  BY <1>1, <1>2, <1>3 DEF Next

(***************************************************************************)
(* The variables of the pipe keep their types.                             *)
(***************************************************************************)
THEOREM PipeTypeCorrect == Spec => []TypeOK
<1>1. PipeInv => TypeOK
  BY DEF PipeInv
<1>2. QED
  BY <1>1, PipeInit, PipeNext, PTL DEF Spec

(***************************************************************************)
(* The writer's index and count and the reader's stay in step although     *)
(* counts and indices wrap at different places, and a write or a read in   *)
(* progress stays in its own part of the ring (hab_pipe_write,             *)
(* hab_pipe_read).                                                         *)
(***************************************************************************)
THEOREM RingCorrect == Spec => []RingConsistent
<1>1. PipeInv => RingConsistent
  BY DEF PipeInv
<1>2. QED
  BY <1>1, PipeInit, PipeNext, PTL DEF Spec

(***************************************************************************)
(* Nothing that hab_pipe_read has copied is overwritten before it gives    *)
(* the place back.                                                         *)
(***************************************************************************)
THEOREM ReadStableCorrect == Spec => []ReadIsStable
<1>1. PipeInv => ReadIsStable
  BY DEF PipeInv
<1>2. QED
  BY <1>1, PipeInit, PipeNext, PTL DEF Spec

-----------------------------------------------------------------------------
(* The ring implements HabFifo *)

(***************************************************************************)
(* The distance of two counts, both seen from the reader's.                *)
(***************************************************************************)
LEMMA MinusMinus ==
  ASSUME NEW c \in Counts, NEW d \in Counts, NEW rd \in Counts,
         Minus(d, rd) <= Minus(c, rd)
  PROVE  Minus(c, d) = Minus(c, rd) - Minus(d, rd)
<1>1. /\ Minus(c, rd) = IF c >= rd THEN c - rd ELSE c - rd + CountRange
      /\ Minus(d, rd) = IF d >= rd THEN d - rd ELSE d - rd + CountRange
      /\ Minus(c, d) = IF c >= d THEN c - d ELSE c - d + CountRange
  BY MinusIs
<1>2. QED
  BY <1>1, PipeAssumption DEF Counts

(***************************************************************************)
(* A span of the ring is a sequence of bytes.                              *)
(***************************************************************************)
LEMMA SpanIs ==
  ASSUME data \in [Positions -> Bytes], NEW from \in Positions, NEW n \in 0 .. BufSize
  PROVE  /\ Span(from, n) \in Seq(Bytes) /\ Len(Span(from, n)) = n
         /\ Span(from, n) \in [1 .. n -> Bytes]
         /\ \A k \in 1 .. n : Span(from, n)[k] = data[After(from, k - 1)]
<1>1. \A k \in 1 .. n : data[After(from, k - 1)] \in Bytes
  <2> SUFFICES ASSUME NEW k \in 1 .. n PROVE data[After(from, k - 1)] \in Bytes
    OBVIOUS
  <2>1. k - 1 \in 0 .. BufSize
    BY PipeAssumption
  <2>2. QED
    BY <2>1, AfterIs
<1>2. n \in Nat
  BY PipeAssumption
<1>3. QED
  BY <1>1, <1>2 DEF Span

(***************************************************************************)
(* The committed and the uncommitted bytes, by their distance from the     *)
(* reader's index.                                                         *)
(***************************************************************************)
Avail == Minus(wr_count, rd_count)
Taken == Minus(tx.wr_count, rd_count)

QueuesInRing ==
  /\ Avail \in 0 .. BufSize /\ Taken \in Avail .. BufSize
  /\ Unread \in Seq(Bytes) /\ Len(Unread) = Avail
  /\ \A k \in 1 .. Avail : Unread[k] = data[After(rx_index, k - 1)]
  /\ Uncommitted \in Seq(Bytes) /\ Len(Uncommitted) = Taken - Avail
  /\ \A k \in 1 .. Taken - Avail :
       Uncommitted[k] = data[After(rx_index, Avail + k - 1)]

(***************************************************************************)
(* The invariant gives these facts about the two queues.                   *)
(***************************************************************************)
LEMMA QueuesAre == PipeInv => QueuesInRing
<1> SUFFICES ASSUME PipeInv PROVE QueuesInRing
  OBVIOUS
<1>1. Avail \in 0 .. BufSize /\ Taken \in Avail .. BufSize
  BY CopiedIsCommitted, PipeAssumption DEF Avail, Taken
<1>2. /\ rx_index \in Positions /\ data \in [Positions -> Bytes]
      /\ rd_count \in Counts /\ wr_count \in Counts /\ tx.wr_count \in Counts
  BY DEF PipeInv, TypeOK
<1>3. Minus(tx.wr_count, wr_count) = Taken - Avail
  BY <1>2, MinusMinus DEF PipeInv, RingConsistent, Avail, Taken
<1>4. Taken - Avail \in 0 .. BufSize
  BY <1>1, PipeAssumption
<1>5. After(rx_index, Avail) \in Positions
  BY <1>1, <1>2, AfterIs
<1>6. Uncommitted = Span(After(rx_index, Avail), Taken - Avail)
  BY <1>3 DEF Uncommitted, Avail
<1>7. ASSUME NEW k \in 1 .. Taken - Avail
      PROVE  Uncommitted[k] = data[After(rx_index, Avail + k - 1)]
  <2>1. k - 1 \in 0 .. BufSize /\ Avail + (k - 1) <= BufSize /\ Avail + (k - 1) = Avail + k - 1
    BY <1>1, PipeAssumption
  <2>2. Uncommitted[k] = data[After(After(rx_index, Avail), k - 1)]
    BY <1>2, <1>4, <1>5, <1>6, SpanIs
  <2>3. After(After(rx_index, Avail), k - 1) = After(rx_index, Avail + k - 1)
    BY <1>1, <1>2, <2>1, AfterAfter
  <2>4. QED
    BY <2>2, <2>3
<1>8. Uncommitted \in Seq(Bytes) /\ Len(Uncommitted) = Taken - Avail
  BY <1>2, <1>4, <1>5, <1>6, SpanIs
<1>9. /\ Unread \in Seq(Bytes) /\ Len(Unread) = Avail
      /\ \A k \in 1 .. Avail : Unread[k] = data[After(rx_index, k - 1)]
  BY <1>1, <1>2, SpanIs DEF Unread, Avail
<1>10. QED
  BY <1>1, <1>7, <1>8, <1>9 DEF QueuesInRing

(***************************************************************************)
(* The same in the next state.                                             *)
(***************************************************************************)
LEMMA QueuesArePrimed == PipeInv' => QueuesInRing'
BY QueuesAre, PTL

(***************************************************************************)
(* A step that leaves alone the indices, the counts and the bytes that     *)
(* were written is no step of the queue.                                   *)
(***************************************************************************)
LEMMA FifoUnchanged ==
  ASSUME PipeInv, PipeInv', UNCHANGED <<wr_count, rd_count, tx, rx_index, result>>,
         \A k \in 0 .. BufSize - 1 :
            k < Taken => data'[After(rx_index, k)] = data[After(rx_index, k)]
  PROVE  UNCHANGED <<Unread, Uncommitted, result>>
<1>1. Avail' = Avail /\ Taken' = Taken
  BY DEF Avail, Taken
<1>2. QueuesInRing /\ QueuesInRing'
  BY QueuesAre, QueuesArePrimed
<1>3. Unread' = Unread
  <2>1. ASSUME NEW k \in 1 .. Avail PROVE Unread'[k] = Unread[k]
    <3>1. k - 1 \in 0 .. BufSize - 1 /\ k - 1 < Taken
      BY <1>2, PipeAssumption DEF QueuesInRing
    <3>2. QED
      BY <1>1, <1>2, <3>1 DEF QueuesInRing
  <2>2. QED
    BY <1>1, <1>2, <2>1, SeqEqual DEF QueuesInRing
<1>4. Uncommitted' = Uncommitted
  <2>1. ASSUME NEW k \in 1 .. Taken - Avail PROVE Uncommitted'[k] = Uncommitted[k]
    <3>1. Avail + k - 1 \in 0 .. BufSize - 1 /\ Avail + k - 1 < Taken
      BY <1>2, PipeAssumption DEF QueuesInRing
    <3>2. QED
      BY <1>1, <1>2, <3>1 DEF QueuesInRing
  <2>2. QED
    BY <1>1, <1>2, <2>1, SeqEqual DEF QueuesInRing
<1>5. QED
  BY <1>3, <1>4

(***************************************************************************)
(* The end of hab_pipe_write appends what was copied.                      *)
(***************************************************************************)
LEMMA FifoWrite ==
  ASSUME PipeInv, PipeInv', WriteEnd
  PROVE  [Fifo!Next]_<<Unread, Uncommitted, result>>
<1>1. QueuesInRing /\ QueuesInRing'
  BY QueuesAre, QueuesArePrimed
<1>2. /\ UNCHANGED <<data, wr_count, rd_count, rx_index, result>>
      /\ tx'.wr_count = writing.wr_count
  BY DEF WriteEnd, shared
<1>3. Avail' = Avail /\ Taken' \in Taken .. BufSize
  <2>1. Taken <= Taken'
    BY <1>2 DEF PipeInv, WriteAhead, WriteEnd, Taken
  <2>2. QED
    BY <1>1, <1>2, <2>1, PipeAssumption DEF QueuesInRing, Avail
<1>4. rx_index \in Positions /\ data \in [Positions -> Bytes]
  BY DEF PipeInv, TypeOK
<1>5. PICK a \in Nat, t \in Nat, n \in Nat :
        /\ Avail = a /\ Taken = t /\ Avail' = a /\ Taken' = t + n
        /\ a <= t /\ t + n <= BufSize
  <2>1. Avail \in Nat /\ Taken \in Nat /\ Avail <= Taken
    BY <1>1, PipeAssumption DEF QueuesInRing
  <2>2. Taken' \in Nat /\ Taken <= Taken' /\ Taken' <= BufSize
    BY <1>3, <2>1, PipeAssumption
  <2>3. PICK t \in Nat, u \in Nat : Taken = t /\ Taken' = u
    BY <2>1, <2>2
  <2>4. u - t \in Nat /\ t + (u - t) = u
    BY <2>2, <2>3
  <2>5. QED
    BY <1>3, <2>1, <2>2, <2>3, <2>4
<1> DEFINE p == Span(After(rx_index, t), n)
<1>6. After(rx_index, t) \in Positions /\ n \in 0 .. BufSize
  BY <1>4, <1>5, AfterIs, PipeAssumption
<1>7. /\ p \in Seq(Bytes) /\ Len(p) = n /\ p \in [1 .. n -> Bytes]
      /\ \A k \in 1 .. n : p[k] = data[After(After(rx_index, t), k - 1)]
  BY <1>4, <1>5, <1>6, SpanIs
<1> HIDE DEF p
<1>8. Unread' = Unread
  <2>1. \A k \in 1 .. Avail : Unread'[k] = Unread[k]
    BY <1>1, <1>2, <1>3 DEF QueuesInRing
  <2>2. QED
    BY <1>1, <1>3, <2>1, SeqEqual DEF QueuesInRing
<1>9. Uncommitted' = Uncommitted \o p
  <2>1. Uncommitted \in Seq(Bytes) /\ Len(Uncommitted) = t - a
    BY <1>1, <1>5 DEF QueuesInRing
  <2>2. Uncommitted' \in Seq(Bytes) /\ Len(Uncommitted') = (t + n) - a
    BY <1>1, <1>5 DEF QueuesInRing
  <2>3. /\ Uncommitted \o p \in Seq(Bytes) /\ Len(Uncommitted \o p) = (t - a) + n
        /\ \A k \in 1 .. (t - a) + n :
             (Uncommitted \o p)[k] = IF k <= t - a THEN Uncommitted[k] ELSE p[k - (t - a)]
    <3>1. /\ Uncommitted \o p \in Seq(Bytes)
          /\ Len(Uncommitted \o p) = Len(Uncommitted) + Len(p)
          /\ \A k \in 1 .. Len(Uncommitted) + Len(p) :
               (Uncommitted \o p)[k] = IF k <= Len(Uncommitted) THEN Uncommitted[k]
                                       ELSE p[k - Len(Uncommitted)]
      BY <1>7, <2>1, ConcatProperties
    <3>2. QED
      BY <1>7, <2>1, <3>1
  <2>4. (t - a) + n = (t + n) - a /\ (t - a) + n \in Nat
    BY <1>5
  <2>5. ASSUME NEW k \in 1 .. (t - a) + n
        PROVE  Uncommitted'[k] = (Uncommitted \o p)[k]
    <3>1. Uncommitted'[k] = data[After(rx_index, a + k - 1)]
      BY <1>1, <1>2, <1>5, <2>4 DEF QueuesInRing
    <3>2. CASE k <= t - a
      <4>1. k \in 1 .. t - a
        BY <1>5, <3>2
      <4>2. Uncommitted[k] = data[After(rx_index, a + k - 1)]
        BY <1>1, <1>5, <4>1 DEF QueuesInRing
      <4>3. QED
        BY <2>3, <3>1, <3>2, <4>2
    <3>3. CASE ~(k <= t - a)
      <4>1. k - (t - a) \in 1 .. n
        BY <1>5, <3>3
      <4>2. p[k - (t - a)] = data[After(After(rx_index, t), k - (t - a) - 1)]
        BY <1>7, <4>1
      <4>3. /\ k - (t - a) - 1 \in 0 .. BufSize /\ t \in 0 .. BufSize
            /\ t + (k - (t - a) - 1) <= BufSize
            /\ t + (k - (t - a) - 1) = a + k - 1
        BY <1>5, <4>1, PipeAssumption
      <4>4. After(After(rx_index, t), k - (t - a) - 1) = After(rx_index, a + k - 1)
        BY <1>4, <4>3, AfterAfter
      <4>5. (Uncommitted \o p)[k] = p[k - (t - a)]
        BY <2>3, <3>3
      <4>6. QED
        BY <3>1, <4>2, <4>4, <4>5
    <3>4. QED
      BY <3>2, <3>3
  <2>6. QED
    BY <2>2, <2>3, <2>4, <2>5, SeqEqual
<1>10. CASE n = 0
  <2>1. p = << >>
    BY <1>7, <1>10, EmptySeq
  <2>2. Uncommitted' = Uncommitted
    BY <1>1, <1>9, <2>1, ConcatEmptySeq DEF QueuesInRing
  <2>3. QED
    BY <1>2, <1>8, <2>2
<1>11. CASE n # 0
  <2>1. n \in 1 .. BufSize
    BY <1>6, <1>11, PipeAssumption
  <2>2. Len(Unread) + Len(Uncommitted) + Len(p) <= BufSize
    BY <1>1, <1>5, <1>7, PipeAssumption DEF QueuesInRing
  <2>3. Fifo!Write(p)
    BY <1>2, <1>8, <1>9, <2>2 DEF Fifo!Write
  <2>4. QED
    BY <1>7, <2>1, <2>3 DEF Fifo!Next
<1>12. QED
  BY <1>10, <1>11

(***************************************************************************)
(* hab_pipe_write_commit makes all that was written visible at once.       *)
(***************************************************************************)
LEMMA FifoCommit ==
  ASSUME PipeInv, PipeInv', WriteCommit
  PROVE  Fifo!Commit
<1>1. QueuesInRing /\ QueuesInRing'
  BY QueuesAre, QueuesArePrimed
<1>2. UNCHANGED <<data, rd_count, tx, rx_index, result>> /\ wr_count' = tx.wr_count
  BY DEF WriteCommit
<1>3. PICK a \in Nat, t \in Nat :
        Avail = a /\ Taken = t /\ Avail' = t /\ Taken' = t /\ a <= t /\ t <= BufSize
  <2>1. Avail \in Nat /\ Taken \in Nat /\ Avail <= Taken /\ Taken <= BufSize
    BY <1>1, PipeAssumption DEF QueuesInRing
  <2>2. Avail' = Taken /\ Taken' = Taken
    BY <1>2 DEF Avail, Taken
  <2>3. QED
    BY <2>1, <2>2
<1>4. /\ Unread \in Seq(Bytes) /\ Len(Unread) = a
      /\ Uncommitted \in Seq(Bytes) /\ Len(Uncommitted) = t - a
      /\ Unread' \in Seq(Bytes) /\ Len(Unread') = t
      /\ Uncommitted' \in Seq(Bytes) /\ Len(Uncommitted') = t - t
  BY <1>1, <1>3 DEF QueuesInRing
<1>5. Uncommitted' = << >>
  BY <1>3, <1>4, EmptySeq
<1>6. Unread' = Unread \o Uncommitted
  <2>1. /\ Unread \o Uncommitted \in Seq(Bytes)
        /\ Len(Unread \o Uncommitted) = Len(Unread) + Len(Uncommitted)
        /\ \A k \in 1 .. Len(Unread) + Len(Uncommitted) :
             (Unread \o Uncommitted)[k] = IF k <= Len(Unread) THEN Unread[k]
                                          ELSE Uncommitted[k - Len(Unread)]
    BY <1>4, ConcatProperties
  <2>2. a + (t - a) = t
    BY <1>3
  <2>3. ASSUME NEW k \in 1 .. t PROVE Unread'[k] = (Unread \o Uncommitted)[k]
    <3>1. Unread'[k] = data[After(rx_index, k - 1)]
      BY <1>1, <1>2, <1>3 DEF QueuesInRing
    <3>2. CASE k <= a
      <4>1. k \in 1 .. a
        BY <1>3, <3>2
      <4>2. Unread[k] = data[After(rx_index, k - 1)]
        BY <1>1, <1>3, <4>1 DEF QueuesInRing
      <4>3. QED
        BY <1>4, <2>1, <2>2, <3>1, <3>2, <4>2
    <3>3. CASE ~(k <= a)
      <4>1. k - a \in 1 .. t - a /\ a + (k - a) - 1 = k - 1
        BY <1>3, <3>3
      <4>2. Uncommitted[k - a] = data[After(rx_index, a + (k - a) - 1)]
        BY <1>1, <1>3, <4>1 DEF QueuesInRing
      <4>3. QED
        BY <1>4, <2>1, <2>2, <3>1, <3>3, <4>1, <4>2
    <3>4. QED
      BY <3>2, <3>3
  <2>4. QED
    BY <1>4, <2>1, <2>2, <2>3, SeqEqual
<1>7. QED
  BY <1>2, <1>5, <1>6 DEF Fifo!Commit

(***************************************************************************)
(* The end of hab_pipe_read hands over the first bytes, or skips one.      *)
(***************************************************************************)
LEMMA FifoRead ==
  ASSUME PipeInv, PipeInv', ReadEnd
  PROVE  Fifo!Next
<1>1. QueuesInRing /\ QueuesInRing'
  BY QueuesAre, QueuesArePrimed
<1>2. PICK n \in 1 .. BufSize :
        /\ n <= Len(reading.got) /\ n <= Minus(wr_count, rd_count)
        /\ rx_index' = After(rx_index, n) /\ rd_count' = Plus(rd_count, n)
        /\ \/ result' = << >> /\ n = 1
           \/ result' = reading.got /\ n = Len(reading.got)
        /\ UNCHANGED <<data, wr_count, tx>>
  BY ReadEndMoves
<1>3. /\ rd_count \in Counts /\ wr_count \in Counts /\ tx.wr_count \in Counts
      /\ rx_index \in Positions /\ reading.got \in Seq(Bytes)
  BY DEF PipeInv, TypeOK
<1>4. n \in Nat /\ n \in 0 .. BufSize /\ n >= 1
  BY PipeAssumption
<1>5. PICK a \in Nat, t \in Nat :
        /\ Avail = a /\ Taken = t /\ Avail' = a - n /\ Taken' = t - n
        /\ n <= a /\ a <= t /\ t <= BufSize
  <2>1. Avail \in Nat /\ Taken \in Nat /\ Avail <= Taken /\ Taken <= BufSize
    BY <1>1, PipeAssumption DEF QueuesInRing
  <2>2. n <= Avail
    BY <1>2 DEF Avail
  <2>3. n <= Minus(wr_count, rd_count) /\ n <= Minus(tx.wr_count, rd_count)
    BY <1>4, <2>1, <2>2 DEF Avail, Taken
  <2>4. Avail' = Avail - n /\ Taken' = Taken - n
    BY <1>2, <1>3, <1>4, <2>3, ReaderMoves DEF Avail, Taken
  <2>5. QED
    BY <2>1, <2>2, <2>4
<1>6. /\ Unread \in Seq(Bytes) /\ Len(Unread) = a
      /\ Uncommitted \in Seq(Bytes) /\ Len(Uncommitted) = t - a
      /\ Unread' \in Seq(Bytes) /\ Len(Unread') = a - n
      /\ Uncommitted' \in Seq(Bytes) /\ Len(Uncommitted') = (t - n) - (a - n)
  BY <1>1, <1>5 DEF QueuesInRing
<1>7. ASSUME NEW m \in Nat, n + m <= BufSize
      PROVE  data'[After(rx_index', m)] = data[After(rx_index, n + m)]
  <2>1. m \in 0 .. BufSize
    BY <1>4, <1>7, PipeAssumption
  <2>2. QED
    BY <1>2, <1>3, <1>4, <1>7, <2>1, AfterAfter
<1>8. Uncommitted' = Uncommitted
  <2>1. (t - n) - (a - n) = t - a
    BY <1>4, <1>5
  <2>2. ASSUME NEW k \in 1 .. t - a PROVE Uncommitted'[k] = Uncommitted[k]
    <3>1. Uncommitted'[k] = data'[After(rx_index', (a - n) + k - 1)]
      BY <1>1, <1>5, <2>1 DEF QueuesInRing
    <3>2. Uncommitted[k] = data[After(rx_index, a + k - 1)]
      BY <1>1, <1>5 DEF QueuesInRing
    <3>3. /\ (a - n) + k - 1 \in Nat /\ n + ((a - n) + k - 1) <= BufSize
          /\ n + ((a - n) + k - 1) = a + k - 1
      BY <1>4, <1>5, PipeAssumption
    <3>4. QED
      BY <1>7, <3>1, <3>2, <3>3
  <2>3. QED
    BY <1>6, <2>1, <2>2, SeqEqual
<1>9. ASSUME NEW k \in 1 .. a - n PROVE Unread'[k] = Unread[n + k]
  <2>1. Unread'[k] = data'[After(rx_index', k - 1)]
    BY <1>1, <1>5 DEF QueuesInRing
  <2>2. /\ k - 1 \in Nat /\ n + (k - 1) <= BufSize /\ n + (k - 1) = (n + k) - 1
        /\ n + k \in 1 .. a
    BY <1>4, <1>5, PipeAssumption
  <2>3. Unread[n + k] = data[After(rx_index, (n + k) - 1)]
    BY <1>1, <1>5, <2>2 DEF QueuesInRing
  <2>4. QED
    BY <1>7, <2>1, <2>2, <2>3
<1>10. CASE result' = << >> /\ n = 1
  <2>1. Unread # << >>
    BY <1>4, <1>5, <1>6
  <2>2. /\ Tail(Unread) \in Seq(Bytes) /\ Len(Tail(Unread)) = a - 1
        /\ \A i \in 1 .. a - 1 : Tail(Unread)[i] = Unread[i + 1]
    BY <1>6, <2>1, HeadTailProperties
  <2>3. ASSUME NEW k \in 1 .. a - 1 PROVE Unread'[k] = Tail(Unread)[k]
    <3>1. 1 + k = k + 1
      BY <1>5
    <3>2. QED
      BY <1>9, <1>10, <2>2, <3>1
  <2>4. Unread' = Tail(Unread)
    BY <1>6, <1>10, <2>2, <2>3, SeqEqual
  <2>5. Fifo!Skip
    BY <1>8, <1>10, <2>1, <2>4 DEF Fifo!Skip
  <2>6. QED
    BY <2>5 DEF Fifo!Next
<1>11. CASE result' = reading.got /\ n = Len(reading.got)
  <2>1. \A i \in 1 .. a : Unread[i] \in Bytes
    BY <1>6, ElementOfSeq
  <2>2. /\ n + 1 \in Int /\ a \in Int /\ 1 \in Int /\ n \in Int
        /\ \A i \in 1 .. n : Unread[i] \in Bytes
        /\ \A i \in n + 1 .. a : Unread[i] \in Bytes
    BY <1>4, <1>5, <2>1
  <2>3. /\ SubSeq(Unread, 1, n) \in Seq(Bytes) /\ Len(SubSeq(Unread, 1, n)) = n
        /\ \A i \in 1 .. n : SubSeq(Unread, 1, n)[i] = Unread[i]
    <3>1. /\ SubSeq(Unread, 1, n) \in Seq(Bytes)
          /\ Len(SubSeq(Unread, 1, n)) = IF 1 <= n THEN n - 1 + 1 ELSE 0
          /\ \A i \in 1 .. n - 1 + 1 : SubSeq(Unread, 1, n)[i] = Unread[1 + i - 1]
      BY <2>2, SubSeqProperties
    <3>2. QED
      BY <1>4, <3>1
  <2>4. /\ SubSeq(Unread, n + 1, a) \in Seq(Bytes) /\ Len(SubSeq(Unread, n + 1, a)) = a - n
        /\ \A i \in 1 .. a - n : SubSeq(Unread, n + 1, a)[i] = Unread[n + i]
    <3>1. /\ SubSeq(Unread, n + 1, a) \in Seq(Bytes)
          /\ Len(SubSeq(Unread, n + 1, a)) = IF n + 1 <= a THEN a - (n + 1) + 1 ELSE 0
          /\ \A i \in 1 .. a - (n + 1) + 1 : SubSeq(Unread, n + 1, a)[i] = Unread[n + 1 + i - 1]
      BY <2>2, SubSeqProperties
    <3>2. QED
      BY <1>4, <1>5, <3>1
  <2>5. result' = SubSeq(Unread, 1, n)
    <3>1. ASSUME NEW k \in 1 .. n PROVE reading.got[k] = SubSeq(Unread, 1, n)[k]
      <4>1. k \in 1 .. a
        BY <1>4, <1>5
      <4>2. reading.got[k] = data[After(rx_index, k - 1)]
        BY <1>11 DEF PipeInv, ReadIsStable
      <4>3. Unread[k] = data[After(rx_index, k - 1)]
        BY <1>1, <1>5, <4>1 DEF QueuesInRing
      <4>4. QED
        BY <2>3, <4>2, <4>3
    <3>2. QED
      BY <1>3, <1>11, <2>3, <3>1, SeqEqual
  <2>6. Unread' = SubSeq(Unread, n + 1, a)
    BY <1>6, <1>9, <2>4, SeqEqual
  <2>7. n \in 1 .. Len(Unread) /\ Fifo!Read(n)
    BY <1>4, <1>5, <1>6, <1>8, <2>5, <2>6 DEF Fifo!Read
  <2>8. QED
    BY <2>7 DEF Fifo!Next
<1>12. QED
  BY <1>2, <1>10, <1>11

(***************************************************************************)
(* Every step of the pipe is a step of the queue or leaves it alone.       *)
(***************************************************************************)
LEMMA FifoNext ==
  ASSUME PipeInv, PipeInv', [Next]_vars
  PROVE  [Fifo!Next]_<<Unread, Uncommitted, result>>
<1>1. ASSUME UNCHANGED <<data, wr_count, rd_count, tx, rx_index, result>>
      PROVE  UNCHANGED <<Unread, Uncommitted, result>>
  BY <1>1, FifoUnchanged
<1>2. CASE \E n \in 1 .. BufSize : \E p \in [1 .. n -> Bytes] : WriteBegin(p)
  BY <1>1, <1>2 DEF WriteBegin, shared
<1>3. CASE WriteCopy
  <2>1. \A k \in 0 .. BufSize - 1 :
          k < Taken => data'[After(rx_index, k)] = data[After(rx_index, k)]
    <3> SUFFICES ASSUME NEW k \in 0 .. BufSize - 1, k < Taken
                 PROVE  data'[After(rx_index, k)] = data[After(rx_index, k)]
      OBVIOUS
    <3>1. /\ Taken \in Nat /\ Taken <= Minus(writing.wr_count, rd_count)
          /\ Minus(writing.wr_count, rd_count) \in 0 .. BufSize - 1
      BY <1>3, WriteIsFree, CopiedIsCommitted DEF Taken
    <3>2. k < Minus(writing.wr_count, rd_count)
      BY <3>1, PipeAssumption
    <3>3. QED
      BY <1>3, <3>2, WriteIsFree
  <2>2. QED
    BY <1>3, <2>1, FifoUnchanged DEF WriteCopy
<1>4. CASE WriteEnd
  BY <1>4, FifoWrite
<1>5. CASE WriteCommit
  BY <1>5, FifoCommit DEF Fifo!Next
<1>6. CASE \E size \in 1 .. BufSize + 1, clear \in BOOLEAN : ReadBegin(size, clear)
  BY <1>1, <1>6 DEF ReadBegin, shared
<1>7. CASE ReadCopy
  BY <1>1, <1>7 DEF ReadCopy, shared
<1>8. CASE ReadEnd
  BY <1>8, FifoRead
<1>9. CASE UNCHANGED vars
  BY <1>1, <1>9 DEF vars, shared
<1>10. QED
  BY <1>2, <1>3, <1>4, <1>5, <1>6, <1>7, <1>8, <1>9 DEF Next, Writer, Reader

(***************************************************************************)
(* The pipe implements the bounded byte queue HabFifo: what hab_pipe_write *)
(* has taken is committed whole and read once and in order, for any size   *)
(* of the ring, although both sides copy at the same time and counts and   *)
(* indices wrap around.                                                    *)
(***************************************************************************)
THEOREM PipeIsFifo == Spec => IsFifo
<1>1. Init => Fifo!Init
  <2> SUFFICES ASSUME Init PROVE Fifo!Init
    OBVIOUS
  <2>1. 0 \in Counts /\ Minus(0, 0) = 0
    BY MinusIs, PipeAssumption DEF Counts
  <2>2. PipeInv
    BY PipeInit
  <2>3. /\ Unread \in Seq(Bytes) /\ Len(Unread) = 0
        /\ Uncommitted \in Seq(Bytes) /\ Len(Uncommitted) = 0
    BY <2>1, <2>2, QueuesAre DEF QueuesInRing, Avail, Taken, Init
  <2>4. QED
    BY <2>3, EmptySeq DEF Init, Fifo!Init
<1>2. PipeInv /\ PipeInv' /\ [Next]_vars => [Fifo!Next]_<<Unread, Uncommitted, result>>
  BY FifoNext
<1>3. QED
  BY <1>1, <1>2, PipeInit, PipeNext, PTL DEF Spec, IsFifo, Fifo!Spec, Fifo!vars
=============================================================================
