----------------------------- MODULE Ring_proofs -----------------------------
(***************************************************************************)
(* The ring is a queue, for every size and every length of the chunks.     *)
(*                                                                         *)
(* Offsets below the size, counted from either head, name different cells  *)
(* (OffsetsDiffer), and the write head is the read head advanced by what   *)
(* is readable (HeadsApart).  So the writer, who stays within the room it  *)
(* found, never touches a readable byte, and the reader only ever makes    *)
(* room.  The refinement maps the two moves of a head to the write and the *)
(* read of the queue, and every other step to a stutter.                   *)
(***************************************************************************)
EXTENDS Ring, SequenceTheorems, TLAPS

\* The size of the ring.
LEMMA SizeIsNat == Size \in Nat /\ Size > 0
BY RingAssumption

\* x & size_mask is a cell.
LEMMA MaskedIsCell ==
  ASSUME NEW x \in Nat, x < 2 * Size
  PROVE  Masked(x) \in Cells
BY SizeIsNat DEF Masked, Cells

\* Different offsets from a head name different cells.
LEMMA OffsetsDiffer ==
  ASSUME NEW h \in Cells, NEW a \in Nat, NEW b \in Nat, a < Size, b < Size,
         Masked(h + a) = Masked(h + b)
  PROVE  a = b
BY SizeIsNat DEF Masked, Cells

\* Advancing a head in two parts is advancing it once.
LEMMA AdvanceTwice ==
  ASSUME NEW h \in Cells, NEW a \in Nat, NEW b \in Nat, a + b <= Size, a < Size
  PROVE  Masked(Masked(h + a) + b) = Masked(h + (a + b))
BY SizeIsNat DEF Masked, Cells

\* The read space is below the size and leads from one head to the other.
LEMMA HeadsApart ==
  ASSUME NEW r \in Cells, NEW w \in Cells
  PROVE  /\ ReadSpace(r, w) \in Nat /\ ReadSpace(r, w) < Size
         /\ Masked(r + ReadSpace(r, w)) = w
BY SizeIsNat DEF Masked, Cells, ReadSpace

\* What is readable and what can be written fill the ring but for one byte.
LEMMA SpacesFill ==
  ASSUME NEW r \in Cells, NEW w \in Cells
  PROVE  WriteSpace(r, w) = Size - 1 - ReadSpace(r, w)
BY SizeIsNat DEF Masked, Cells, ReadSpace, WriteSpace

\* Moving the write head by n makes n more bytes readable.
LEMMA WriteHeadMoves ==
  ASSUME NEW r \in Cells, NEW w \in Cells, NEW n \in Nat, ReadSpace(r, w) + n < Size
  PROVE  /\ Masked(w + n) \in Cells
         /\ ReadSpace(r, Masked(w + n)) = ReadSpace(r, w) + n
BY SizeIsNat DEF Masked, Cells, ReadSpace

\* Moving the read head by n makes n fewer bytes readable.
LEMMA ReadHeadMoves ==
  ASSUME NEW r \in Cells, NEW w \in Cells, NEW n \in Nat, n <= ReadSpace(r, w)
  PROVE  /\ Masked(r + n) \in Cells
         /\ ReadSpace(Masked(r + n), w) = ReadSpace(r, w) - n
BY SizeIsNat DEF Masked, Cells, ReadSpace
-----------------------------------------------------------------------------
IInv == TypeOK /\ RoomForWrite /\ WriteInPlace /\ ReadInPlace

\* The numbers of the invariant, in the form the steps use them.
LEMMA Numbers ==
  ASSUME IInv
  PROVE  /\ write_head \in Cells /\ read_head \in Cells
         /\ Used \in Nat /\ Used < Size /\ Masked(read_head + Used) = write_head
         /\ Len(src) \in Nat /\ written \in Nat /\ written <= Len(src)
         /\ Used + Len(src) < Size
         /\ wanted \in Nat /\ wanted <= Used
         /\ Len(dst) \in Nat /\ Len(dst) <= wanted
<1>1. write_head \in Cells /\ read_head \in Cells
  BY DEF IInv, TypeOK
<1>2. Used \in Nat /\ Used < Size /\ Masked(read_head + Used) = write_head
  BY <1>1, HeadsApart DEF Used
<1>3. Len(src) \in Nat /\ Len(dst) \in Nat
  BY DEF IInv, TypeOK
<1>4. written \in Nat /\ written <= Len(src)
  BY <1>3 DEF IInv, TypeOK
<1> QED
  BY <1>1, <1>2, <1>3, <1>4 DEF IInv, TypeOK, RoomForWrite, ReadInPlace

\* The cell the writer is about to fill is none of the readable ones.
LEMMA WriterStaysOut ==
  ASSUME IInv, written < Len(src), NEW k \in Nat, k < Used
  PROVE  Masked(write_head + written) # Masked(read_head + k)
<1>1. Used + written \in Nat /\ Used + written < Size /\ k < Size /\ k # Used + written
  BY Numbers, SizeIsNat
<1>2. Masked(write_head + written) = Masked(read_head + (Used + written))
  <2>1. Masked(Masked(read_head + Used) + written) = Masked(read_head + (Used + written))
    BY <1>1, Numbers, SizeIsNat, AdvanceTwice
  <2> QED BY <2>1, Numbers
<1> QED
  BY <1>1, <1>2, Numbers, OffsetsDiffer

\* Nor is it one it filled before.
LEMMA WriterAdvances ==
  ASSUME IInv, written < Len(src), NEW k \in Nat, k < written
  PROVE  Masked(write_head + written) # Masked(write_head + k)
<1>1. written < Size /\ k < Size /\ k # written
  BY Numbers, SizeIsNat
<1> QED
  BY <1>1, Numbers, OffsetsDiffer

\* Both threads start idle on an empty ring.
LEMMA InitInvariant == Init => IInv
<1> SUFFICES ASSUME Init PROVE IInv
  OBVIOUS
<1>1. 0 \in Cells
  BY SizeIsNat DEF Cells
<1>2. Used = 0
  BY SizeIsNat DEF Init, Used, ReadSpace, Masked
<1>3. TypeOK
  BY <1>1 DEF Init, TypeOK
<1> QED
  BY <1>2, <1>3, SizeIsNat DEF Init, IInv, RoomForWrite, WriteInPlace, ReadInPlace

\* zix_ring_write finds room for its chunk.
LEMMA WriteStartStep ==
  ASSUME IInv, NEW chunk \in Chunks, WriteStart(chunk)
  PROVE  IInv'
<1>1. chunk \in Seq(Bytes) /\ Len(chunk) \in Nat
  BY DEF Chunks
<1>2. /\ src' = chunk /\ written' = 0 /\ write_head' = write_head /\ buf' = buf
      /\ read_head' = read_head /\ wanted' = wanted /\ dst' = dst /\ output' = output
  BY DEF WriteStart, reader
<1>3. Used' = Used
  BY <1>2 DEF Used
<1>4. Used + Len(chunk) < Size
  <2>1. WriteSpace(read_head, write_head) = Size - 1 - Used
    BY Numbers, SpacesFill DEF Used
  <2> QED BY <1>1, <2>1, Numbers, SizeIsNat DEF WriteStart
<1>5. TypeOK'
  BY <1>1, <1>2 DEF IInv, TypeOK
<1>6. RoomForWrite'
  BY <1>2, <1>3, <1>4 DEF RoomForWrite
<1>7. WriteInPlace'
  BY <1>2 DEF WriteInPlace
<1>8. ReadInPlace'
  BY <1>2, <1>3 DEF IInv, ReadInPlace
<1> QED
  BY <1>5, <1>6, <1>7, <1>8 DEF IInv

\* A byte of the write lands behind the readable bytes.
LEMMA WriteByteStep ==
  ASSUME IInv, WriteByte
  PROVE  IInv'
<1> DEFINE cell == Masked(write_head + written)
<1>1. /\ written < Len(src) /\ written' = written + 1
      /\ buf' = [buf EXCEPT ![cell] = src[written + 1]]
      /\ src' = src /\ write_head' = write_head
      /\ read_head' = read_head /\ wanted' = wanted /\ dst' = dst /\ output' = output
  BY DEF WriteByte, reader
<1>2. Used' = Used
  BY <1>1 DEF Used
<1>3. cell \in Cells
  <2>1. write_head + written \in Nat /\ write_head + written < 2 * Size
    BY <1>1, Numbers, SizeIsNat DEF Cells
  <2> QED BY <2>1, MaskedIsCell
<1>4. buf \in [Cells -> Bytes] /\ src[written + 1] \in Bytes
  BY <1>1, Numbers DEF IInv, TypeOK
<1>5. \A c : c # cell => buf'[c] = buf[c]
  BY <1>1, <1>4
<1>6. buf'[cell] = src[written + 1]
  BY <1>1, <1>3, <1>4
<1>7. TypeOK'
  <2>1. written + 1 \in 0..Len(src)
    BY <1>1, Numbers
  <2> QED BY <1>1, <1>3, <1>4, <2>1 DEF IInv, TypeOK
<1> HIDE DEF cell
<1>8. RoomForWrite'
  BY <1>1, <1>2 DEF IInv, RoomForWrite
<1>9. WriteInPlace'
  <2> SUFFICES ASSUME NEW k \in 1..(written + 1)
               PROVE  buf'[Masked(write_head + (k - 1))] = src[k]
    BY <1>1 DEF WriteInPlace
  <2>1. k \in Nat /\ k - 1 \in Nat
    BY Numbers
  <2>2. CASE k = written + 1
    <3>1. k - 1 = written
      BY <2>2, Numbers
    <3> QED BY <1>6, <2>2, <3>1 DEF cell
  <2>3. CASE k # written + 1
    <3>1. k \in 1..written /\ k - 1 < written
      BY <2>1, <2>3, Numbers
    <3>2. Masked(write_head + (k - 1)) # cell
      BY <1>1, <2>1, <3>1, WriterAdvances DEF cell
    <3> QED BY <1>5, <3>1, <3>2 DEF IInv, WriteInPlace
  <2> QED BY <2>2, <2>3
<1>10. ReadInPlace'
  <2> SUFFICES ASSUME NEW k \in 1..Len(dst)
               PROVE  dst[k] = buf'[Masked(read_head + (k - 1))]
    BY <1>1, <1>2 DEF IInv, ReadInPlace
  <2>1. k - 1 \in Nat /\ k - 1 < Used
    BY Numbers
  <2>2. Masked(read_head + (k - 1)) # cell
    BY <1>1, <2>1, WriterStaysOut DEF cell
  <2> QED BY <1>5, <2>2 DEF IInv, ReadInPlace
<1> QED
  BY <1>7, <1>8, <1>9, <1>10 DEF IInv

\* The write head moves over what was written.
LEMMA WriteDoneStep ==
  ASSUME IInv, WriteDone
  PROVE  IInv'
<1>1. /\ written = Len(src) /\ written' = 0 /\ src' = <<>> /\ buf' = buf
      /\ write_head' = Masked(write_head + Len(src))
      /\ read_head' = read_head /\ wanted' = wanted /\ dst' = dst /\ output' = output
  BY DEF WriteDone, reader
<1>2. write_head' \in Cells /\ Used' = Used + Len(src)
  BY <1>1, Numbers, WriteHeadMoves DEF Used
<1>3. TypeOK'
  BY <1>1, <1>2 DEF IInv, TypeOK
<1>4. RoomForWrite'
  BY <1>1, <1>2, Numbers DEF RoomForWrite
<1>5. WriteInPlace'
  BY <1>1 DEF WriteInPlace
<1>6. ReadInPlace'
  BY <1>1, <1>2, Numbers DEF IInv, ReadInPlace
<1> QED
  BY <1>3, <1>4, <1>5, <1>6 DEF IInv

\* zix_ring_read finds enough bytes.
LEMMA ReadStartStep ==
  ASSUME IInv, NEW n \in 1..MaxChunk, ReadStart(n)
  PROVE  IInv'
<1>1. /\ wanted' = n /\ dst' = <<>> /\ n <= Used /\ n \in Nat
      /\ read_head' = read_head /\ output' = output /\ buf' = buf
      /\ write_head' = write_head /\ src' = src /\ written' = written
  BY Numbers, RingAssumption DEF ReadStart, writer, Used
<1>2. Used' = Used
  BY <1>1 DEF Used
<1> QED
  BY <1>1, <1>2 DEF IInv, TypeOK, RoomForWrite, WriteInPlace, ReadInPlace

\* A byte is copied out of the ring.
LEMMA ReadByteStep ==
  ASSUME IInv, ReadByte
  PROVE  IInv'
<1> DEFINE byte == buf[Masked(read_head + Len(dst))]
<1>1. /\ Len(dst) < wanted /\ dst' = Append(dst, byte)
      /\ wanted' = wanted /\ read_head' = read_head /\ output' = output /\ buf' = buf
      /\ write_head' = write_head /\ src' = src /\ written' = written
  BY DEF ReadByte, writer
<1>2. Used' = Used
  BY <1>1 DEF Used
<1>3. byte \in Bytes
  <2>1. read_head + Len(dst) \in Nat /\ read_head + Len(dst) < 2 * Size
    BY <1>1, Numbers, SizeIsNat DEF Cells
  <2>2. Masked(read_head + Len(dst)) \in Cells
    BY <2>1, MaskedIsCell
  <2> QED BY <2>2 DEF IInv, TypeOK
<1>4. dst \in Seq(Bytes)
  BY DEF IInv, TypeOK
<1>5. /\ dst' \in Seq(Bytes) /\ Len(dst') = Len(dst) + 1
      /\ dst'[Len(dst) + 1] = byte
      /\ \A k \in 1..Len(dst) : dst'[k] = dst[k]
  BY <1>1, <1>3, <1>4
<1>6. TypeOK'
  BY <1>1, <1>5, Numbers DEF IInv, TypeOK
<1>7. ReadInPlace'
  <2> SUFFICES ASSUME NEW k \in 1..(Len(dst) + 1)
               PROVE  dst'[k] = buf[Masked(read_head + (k - 1))]
    BY <1>1, <1>2, <1>5 DEF IInv, ReadInPlace
  <2>1. CASE k = Len(dst) + 1
    <3>1. k - 1 = Len(dst)
      BY <2>1, Numbers
    <3> QED BY <1>5, <2>1, <3>1
  <2>2. CASE k # Len(dst) + 1
    <3>1. k \in 1..Len(dst)
      BY <2>2, Numbers
    <3> QED BY <1>5, <3>1 DEF IInv, ReadInPlace
  <2> QED BY <2>1, <2>2
<1>8. RoomForWrite' /\ WriteInPlace'
  BY <1>1, <1>2 DEF IInv, RoomForWrite, WriteInPlace
<1> QED
  BY <1>6, <1>7, <1>8 DEF IInv

\* The read head moves over what was read, or skipped.
LEMMA ReadHeadStep ==
  ASSUME IInv, NEW n \in Nat, n <= Used, read_head' = Masked(read_head + n),
         wanted' = 0, dst' = <<>>, output' \in Seq(Bytes),
         UNCHANGED <<writer, buf>>
  PROVE  IInv'
<1>1. buf' = buf /\ write_head' = write_head /\ src' = src /\ written' = written
  BY DEF writer
<1>2. read_head' \in Cells /\ Used' = Used - n
  BY <1>1, Numbers, ReadHeadMoves DEF Used
<1>3. Used' \in Nat /\ Used' + Len(src) < Size
  BY <1>2, Numbers, SizeIsNat
<1>4. TypeOK'
  BY <1>1, <1>2 DEF IInv, TypeOK
<1>5. RoomForWrite' /\ WriteInPlace' /\ ReadInPlace'
  BY <1>1, <1>3 DEF IInv, RoomForWrite, WriteInPlace, ReadInPlace
<1> QED
  BY <1>4, <1>5 DEF IInv

\* Every step of either thread keeps the invariant.
LEMMA StepInvariant == IInv /\ [Next]_vars => IInv'
<1> SUFFICES ASSUME IInv, [Next]_vars PROVE IInv'
  OBVIOUS
<1>1. ASSUME ReadDone PROVE IInv'
  <2>1. /\ wanted \in Nat /\ wanted <= Used /\ dst \in Seq(Bytes)
        /\ read_head' = Masked(read_head + wanted) /\ wanted' = 0 /\ dst' = <<>>
        /\ output' = dst /\ UNCHANGED <<writer, buf>>
    BY <1>1, Numbers DEF ReadDone, IInv, TypeOK
  <2> QED BY <2>1, ReadHeadStep
<1>2. ASSUME NEW n \in 1..MaxChunk, Skip(n) PROVE IInv'
  <2>1. n \in Nat /\ n <= Used
    BY <1>2, Numbers, RingAssumption DEF Skip, Used
  <2>2. wanted = 0 /\ Len(dst) = 0 /\ dst \in Seq(Bytes) /\ output \in Seq(Bytes)
    BY <1>2, Numbers DEF Skip, IInv, TypeOK
  <2>3. dst = <<>>
    BY <2>2
  <2>4. /\ read_head' = Masked(read_head + n) /\ wanted' = 0 /\ dst' = <<>>
        /\ output' \in Seq(Bytes) /\ UNCHANGED <<writer, buf>>
    BY <1>2, <2>2, <2>3 DEF Skip
  <2> QED BY <2>1, <2>4, ReadHeadStep
<1>3. CASE UNCHANGED vars
  BY <1>3 DEF vars, writer, reader, IInv, TypeOK, RoomForWrite, WriteInPlace, ReadInPlace, Used
<1> QED
  BY <1>1, <1>2, <1>3, WriteStartStep, WriteByteStep, WriteDoneStep, ReadStartStep,
     ReadByteStep DEF Next, Writer, Reader

\* In every reachable state IInv holds.
LEMMA Invariance == Spec => []IInv
BY InitInvariant, StepInvariant, PTL DEF Spec

\* The heads stay in the buffer, and the copies in their bounds.
THEOREM RingTypeCorrect == Spec => []TypeOK
<1>1. IInv => TypeOK
  BY DEF IInv
<1> QED BY <1>1, Invariance, PTL

\* A write never overtakes the reader.
THEOREM RoomCorrect == Spec => []RoomForWrite
<1>1. IInv => RoomForWrite
  BY DEF IInv
<1> QED BY <1>1, Invariance, PTL

\* Neither thread disturbs the bytes the other is copying.
THEOREM CopiesCorrect == Spec => [](WriteInPlace /\ ReadInPlace)
<1>1. IInv => WriteInPlace /\ ReadInPlace
  BY DEF IInv
<1> QED BY <1>1, Invariance, PTL
-----------------------------------------------------------------------------
\* The n cells from a head on.
Span(bytes, h, n) == [k \in 1..n |-> bytes[Masked(h + (k - 1))]]

\* They make a sequence of bytes.
LEMMA CellsAreSeq ==
  ASSUME NEW bytes \in [Cells -> Bytes], NEW h \in Cells, NEW n \in Nat, n < Size
  PROVE  /\ Span(bytes, h, n) \in Seq(Bytes) /\ Len(Span(bytes, h, n)) = n
         /\ \A k \in 1..n : Span(bytes, h, n)[k] = bytes[Masked(h + (k - 1))]
<1>1. ASSUME NEW k \in 1..n PROVE bytes[Masked(h + (k - 1))] \in Bytes
  <2>1. h + (k - 1) \in Nat /\ h + (k - 1) < 2 * Size
    BY SizeIsNat DEF Cells
  <2>2. Masked(h + (k - 1)) \in Cells
    BY <2>1, MaskedIsCell
  <2> QED BY <2>2
<1> QED BY <1>1 DEF Span

\* The readable bytes, as a sequence.
LEMMA ContentsIsSeq ==
  ASSUME IInv
  PROVE  /\ Contents \in Seq(Bytes) /\ Len(Contents) = Used
         /\ \A k \in 1..Used : Contents[k] = buf[Masked(read_head + (k - 1))]
<1>1. buf \in [Cells -> Bytes]
  BY DEF IInv, TypeOK
<1>2. Contents = Span(buf, read_head, Used)
  BY DEF Contents, Span
<1> QED BY <1>1, <1>2, Numbers, CellsAreSeq

\* What a finished write appended is readable behind the older bytes.
LEMMA ContentsGrow ==
  ASSUME IInv, WriteDone
  PROVE  Contents' = Contents \o src
<1>1. /\ written = Len(src) /\ buf' = buf /\ read_head' = read_head
      /\ write_head' = Masked(write_head + Len(src))
  BY DEF WriteDone, reader
<1>2. Used' = Used + Len(src)
  BY <1>1, Numbers, WriteHeadMoves DEF Used
<1>3. /\ Contents' \in Seq(Bytes) /\ Len(Contents') = Used'
      /\ \A k \in 1..Used' : Contents'[k] = buf[Masked(read_head + (k - 1))]
  <2>1. Used' \in Nat /\ Used' < Size /\ buf \in [Cells -> Bytes] /\ read_head \in Cells
    BY <1>2, Numbers, SizeIsNat DEF IInv, TypeOK
  <2>2. Contents' = Span(buf, read_head, Used')
    BY <1>1 DEF Contents, Span
  <2> QED BY <2>1, <2>2, CellsAreSeq
<1>4. src \in Seq(Bytes)
  BY DEF IInv, TypeOK
<1>5. /\ Contents \o src \in Seq(Bytes)
      /\ Len(Contents \o src) = Used + Len(src)
      /\ \A k \in 1..(Used + Len(src)) :
           (Contents \o src)[k] = IF k <= Used THEN Contents[k] ELSE src[k - Used]
  <2>1. Contents \in Seq(Bytes) /\ Len(Contents) = Used
    BY ContentsIsSeq
  <2>2. /\ Contents \o src \in Seq(Bytes)
        /\ Len(Contents \o src) = Len(Contents) + Len(src)
        /\ \A k \in 1..Len(Contents) + Len(src) :
             (Contents \o src)[k] =
               IF k <= Len(Contents) THEN Contents[k] ELSE src[k - Len(Contents)]
    BY <1>4, <2>1, ConcatProperties
  <2> QED BY <2>1, <2>2
<1>6. ASSUME NEW k \in 1..(Used + Len(src)) PROVE Contents'[k] = (Contents \o src)[k]
  <2>0. k \in Nat /\ k >= 1 /\ k <= Used + Len(src) /\ Used \in Nat /\ Len(src) \in Nat
    BY Numbers
  <2>1. CASE k <= Used
    <3>1. k \in 1..Used /\ k \in 1..Used'
      BY <1>2, <2>0, <2>1
    <3>2. Contents'[k] = buf[Masked(read_head + (k - 1))]
      BY <1>3, <3>1
    <3>3. Contents[k] = buf[Masked(read_head + (k - 1))]
      BY <3>1, ContentsIsSeq
    <3>4. (Contents \o src)[k] = Contents[k]
      BY <1>5, <2>1
    <3> QED BY <3>2, <3>3, <3>4
  <2>2. CASE k > Used
    <3> DEFINE j == k - Used
    <3>1. j \in 1..written /\ j - 1 \in Nat /\ k - 1 = Used + (j - 1) /\ Used + (j - 1) < Size
      BY <1>1, <2>2, Numbers, SizeIsNat
    <3>2. Masked(Masked(read_head + Used) + (j - 1)) = Masked(read_head + (Used + (j - 1)))
      BY <3>1, Numbers, SizeIsNat, AdvanceTwice
    <3>3. buf[Masked(write_head + (j - 1))] = src[j]
      BY <3>1 DEF IInv, WriteInPlace
    <3>4. Contents'[k] = buf[Masked(read_head + (k - 1))]
      BY <1>2, <1>3
    <3>5. (Contents \o src)[k] = src[j]
      BY <1>5, <2>2, Numbers
    <3> QED BY <3>1, <3>2, <3>3, <3>4, <3>5, Numbers
  <2>3. k <= Used \/ k > Used
    BY <2>0
  <2> QED BY <2>1, <2>2, <2>3
<1> QED
  BY <1>2, <1>3, <1>5, <1>6, SeqEqual

\* Moving the read head by n drops the n oldest bytes.
LEMMA ContentsShrink ==
  ASSUME IInv, NEW n \in Nat, n <= Used, read_head' = Masked(read_head + n),
         buf' = buf, write_head' = write_head
  PROVE  Contents' = SubSeq(Contents, n + 1, Len(Contents))
<1>1. Used' = Used - n
  BY Numbers, ReadHeadMoves DEF Used
<1>2. /\ Contents' \in Seq(Bytes) /\ Len(Contents') = Used'
      /\ \A k \in 1..Used' : Contents'[k] = buf[Masked(read_head' + (k - 1))]
  <2>1. read_head' \in Cells
    BY Numbers, ReadHeadMoves DEF Used
  <2>2. Used' \in Nat /\ Used' < Size /\ buf \in [Cells -> Bytes]
    BY <1>1, Numbers, SizeIsNat DEF IInv, TypeOK
  <2>3. Contents' = Span(buf, read_head', Used')
    BY DEF Contents, Span
  <2> QED BY <2>1, <2>2, <2>3, CellsAreSeq
<1> DEFINE rest == SubSeq(Contents, n + 1, Len(Contents))
<1>3. /\ rest \in Seq(Bytes) /\ Len(rest) = Used - n
      /\ \A k \in 1..(Used - n) : rest[k] = Contents[n + k]
  <2>1. n + 1 \in Int /\ Len(Contents) \in Int /\ Len(Contents) = Used /\ Used \in Nat
    BY ContentsIsSeq, Numbers
  <2>2. \A i \in (n + 1)..Len(Contents) : Contents[i] \in Bytes
    BY <2>1, ContentsIsSeq
  <2>3. /\ rest \in Seq(Bytes)
        /\ Len(rest) = IF n + 1 <= Used THEN Used - (n + 1) + 1 ELSE 0
        /\ \A i \in 1..(Used - (n + 1) + 1) : rest[i] = Contents[n + 1 + i - 1]
    BY <2>1, <2>2, SubSeqProperties
  <2> HIDE DEF rest
  <2>4. Len(rest) = Used - n
    BY <2>1, <2>3
  <2>5. ASSUME NEW k \in 1..(Used - n) PROVE rest[k] = Contents[n + k]
    <3>1. k \in 1..(Used - (n + 1) + 1) /\ n + 1 + k - 1 = n + k
      BY <2>1
    <3> QED BY <2>3, <3>1
  <2> QED BY <2>3, <2>4, <2>5
<1> HIDE DEF rest
<1>4. ASSUME NEW k \in 1..(Used - n) PROVE Contents'[k] = rest[k]
  <2>1. /\ k - 1 \in Nat /\ n + (k - 1) <= Size /\ n < Size /\ n + k \in 1..Used
        /\ (n + k) - 1 = n + (k - 1)
    BY Numbers, SizeIsNat
  <2>2. Masked(Masked(read_head + n) + (k - 1)) = Masked(read_head + (n + (k - 1)))
    BY <2>1, Numbers, AdvanceTwice
  <2>3. Contents'[k] = buf[Masked(read_head + (n + (k - 1)))]
    BY <1>1, <1>2, <2>2
  <2>4. Contents[n + k] = buf[Masked(read_head + ((n + k) - 1))]
    BY <2>1, ContentsIsSeq
  <2> QED BY <1>3, <2>1, <2>3, <2>4
<1>5. Contents' = rest
  BY <1>1, <1>2, <1>3, <1>4, SeqEqual
<1> QED BY <1>5 DEF rest

\* What a finished read returns are the oldest bytes.
LEMMA ReadReturnsOldest ==
  ASSUME IInv, Len(dst) = wanted
  PROVE  dst = SubSeq(Contents, 1, wanted)
<1> DEFINE oldest == SubSeq(Contents, 1, wanted)
<1>1. wanted \in Nat /\ wanted <= Used /\ Len(Contents) = Used /\ Used \in Nat
  BY Numbers, ContentsIsSeq
<1>2. \A i \in 1..wanted : Contents[i] \in Bytes
  BY <1>1, ContentsIsSeq
<1>3. /\ oldest \in Seq(Bytes)
      /\ Len(oldest) = IF 1 <= wanted THEN wanted - 1 + 1 ELSE 0
      /\ \A i \in 1..(wanted - 1 + 1) : oldest[i] = Contents[1 + i - 1]
  BY <1>1, <1>2, SubSeqProperties
<1> HIDE DEF oldest
<1>4. Len(oldest) = wanted
  BY <1>1, <1>3
<1>5. dst \in Seq(Bytes)
  BY DEF IInv, TypeOK
<1>6. ASSUME NEW k \in 1..Len(dst) PROVE dst[k] = oldest[k]
  <2>1. k \in 1..(wanted - 1 + 1) /\ 1 + k - 1 = k /\ k \in 1..Used
    BY <1>1
  <2>2. oldest[k] = Contents[k]
    BY <1>3, <2>1
  <2>3. Contents[k] = buf[Masked(read_head + (k - 1))]
    BY <2>1, ContentsIsSeq
  <2> QED BY <2>2, <2>3 DEF IInv, ReadInPlace
<1>7. dst = oldest
  BY <1>3, <1>4, <1>5, <1>6, SeqEqual
<1> QED BY <1>7 DEF oldest

\* The ring starts as an empty queue.
LEMMA InitRefines == Init => Queue!Init
<1> SUFFICES ASSUME Init PROVE Queue!Init
  OBVIOUS
<1>1. IInv
  BY InitInvariant
<1>2. Used = 0
  BY SizeIsNat DEF Init, Used, ReadSpace, Masked
<1>3. Contents = <<>>
  BY <1>1, <1>2, ContentsIsSeq, EmptySeq
<1> QED
  BY <1>3 DEF Init, Queue!Init

\* A step of the ring is a step of the queue, or none.
LEMMA StepRefines == IInv /\ [Next]_vars => [Queue!Next]_Queue!fifo
<1> SUFFICES ASSUME IInv, [Next]_vars PROVE [Queue!Next]_Queue!fifo
  OBVIOUS
<1>a. Len(Contents) = Used
  BY ContentsIsSeq
<1>b. ASSUME read_head' = read_head, write_head' = write_head, buf' = buf
      PROVE  Contents' = Contents
  BY <1>b DEF Contents, Used
<1>1. ASSUME NEW chunk \in Chunks, WriteStart(chunk) PROVE Queue!AcceptWrite(chunk)
  <2>1. Contents' = Contents
    BY <1>1, <1>b DEF WriteStart, reader
  <2>2. Used + Len(chunk) <= Size - 1
    <3>1. WriteSpace(read_head, write_head) = Size - 1 - Used
      BY Numbers, SpacesFill DEF Used
    <3>2. Len(chunk) \in Nat
      BY DEF Chunks
    <3> QED BY <1>1, <3>1, <3>2, Numbers, SizeIsNat DEF WriteStart
  <2> QED BY <1>1, <1>a, <2>1, <2>2 DEF WriteStart, reader, Queue!AcceptWrite
<1>2. ASSUME WriteByte PROVE UNCHANGED Queue!fifo
  \* The byte lands outside the readable cells.
  <2>1. Contents' = Contents
    <3>1. /\ read_head' = read_head /\ write_head' = write_head
          /\ buf' = [buf EXCEPT ![Masked(write_head + written)] = src[written + 1]]
          /\ written < Len(src)
      BY <1>2 DEF WriteByte, reader
    <3>2. ASSUME NEW k \in 1..Used
          PROVE  buf'[Masked(read_head + (k - 1))] = buf[Masked(read_head + (k - 1))]
      <4>1. k - 1 \in Nat /\ k - 1 < Used
        BY Numbers
      <4>2. Masked(write_head + written) # Masked(read_head + (k - 1))
        BY <3>1, <4>1, WriterStaysOut
      <4> QED BY <3>1, <4>2 DEF IInv, TypeOK
    <3> QED BY <3>1, <3>2 DEF Contents, Used
  <2> QED BY <1>2, <2>1 DEF WriteByte, reader, Queue!fifo
<1>3. ASSUME WriteDone PROVE Queue!Write
  <2>1. Contents' = Contents \o src
    BY <1>3, ContentsGrow
  <2> QED BY <1>3, <2>1 DEF WriteDone, reader, Queue!Write
<1>4. ASSUME NEW n \in 1..MaxChunk, ReadStart(n) PROVE Queue!AcceptRead(n)
  <2>1. Contents' = Contents
    BY <1>4, <1>b DEF ReadStart, writer
  <2> QED BY <1>4, <1>a, <2>1, Numbers, RingAssumption DEF ReadStart, writer, Used, Queue!AcceptRead
<1>5. ASSUME ReadByte PROVE UNCHANGED Queue!fifo
  <2>1. Contents' = Contents
    BY <1>5, <1>b DEF ReadByte, writer
  <2> QED BY <1>5, <2>1 DEF ReadByte, writer, Queue!fifo
<1>6. ASSUME ReadDone PROVE Queue!Read
  <2>1. /\ Len(dst) = wanted /\ buf' = buf /\ write_head' = write_head
        /\ read_head' = Masked(read_head + wanted)
    BY <1>6 DEF ReadDone, writer
  <2>2. Contents' = SubSeq(Contents, wanted + 1, Len(Contents))
    BY <2>1, Numbers, ContentsShrink
  <2>3. dst = SubSeq(Contents, 1, wanted)
    BY <2>1, ReadReturnsOldest
  <2> QED BY <1>6, <2>2, <2>3 DEF ReadDone, writer, Queue!Read
<1>7. ASSUME NEW n \in 1..MaxChunk, Skip(n) PROVE Queue!Skip(n)
  <2>1. /\ n \in Nat /\ n <= Used /\ buf' = buf /\ write_head' = write_head
        /\ read_head' = Masked(read_head + n)
    BY <1>7, Numbers, RingAssumption DEF Skip, writer, Used
  <2>2. Contents' = SubSeq(Contents, n + 1, Len(Contents))
    BY <2>1, ContentsShrink
  <2> QED BY <1>7, <1>a, <2>1, <2>2 DEF Skip, writer, Queue!Skip
<1>8. CASE UNCHANGED vars
  BY <1>8, <1>b DEF vars, writer, reader, Queue!fifo
<1>9. Queue!Chunks = Chunks
  BY DEF Queue!Chunks, Chunks
<1> QED
  BY <1>1, <1>2, <1>3, <1>4, <1>5, <1>6, <1>7, <1>8, <1>9
     DEF Next, Writer, Reader, Queue!Next

\* Every behaviour of the two threads is a behaviour of the queue.
THEOREM QueueCorrect == Spec => IsQueue
BY Invariance, InitRefines, StepRefines, PTL DEF Spec, IsQueue, Queue!Spec
=============================================================================
