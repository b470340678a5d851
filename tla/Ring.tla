--------------------------------- MODULE Ring ---------------------------------
(***************************************************************************)
(* The lock-free ring buffer between one writing and one reading thread    *)
(* (zix/ring.c).  Each operation loads both heads, compares the space with *)
(* what it needs, copies bytes while the other thread runs, and then moves *)
(* its own head.  The barriers order the copy before the move, so a step   *)
(* is one load, one byte or one store.                                     *)
(*                                                                         *)
(* An operator whose name ends in Mutant is a mistake one could make in    *)
(* the definition that follows it.                                         *)
(***************************************************************************)
EXTENDS Naturals, Sequences

CONSTANTS
  Bytes,
  Size,       \* ZixRing.size
  MaxChunk    \* bound: the longest write and the longest read

\* next_power_of_two makes the size a power of two.
ASSUME RingAssumption ==
  /\ Size \in Nat \ {0} /\ \E k \in 0..31 : Size = 2 ^ k
  /\ MaxChunk \in Nat \ {0}

VARIABLES
  write_head, read_head, buf,
  src,      \* the chunk being written, <<>> when the writer is idle
  written,  \* how many of its bytes are in buf
  wanted,   \* how many bytes the reader is reading, 0 when it is idle
  dst,      \* the bytes it copied so far
  output    \* what the last read returned

writer == <<write_head, src, written>>
reader == <<read_head, wanted, dst, output>>
vars == <<writer, reader, buf>>

Cells == 0..(Size - 1)
Chunks == UNION {[1..n -> Bytes] : n \in 1..MaxChunk}

Init ==
  /\ write_head = 0 /\ read_head = 0
  /\ buf \in [Cells -> Bytes]
  /\ src = <<>> /\ written = 0
  /\ wanted = 0 /\ dst = <<>> /\ output = <<>>
-----------------------------------------------------------------------------
\* x & size_mask: every x below is less than twice the size, a power of two.
Masked(x) == IF x < Size THEN x ELSE x - Size

\* read_space_internal
ReadSpace(r, w) == IF r < w THEN w - r ELSE Masked((w + Size) - r)

\* A full ring would look like an empty one.
WriteSpaceMutant(r, w) ==
  IF r = w THEN Size
  ELSE IF r < w THEN Masked((r + Size) - w)
  ELSE r - w

\* write_space_internal
WriteSpace(r, w) ==
  IF r = w THEN Size - 1
  ELSE IF r < w THEN Masked((r + Size) - w) - 1
  ELSE (r - w) - 1

\* zix_ring_write, when there is room; it returns 0 and changes nothing otherwise.
WriteStart(chunk) ==
  /\ src = <<>>
  /\ WriteSpace(read_head, write_head) >= Len(chunk)
  /\ src' = chunk
  /\ written' = 0
  /\ UNCHANGED <<write_head, reader, buf>>

\* The bytes go to the start of the buffer once it is passed, off by one.
WriteByteMutant ==
  /\ written < Len(src)
  /\ buf' = [buf EXCEPT ![Masked(write_head + written + 1)] = src[written + 1]]
  /\ written' = written + 1
  /\ UNCHANGED <<write_head, src, reader>>

WriteByte ==
  /\ written < Len(src)
  /\ buf' = [buf EXCEPT ![Masked(write_head + written)] = src[written + 1]]
  /\ written' = written + 1
  /\ UNCHANGED <<write_head, src, reader>>

\* The head moves before the last byte is copied.
WriteDoneMutant ==
  /\ src # <<>> /\ written + 1 >= Len(src)
  /\ write_head' = Masked(write_head + Len(src))
  /\ src' = <<>>
  /\ written' = 0
  /\ UNCHANGED <<reader, buf>>

WriteDone ==
  /\ src # <<>> /\ written = Len(src)
  /\ write_head' = Masked(write_head + Len(src))
  /\ src' = <<>>
  /\ written' = 0
  /\ UNCHANGED <<reader, buf>>

\* The read head moves before the bytes are copied.
ReadStartMutant(n) ==
  /\ wanted = 0
  /\ ReadSpace(read_head, write_head) >= n
  /\ wanted' = n
  /\ dst' = <<>>
  /\ read_head' = Masked(read_head + n)
  /\ UNCHANGED <<output, writer, buf>>

\* zix_ring_read, when there are enough bytes.
ReadStart(n) ==
  /\ wanted = 0
  /\ ReadSpace(read_head, write_head) >= n
  /\ wanted' = n
  /\ dst' = <<>>
  /\ UNCHANGED <<read_head, output, writer, buf>>

\* The second copy of a read that wraps starts over.
ReadByteMutant ==
  /\ Len(dst) < wanted
  /\ dst' = IF read_head + Len(dst) = Size
            THEN <<>> ELSE Append(dst, buf[Masked(read_head + Len(dst))])
  /\ UNCHANGED <<read_head, wanted, output, writer, buf>>

ReadByte ==
  /\ Len(dst) < wanted
  /\ dst' = Append(dst, buf[Masked(read_head + Len(dst))])
  /\ UNCHANGED <<read_head, wanted, output, writer, buf>>

\* The head moves past the end of the buffer.
ReadDoneMutant ==
  /\ wanted # 0 /\ Len(dst) = wanted
  /\ read_head' = read_head + wanted
  /\ output' = dst
  /\ wanted' = 0
  /\ dst' = <<>>
  /\ UNCHANGED <<writer, buf>>

ReadDone ==
  /\ wanted # 0 /\ Len(dst) = wanted
  /\ read_head' = Masked(read_head + wanted)
  /\ output' = dst
  /\ wanted' = 0
  /\ dst' = <<>>
  /\ UNCHANGED <<writer, buf>>

\* zix_ring_skip
Skip(n) ==
  /\ wanted = 0
  /\ ReadSpace(read_head, write_head) >= n
  /\ read_head' = Masked(read_head + n)
  /\ UNCHANGED <<wanted, dst, output, writer, buf>>

Writer == (\E chunk \in Chunks : WriteStart(chunk)) \/ WriteByte \/ WriteDone

Reader ==
  \/ \E n \in 1..MaxChunk : ReadStart(n) \/ Skip(n)
  \/ ReadByte \/ ReadDone

Next == Writer \/ Reader

Spec == Init /\ [][Next]_vars

\* Both threads keep running the operations they started.
FairSpec == Spec /\ WF_vars(WriteByte \/ WriteDone) /\ WF_vars(ReadByte \/ ReadDone)
-----------------------------------------------------------------------------
\* The bytes from the read head to the write head.
Used == ReadSpace(read_head, write_head)
Contents == [k \in 1..Used |-> buf[Masked(read_head + (k - 1))]]

Queue == INSTANCE Fifo
  WITH queue <- Contents, Capacity <- Size - 1
-----------------------------------------------------------------------------
TypeOK ==
  /\ write_head \in Cells /\ read_head \in Cells
  /\ buf \in [Cells -> Bytes]
  /\ src \in Seq(Bytes) /\ written \in 0..Len(src)
  /\ wanted \in Nat /\ dst \in Seq(Bytes) /\ Len(dst) <= wanted
  /\ output \in Seq(Bytes)

\* "At most `size` - 1 bytes may be stored in the ring at once" (ring.h), those
\* being written included: the room a write found is still there when it copies.
RoomForWrite == Used + Len(src) < Size

\* What the writer has copied is in the ring, behind the readable bytes.
WriteInPlace ==
  \A k \in 1..written : buf[Masked(write_head + (k - 1))] = src[k]

\* What the reader has copied is still what the ring holds, whatever the writer
\* did meanwhile.
ReadInPlace ==
  /\ wanted <= Used
  /\ \A k \in 1..Len(dst) : dst[k] = buf[Masked(read_head + (k - 1))]

\* "Thread-safe with a single reader and single writer" (ring.h): the ring is a
\* bounded queue of bytes; every read returns the oldest bytes written, each
\* once and in order, and no write tears.
IsQueue == Queue!Spec

\* Every write that was accepted is published and every read that was started
\* returns: no operation waits for the other thread.
OperationsEnd == []<>(src = <<>>) /\ []<>(wanted = 0)
=============================================================================
