--------------------------------- MODULE Fifo ---------------------------------
(***************************************************************************)
(* What zix/ring.h promises to one writer and one reader: a bounded queue  *)
(* of bytes.  A write that is accepted enqueues all its bytes at one       *)
(* instant, a read that is accepted dequeues all it asks for at one        *)
(* instant, and neither waits for the other.                               *)
(***************************************************************************)
EXTENDS Naturals, Sequences

CONSTANTS
  Bytes,
  Capacity,   \* zix_ring_capacity
  MaxChunk    \* bound: the longest write and the longest read

VARIABLES
  queue,   \* the bytes written and not read, oldest first
  src,     \* the chunk of the write that was accepted, <<>> when there is none
  wanted,  \* the length of the read that was accepted, 0 when there is none
  output   \* what the last read returned

fifo == <<queue, src, wanted, output>>

Chunks == UNION {[1..n -> Bytes] : n \in 1..MaxChunk}

Init == queue = <<>> /\ src = <<>> /\ wanted = 0 /\ output = <<>>

AcceptWrite(chunk) ==
  /\ src = <<>>
  /\ Len(queue) + Len(chunk) <= Capacity
  /\ src' = chunk
  /\ UNCHANGED <<queue, wanted, output>>

Write ==
  /\ src # <<>>
  /\ queue' = queue \o src
  /\ src' = <<>>
  /\ UNCHANGED <<wanted, output>>

AcceptRead(n) ==
  /\ wanted = 0
  /\ n <= Len(queue)
  /\ wanted' = n
  /\ UNCHANGED <<queue, src, output>>

Read ==
  /\ wanted # 0
  /\ output' = SubSeq(queue, 1, wanted)
  /\ queue' = SubSeq(queue, wanted + 1, Len(queue))
  /\ wanted' = 0
  /\ UNCHANGED src

Skip(n) ==
  /\ wanted = 0
  /\ n <= Len(queue)
  /\ queue' = SubSeq(queue, n + 1, Len(queue))
  /\ UNCHANGED <<src, wanted, output>>

Next ==
  \/ \E chunk \in Chunks : AcceptWrite(chunk)
  \/ Write
  \/ \E n \in 1..MaxChunk : AcceptRead(n) \/ Skip(n)
  \/ Read

Spec == Init /\ [][Next]_fifo
=============================================================================
