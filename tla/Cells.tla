-------------------------------- MODULE Cells --------------------------------
(***************************************************************************)
(* A zix ring as its users see it, one call at a time: module Ring is the  *)
(* ring itself.  A cell is the least piece that is written or read, a      *)
(* header or one unit of a body.  Both operations do all or nothing, and   *)
(* every user but one ignores what they return.                            *)
(***************************************************************************)
EXTENDS Naturals, Sequences

\* zix_ring_write
RingWrite(ring, capacity, cells) ==
  IF Len(ring) + Len(cells) <= capacity THEN ring \o cells ELSE ring

\* zix_ring_read: what is copied, nothing when there is not enough.
RingRead(ring, n) == IF n <= Len(ring) THEN SubSeq(ring, 1, n) ELSE <<>>

\* What the read leaves.
RingRest(ring, n) == IF n <= Len(ring) THEN SubSeq(ring, n + 1, Len(ring)) ELSE ring

\* The cells of a message: its header and its body.
Header(m) == [is |-> "header", of |-> m]
Unit(m) == [is |-> "body", of |-> m]
Body(m, size) == [n \in 1..size |-> Unit(m)]
=============================================================================
