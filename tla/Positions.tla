----------------------------- MODULE Positions -----------------------------
(***************************************************************************)
(* Musical positions (audio/position.c) under a time signature, and the    *)
(* snap points of a grid (audio/snap_grid.c, audio/quantize.c).            *)
(*                                                                         *)
(* A position is bars.beats.sixteenths.ticks, the first three from 1.  The *)
(* time signature says how many beats make a bar and which note is a beat. *)
(* It is no part of a position: after it has changed an old position may   *)
(* hold more beats than a bar now has, until the position is set again.    *)
(* frames_per_tick is an int in the engine, so frames are a multiple of    *)
(* ticks and the model counts ticks.  The carry loops are written as the   *)
(* quotients they compute.                                                 *)
(***************************************************************************)
EXTENDS Integers, Sequences, SequencesExt

CONSTANTS
  TicksPerSixteenth,   \* 240 in position.h
  TotalBars            \* 128 in transport.h

ASSUME PositionsAssumption ==
  TicksPerSixteenth \in Nat \ {0} /\ TotalBars \in Nat \ {0}

Units == {2, 4, 8, 16}
Signatures == [top : Nat \ {0}, unit : Units]

SixteenthsPerBeat(sig) == 16 \div sig.unit
TicksPerBeat(sig) == (16 * TicksPerSixteenth) \div sig.unit
TicksPerBar(sig) == TicksPerBeat(sig) * sig.top

Pos(bars, beats, sixteenths, ticks) ==
  [bars |-> bars, beats |-> beats, sixteenths |-> sixteenths, ticks |-> ticks]

Bar(n) == Pos(n, 1, 1, 0)
position_init == Bar(1)

\* position_to_ticks and, a tick being a fixed number of frames,
\* position_to_frames.
Ticks(sig, p) ==
  (p.bars - 1) * TicksPerBar(sig) + (p.beats - 1) * TicksPerBeat(sig)
    + (p.sixteenths - 1) * TicksPerSixteenth + p.ticks

SetBar(p, bar) == [p EXCEPT !.bars = IF bar < 1 THEN 1 ELSE bar]

SetBeat(sig, p, beat) ==
  LET carry == (beat - 1) \div sig.top
  IN  IF p.bars + carry < 1
      THEN [p EXCEPT !.bars = 1, !.beats = 1]
      ELSE [p EXCEPT !.bars = @ + carry, !.beats = ((beat - 1) % sig.top) + 1]

BeatsBefore(sig, p) == (p.bars - 1) * sig.top + p.beats - 1

SetSixteenth(sig, p, sixteenth) ==
  LET per   == SixteenthsPerBeat(sig)
      carry == (sixteenth - 1) \div per
      rest  == ((sixteenth - 1) % per) + 1
  IN  IF carry = 0 THEN [p EXCEPT !.sixteenths = sixteenth]
      ELSE IF BeatsBefore(sig, p) + carry < 0
      THEN [p EXCEPT !.bars = 1, !.beats = 1, !.sixteenths = 1]
      ELSE [SetBeat(sig, p, p.beats + carry) EXCEPT !.sixteenths = rest]

SetTick(sig, p, tick) ==
  LET carry == tick \div TicksPerSixteenth
      rest  == tick % TicksPerSixteenth
  IN  IF carry = 0 THEN [p EXCEPT !.ticks = tick]
      ELSE IF BeatsBefore(sig, p) * SixteenthsPerBeat(sig) + p.sixteenths - 1 + carry < 0
      THEN position_init
      ELSE [SetSixteenth(sig, p, p.sixteenths + carry) EXCEPT !.ticks = rest]

\* Set part by part, so that a position is normalised on the way.
SetToPos(sig, target) ==
  SetTick(sig, SetSixteenth(sig, SetBeat(sig, SetBar(position_init, target.bars),
            target.beats), target.sixteenths), target.ticks)

AddTicks(sig, p, ticks) == SetTick(sig, p, p.ticks + ticks)

\* position_compare reads the parts, not the time they stand for.
Before(p, q) ==
  \/ p.bars < q.bars
  \/ (p.bars = q.bars /\ p.beats < q.beats)
  \/ p.bars = q.bars /\ p.beats = q.beats /\ p.sixteenths < q.sixteenths
  \/ ([p EXCEPT !.ticks = 0] = [q EXCEPT !.ticks = 0] /\ p.ticks < q.ticks)
NotAfter(p, q) == p = q \/ Before(p, q)

\* The half way point: the half replaces the ticks of the start, it is not
\* added to them.
Midway(sig, start, end) ==
  LET diff == Ticks(sig, end) - Ticks(sig, start)
  IN  SetTick(sig, SetToPos(sig, start), IF diff < 0 THEN -((-diff) \div 2) ELSE diff \div 2)

-----------------------------------------------------------------------------
(* Snap points. *)

NoteTypes == {"normal", "dotted", "triplet"}

\* Note length k is one over 2^(k-1): two whole notes, one, a half, ...
snap_grid_get_note_ticks(length, type) ==
  LET quarters == 4 * TicksPerSixteenth
  IN  CASE type = "normal"  -> (8 * quarters) \div 2^length
        [] type = "dotted"  -> (12 * quarters) \div 2^length
        [] type = "triplet" -> ((16 * quarters) \div 2^length) \div 3

update_snap_points(sig, step) ==
  LET points[p \in [bars : Nat, beats : Nat, sixteenths : Nat, ticks : Nat]] ==
        IF Before(p, Bar(TotalBars + 1)) THEN <<p>> \o points[AddTicks(sig, p, step)]
        ELSE <<p>>
  IN  points[position_init]

\* The last snap point that is not after the position, and the first after it.
get_prev_snap_point(points, p) ==
  SelectLastInSeq(points, LAMBDA q : NotAfter(q, p))
get_next_snap_point(points, p) ==
  SelectInSeq(points, LAMBDA q : Before(p, q))

closest_snap_point(sig, p, p1, p2) ==
  IF Ticks(sig, p) - Ticks(sig, p1) <= Ticks(sig, p2) - Ticks(sig, p) THEN p1 ELSE p2

\* The points are set into local positions first, which normalises them.  Behind
\* the last point the next one is never set: what it holds is any position.
snap_pos(sig, points, p, Garbage) ==
  LET prev == SetToPos(sig, points[get_prev_snap_point(points, p)])
      next == get_next_snap_point(points, p)
  IN  IF next = 0
      THEN {SetToPos(sig, closest_snap_point(sig, p, prev, g)) : g \in Garbage}
      ELSE {SetToPos(sig, closest_snap_point(sig, p, prev, SetToPos(sig, points[next])))}
=============================================================================
