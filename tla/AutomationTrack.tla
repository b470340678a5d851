-------------------------- MODULE AutomationTrack --------------------------
(***************************************************************************)
(* The points of an automation track and the curves between them           *)
(* (audio/automation_track.c, automation_point.c, automation_curve.c).     *)
(*                                                                         *)
(* A track is two arrays: automation_points, each with its position, and   *)
(* automation_curves, of which only the position matters here.  The curve  *)
(* that starts at point i is the one with index i; it is also found by its *)
(* position, when it is drawn.  Values and curviness are left out.         *)
(***************************************************************************)
EXTENDS Positions

EmptyTrack == [points |-> <<>>, curves |-> <<>>]

\* qsort by position.  The comparison never returns a positive number for equal
\* positions, so the merge sort behind qsort leaves them in order.
SortedBy(seq, pos) ==
  LET order == SetToSortSeq(DOMAIN seq,
                 LAMBDA i, j : Before(pos[i], pos[j]) \/ (pos[i] = pos[j] /\ i < j))
  IN  [i \in DOMAIN seq |-> seq[order[i]]]
SortPoints(points) == SortedBy(points, [i \in DOMAIN points |-> points[i].pos])
SortCurves(curves) == SortedBy(curves, curves)

get_ap_index(at, id) == SelectInSeq(at.points, LAMBDA ap : ap.id = id)

\* The neighbours of the point with index i; 0 when there is none.
get_prev_ap(at, i) ==
  Max({0} \cup {j \in 1..i - 1 : NotAfter(at.points[j].pos, at.points[i].pos)})
get_next_ap(at, i) ==
  LET after == {j \in i + 1..Len(at.points) : NotAfter(at.points[i].pos, at.points[j].pos)}
  IN  IF after = {} THEN 0 ELSE Min(after)

\* The neighbours of a curve, found by its position; 0 when there is none.
get_ap_before_curve(at, pos) == SelectLastInSeq(at.points, LAMBDA ap : NotAfter(ap.pos, pos))
get_ap_after_curve(at, pos) == SelectInSeq(at.points, LAMBDA ap : NotAfter(pos, ap.pos))

add_automation_curve(at, pos) ==
  [at EXCEPT !.curves = SortCurves(Append(@, pos))]

\* get_next_curve_ac finds a curve by the index of the point before it.
remove_ac(at, i) == [at EXCEPT !.curves = RemoveAt(@, i)]

\* The assertions of create_curve_point_before.
MidInBetween(sig, prev, ap) ==
  LET mid == Midway(sig, prev, ap) IN NotAfter(mid, ap) /\ NotAfter(prev, mid)

create_curve_point(sig, at, from, to) ==
  add_automation_curve(at, SetToPos(sig, Midway(sig, from, to)))

\* Add a point and the curves around it.  A failed assertion ends the program:
\* the result says so.
add_automation_point(sig, at, new) ==
  LET added == [at EXCEPT !.points = SortPoints(Append(@, new))]
      i     == get_ap_index(added, new.id)
      prev  == get_prev_ap(added, i)
      next  == get_next_ap(added, i)
      At(j) == added.points[j].pos
      freed == IF prev # 0 /\ next # 0 THEN remove_ac(added, prev) ELSE added
      upto  == IF prev # 0 THEN create_curve_point(sig, freed, At(prev), At(i)) ELSE freed
  IN  [at |-> IF next # 0 THEN create_curve_point(sig, upto, At(i), At(next)) ELSE upto,
       asserted |-> prev # 0 => MidInBetween(sig, At(prev), At(i))]

\* Move the point with index i towards the position: it stays between its
\* neighbours, but the curve before it follows the pointer past the next point.
move_ap(sig, at, i, pos) ==
  LET prev == get_prev_ap(at, i)
      next == get_next_ap(at, i)
      At(j) == at.points[j].pos
      afterPrev == prev # 0 /\ NotAfter(At(prev), pos)
      beforeNext == next # 0 /\ NotAfter(pos, At(next))
      curve(j, from, to) == [k \in {j} |-> SetToPos(sig, Midway(sig, from, to))]
      curves == (IF beforeNext THEN curve(i, pos, At(next)) ELSE <<>>)
                @@ (IF afterPrev THEN curve(prev, At(prev), pos) ELSE <<>>)
      moves == \/ afterPrev /\ next = 0
               \/ beforeNext /\ (afterPrev \/ prev = 0)
               \/ prev = 0 /\ next = 0
  IN  [points |-> IF moves THEN [at.points EXCEPT ![i].pos = SetToPos(sig, pos)] ELSE at.points,
       curves |-> [j \in DOMAIN at.curves |-> IF j \in DOMAIN curves THEN curves[j] ELSE at.curves[j]]]

\* A curve is drawn between the points around it: both are dereferenced.
CanBeDrawn(at) ==
  \A i \in DOMAIN at.curves :
     get_ap_before_curve(at, at.curves[i]) # 0 /\ get_ap_after_curve(at, at.curves[i]) # 0
=============================================================================
