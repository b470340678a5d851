------------------------------ MODULE Timeline ------------------------------
(***************************************************************************)
(* The timeline arranger (gui/widgets/arranger.c, timeline_arranger.c),    *)
(* where automation points, regions and chords are created, selected and   *)
(* moved, among the controls of module Controls.                           *)
(*                                                                         *)
(* A gesture on the arranger is a press, drag updates and a release.  The  *)
(* press on empty space starts a rubber band, a second press there creates *)
(* what the row holds; the press on an automation point selects it or,     *)
(* with the control key, deselects it, and drags the whole selection.      *)
(* Three handlers of the source are not here because nothing reaches them: *)
(* ui_get_hit_child compares exact widget types, and regions are widgets   *)
(* of a derived type, so no press ever hits a region; and, as only such a  *)
(* press gives the piano roll a channel, no note is ever created in it.    *)
(* A press on a curve is left out too: it saves positions nothing reads.   *)
(***************************************************************************)
EXTENDS Controls, Scales

CONSTANTS
  Tracks,        \* the rows that are no automation row: track -> its type
  Channels,      \* the visible channels in mixer order, a sequence of tracks
  Offsets,       \* x offsets of a drag
  Garbage,       \* what an uninitialised position may hold
  Projects,      \* [at, regions]: what earlier gestures may have left
  MaxPoints, MaxRegions, MaxChords,  \* bounds of what is created
  MaxTicks                           \* bound: no move goes behind it

VARIABLES
  at,            \* one automation track
  regions,       \* of the instrument track: start_pos, end_pos
  chords,        \* of the chord track
  selections,    \* regions and automation points
  action, start, \* ar_prv->action, start_x and start_pos
  poses,         \* region_start_poses and ap_poses
  clicked,       \* GTK: where a second press would be n_press = 2
  aborted        \* why the program has ended

timelineVars == <<at, regions, chords, selections, action, start, poses, clicked, aborted>>
vars == <<timelineVars, controlVars>>

Automation == "automation"
Nothing == [regions |-> {}, aps |-> <<>>]
NoPoses == [regions |-> <<>>, aps |-> <<>>]
FarBar == Bar(2000)

Init ==
  /\ ControlsInit
  /\ \E p \in Projects : at = p.at /\ regions = p.regions
  /\ chords = <<>>
  /\ selections = Nothing
  /\ action = "NONE" /\ start = [x |-> 0, pos |-> FarBar] /\ poses = NoPoses
  /\ clicked = <<>> /\ aborted = "no"

Arranging == [on |-> "arranger"]
BeginGesture == gesture = Idle /\ gesture' = Arranging
SameSettings == UNCHANGED <<sig, grid, playhead, cue, zoom>>
SameControls == SameSettings /\ UNCHANGED edits

px_to_pos(px) == ruler_widget_px_to_pos(zoom.mw, px)
pos_to_px(p) == ruler_widget_pos_to_px(zoom.mw, p)

\* position_snap, which does nothing when snapping is off.
position_snap(p) ==
  IF grid.snapToGrid THEN snap_pos(sig, grid.points, p, Garbage) ELSE {p}

\* position_set_min_size
MinSize(p) == AddTicks(sig, SetToPos(sig, p), StepTicks(grid))

-----------------------------------------------------------------------------
(* Selecting. *)

\* Channels that are no instrument leave num_regions as the channel before them
\* set it (no value at all for the first one): its regions may be selected twice.
select_all(select) ==
  IF select /\ \E i \in DOMAIN Channels : Tracks[Channels[i]] = "instrument"
  THEN [regions |-> DOMAIN regions, aps |-> <<>>]
  ELSE Nothing

toggle_select_automation_point(sel, ap, append) ==
  LET old == IF append THEN sel.aps ELSE <<>>
  IN  [sel EXCEPT !.aps = IF Contains(old, ap) THEN RemoveFirst(old, ap) ELSE Append(old, ap)]

SelectAll ==
  /\ gesture = Idle /\ gesture' = gesture
  /\ selections' = select_all(TRUE)
  /\ SameControls
  /\ UNCHANGED <<at, regions, chords, action, start, poses, clicked, aborted>>

\* What a rubber band from pixel low to pixel high hits.
HitRegions(low, high) ==
  {r \in DOMAIN regions :
     pos_to_px(regions[r].start) < high /\ low <= pos_to_px(regions[r].end)}
HitPoints(low, high) ==
  {at.points[i].id : i \in {j \in DOMAIN at.points :
     pos_to_px(at.points[j].pos) \in low..high}}

-----------------------------------------------------------------------------
(* Presses. *)

\* The least selected start and the start of each selected item.
find_start_poses(sel) ==
  LET ApPos(id) == at.points[get_ap_index(at, id)].pos
      starts == [i \in 1..Cardinality(sel.regions) |->
                   regions[SetToSortSeq(sel.regions, <)[i]].start]
                \o [i \in DOMAIN sel.aps |-> ApPos(sel.aps[i])]
  IN  [least |-> FoldLeft(LAMBDA best, p : IF NotAfter(p, best) THEN SetToPos(sig, p) ELSE best,
                          FarBar, starts),
       poses |-> [regions |-> [r \in sel.regions |-> SetToPos(sig, regions[r].start)],
                  aps |-> [i \in DOMAIN sel.aps |-> SetToPos(sig, ApPos(sel.aps[i]))]]]

\* on_drag_begin_ap_hit: a point that was not selected becomes the selection, so
\* with the control key it always ends deselected, and regions stay selected.
\* The pointer may not have moved over a point just created under it.
PressPoint ==
  \E i \in DOMAIN at.points, control, hover \in BOOLEAN :
    LET ap == at.points[i].id
        hit == IF Contains(selections.aps, ap) THEN selections
               ELSE [selections EXCEPT !.aps = <<ap>>]
        sel == IF control THEN toggle_select_automation_point(hit, ap, TRUE)
               ELSE toggle_select_automation_point(select_all(FALSE), ap, FALSE)
        found == find_start_poses(sel)
    IN  /\ BeginGesture
        /\ selections' = sel
        /\ action' = IF hover THEN "STARTING_MOVING" ELSE action
        /\ start' = [x |-> pos_to_px(at.points[i].pos), pos |-> found.least]
        /\ poses' = found.poses
        /\ clicked' = <<>>
        /\ SameControls /\ UNCHANGED <<at, regions, chords, aborted>>

Rows == {Automation} \cup DOMAIN Tracks

\* n_press = 1 on empty space: deselect, and perhaps begin a rubber band.
PressEmpty ==
  \E row \in Rows, px \in Pixels :
    /\ BeginGesture
    /\ action' = "STARTING_SELECTION"
    /\ selections' = select_all(FALSE)
    /\ start' = [start EXCEPT !.x = px]
    /\ clicked' = <<row, px>>
    /\ SameControls /\ UNCHANGED <<at, regions, chords, poses, aborted>>

\* The part of n_press = 2 that all rows share.
DoublePress(type, p) ==
  /\ BeginGesture
  /\ clicked # <<>> /\ clicked' = <<>>
  /\ type = IF clicked[1] = Automation THEN Automation ELSE Tracks[clicked[1]]
  /\ p \in position_snap(px_to_pos(clicked[2]))
  /\ start' = [start EXCEPT !.x = clicked[2]]
  /\ Edit /\ SameSettings /\ UNCHANGED poses

SnapTargets == UNION {position_snap(px_to_pos(px)) : px \in Pixels}

\* timeline_arranger_widget_create_ap, on the track of a float.
CreatePointMutant ==
  \E p \in SnapTargets :
    LET id == Len(at.points) + 1
        added == add_automation_point(sig, at, [id |-> id, pos |-> SetToPos(sig, p)])
    IN  /\ DoublePress(Automation, p)
        /\ id <= MaxPoints
        /\ at' = [points |-> Append(at.points, [id |-> id, pos |-> SetToPos(sig, p)]),
                  curves |-> added.at.curves]
        /\ aborted' = IF added.asserted THEN "no" ELSE "assertion"
        /\ selections' = [selections EXCEPT !.aps = <<id>>]
        /\ UNCHANGED <<regions, chords, action>>
CreatePoint ==
  \E p \in SnapTargets :
    LET id == Len(at.points) + 1
        added == add_automation_point(sig, at, [id |-> id, pos |-> SetToPos(sig, p)])
    IN  /\ DoublePress(Automation, p)
        /\ id <= MaxPoints
        /\ at' = added.at
        /\ aborted' = IF added.asserted THEN "no" ELSE "assertion"
        /\ selections' = [selections EXCEPT !.aps = <<id>>]
        /\ UNCHANGED <<regions, chords, action>>

\* timeline_arranger_widget_create_region: the same drag sets its end.
CreateRegion ==
  \E p \in SnapTargets :
    /\ DoublePress("instrument", p)
    /\ Len(regions) < MaxRegions
    /\ regions' = Append(regions, [start |-> p, end |-> MinSize(p)])
    /\ selections' = [selections EXCEPT !.regions = {Len(regions) + 1}]
    /\ action' = "RESIZING_R"
    /\ UNCHANGED <<at, chords, aborted>>

\* On an audio track no region is created, and the pointer to it is used.
CreateAudioRegion ==
  /\ \E p \in SnapTargets : DoublePress("audio", p)
  /\ aborted' = "uninitialised"
  /\ UNCHANGED <<at, regions, chords, selections, action>>

chord_track_add_chord(array, p, chord) == Append(array, [pos |-> SetToPos(sig, p), chord |-> chord])

\* timeline_arranger_widget_create_chord, by way of the undo manager.
CreateChord ==
  \E p \in SnapTargets :
    /\ DoublePress("chord", p)
    /\ Len(chords) < MaxChords
    /\ chords' = chord_track_add_chord(chords, p, chord_new(NOTE_A, NOTE_A, "MIN"))
    /\ action' = "NONE"
    /\ UNCHANGED <<at, regions, selections, aborted>>

CreateNothing ==
  /\ \E p \in SnapTargets, type \in {"master", "bus"} : DoublePress(type, p)
  /\ UNCHANGED <<at, regions, chords, selections, action, aborted>>

-----------------------------------------------------------------------------
(* Drags. *)

Drag(a) == gesture = Arranging /\ gesture' = gesture /\ action' = a /\ SameSettings

\* Deselect all, then toggle what the band hits, in the order of the children.
DragBand ==
  \E offset \in Offsets, rows \in SUBSET {Automation, "instrument"} :
    LET low  == Min({start.x, start.x + offset})
        high == Max({start.x, start.x + offset})
        aps  == IF Automation \in rows THEN HitPoints(low, high) ELSE {}
    IN  /\ action \in {"STARTING_SELECTION", "SELECTING"} /\ Drag("SELECTING") /\ UNCHANGED edits
        /\ \E order \in SetToSeqs(aps) :
             selections' = [regions |-> IF "instrument" \in rows THEN HitRegions(low, high) ELSE {},
                            aps |-> order]
        /\ UNCHANGED <<at, regions, chords, start, poses, clicked, aborted>>

\* snap_regions_r: the end is set only when it is behind the start.
DragEndMutant ==
  \E offset \in Offsets : \E p \in position_snap(px_to_pos(start.x + offset)) :
    /\ action = "RESIZING_R" /\ Drag(action) /\ UNCHANGED edits
    /\ regions' = [r \in DOMAIN regions |->
                     IF r \in selections.regions
                     THEN [regions[r] EXCEPT !.end = SetToPos(sig, p)] ELSE regions[r]]
    /\ UNCHANGED <<at, chords, selections, start, poses, clicked, aborted>>
DragEnd ==
  \E offset \in Offsets : \E p \in position_snap(px_to_pos(start.x + offset)) :
    /\ action = "RESIZING_R" /\ Drag(action) /\ UNCHANGED edits
    /\ regions' = [r \in DOMAIN regions |->
                     IF r \in selections.regions /\ Before(regions[r].start, p)
                     THEN [regions[r] EXCEPT !.end = SetToPos(sig, p)] ELSE regions[r]]
    /\ UNCHANGED <<at, chords, selections, start, poses, clicked, aborted>>

\* move_items_x on a region: first its end, from its present length, then its start.
MovedMutant(region, from, diff) ==
  LET length == Ticks(sig, region.end) - Ticks(sig, region.start)
  IN  [start |-> SetToPos(sig, AddTicks(sig, from, diff)),
       end |-> SetToPos(sig, AddTicks(sig, region.end, diff))]
Moved(region, from, diff) ==
  LET length == Ticks(sig, region.end) - Ticks(sig, region.start)
  IN  [start |-> SetToPos(sig, AddTicks(sig, from, diff)),
       end |-> SetToPos(sig, AddTicks(sig, from, diff + length))]

\* move_items_x on the selected points, one after the other.
MovedPoints(diff) ==
  FoldLeft(LAMBDA track, i :
             move_ap(sig, track, get_ap_index(track, selections.aps[i]),
                     AddTicks(sig, poses.aps[i], diff)),
           at, [i \in DOMAIN selections.aps |-> i])

\* An offset to the left counts as none.  The least start is moved and snapped,
\* and every selected item follows by the same difference.
DragMove ==
  \E offset \in Offsets :
    LET target == AddTicks(sig, start.pos, Ticks(sig, px_to_pos(offset)))
    IN  /\ action \in {"STARTING_MOVING", "MOVING"} /\ Drag("MOVING")
        /\ IF action = "MOVING" THEN UNCHANGED edits ELSE Edit
        /\ target = start.pos \/ start.pos = FarBar \/ Ticks(sig, target) <= MaxTicks
        /\ \E snapped \in position_snap(target) :
             LET diff == Ticks(sig, snapped) - Ticks(sig, start.pos)
             IN  /\ at' = MovedPoints(diff)
                 /\ regions' = [r \in DOMAIN regions |->
                                  IF r \in selections.regions
                                  THEN Moved(regions[r], poses.regions[r], diff)
                                  ELSE regions[r]]
        /\ UNCHANGED <<chords, selections, start, poses, clicked, aborted>>

\* drag_end.  The saved positions are written again before they are next read.
DragRelease ==
  /\ gesture = Arranging /\ gesture' = Idle
  /\ action' = "NONE"
  /\ start' = [x |-> 0, pos |-> FarBar] /\ poses' = NoPoses
  /\ selections' = IF action = "STARTING_SELECTION" THEN select_all(FALSE) ELSE selections
  /\ SameControls
  /\ UNCHANGED <<at, regions, chords, clicked, aborted>>

\* The layout that every change asks for reads the points around each curve.
SetAllocation ==
  /\ ~CanBeDrawn(at)
  /\ aborted' = "no point next to a curve"
  /\ UNCHANGED <<at, regions, chords, selections, action, start, poses, clicked, controlVars>>

-----------------------------------------------------------------------------
Next ==
  /\ aborted = "no"
  /\ \/ SelectAll \/ PressPoint \/ PressEmpty
     \/ CreatePoint \/ CreateRegion \/ CreateAudioRegion \/ CreateChord \/ CreateNothing
     \/ DragBand \/ DragEnd \/ DragMove \/ DragRelease \/ SetAllocation
     \/ ControlsNext /\ clicked' = <<>>
        /\ UNCHANGED <<at, regions, chords, selections, action, start, poses, aborted>>

Spec == Init /\ [][Next]_vars

-----------------------------------------------------------------------------
IsPosition(p) ==
  p.bars \in Nat \ {0} /\ p.beats \in Nat \ {0} /\ p.sixteenths \in 1..8 /\ p.ticks \in 0..TicksPerSixteenth - 1

\* Every position that is kept is one the ruler can show, selections name what
\* exists, and the gesture and the action of the arranger are possible ones.
TypeOK ==
  /\ \A i \in DOMAIN at.points : IsPosition(at.points[i].pos)
  /\ \A i \in DOMAIN at.curves : IsPosition(at.curves[i])
  /\ \A r \in DOMAIN regions : IsPosition(regions[r].start) /\ IsPosition(regions[r].end)
  /\ \A p \in {playhead, cue} \cup {c.pos : c \in ToSet(chords)} \cup ToSet(grid.points) : IsPosition(p)
  /\ selections.regions \subseteq DOMAIN regions
  /\ ToSet(selections.aps) \subseteq {ap.id : ap \in ToSet(at.points)}
  /\ action \in {"NONE", "STARTING_SELECTION", "SELECTING", "STARTING_MOVING", "MOVING", "RESIZING_R"}
  /\ sig \in [top : 1..MaxTop, unit : Units] /\ zoom \in [{"mw", "midi"} -> MinZoom..MaxZoom]
  /\ grid.length \in 0..FinestLength /\ grid.type \in NoteTypes

\* However points are added and selections of them dragged, across changes of
\* the time signature, the array of points stays in the order that prev and next
\* are looked up in, with one curve between two points: the curve at an index is
\* the one after the point at that index.  (automation_track.c finds neighbours
\* and curves by index.)
AutomationInOrder ==
  /\ \A i \in DOMAIN at.points : \A j \in 1..i - 1 :
       NotAfter(at.points[j].pos, at.points[i].pos)
  /\ at.points # <<>> => Len(at.curves) = Len(at.points) - 1

\* Whatever the note length, its type and the time signature were changed to,
\* and when the snap points were computed, every position of the ruler has a
\* snap point behind it.  (get_next_snap_point leaves its result unset without.)
SnapPointsReach ==
  \A bar \in 1..TotalBars : get_next_snap_point(grid.points, [Bar(bar) EXCEPT !.beats = MaxTop]) # 0

\* Wherever the pointer that creates a region goes, to the left of its start too,
\* and whatever the grid is, the region keeps ending behind its start, in the
\* order position_compare sees.  (snap_regions_r skips an end that is not.)
DraggedEndBehindStart ==
  action = "RESIZING_R" =>
    \A r \in selections.regions : Before(regions[r].start, regions[r].end)

\* As long as every position is normal in the time signature, dragging a selection
\* moves its regions and stretches none, wherever the grid snaps it to and however
\* many updates the drag has.  (move_items_x takes the length anew in each update,
\* from positions that the last update moved; with positions left over from
\* another time signature the least start found may not be the earliest.)
Normal(p) == SetToPos(sig, p) = p
AllNormal ==
  /\ \A ap \in ToSet(at.points) : Normal(ap.pos)
  /\ \A region \in ToSet(regions) : Normal(region.start) /\ Normal(region.end)
MoveKeepsLength ==
  [][action' = "MOVING" /\ AllNormal =>
       \A r \in DOMAIN regions :
         Ticks(sig, regions'[r].end) - Ticks(sig, regions'[r].start)
           = Ticks(sig, regions[r].end) - Ticks(sig, regions[r].start)]_vars

\* The program does not end in one of its assertions.  (automation_track.c:137
\* asserts that a curve lies between its points.)
AssertionsHold == aborted # "assertion"
=============================================================================
