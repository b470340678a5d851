------------------------------ MODULE Controls ------------------------------
(***************************************************************************)
(* What surrounds the timeline and changes what a pixel or a position      *)
(* means: the digital meters (time signature, note length and type,        *)
(* playhead position), the snap button, the zoom actions, the two rulers   *)
(* and the minimap.  There is one pointer, so one gesture at a time.       *)
(*                                                                         *)
(* A meter drag counts steps; a pixel is a whole number of ticks, fewer    *)
(* the higher the zoom.  The tempo meter is left out, as the model counts  *)
(* ticks, and so are drawing, scrolling and the minimap's motion handler.  *)
(***************************************************************************)
EXTENDS AutomationTrack

CONSTANTS
  FinestLength,            \* NOTE_LENGTH_1_128
  MaxTop,                  \* 16 in digital_meter.c
  InitialSignature, InitialLength,
  MinZoom, MaxZoom, DefaultZoom,
  Pixels,                  \* the x of a press
  Steps,                   \* of a meter drag
  MaxEdits                 \* bound: control presses, things created and moves

\* A step of no ticks would keep update_snap_points in its loop.
ASSUME ControlsAssumption == snap_grid_get_note_ticks(FinestLength, "triplet") > 0

VARIABLES
  sig,        \* TRANSPORT->beats_per_bar and beat_unit
  grid,       \* snap_grid_timeline: note_length, note_type, snap_to_grid, snap_points
  playhead, cue,
  zoom,       \* of MW_RULER and MIDI_RULER
  gesture,    \* what the pressed button drags, with what the widget saved at the press
  edits

controlVars == <<sig, grid, playhead, cue, zoom, gesture, edits>>

BeatUnits == <<2, 4, 8, 16>>
NoteTypeSeq == <<"normal", "dotted", "triplet">>
Idle == [on |-> "none"]

Clamped(n, low, high) == IF n < low THEN low ELSE IF n > high THEN high ELSE n
StepTicks(g) == snap_grid_get_note_ticks(g.length, g.type)
snap_grid_setup(s, g) == update_snap_points(s, StepTicks(g))

ControlsInit ==
  /\ sig = InitialSignature
  /\ LET g == [length |-> InitialLength, type |-> "normal", snapToGrid |-> TRUE]
     IN  grid = g @@ [points |-> snap_grid_setup(InitialSignature, g)]
  /\ playhead = Bar(1) /\ cue = Bar(1)
  /\ zoom = [mw |-> DefaultZoom, midi |-> DefaultZoom]
  /\ gesture = Idle
  /\ edits = 0

-----------------------------------------------------------------------------
(* Pixels. *)

TicksPerPixel(level) == MaxZoom + 1 - level

ruler_widget_px_to_pos(level, px) ==
  LET ticks == (IF px < 0 THEN 0 ELSE px) * TicksPerPixel(level)
  IN  Pos(ticks \div TicksPerBar(sig) + 1,
          (ticks % TicksPerBar(sig)) \div TicksPerBeat(sig) + 1,
          (ticks % TicksPerBeat(sig)) \div TicksPerSixteenth + 1,
          ticks % TicksPerSixteenth)
ruler_widget_pos_to_px(level, p) == Ticks(sig, p) \div TicksPerPixel(level)

-----------------------------------------------------------------------------
(* Digital meters. *)

Edit == edits < MaxEdits /\ edits' = edits + 1

Press(g) ==
  /\ gesture = Idle /\ gesture' = g
  /\ Edit

\* button_press_cb picks the part, drag_start saves the value it starts from.
MeterPress ==
  /\ \/ Press([on |-> "length", start |-> grid.length])
     \/ Press([on |-> "type", start |-> CHOOSE i \in 1..3 : NoteTypeSeq[i] = grid.type])
     \/ Press([on |-> "top", start |-> sig.top])
     \/ Press([on |-> "unit", start |-> CHOOSE i \in 1..4 : BeatUnits[i] = sig.unit])
     \/ \E part \in {"bars", "beats", "sixteenths", "ticks"} : Press([on |-> part])
  /\ UNCHANGED <<sig, grid, playhead, cue, zoom>>

\* The drags of note length, note type and time signature count from the saved
\* value.  The snap points stay as they are: a new time signature does not even
\* move them at the end of the drag.
MeterDragFromStart(k) ==
  LET num == gesture.start + k
  IN  \/ /\ gesture.on = "length"
         /\ grid' = [grid EXCEPT !.length = Clamped(num, 0, FinestLength)] /\ sig' = sig
      \/ /\ gesture.on = "type"
         /\ grid' = [grid EXCEPT !.type = NoteTypeSeq[Clamped(num, 1, 3)]] /\ sig' = sig
      \/ /\ gesture.on = "top"
         /\ sig' = [sig EXCEPT !.top = Clamped(num, 1, MaxTop)] /\ grid' = grid
      \/ /\ gesture.on = "unit"
         /\ sig' = [sig EXCEPT !.unit = BeatUnits[Clamped(num, 1, 4)]] /\ grid' = grid

\* The position meter moves the playhead by the steps since its last update.
\* Bound: the playhead stays on the timeline.
MovedPlayhead(part, k) ==
  CASE part = "bars" -> SetBar(playhead, playhead.bars + k)
    [] part = "beats" -> SetBeat(sig, playhead, playhead.beats + k)
    [] part = "sixteenths" -> SetSixteenth(sig, playhead, playhead.sixteenths + k)
    [] part = "ticks" -> SetTick(sig, playhead, playhead.ticks + k)
MeterDragPosition(k) ==
  /\ gesture.on \in {"bars", "beats", "sixteenths", "ticks"}
  /\ playhead' = MovedPlayhead(gesture.on, k)
  /\ playhead'.bars <= TotalBars

MeterDrag ==
  \E k \in Steps :
    /\ \/ MeterDragFromStart(k) /\ playhead' = playhead
       \/ MeterDragPosition(k) /\ UNCHANGED <<sig, grid>>
    /\ UNCHANGED <<cue, zoom, gesture, edits>>

\* drag_end computes the snap points of a new note length or type.
MeterReleaseMutant ==
  /\ gesture.on \in {"length", "type", "top", "unit", "bars", "beats", "sixteenths", "ticks"}
  /\ gesture' = Idle
  /\ grid' = IF gesture.on \in {"length", "type"}
             THEN [grid EXCEPT !.points = SelectSeq(snap_grid_setup(sig, grid),
                                            LAMBDA p : Before(p, Bar(TotalBars + 1)))]
             ELSE grid
  /\ UNCHANGED <<sig, playhead, cue, zoom, edits>>
MeterRelease ==
  /\ gesture.on \in {"length", "type", "top", "unit", "bars", "beats", "sixteenths", "ticks"}
  /\ gesture' = Idle
  /\ grid' = IF gesture.on \in {"length", "type"}
             THEN [grid EXCEPT !.points = snap_grid_setup(sig, grid)]
             ELSE grid
  /\ UNCHANGED <<sig, playhead, cue, zoom, edits>>

-----------------------------------------------------------------------------
(* Buttons: a press that saves nothing and drags nothing. *)

Button ==
  /\ gesture = Idle /\ gesture' = gesture
  /\ Edit
  /\ UNCHANGED <<sig, playhead, cue>>

activate_snap_to_grid ==
  Button /\ grid' = [grid EXCEPT !.snapToGrid = ~@] /\ zoom' = zoom

\* The level after ruler_widget_set_zoom_level: out of range it stays.
set_zoom_levelMutant(level, old) == IF level <= MaxZoom THEN level ELSE old
set_zoom_level(level, old) == IF level \in MinZoom..MaxZoom THEN level ELSE old

\* Zooming in and the original size forget the MIDI ruler.
activate_zoom_in ==
  Button /\ zoom' = [zoom EXCEPT !.mw = set_zoom_level(@ + 1, @)] /\ grid' = grid
activate_zoom_out ==
  /\ Button /\ grid' = grid
  /\ zoom' = [mw |-> set_zoom_level(zoom.mw - 1, zoom.mw),
              midi |-> set_zoom_level(zoom.mw - 1, zoom.midi)]
activate_original_size ==
  Button /\ zoom' = [zoom EXCEPT !.mw = DefaultZoom] /\ grid' = grid

-----------------------------------------------------------------------------
(* Rulers: a press or a drag moves the playhead, a second press the cue. *)

RulerPress ==
  \E ruler \in {"mw", "midi"}, px \in Pixels, second \in BOOLEAN :
    LET pos == SetToPos(sig, ruler_widget_px_to_pos(zoom[ruler], px))
    IN  /\ Press([on |-> ruler, start |-> px])
        /\ playhead' = pos
        /\ cue' = IF second THEN pos ELSE cue
        /\ UNCHANGED <<sig, grid, zoom>>

RulerDrag ==
  /\ gesture.on \in {"mw", "midi"}
  /\ \E px \in Pixels :
       playhead' = SetToPos(sig, ruler_widget_px_to_pos(zoom[gesture.on], px))
  /\ UNCHANGED <<sig, grid, cue, zoom, gesture, edits>>

-----------------------------------------------------------------------------
(* Minimap: dragging an edge of its selection zooms both rulers, to a level *)
(* that follows from the width; dragging its middle scrolls.                *)

MinimapPress ==
  /\ \E cursor \in {"resize", "default", "nothing hit"} :
       Press([on |-> "minimap", action |-> cursor])
  /\ UNCHANGED <<sig, grid, playhead, cue, zoom>>

MinimapDrag ==
  /\ gesture.on = "minimap" /\ gesture.action = "resize"
  /\ \E level \in MinZoom - 1..MaxZoom + 1 :
       zoom' = [r \in {"mw", "midi"} |-> set_zoom_level(level, zoom[r])]
  /\ UNCHANGED <<sig, grid, playhead, cue, gesture, edits>>

Release ==
  /\ gesture.on \in {"mw", "midi", "minimap"}
  /\ gesture' = Idle
  /\ UNCHANGED <<sig, grid, playhead, cue, zoom, edits>>

ControlsNext ==
  \/ MeterPress \/ MeterDrag \/ MeterRelease
  \/ activate_snap_to_grid
  \/ activate_zoom_in \/ activate_zoom_out \/ activate_original_size
  \/ RulerPress \/ RulerDrag
  \/ MinimapPress \/ MinimapDrag \/ Release
=============================================================================
