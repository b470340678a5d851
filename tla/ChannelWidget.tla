--------------------------- MODULE ChannelWidget ---------------------------
(***************************************************************************)
(* The widget of a channel (widgets/channel.c) around its solo button: the *)
(* fader, the pan and the knob of the phase that a drag moves (fader.c,    *)
(* pan.c, knob.c), and the label next to the knob.  What they change is no *)
(* action of the undo manager.  The handlers of the other buttons are      *)
(* empty.                                                                  *)
(*                                                                         *)
(* The three values count pixels from the bottom of their range: the model *)
(* has no unit in which amplitude, dB and fader position differ, as each   *)
(* is an increasing function of the other (math.c).  y grows upwards, as   *)
(* the handlers negate it.                                                 *)
(*                                                                         *)
(* An operator whose name ends in Mutant is a mistake one could make in    *)
(* the definition that follows it.                                         *)
(***************************************************************************)
EXTENDS UndoManager

CONSTANTS
  RangeLength,     \* the length of a range in pixels
  Offsets,   \* of the pointer from where it was pressed
  Dragged, MaxDrags  \* bounds: the channels that are dragged, and how often

ASSUME WidgetAssumption == RangeLength \in Nat \ {0} /\ Offsets \subseteq Int \X Int

VARIABLES
  strip,       \* Channel.fader_amp, pan and phase
  reading,  \* the label phase_reading: which of the values it shows
  last,     \* last_x and last_y of each widget
  drag,     \* the gesture: its channel and widget, and the pointer's offset, or <<>>
  drags

stripVars == <<strip, reading>>
widgetVars == <<vars, stripVars, last, drag, drags>>

Widgets == {"fader", "pan", "phase"}
NoMotion == <<0, 0>>

\* channel_widget_new and the values of _create_channel.
WidgetInit ==
  /\ Init
  /\ strip = [c \in Channels |-> [fader |-> RangeLength - 1, pan |-> RangeLength \div 2, phase |-> 0]]
  /\ reading = [c \in Channels |-> "phase"]
  /\ last = [c \in Channels |-> [w \in Widgets |-> NoMotion]]
  /\ drag = <<>> /\ drags = 0
-----------------------------------------------------------------------------
\* The setters.  That of the fader writes the volume into the label of the phase.
SetPhase(c, value) ==
  /\ strip' = [strip EXCEPT ![c].phase = value]
  /\ reading' = [reading EXCEPT ![c] = "phase"]
SetFaderAmp(c, value) ==
  /\ strip' = [strip EXCEPT ![c].fader = value]
  /\ reading' = [reading EXCEPT ![c] = "fader"]
SetPan(c, value) ==
  /\ strip' = [strip EXCEPT ![c].pan = value]
  /\ UNCHANGED reading

ClampTo(x, upper, lower) == IF x > upper THEN upper ELSE IF x < lower THEN lower ELSE x
Size(n) == IF n < 0 THEN -n ELSE n

\* What the pointer moved since the last update, along the axis it moved most.
Moved(c, w, x, y) ==
  LET dx == x - last[c][w][1]
      dy == y - last[c][w][2]
  IN IF Size(dy) > Size(dx) THEN dy ELSE dx

\* drag_update of the three widgets; the fader follows y alone.
FaderDrag(c, x, y) ==
  SetFaderAmp(c, ClampTo(strip[c].fader + (y - last[c].fader[2]), RangeLength, 0))
PanDrag(c, x, y) ==
  SetPan(c, ClampTo(strip[c].pan + Moved(c, "pan", x, y), RangeLength, 0))
KnobDrag(c, x, y) ==
  SetPhase(c, ClampTo(strip[c].phase + Moved(c, "phase", x, y), RangeLength, 0))

\* The gesture is recognized where the button was pressed; no handler runs.
DragBegin(c, w) ==
  /\ Idle /\ drag = <<>> /\ drags < MaxDrags /\ c \in Dragged
  /\ drag' = [channel |-> c, widget |-> w, x |-> 0, y |-> 0]
  /\ drags' = drags + 1
  /\ UNCHANGED <<vars, stripVars, last>>

DragUpdate(x, y) ==
  /\ Idle /\ drag # <<>> /\ <<x, y>> # <<drag.x, drag.y>>
  /\ LET c == drag.channel
     IN /\ \/ drag.widget = "fader" /\ FaderDrag(c, x, y)
           \/ drag.widget = "pan" /\ PanDrag(c, x, y)
           \/ drag.widget = "phase" /\ KnobDrag(c, x, y)
        /\ last' = [last EXCEPT ![c][drag.widget] = <<x, y>>]
  /\ drag' = [drag EXCEPT !.x = x, !.y = y]
  /\ UNCHANGED <<vars, drags>>

\* The next drag would go on from where this one ended.
DragEndMutant ==
  /\ Idle /\ drag # <<>>
  /\ drag' = <<>>
  /\ UNCHANGED <<vars, stripVars, last, drags>>

DragEnd ==
  /\ Idle /\ drag # <<>>
  /\ drag' = <<>>
  /\ last' = [last EXCEPT ![drag.channel][drag.widget] = NoMotion]
  /\ UNCHANGED <<vars, stripVars, drags>>
-----------------------------------------------------------------------------
\* The pointer is held by a drag: what remains is the keyboard.
Edit ==
  /\ \/ drag = <<>> /\ Next
     \/ drag # <<>> /\ (Undo \/ Redo)
  /\ UNCHANGED <<stripVars, last, drag, drags>>

WidgetNext ==
  \/ Edit
  \/ \E c \in Channels, w \in Widgets : DragBegin(c, w)
  \/ \E offset \in Offsets : DragUpdate(offset[1], offset[2])
  \/ DragEnd

WidgetSpec == WidgetInit /\ [][WidgetNext]_widgetVars
-----------------------------------------------------------------------------
\* A fader, a pan or a phase moves only while it is dragged, in the direction of the
\* pointer and never further than it moved since the event before, and stays in its
\* range; a new drag does not start with a jump, whatever was dragged or undone before.
\* (last_x and last_y, which drag_update keeps between the events of all drags.)
Follows(change, motion) == Size(change) <= Size(motion) /\ change * motion >= 0
DragFollowsPointer ==
  [][\A c \in Channels, w \in Widgets :
       strip'[c][w] # strip[c][w] =>
         /\ drag # <<>> /\ drag' # <<>> /\ <<drag.channel, drag.widget>> = <<c, w>>
         /\ strip'[c][w] \in 0..RangeLength
         /\ LET change == strip'[c][w] - strip[c][w]
            IN \/ Follows(change, drag'.y - drag.y)
               \/ w # "fader" /\ Follows(change, drag'.x - drag.x)]_widgetVars
=============================================================================
