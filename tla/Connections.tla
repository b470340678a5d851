---------------------------- MODULE Connections ----------------------------
(***************************************************************************)
(* The view of the connections (connections.c, audio_unit.c and            *)
(* audio_unit_label.c): on each of two sides the user selects a channel or *)
(* a plugin, and its ports get labels; lines are drawn between the labels  *)
(* of connected ports.                                                     *)
(*                                                                         *)
(* The rows of both selectors are made when a project opens and at the end *)
(* of channel_add_plugin.  They point to channels and plugins, and the     *)
(* labels to ports, that may have been freed since.                        *)
(***************************************************************************)
EXTENDS PluginManager

VARIABLES
  units,  \* the rows of the selectors that have labels
  view    \* what is shown on the left (src_au) and on the right (dest_au)

connectionsVars == <<units, view>>
ViewNew == view' = [src |-> <<>>, dest |-> <<>>]

\* create_audio_units_store.  A row of the engine, and the master's own, do nothing.
AudioUnits(list, strips) ==
  {<<"channel", c>> : c \in list}
    \cup {<<"plugin", p>> : p \in {strips[c][k] : c \in list \cup {Master}, k \in Slots} \ {0}}

\* connections_widget_refresh: the first row, the engine's, is selected; the labels stay.
ConnectionsRefresh(list, strips) == units' = AudioUnits(list, strips)

\* audio_unit_widget_set_from_channel and _set_from_plugin: the ports that have labels.
ChannelLabels(c) ==
  [left |-> <<StereoIn(c, 0), StereoIn(c, 1), MidiIn(c), PianoRoll(c)>>,
   right |-> <<StereoOut(c, 0), StereoOut(c, 1)>>]
PluginLabels(p, d) == [left |-> InPorts(p, d), right |-> OutPorts(p, d)]

Labels(unit, descr) ==
  IF unit = <<>> THEN [left |-> <<>>, right |-> <<>>]
  ELSE IF unit[1] = "channel" THEN ChannelLabels(unit[2])
  ELSE PluginLabels(unit[2], descr[unit[2]])

\* on_selector_changed
SelectUnit(side, unit) ==
  /\ unit \in units
  /\ view' = [view EXCEPT ![side] = unit]

(***************************************************************************)
(* draw_cb meets every label on the right of the source with every label   *)
(* on the left of the destination, but takes the destination's label by    *)
(* the index of the source's: beyond the destination's labels there is     *)
(* nothing, or a label that was destroyed.                                 *)
(***************************************************************************)
DrawsBeyond(descr) ==
  LET from == Labels(view.src, descr).right
      to == Labels(view.dest, descr).left
  IN to # <<>> /\ Len(from) > Len(to)

\* The labels read the ports of a unit that was freed.
DrawsFreed(freed) == \E side \in {"src", "dest"} : view[side] \in freed
=============================================================================
