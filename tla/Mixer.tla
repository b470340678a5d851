------------------------------- MODULE Mixer -------------------------------
(***************************************************************************)
(* The channels of a project, their tracks and their strips, as the user   *)
(* edits them: mixer.c, tracklist.c, channel.c, the track files, and the   *)
(* widgets that call them.  Channel n of the model has the id n - 1; a     *)
(* channel and its track are one number, and the chord track, which has no *)
(* channel, is 0.                                                          *)
(*                                                                         *)
(* channel_free frees the ports and the plugins of a channel, but neither  *)
(* the Channel nor its Track: what still points to them (MIXER->master,    *)
(* the channel widgets) goes on working on them.  Using a freed plugin or  *)
(* a freed port ends the program or reads what is left there; the actions  *)
(* that do so have both outcomes.                                          *)
(*                                                                         *)
(* An operator whose name ends in Mutant is a mistake one could make in    *)
(* the definition that follows it.                                         *)
(***************************************************************************)
EXTENDS Connections, AutomationTracklist

CONSTANTS
  MaxChannels, MaxPlugins  \* bounds: how many are ever made

\* A project has a master at least.
ASSUME MixerAssumption == MaxChannels \in Nat \ {0} /\ MaxPlugins \in Nat

VARIABLES
  channels,    \* PROJECT->channels; ats and lane belong to the track of the channel
  order,       \* Mixer.channels, which has no master
  tracks,      \* Tracklist.tracks
  plugins,     \* PROJECT->plugins
  wires,       \* the connections of all ports
  shown,       \* the channels whose widgets are in the mixer
  selected,    \* the tracks whose selected flag is set
  paned,       \* the tracks whose bot_paned_visible is set
  doomed,      \* the rest of the loop of on_delete_tracks
  engineRuns,  \* AUDIO_ENGINE->run
  crashed

projectVars == <<channels, order, tracks, plugins, wires>>
editVars == <<projectVars, shown, selected, paned, doomed, engineRuns, crashed>>
mixerVars == <<editVars, connectionsVars>>

Chord == 0
Descr == [p \in DOMAIN plugins |-> plugins[p].descr]
Alive(c) == channels[c].alive

\* track_setup, for every kind of track that has a channel.
GenerateAutomatables == <<Fader>>
TrackSetup == SetupTracklist(GenerateAutomatables)

\* The automatables of a channel: its fader, then the controls of its plugins.
Controls(p, d) == [k \in 1..Descriptors[d].controls |-> <<p, k>>]
Automatables(strip, descr) ==
  GenerateAutomatables \o FlattenSeq([n \in 1..StripSize |->
                 LET p == strip[n - 1] IN IF p = 0 THEN <<>> ELSE Controls(p, descr[p])])

\* The plugins that are freed with their channel, and its ports.
StripPlugins(strip) == Picked([n \in 1..StripSize |-> strip[n - 1]], Nat \ {0})
FreePlugins(gone) ==
  [p \in DOMAIN plugins |-> IF p \in gone THEN [plugins[p] EXCEPT !.freed = TRUE]
                            ELSE plugins[p]]
-----------------------------------------------------------------------------
\* The number is how many channels have that label.
UniqueNameMutant(label) ==
  <<label, Cardinality({c \in Elements(order) : channels[c].name[1] = label})>>

GetChannelByName(name) == {c \in Elements(order) : channels[c].name = name}

\* The names of the channels in the mixer are told apart by a number.
UniqueName(label) ==
  CHOOSE name \in {<<label, n>> : n \in 0..Len(order)} :
    /\ GetChannelByName(name) = {}
    /\ \A n \in 0..(name[2] - 1) : GetChannelByName(<<label, n>>) # {}

\* channel_create, with track_new and, from mixer_add_channel, track_setup.
ChannelCreate(label, type) ==
  [name |-> UniqueName(label), type |-> type, alive |-> TRUE,
   strip |-> [k \in Slots |-> 0], ats |-> TrackSetup, lane |-> {}]

\* A plugin that is not there any more can still be read, or reads as nothing.
ReadStrips(channel, pos) == {channel.strip, [channel.strip EXCEPT ![pos] = 0]}

\* channel_remove_plugin: frees the plugin and updates the automation tracks from a
\* strip that still points to it.
RemovePlugin(channel, pos, read, descr) ==
  [channel EXCEPT !.ats = Update(@, Automatables(read, descr))]

RemoveWires(ws, channel, pos, descr) ==
  LET old == channel.strip[pos]
  IN IF old = 0 THEN ws ELSE PluginFree(ws, old, descr[old])

\* channel_add_plugin: the new plugin in the strip, wired, and its automation tracks.
AddPlugin(channel, pos, p, read, descr) ==
  LET strip == [channel.strip EXCEPT ![pos] = p]
      removed == RemovePlugin(channel, pos, read, descr)
  IN [removed EXCEPT !.strip = strip, !.ats = Update(@, Automatables(strip, descr))]

AddWires(ws, c, channel, pos, p, descr) ==
  LET strip == [channel.strip EXCEPT ![pos] = p]
      removed == RemoveWires(ws, channel, pos, descr)
      in == WireIn(removed, c, channel.type, strip, pos, descr)
  IN WireOut(in, c, strip, pos, descr)
-----------------------------------------------------------------------------
\* The rows of a lane's selector: each plugin has a row without an automatable.
Rows(channel, descr) ==
  Elements(Automatables(channel.strip, descr))
    \cup (IF StripPlugins(channel.strip) = <<>> THEN {} ELSE {NoAutomatable})

\* automation_tracklist_widget_refresh: a new lane for the visible track.  Activating
\* the first row calls the signal handler, which sets the track to the fader.
RefreshLane(channel, descr) ==
  LET visible == \E n \in DOMAIN channel.ats : channel.ats[n].visible
  IN [channel EXCEPT !.ats = SetShown(@, Fader),
                     !.lane = IF visible THEN Rows(channel, descr) ELSE {}]

RefreshLanes(all, refreshed, descr) ==
  [c \in DOMAIN all |-> IF c \in refreshed THEN RefreshLane(all[c], descr) ELSE all[c]]

\* track_get_automation_tracklist: the chord track has none.
HasAutomation(t) == t # Chord

\* tracklist_widget_refresh, over Tracklist.tracks.
RefreshTracklist(all, list, descr) ==
  RefreshLanes(all, {t \in Elements(list) : HasAutomation(t)}, descr)

\* mixer_widget_refresh.
MixerWidgetRefresh == shown' = {Master} \cup Elements(order')

\* The end of channel_add_plugin: connections_widget_refresh.
Rewired ==
  /\ ConnectionsRefresh(Elements(order'), [c \in DOMAIN channels' |-> channels'[c].strip])
  /\ UNCHANGED view

Crash ==
  /\ crashed' = TRUE
  /\ UNCHANGED <<projectVars, shown, selected, paned, doomed, engineRuns, connectionsVars>>

Idle == ~crashed /\ doomed = <<>>
-----------------------------------------------------------------------------
\* tracklist_append_track and tracklist_remove_track.
AppendTrack(t) == tracks' = ArrayAppend(tracks, t)
RemoveTrack(t) == tracks' = ArrayDelete(tracks, t)

\* on_add_ins_track, from the menu on the empty part of the list: the right click there
\* deselects every track.
AddInsTrack ==
  /\ Idle /\ Len(channels) < MaxChannels
  /\ LET c == Len(channels) + 1
         all == Append(channels, ChannelCreate("Instrument Track", "midi"))
     IN /\ order' = ArrayAppend(order, c)
        /\ AppendTrack(c)
        /\ wires' = ConnectAll(wires, ChannelWires(c, "midi"))
        /\ channels' = RefreshTracklist(all, tracks', Descr)
  /\ MixerWidgetRefresh
  /\ selected' = {}
  /\ UNCHANGED <<plugins, paned, doomed, engineRuns, crashed, connectionsVars>>

\* plugin_create_from_descr: its place in the project is for ever.
PluginCreate(all, d) == Append(all, [descr |-> d, freed |-> FALSE])

\* plugin_instantiate; a plugin that fails is freed.
InstantiationFails(d) ==
  /\ Idle /\ Len(plugins) < MaxPlugins
  /\ plugins' = Append(plugins, [descr |-> d, freed |-> TRUE])
  /\ UNCHANGED <<channels, order, tracks, wires, shown, selected, paned, doomed,
                 engineRuns, crashed, connectionsVars>>

\* mixer_add_channel_from_plugin_descr, a drop on the mixer or on the tracklist.
AddFromPluginDescr(d) ==
  /\ Idle /\ Len(channels) < MaxChannels /\ Len(plugins) < MaxPlugins
  /\ LET c == Len(channels) + 1
         p == Len(plugins) + 1
         type == IF IsInstrument(d) THEN "midi" ELSE "bus"
         new == ChannelCreate(d, type)
         descr == Append(Descr, d)
         all == Append(channels, AddPlugin(new, 0, p, new.strip, descr))
     IN /\ plugins' = PluginCreate(plugins, d)
        /\ order' = ArrayAppend(order, c)
        /\ AppendTrack(c)
        /\ wires' = AddWires(ConnectAll(wires, ChannelWires(c, type)), c, new, 0, p, descr)
        /\ channels' = RefreshTracklist(all, tracks', descr)
  /\ MixerWidgetRefresh
  /\ Rewired
  /\ UNCHANGED <<selected, paned, doomed, engineRuns, crashed>>

\* on_drag_data_received of channel_slot.c, on any slot of a channel that is shown.
SlotDrop(c, pos, d) ==
  /\ Idle /\ c \in shown /\ Len(plugins) < MaxPlugins
  /\ LET p == Len(plugins) + 1
         old == channels[c].strip[pos]
         descr == Append(Descr, d)
     IN /\ plugins' = PluginCreate(FreePlugins({old}), d)
        /\ \E read \in IF old = 0 THEN {channels[c].strip}
                        ELSE ReadStrips(channels[c], pos) :
             channels' = [channels EXCEPT ![c] = AddPlugin(@, pos, p, read, descr)]
        /\ wires' = AddWires(wires, c, channels[c], pos, p, descr)
  /\ UNCHANGED <<order, tracks, shown, selected, paned, doomed, engineRuns, crashed>>
  /\ Rewired

\* The same drops when they touch what was freed: the plugin that is replaced, the ports
\* of a deleted channel, the ports, the name and the plugins of a deleted master.
DropCrashes ==
  /\ Idle /\ Len(plugins) < MaxPlugins
  /\ \/ \E c \in shown, pos \in Slots : ~Alive(c) \/ channels[c].strip[pos] # 0
     \/ ~Alive(Master)
  /\ Crash
-----------------------------------------------------------------------------
\* get_hit_track: every track is visible.
HitTrack(t) == t \in Elements(tracks)

\* tracklist_get_selected_tracks.
GetSelected(s) == Picked(tracks, s)

\* tracklist_widget_toggle_select_track.
ToggleSelect(t, append) ==
  IF ~append THEN {t} ELSE IF t \in selected THEN selected \ {t} ELSE selected \cup {t}

SetSelected(s) ==
  /\ selected' = s
  /\ UNCHANGED <<projectVars, shown, paned, doomed, engineRuns, crashed, connectionsVars>>

\* multipress_pressed on a track.
Press(t, append) == Idle /\ HitTrack(t) /\ SetSelected(ToggleSelect(t, append))

\* Control-a: toggle_select_all_tracks.
SelectAll == Idle /\ SetSelected(Elements(tracks))

\* A right click on a track, which selects it unless it is, and on_delete_tracks, which
\* takes the selected tracks before it deletes the first.
DeleteTracks(t, append) ==
  /\ Idle /\ HitTrack(t)
  /\ selected' = IF t \in selected THEN selected ELSE ToggleSelect(t, append)
  /\ doomed' = GetSelected(selected')
  /\ UNCHANGED <<projectVars, shown, paned, engineRuns, crashed, connectionsVars>>

RemoveChannel(c) ==
  LET gone == StripPlugins(channels[c].strip)
      ports == FlattenSeq([n \in DOMAIN gone |-> PluginPorts(gone[n], Descr[gone[n]])])
  IN /\ order' = ArrayDelete(order, c)
     /\ wires' = PortsFree(wires, ports \o ChannelPorts(c))
     /\ plugins' = FreePlugins(Elements(gone))
     /\ channels' = [channels EXCEPT ![c].alive = FALSE]
     /\ engineRuns' = FALSE

\* The track of the channel stays in the list.
DeleteNextMutant ==
  /\ ~crashed /\ doomed # <<>>
  /\ doomed' = Tail(doomed)
  /\ IF Head(doomed) = Chord
     THEN UNCHANGED <<projectVars, engineRuns>>
     ELSE RemoveChannel(Head(doomed)) /\ UNCHANGED tracks
  /\ UNCHANGED <<shown, selected, paned, crashed, connectionsVars>>

\* One turn of the loop of on_delete_tracks: mixer_remove_channel, which also stops the
\* engine, and tracklist_remove_track.  No widget is refreshed.
DeleteNext ==
  /\ ~crashed /\ doomed # <<>>
  /\ doomed' = Tail(doomed)
  /\ IF Head(doomed) = Chord
     THEN UNCHANGED <<projectVars, engineRuns>>
     ELSE RemoveChannel(Head(doomed)) /\ RemoveTrack(Head(doomed))
  /\ UNCHANGED <<shown, selected, paned, crashed, connectionsVars>>

\* The wires of the channel lead to the freed ports of a deleted master.
DeleteCrashes == ~crashed /\ doomed # <<>> /\ ~Alive(Master) /\ Crash

\* draw_cb of a slot reads the name of its plugin.
DrawCrashes ==
  /\ Idle
  /\ \E c \in shown : ~Alive(c) /\ StripPlugins(channels[c].strip) # <<>>
  /\ Crash
-----------------------------------------------------------------------------
\* track_widget_on_show_automation, and tracklist_widget_show, which refreshes the master
\* track, deleted or not, and the tracks of the mixer's channels.
ShowAutomation(t) ==
  /\ Idle /\ HitTrack(t) /\ HasAutomation(t)
  /\ paned' = IF t \in paned THEN paned \ {t} ELSE paned \cup {t}
  /\ channels' = RefreshLanes(channels, {Master} \cup Elements(order), Descr)
  /\ UNCHANGED <<order, tracks, plugins, wires, shown, selected, doomed, engineRuns, crashed, connectionsVars>>

\* on_at_selector_changed.  The lane may show a track that an update has freed.
SelectorChanged(t, a) ==
  /\ Idle /\ t \in paned \cap Elements(tracks) /\ a \in channels[t].lane
  /\ channels' = [channels EXCEPT ![t].ats = SetShown(@, a)]
  /\ UNCHANGED <<order, tracks, plugins, wires, shown, selected, paned, doomed,
                 engineRuns, crashed, connectionsVars>>

SelectorCrashes ==
  /\ Idle
  /\ \E t \in paned \cap Elements(tracks) :
       channels[t].lane # {} /\ \A n \in DOMAIN channels[t].ats : ~channels[t].ats[n].visible
  /\ Crash

\* exporter_export leaves the engine running.
Export ==
  /\ Idle /\ engineRuns' = TRUE
  /\ UNCHANGED <<projectVars, shown, selected, paned, doomed, crashed, connectionsVars>>

\* A row of a selector of the connections.
SelectRow(side, unit) ==
  /\ Idle /\ view[side] # unit /\ SelectUnit(side, unit)
  /\ UNCHANGED <<editVars, units>>

\* Rows and labels of a channel, or of a plugin, that was freed with its ports.
FreedUnits ==
  {unit \in (units \cup {view.src, view.dest}) \ {<<>>} :
     IF unit[1] = "channel" THEN ~Alive(unit[2]) ELSE plugins[unit[2]].freed}

SelectCrashes == Idle /\ units \cap FreedUnits # {} /\ Crash
DrawConnectionsCrashes == Idle /\ (DrawsBeyond(Descr) \/ DrawsFreed(FreedUnits)) /\ Crash

\* What the user does, and what follows from it on its own.
MixerEdit ==
  \/ AddInsTrack
  \/ \E d \in DraggedDescr :
       \/ InstantiationFails(d) \/ AddFromPluginDescr(d)
       \/ \E c \in DOMAIN channels, pos \in Slots : SlotDrop(c, pos, d)
  \/ DropCrashes
  \/ \E t \in Elements(tracks), append \in BOOLEAN : Press(t, append) \/ DeleteTracks(t, append)
  \/ SelectAll \/ Export
  \/ \E side \in {"src", "dest"}, unit \in units : SelectRow(side, unit)
  \/ SelectCrashes
  \/ \E t \in Elements(tracks) \ {Chord} :
       ShowAutomation(t) \/ \E a \in channels[t].lane : SelectorChanged(t, a)

MixerStep == DeleteNext \/ DeleteCrashes \/ DrawCrashes \/ DrawConnectionsCrashes \/ SelectorCrashes
=============================================================================
