------------------------------- MODULE Lv2Host -------------------------------
(***************************************************************************)
(* One LV2 plugin in the host (lv2_plugin.c, lv2_gtk.c, lv2/state.c), with *)
(* its worker (module Worker) and what its description gives rise to       *)
(* (module Lv2Instance).  Three threads meet here:                         *)
(*                                                                         *)
(*  - the thread of the channel runs the plugin once per cycle: prepare    *)
(*    the ports, apply what the UI wrote, run, hand out the responses of   *)
(*    the workers, deliver events to the UI;                               *)
(*  - the GTK thread instantiates the plugin, opens and closes its window, *)
(*    writes controls, restores presets, and drains the plugin's events    *)
(*    when a timer fires;                                                  *)
(*  - the thread of the worker.                                            *)
(*                                                                         *)
(* The plugin and its UI are external: they may do anything the host's     *)
(* interface lets them do, a bounded number of times.                      *)
(*                                                                         *)
(* An operator whose name ends in Mutant is a mistake one could make in    *)
(* the definition that follows it.                                         *)
(***************************************************************************)
EXTENDS Lv2Instance, Worker

CONSTANTS
  Descriptions,  \* the plugins that the user may drop on the slot: LilvPlugin
  Values,        \* values of controls
  UiRing,        \* the cells of ui_events and plugin_events
  PosSize,       \* the size of a time:Position object
  GetSize,       \* the size of a patch:Get object
  MidiSize,      \* the size of a MIDI event
  SetSize,       \* the size of an atom that a UI writes
  NewUri,        \* a URI that the plugin maps while it runs
  Bounds         \* how much is done with each of Descriptions, see BoundType

\* Bounds: MIDI events of a cycle, writes of the UI that are accepted, atom
\* events that the plugin sends to the UI, windows that are opened, presets that
\* are applied, saved or deleted, pauses that nobody waits for.
BoundType ==
  [midi : Nat, writes : Nat, events : Nat, windows : Nat, presets : Nat, pauses : Nat]

ASSUME HostAssumption ==
  /\ Values \subseteq Nat /\ 0 \in Values
  /\ UiRing \in Nat /\ Word \in Nat
  /\ {PosSize, GetSize, MidiSize, SetSize} \subseteq Nat
  /\ NewUri \in Nat
  /\ \A d \in Descriptions :
       /\ Len(d.ports) \in Nat /\ Len(d.properties) \in Nat
       /\ \A n \in 1..Len(d.properties) : d.properties[n].uri \in Nat
  /\ Bounds \in [Descriptions -> BoundType]

VARIABLES
  lp,            \* Lv2Plugin.lilv_plugin: <<>> until a plugin is dropped
  ports, controls, symap,
  live,          \* the plugin is in its slot, and the channel's thread runs it
  uiEvents, pluginEvents,
  window,        \* Lv2Plugin.window, 0 for NULL
  windows,       \* windows that exist
  opened,        \* how many were ever opened: window n was the n-th
  closing,       \* windows that an idle callback will close
  timers,        \* timers that call lv2_update
  suil,          \* Lv2Plugin.ui_instance is not NULL
  widget,        \* what the widgets of the generic UI show
  space,         \* how much of plugin_events lv2_update has left to read
  request_update,
  preset, presets, \* Lv2Plugin.preset, and the presets on disk
  active,        \* <<window, preset>> of active_preset_item, <<>> for NULL
  edits,         \* how many presets were applied, saved or deleted
  play_state, paused, \* TRANSPORT->play_state and TRANSPORT->paused
  gpc, mustPause,\* where the GTK thread is in lv2_apply_state
  apc,           \* where the channel's thread is
  evEnd,         \* the last byte written to an event buffer in this cycle
  sent,          \* atom events that the plugin sent
  halfEvent,     \* the event of which lv2_send_to_ui wrote the header only
  accepted, applied  \* what the UI wrote and what became of it, in order

instVars == <<lp, controls, live>>
ringVars == <<uiEvents, pluginEvents>>
windowVars == <<window, windows, opened, closing, timers, suil>>
uiVars == <<windowVars, widget, space>>
presetVars == <<preset, presets, active, edits>>
stateVars == <<request_update, presetVars, play_state, paused, gpc, mustPause>>
audioVars == <<apc, evEnd, sent, halfEvent>>
ghostVars == <<accepted, applied>>
vars == <<instVars, ports, symap, ringVars, uiVars, stateVars, audioVars, ghostVars, workerVars>>

Inst == lp[1]
num_ports == Len(Inst.ports)
Bound == Bounds[Inst]
PresetNames == {"A", "B"}
ControlPorts == {n \in DOMAIN ports : ports[n].type = "control"}
EventIns == {n \in DOMAIN ports : ports[n].type = "event" /\ ports[n].flow = "input"}
EventOuts == {n \in DOMAIN ports : ports[n].type = "event" /\ ports[n].flow = "output"}

\* The control of a port, and the place of a control in the array.
ControlOf(n) == CHOOSE c \in DOMAIN controls :
                  controls[c].type = "port" /\ controls[c].index = n - 1

\* Lv2ControlChange: protocol 0 carries a float, eventTransfer an atom.
Change(protocol, n, value) == [protocol |-> protocol, port |-> n, value |-> value]
ChangeSize(ev) == IF ev.protocol = "float" THEN 1 ELSE 2
Changes == [protocol : {"float", "atom"}, port : Nat, value : Values]

Init ==
  /\ lp = <<>> /\ ports = <<>> /\ controls = <<>> /\ live = FALSE
  /\ symap = symap_new
  /\ uiEvents = <<>> /\ pluginEvents = <<>>
  /\ window = 0 /\ windows = {} /\ opened = 0 /\ closing = {} /\ timers = 0 /\ suil = FALSE
  /\ widget = <<>> /\ space = 0
  /\ request_update = FALSE
  /\ preset = <<>> /\ presets = {} /\ active = <<>> /\ edits = 0
  /\ play_state = "paused" /\ paused = 0
  /\ gpc = "idle" /\ mustPause = FALSE
  /\ apc = "idle" /\ evEnd = <<>> /\ sent = 0 /\ halfEvent = <<>>
  /\ accepted = <<>> /\ applied = <<>>
  /\ lv2_worker_init
-----------------------------------------------------------------------------
(***************************************************************************)
(* Writing a control from the GTK thread.                                  *)
(***************************************************************************)
\* The header and the body are written one after the other.
ui_writeMutant(ring, n, protocol, value) ==
  LET ev == Change(protocol, n, value)
  IN  IF n \notin DOMAIN ports THEN ring
      ELSE RingWrite(RingWrite(ring, UiRing, <<Header(ev)>>), UiRing, Body(ev, ChangeSize(ev)))

\* lv2_ui_write: one write, whose result is ignored; nothing for a port that
\* does not exist.
ui_write(ring, n, protocol, value) ==
  LET ev == Change(protocol, n, value)
  IN  IF n \notin DOMAIN ports THEN ring
      ELSE RingWrite(ring, UiRing, <<Header(ev)>> \o Body(ev, ChangeSize(ev)))

\* lv2_ui_write of the UI, and what is accepted of it.
Lv2UiWrite(n, protocol, value) ==
  /\ Len(accepted) < Bound.writes
  /\ uiEvents' = ui_write(uiEvents, n, protocol, value)
  /\ accepted' = IF uiEvents' = uiEvents THEN accepted
                 ELSE Append(accepted, Change(protocol, n, value))

\* A UI of its own writes through its controller.  What an atom says is left out.
SuilWrite ==
  /\ gpc = "idle" /\ window # 0 /\ suil
  /\ \/ \E n \in ControlPorts, v \in Values : Lv2UiWrite(n, "float", v)
     \/ \E n \in EventIns : Lv2UiWrite(n, "atom", 0)
  /\ UNCHANGED <<instVars, ports, symap, pluginEvents, uiVars, stateVars, audioVars, applied,
                 workerVars>>

\* lv2_set_control: a port's value is stored at once, whatever the thread of the
\* channel does; a property's goes to control_in, which lv2_instantiate always sets to -1.
lv2_set_control(c, value) ==
  IF controls[c].type = "port" /\ FloatControlType(controls[c]) = "Float"
  THEN [ports EXCEPT ![controls[c].index + 1].control = value]
  ELSE ports

\* The user moves a widget of the generic UI: scale_changed, spin_changed,
\* combo_changed, toggle_changed and lv2_gtk_set_float_control.
MoveWidget ==
  /\ gpc = "idle" /\ window # 0 /\ ~suil
  /\ \E c \in DOMAIN controls, v \in Values :
       /\ controls[c].is_writable /\ widget[c] # v
       /\ widget' = [widget EXCEPT ![c] = control_changed(controls[c], @, v)]
       /\ ports' = lv2_set_control(c, widget'[c])
  /\ UNCHANGED <<instVars, symap, ringVars, windowVars, space, stateVars, audioVars,
                 ghostVars, workerVars>>

\* lv2_ui_port_event in the generic UI: the widget of a port shows the value,
\* and its handler writes what it shows back to the port.
PortEvent(p, w, n, value) ==
  LET c == ControlOf(n)
      shown == control_changed(controls[c], w[c], value)
  IN  [ports |-> IF shown # w[c] /\ controls[c].is_writable
                 THEN [p EXCEPT ![n].control = shown] ELSE p,
       widget |-> [w EXCEPT ![c] = shown]]

\* ... and a patch:Set or patch:Put shows the value of a property, with
\* updating set, so that nothing is written back.
PropertyEvent(w, value) ==
  [c \in DOMAIN w |-> IF controls[c].type = "property" THEN control_changed(controls[c], w[c], value)
                      ELSE w[c]]
-----------------------------------------------------------------------------
(***************************************************************************)
(* Windows.                                                                *)
(***************************************************************************)
\* lv2_init_ui: every control port, one after the other, tells its widget.
lv2_init_ui(p, w) ==
  LET Told[n \in 0..num_ports] ==
        IF n = 0 THEN [ports |-> p, widget |-> w]
        ELSE IF p[n].type = "control" THEN PortEvent(Told[n - 1].ports, Told[n - 1].widget, n, p[n].control)
        ELSE Told[n - 1]
  IN  Told[num_ports]

\* add_preset_to_menu, for each of the presets that lv2_load_presets finds: the item
\* of the current preset is active.
add_preset_to_menu(w, loaded, current, item) ==
  IF current # <<>> /\ current[1] \in loaded THEN <<w, current[1]>> ELSE item
build_menu(w) == add_preset_to_menu(w, presets, preset, active)
rebuild_preset_menu(w) == active' = add_preset_to_menu(w, presets', preset', <<>>)

\* lv2_ui_instantiate: suil may fail; without a UI it is not asked.
lv2_ui_instantiate == IF ChooseUi(Inst) = "none" THEN {suil} ELSE BOOLEAN

\* lv2_open_ui: a new window with its menu and a suil instance (which may fail)
\* or the generic widgets, told the values of the ports, and one more timer.
lv2_open_ui ==
  /\ opened < Bound.windows
  /\ opened' = opened + 1
  /\ window' = opened + 1
  /\ windows' = windows \cup {opened + 1}
  /\ active' = build_menu(opened + 1)
  /\ suil' \in lv2_ui_instantiate
  /\ timers' = timers + 1
  /\ IF suil' THEN UNCHANGED <<ports, widget>>
     ELSE LET told == lv2_init_ui(ports, build_control_widget(controls))
          IN  ports' = told.ports /\ widget' = told.widget
  /\ UNCHANGED closing

\* A double click on the slot presents the window or opens one.
DoubleClickSlot ==
  /\ gpc = "idle" /\ live /\ space = 0
  /\ window = 0
  /\ lv2_open_ui
  /\ UNCHANGED <<instVars, symap, ringVars, space, request_update, preset, presets, edits,
                 play_state, paused, gpc, mustPause, audioVars, ghostVars, workerVars>>

\* on_window_destroy, whichever window it is.
on_window_destroy(w) == 0

\* The user closes a window, or File > Quit.
DestroyWindow ==
  /\ gpc = "idle" /\ space = 0
  /\ \E w \in windows :
       /\ windows' = windows \ {w}
       /\ closing' = closing \ {w}
       /\ window' = on_window_destroy(w)
  /\ UNCHANGED <<instVars, ports, symap, ringVars, opened, timers, suil, widget, space,
                 stateVars, audioVars, ghostVars, workerVars>>

\* lv2_close_ui, called by an external UI that was closed: the window is closed
\* by an idle callback, and forgotten now.
lv2_close_ui ==
  /\ gpc = "idle" /\ space = 0
  /\ window # 0 /\ suil /\ ChooseUi(Inst) = "external"
  /\ closing' = closing \cup {window}
  /\ window' = 0
  /\ UNCHANGED <<instVars, ports, symap, ringVars, windows, opened, timers, suil, widget, space,
                 stateVars, audioVars, ghostVars, workerVars>>

IdleClose ==
  /\ gpc = "idle" /\ space = 0
  /\ \E w \in closing :
       /\ closing' = closing \ {w}
       /\ windows' = windows \ {w}
       /\ window' = on_window_destroy(w)
  /\ UNCHANGED <<instVars, ports, symap, ringVars, opened, timers, suil, widget, space,
                 stateVars, audioVars, ghostVars, workerVars>>

\* lv2_update, when a timer fires: it looks once at how much there is ...
UpdateStart ==
  /\ gpc = "idle" /\ timers > 0 /\ window # 0 /\ space = 0
  /\ Len(pluginEvents) > 1
  /\ space' = Len(pluginEvents)
  /\ UNCHANGED <<instVars, ports, symap, ringVars, windowVars, widget, stateVars, audioVars,
                 ghostVars, workerVars>>

\* What is left goes below zero when an event is longer than what was seen.
SpaceAfterMutant(n) == space - (1 + n)

\* The loop of lv2_update ends when no more than a header is left.
SpaceAfter(n) == IF space > 1 + n THEN space - (1 + n) ELSE 0

\* ... and reads event after event while more than a header is left.  A body
\* that is not there yet stays in the ring and is read as a header later.
UpdateEvent ==
  /\ space > 1
  /\ LET ev == pluginEvents[1].of
         whole == pluginEvents[1].is = "header"
         rest == RingRest(pluginEvents, 1)
         n == ChangeSize(ev)
         read == RingRead(rest, n) # <<>>
     IN  IF ~whole
         THEN /\ pluginEvents' = rest
              /\ space' = space - 1
              /\ UNCHANGED <<ports, widget>>
         ELSE /\ pluginEvents' = RingRest(rest, n)
              /\ space' = SpaceAfter(n)
              /\ IF suil \/ ~read THEN UNCHANGED <<ports, widget>>
                 ELSE IF ev.protocol = "atom"
                 THEN widget' = PropertyEvent(widget, ev.value) /\ UNCHANGED ports
                 ELSE LET told == PortEvent(ports, widget, ev.port, ev.value)
                      IN  ports' = told.ports /\ widget' = told.widget
  /\ UNCHANGED <<instVars, symap, uiEvents, windowVars, stateVars, audioVars, ghostVars,
                 workerVars>>

UpdateEnd ==
  /\ space = 1
  /\ space' = 0
  /\ UNCHANGED <<instVars, ports, symap, ringVars, windowVars, widget, stateVars, audioVars,
                 ghostVars, workerVars>>
-----------------------------------------------------------------------------
(***************************************************************************)
(* A plugin is dropped on the slot; a state or a preset is applied.        *)
(***************************************************************************)
\* lv2_instantiate up to the state: the URIs, the ports and the controls.
lv2_instantiate(d) ==
  /\ lp' = <<d>>
  /\ ports' = lv2_allocate_port_buffers(lv2_create_ports(d))
  /\ LET first == [map |-> CachedUrids, controls |-> PortControls(d)]
         made == lv2_create_controls(d, lv2_create_controls(d, first, TRUE), FALSE)
     IN  symap' = made.map /\ controls' = made.controls
  /\ presets' = d.presets

\* on_drag_data_received: a plugin is made of its descriptor and instantiated.  A
\* port or a feature that the host does not know brings up a dialog.
DropPlugin ==
  /\ gpc = "idle" /\ lp = <<>>
  /\ \E d \in scan_plugins(Descriptions) :
       IF lv2_create_ports(d) = <<>> \/ ~RequiredFeaturesMet(d)
       THEN /\ gpc' = "dialog"
            /\ UNCHANGED <<lp, controls, ports, symap, presets>>
       ELSE /\ lv2_instantiate(d)
            /\ gpc' = IF d.hasState THEN "apply" ELSE "activate"
  /\ UNCHANGED <<live, ringVars, uiVars, request_update, preset, active, edits, play_state, paused,
                 mustPause, audioVars, ghostVars, workerVars>>

\* gtk_dialog_run ends, and plugin_free.
DialogEnds ==
  /\ gpc = "dialog"
  /\ gpc' = "idle"
  /\ UNCHANGED <<instVars, ports, symap, ringVars, uiVars, request_update, presetVars, play_state,
                 paused, mustPause, audioVars, ghostVars, workerVars>>

\* lv2_apply_state waits for a post without having asked for a pause.
lv2_apply_stateMutant ==
  /\ gpc = "apply"
  /\ mustPause' = (~Inst.safe /\ play_state = "rolling")
  /\ gpc' = IF mustPause' THEN "wait" ELSE "restore"
  /\ UNCHANGED <<instVars, ports, symap, ringVars, uiVars, request_update, presetVars,
                 play_state, paused, audioVars, ghostVars, workerVars>>

\* lv2_apply_state: unless the plugin can be restored while it runs, a transport
\* that rolls is asked to pause ...
lv2_apply_state ==
  /\ gpc = "apply"
  /\ mustPause' = (~Inst.safe /\ play_state = "rolling")
  /\ play_state' = IF mustPause' THEN "pause_requested" ELSE play_state
  /\ gpc' = IF mustPause' THEN "wait" ELSE "restore"
  /\ UNCHANGED <<instVars, ports, symap, ringVars, uiVars, request_update, presetVars, paused,
                 audioVars, ghostVars, workerVars>>

WaitForPause ==
  /\ gpc = "wait" /\ paused > 0
  /\ paused' = paused - 1
  /\ gpc' = "restore"
  /\ UNCHANGED <<instVars, ports, symap, ringVars, uiVars, request_update, presetVars,
                 play_state, mustPause, audioVars, ghostVars, workerVars>>

\* set_port_value: directly, or through the ring when the transport rolls; and
\* the UI is told through the ring of the plugin.
set_port_value(before, n, value) ==
  LET rolls == play_state = "rolling"
      ev == Change("float", n, value)
      ui == IF rolls THEN ui_write(before.ui, n, "float", value) ELSE before.ui
  IN  [ports |-> IF rolls THEN before.ports ELSE [before.ports EXCEPT ![n].control = value],
       ui |-> ui,
       accepted |-> IF ui = before.ui THEN before.accepted ELSE Append(before.accepted, ev),
       plugin |-> IF opened = 0 THEN before.plugin
                  ELSE RingWrite(before.plugin, UiRing, <<Header(ev)>> \o Body(ev, 1))]

\* lilv_state_restore sets every control input.
RestorePort(before, n, value) ==
  IF n \in ControlPorts /\ ports[n].flow = "input" THEN set_port_value(before, n, value)
  ELSE before

\* ... then the ports are restored, one after the other, and the plugin may
\* schedule work if it can be restored while it runs ...
Restoring ==
  /\ gpc = "restore"
  /\ \E value \in Values :
       LET Done[n \in 0..num_ports] ==
             IF n = 0 THEN [ports |-> ports, ui |-> uiEvents, accepted |-> accepted,
                            plugin |-> pluginEvents]
             ELSE RestorePort(Done[n - 1], n, value)
           after == Done[num_ports]
       IN  /\ ports' = after.ports
           /\ uiEvents' = after.ui
           /\ accepted' = after.accepted
           /\ pluginEvents' = after.plugin
  /\ gpc' \in IF Inst.safe /\ Inst.worker THEN {"resume", "schedule"} ELSE {"resume"}
  /\ UNCHANGED <<instVars, symap, uiVars, request_update, presetVars, play_state, paused,
                 mustPause, audioVars, applied, workerVars>>

RestoreSchedules ==
  /\ \/ gpc = "schedule" /\ ScheduleNow /\ gpc' = "respond"
     \/ gpc = "respond" /\ ScheduleNowEnd /\ gpc' = "resume"
  /\ UNCHANGED <<instVars, ports, symap, ringVars, uiVars, request_update, presetVars, play_state,
                 paused, mustPause, audioVars, ghostVars>>

\* ... and the transport rolls again.
Resume ==
  /\ gpc = "resume"
  /\ IF mustPause
     THEN request_update' = TRUE /\ play_state' = "rolling"
     ELSE UNCHANGED <<request_update, play_state>>
  /\ gpc' = IF live THEN "idle" ELSE "activate"
  /\ UNCHANGED <<instVars, ports, symap, ringVars, uiVars, presetVars, paused, mustPause,
                 audioVars, ghostVars, workerVars>>

\* The rest of lv2_instantiate opens the UI, and channel_add_plugin puts the
\* plugin in the slot, with the lock that the callback takes.
OpenFirst ==
  /\ gpc = "activate"
  /\ lv2_open_ui
  /\ gpc' = "add"
  /\ UNCHANGED <<instVars, symap, ringVars, space, request_update, preset, presets, edits,
                 play_state, paused, mustPause, audioVars, ghostVars, workerVars>>

AddPlugin ==
  /\ gpc = "add"
  /\ live' = TRUE
  /\ gpc' = "idle"
  /\ UNCHANGED <<lp, controls, ports, symap, ringVars, uiVars, request_update, presetVars,
                 play_state, paused, mustPause, audioVars, ghostVars, workerVars>>

\* state.c: applying, saving and deleting a preset.
lv2_apply_preset(p) == preset' = <<p>> /\ gpc' = "apply"
lv2_save_preset(p) == preset' = <<p>> /\ presets' = presets \cup {p}
lv2_delete_current_preset == preset' = <<>> /\ presets' = presets \ {preset[1]}

\* on_preset_activate: nothing for the item that is active.
on_preset_activate ==
  /\ gpc = "idle" /\ live /\ space = 0 /\ edits < Bound.presets
  /\ \E w \in windows, p \in presets :
       /\ active # <<w, p>>
       /\ lv2_apply_preset(p)
       /\ active' = <<w, p>>
  /\ edits' = edits + 1
  /\ UNCHANGED <<instVars, ports, symap, ringVars, uiVars, request_update, presets, play_state,
                 paused, mustPause, audioVars, ghostVars, workerVars>>

\* on_save_preset_activate: what is saved is the current preset, and the menu of
\* this window is built again.
on_save_preset_activate ==
  /\ gpc = "idle" /\ live /\ space = 0 /\ edits < Bound.presets
  /\ \E w \in windows, p \in PresetNames :
       /\ lv2_save_preset(p)
       /\ rebuild_preset_menu(w)
  /\ edits' = edits + 1
  /\ UNCHANGED <<instVars, ports, symap, ringVars, uiVars, request_update, play_state,
                 paused, gpc, mustPause, audioVars, ghostVars, workerVars>>

\* on_delete_preset_activate: OK deletes it and builds the menu again; Cancel
\* forgets the current preset all the same, and leaves its item active.
on_delete_preset_activate ==
  /\ gpc = "idle" /\ live /\ space = 0 /\ edits < Bound.presets /\ windows # {}
  /\ preset # <<>>
  /\ \/ lv2_delete_current_preset /\ \E w \in windows : rebuild_preset_menu(w)
     \/ preset' = <<>> /\ UNCHANGED <<presets, active>>
  /\ edits' = edits + 1
  /\ UNCHANGED <<instVars, ports, symap, ringVars, uiVars, request_update, play_state,
                 paused, gpc, mustPause, audioVars, ghostVars, workerVars>>
-----------------------------------------------------------------------------
(***************************************************************************)
(* The transport.                                                          *)
(***************************************************************************)
\* Play and pause buttons.
UserTransport ==
  /\ gpc = "idle" /\ lp # <<>> /\ Bound.pauses > 0
  /\ \/ play_state = "rolling" /\ paused < Bound.pauses /\ play_state' = "pause_requested"
     \/ play_state = "paused" /\ play_state' = "roll_requested"
  /\ UNCHANGED <<instVars, ports, symap, ringVars, uiVars, request_update, presetVars, paused, gpc,
                 mustPause, audioVars, ghostVars, workerVars>>

\* engine_process_prepare answers a request, and posts for a pause whether or
\* not someone waits.
TransportAnswers ==
  /\ \/ /\ play_state = "pause_requested"
        /\ play_state' = "paused"
        /\ paused' = paused + 1
     \/ /\ play_state = "roll_requested"
        /\ play_state' = "rolling"
        /\ UNCHANGED paused
  /\ UNCHANGED <<instVars, ports, symap, ringVars, uiVars, request_update, presetVars, gpc,
                 mustPause, audioVars, ghostVars, workerVars>>
-----------------------------------------------------------------------------
(***************************************************************************)
(* lv2_plugin_process, in the thread of the channel.                       *)
(***************************************************************************)
\* What the host writes into an event input at the start of a cycle.
HostEvents(changed, midi) ==
  (IF changed THEN <<PosSize>> ELSE <<>>)
    \o (IF request_update THEN <<GetSize>> ELSE <<>>)
    \o [n \in 1..midi |-> MidiSize]

\* The buffers are prepared: inputs are reset and written, outputs reset.
PreparePorts ==
  /\ apc = "idle" /\ live
  /\ \E changed \in BOOLEAN, midi \in 0..Bound.midi :
       LET events == HostEvents(changed, midi)
           Written(n) == WriteAll(lv2_evbuf_reset(ports[n].evbuf[1], TRUE), events)
       IN  /\ ports' = [n \in DOMAIN ports |->
                          IF n \in EventIns THEN [ports[n] EXCEPT !.evbuf = <<Written(n).evbuf>>]
                          ELSE IF n \in EventOuts
                          THEN [ports[n] EXCEPT !.evbuf = <<lv2_evbuf_reset(@[1], FALSE)>>]
                          ELSE ports[n]]
           /\ evEnd' = [n \in EventIns |-> Written(n).end]
  /\ apc' = "prepared"
  /\ UNCHANGED <<instVars, symap, ringVars, uiVars, stateVars, sent, halfEvent, ghostVars,
                 workerVars>>

\* lv2_apply_ui_events reads a change: a float goes to the port's control, an atom
\* behind what the host wrote for this cycle.
ApplyChange(before) ==
  LET ev == before.ring[1].of
      rest == RingRest(before.ring, 1)
      size == ChangeSize(ev)
      evbuf == before.ports[ev.port].evbuf[1]
      write == lv2_evbuf_write(evbuf, lv2_evbuf_end(evbuf), SetSize)
  IN  IF before.ring = <<>> THEN before
      ELSE IF RingRead(rest, size) # Body(ev, size) THEN [before EXCEPT !.ring = rest]
      ELSE [ring |-> RingRest(rest, size),
            done |-> Append(before.done, ev),
            ports |-> IF ev.protocol = "float"
                      THEN [before.ports EXCEPT ![ev.port].control = ev.value]
                      ELSE [before.ports EXCEPT ![ev.port].evbuf = <<write.evbuf>>],
            end |-> IF ev.protocol = "float" \/ ~write.written THEN before.end
                    ELSE [before.end EXCEPT ![ev.port] = write.end]]

\* ... and goes on while there is one.
lv2_apply_ui_events ==
  LET Read[n \in 0..Len(uiEvents)] ==
        IF n = 0 THEN [ring |-> uiEvents, ports |-> ports, end |-> evEnd, done |-> <<>>]
        ELSE ApplyChange(Read[n - 1])
  IN  Read[Len(uiEvents)]

\* request_update is cleared; lv2_run applies what the UI wrote, while there is
\* a window.
RunStart ==
  /\ apc = "prepared"
  /\ request_update' = FALSE
  /\ IF window = 0 THEN UNCHANGED <<uiEvents, ports, evEnd, applied>>
     ELSE LET after == lv2_apply_ui_events
          IN  /\ uiEvents' = after.ring
              /\ ports' = after.ports
              /\ evEnd' = after.end
              /\ applied' = applied \o after.done
  /\ apc' = "run"
  /\ UNCHANGED <<instVars, symap, pluginEvents, uiVars, presetVars, play_state, paused, gpc,
                 mustPause, sent, halfEvent, accepted, workerVars>>

\* While it runs the plugin schedules work ...
Schedule ==
  /\ apc = "run" /\ Inst.worker
  /\ (\E m \in Messages : ScheduleSize(m)) \/ ScheduleBody
  /\ UNCHANGED <<instVars, ports, symap, ringVars, uiVars, stateVars, audioVars, ghostVars>>

\* ... maps a URI ...
MapUri ==
  /\ apc = "run" /\ Inst.worker
  /\ symap' = map_uri(symap, NewUri).map
  /\ UNCHANGED <<instVars, ports, ringVars, uiVars, stateVars, audioVars, ghostVars, workerVars>>

\* ... and sets its control outputs.
RunEnd ==
  /\ apc = "run" /\ half = 0
  /\ \E value \in Values :
       ports' = [n \in DOMAIN ports |->
                   IF n \in ControlPorts /\ ports[n].flow = "output"
                   THEN [ports[n] EXCEPT !.control = value] ELSE ports[n]]
  /\ apc' = IF Inst.worker THEN "state_worker" ELSE "deliver"
  /\ evEnd' = <<>>
  /\ UNCHANGED <<instVars, symap, ringVars, uiVars, stateVars, sent, halfEvent, ghostVars,
                 workerVars>>

\* The responses of one worker, then those of the other.
EmitResponses ==
  /\ \/ apc = "state_worker" /\ EmitStart("state_worker") /\ apc' = "emit_state_worker"
     \/ apc = "emit_state_worker" /\ EmitResponse("state_worker") /\ UNCHANGED apc
     \/ apc = "emit_state_worker" /\ left = 0 /\ EmitStart("worker") /\ apc' = "emit_worker"
     \/ apc = "emit_worker" /\ EmitResponse("worker") /\ UNCHANGED apc
  /\ UNCHANGED <<instVars, ports, symap, ringVars, uiVars, stateVars, evEnd, sent, halfEvent,
                 ghostVars>>

EmitEnd ==
  /\ apc = "emit_worker" /\ left = 0
  /\ apc' = "deliver"
  /\ UNCHANGED <<instVars, ports, symap, ringVars, uiVars, stateVars, evEnd, sent, halfEvent,
                 ghostVars, workerVars>>

\* lv2_send_to_ui: room for all of an event is checked, its header and the
\* header of its atom are written ...
SendHeader ==
  /\ apc = "deliver" /\ halfEvent = <<>> /\ opened > 0 /\ sent < Bound.events
  /\ \E n \in EventOuts, value \in Values :
       LET ev == Change("atom", n, value)
       IN  /\ ~ports[n].old_api
           /\ IF Len(pluginEvents) + 1 + ChangeSize(ev) <= UiRing
              THEN /\ pluginEvents' = RingWrite(pluginEvents, UiRing, <<Header(ev), Unit(ev)>>)
                   /\ halfEvent' = <<ev>>
              ELSE UNCHANGED <<pluginEvents, halfEvent>>
  /\ sent' = sent + 1
  /\ UNCHANGED <<instVars, ports, symap, uiEvents, uiVars, stateVars, apc, evEnd, ghostVars,
                 workerVars>>

\* ... and then its body.
SendBody ==
  /\ halfEvent # <<>>
  /\ pluginEvents' = RingWrite(pluginEvents, UiRing, <<Unit(halfEvent[1])>>)
  /\ halfEvent' = <<>>
  /\ UNCHANGED <<instVars, ports, symap, uiEvents, uiVars, stateVars, apc, evEnd, sent, ghostVars,
                 workerVars>>

\* Now and then, while there is a window, the value of every control is sent.
DeliverControls ==
  LET Sent[n \in Nat] ==
        IF n = 0 THEN pluginEvents
        ELSE LET ev == Change("float", n, ports[n].control)
             IN  IF n \in ControlPorts THEN RingWrite(Sent[n - 1], UiRing, <<Header(ev)>> \o Body(ev, 1))
                 ELSE Sent[n - 1]
  IN  Sent[Len(ports)]

ProcessEnd ==
  /\ apc = "deliver" /\ halfEvent = <<>>
  /\ \/ UNCHANGED pluginEvents
     \/ window # 0 /\ pluginEvents' = DeliverControls
  /\ apc' = "idle"
  /\ UNCHANGED <<instVars, ports, symap, uiEvents, uiVars, stateVars, evEnd, sent, halfEvent,
                 ghostVars, workerVars>>

\* The thread of the worker.
Work ==
  /\ live /\ Inst.worker
  /\ WorkerThread
  /\ UNCHANGED <<instVars, ports, symap, ringVars, uiVars, stateVars, audioVars, ghostVars>>
-----------------------------------------------------------------------------
GtkThread ==
  \/ SuilWrite \/ MoveWidget
  \/ DoubleClickSlot \/ DestroyWindow \/ lv2_close_ui \/ IdleClose
  \/ UpdateStart \/ UpdateEvent \/ UpdateEnd
  \/ DropPlugin \/ DialogEnds \/ OpenFirst \/ AddPlugin
  \/ lv2_apply_state \/ WaitForPause \/ Restoring \/ RestoreSchedules \/ Resume
  \/ on_preset_activate \/ on_save_preset_activate \/ on_delete_preset_activate
  \/ UserTransport

ChannelThread ==
  \/ PreparePorts \/ RunStart \/ Schedule \/ MapUri \/ RunEnd
  \/ EmitResponses \/ EmitEnd \/ SendHeader \/ SendBody \/ ProcessEnd

Next == GtkThread \/ ChannelThread \/ TransportAnswers \/ Work

Spec == Init /\ [][Next]_vars

\* The threads run, and work() and restore() return.  The user owes nothing.
Fairness ==
  /\ WF_vars(Work)
  /\ WF_vars(TransportAnswers)
  /\ WF_vars(lv2_apply_state \/ WaitForPause \/ Restoring \/ RestoreSchedules \/ Resume)

FairSpec == Spec /\ Fairness
-----------------------------------------------------------------------------
(***************************************************************************)
(* Types.                                                                  *)
(***************************************************************************)
PlayStates == {"rolling", "pause_requested", "paused", "roll_requested"}

IsCell(cell, messages) == cell.is \in {"header", "body"} /\ cell.of \in messages

\* LV2_Port
IsPort(p) ==
  /\ p.index \in Nat /\ p.control \in Int /\ p.buf_size \in Nat
  /\ p.flow \in Flows /\ p.type \in Classes \ {"atom"} /\ p.old_api \in BOOLEAN
  /\ p.evbuf # <<>> => p.type = "event" /\ p.evbuf[1] \in EvbufType

\* Lv2ControlID
IsControl(c) ==
  /\ c.type \in {"port", "property"}
  /\ c.type = "port" => c.index + 1 \in ControlPorts
  /\ c.is_writable \in BOOLEAN /\ c.is_readable \in BOOLEAN

\* Lv2Plugin
TypeOK ==
  /\ lp = <<>> \/ lp[1] \in Descriptions
  /\ \A n \in DOMAIN ports : IsPort(ports[n])
  /\ \A c \in DOMAIN controls : IsControl(controls[c])
  /\ symap \in SymapType(Nat)
  /\ live \in BOOLEAN /\ suil \in BOOLEAN
  /\ \A n \in DOMAIN uiEvents : IsCell(uiEvents[n], Changes)
  /\ \A n \in DOMAIN pluginEvents : IsCell(pluginEvents[n], Changes)
  /\ Len(uiEvents) <= UiRing /\ Len(pluginEvents) <= UiRing
  /\ opened \in Nat /\ windows \subseteq 1..opened /\ closing \subseteq windows
  /\ window \in 0..opened /\ timers = opened
  /\ space \in 0..UiRing
  /\ request_update \in BOOLEAN /\ mustPause \in BOOLEAN
  /\ presets \subseteq PresetNames /\ edits \in Nat
  /\ play_state \in PlayStates /\ paused \in Nat
  /\ gpc \in {"idle", "dialog", "apply", "wait", "restore", "schedule", "respond", "resume",
              "activate", "add"}
  /\ apc \in {"idle", "prepared", "run", "state_worker", "emit_state_worker", "emit_worker",
              "deliver"}
  /\ sent \in Nat /\ Len(halfEvent) <= 1
  /\ \A n \in DOMAIN requests : IsCell(requests[n], Messages)
  /\ Len(requests) <= RingSize
  /\ \A w \in Workers : /\ Len(responses[w]) <= RingSize
                        /\ \A n \in DOMAIN responses[w] :
                             IsCell(responses[w][n], Messages \cup {Restore})
  /\ sem \in Nat /\ workLock \in {0, 1}
  /\ wpc \in {"wait", "read", "lock", "work", "body", "unlock", "ended"}
  /\ job \in Messages \cup {0} /\ half \in Messages \cup {0} /\ left \in 0..(Word32 - 1)
-----------------------------------------------------------------------------
(***************************************************************************)
(* Safety.                                                                 *)
(***************************************************************************)
\* Whatever order the threads run in, work() is given the requests that run()
\* scheduled, whole and in order, as long as no write found the ring full:
\* lv2_worker_schedule posts only after the second of its two writes, and
\* worker_func reads only after it was posted (lv2/worker.c).
RequestsInOrder ==
  dropped \/ (Len(worked) <= Len(scheduled) /\ worked = SubSeq(scheduled, 1, Len(worked)))

\* The changes in a ring that are whole.
Pending(ring) ==
  LET whole == {n \in DOMAIN ring :
                  /\ ring[n].is = "header"
                  /\ SubSeq(ring, n + 1, Smaller(Len(ring), n + ChangeSize(ring[n].of)))
                       = Body(ring[n].of, ChangeSize(ring[n].of))}
      Of[n \in 0..Len(ring)] == IF n = 0 THEN <<>>
                       ELSE IF n \in whole THEN Append(Of[n - 1], ring[n].of) ELSE Of[n - 1]
  IN  Of[Len(ring)]

\* Every change that lv2_ui_write accepted is applied by lv2_apply_ui_events
\* once, in the order of the writes, however full the ring was and however often
\* the window was closed and opened in between; the others leave no trace.
UiWritesOnce == applied \o Pending(uiEvents) = accepted

\* Every buffer of events is given a capacity that leaves room for padding.
WholeBuffers ==
  /\ WholeCapacity(MidiBufSize)
  /\ \A d \in Descriptions : \A n \in DOMAIN d.ports :
       LET size == OrElse(d.ports[n].minSize, 0)
       IN  size = 0 \/ WholeCapacity(size)

\* No write into the event buffer of a port touches memory behind it, whatever
\* the host and the UI put into one cycle (lv2/lv2_evbuf.c), for WholeBuffers.
EvbufInBounds ==
  apc \in {"prepared", "run"} =>
    \A n \in EventIns : InBounds(ports[n].evbuf[1], evEnd[n])

\* A URI that was mapped once, by the host or by the plugin, is found again under
\* the id that it got, wherever strcmp puts it among the others (lv2/symap.c).
UrisFoundAgain ==
  /\ Sorted(symap)
  /\ \A id \in 1..SymapSize(symap) :
       map_uri(symap, unmap_uri(symap, id)[1]) = [map |-> symap, id |-> id]
-----------------------------------------------------------------------------
(***************************************************************************)
(* Liveness.                                                               *)
(***************************************************************************)
\* A request that was scheduled is worked on, unless requests were lost or the
\* thread ended on an empty one: no restore and no response keeps the lock that
\* work() is called with.
WorkIsDone ==
  \A m \in Messages :
    Len(scheduled) >= m ~> (Len(worked) >= m \/ dropped \/ wpc = "ended")

\* A preset or a first state that is applied has been applied in the end, and the
\* transport rolls if the restore had asked it to pause: the GTK thread, which
\* waits for the callback, is not left waiting (lv2_apply_state).
RestoreEnds ==
  gpc = "apply" ~> (gpc \in {"idle", "activate"} /\ (mustPause => play_state = "rolling"))
=============================================================================
