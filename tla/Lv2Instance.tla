----------------------------- MODULE Lv2Instance -----------------------------
(***************************************************************************)
(* What lv2_plugin.c, lv2/control.c and lv2_gtk.c compute when a plugin is *)
(* instantiated: from the description that lilv gives (a LilvPlugin) to    *)
(* the ports, the controls, the buffers and the user interface of the      *)
(* host.  Nothing here changes state; module Lv2Host keeps the result.     *)
(*                                                                         *)
(* A value that may be missing (NULL, NaN, no node) is a sequence that is  *)
(* empty or has one element.  Names are kept where a lookup compares them, *)
(* icons, labels and tooltips are not.                                     *)
(***************************************************************************)
EXTENDS Symap, EvBuf, FiniteSets

CONSTANTS
  MidiBufSize,  \* AudioEngine.midi_buf_size
  SampleRate,   \* AudioEngine.sample_rate
  CachedUris    \* the URIs, as numbers, that lv2_instantiate maps before all others

ASSUME InstanceAssumption == CachedUris \in Seq(Nat)

OrElse(opt, fallback) == IF opt = <<>> THEN fallback ELSE opt[1]
Larger(a, b) == IF a >= b THEN a ELSE b
Smaller(a, b) == IF a <= b THEN a ELSE b

-----------------------------------------------------------------------------
(***************************************************************************)
(* Features and URIs.                                                      *)
(***************************************************************************)
\* What lv2_atom_forge_init, sratom_new and the LV2_URIDs map, in this order.
CachedUrids ==
  LET Mapped[n \in 0..Len(CachedUris)] ==
        IF n = 0 THEN symap_new ELSE symap_map(Mapped[n - 1], CachedUris[n]).map
  IN  Mapped[Len(CachedUris)]

\* _map_uri and _unmap_uri hold symap_lock around the call.
map_uri(map, uri) == symap_map(map, uri)
unmap_uri(map, urid) == symap_unmap(map, urid)

\* lv2_set_feature_data: what instantiate() is offered, and what restore() is.
features ==
  {"map", "unmap", "schedule", "log", "options", "loadDefaultState", "threadSafeRestore",
   "powerOf2BlockLength", "fixedBlockLength", "boundedBlockLength"}
state_features ==
  {"map", "unmap", "makePath", "schedule", "threadSafeRestore", "log", "options"}

feature_is_supported(uri) == uri = "isLive" \/ uri \in features
-----------------------------------------------------------------------------
(***************************************************************************)
(* Descriptions.                                                           *)
(***************************************************************************)
Flows == {"input", "output", "unknown"}
Classes == {"control", "audio", "event", "atom", "unknown"}

OfClass(lp, flow, class) ==
  Cardinality({n \in DOMAIN lp.ports : lp.ports[n].flow = flow /\ lp.ports[n].class = class})
MidiAtoms(lp, flow) ==
  Cardinality({n \in DOMAIN lp.ports :
                 lp.ports[n].flow = flow /\ lp.ports[n].class = "atom" /\ lp.ports[n].midi})

\* lv2_create_descriptor_from_lilv: <<>> for a plugin that cannot be hosted.
\* The control outputs are counted among the inputs.
lv2_create_descriptor_from_lilv(lp) ==
  IF ~lp.ascii \/ ~lp.named \/ lp.ports = <<>> \/ ~lp.library \/ lp.inPlaceBroken THEN <<>>
  ELSE <<[num_audio_ins  |-> OfClass(lp, "input", "audio"),
          num_midi_ins   |-> OfClass(lp, "input", "event") + MidiAtoms(lp, "input"),
          num_audio_outs |-> OfClass(lp, "output", "audio"),
          num_midi_outs  |-> OfClass(lp, "output", "event") + MidiAtoms(lp, "output"),
          num_ctrl_ins   |-> OfClass(lp, "input", "control"),
          num_ctrl_outs  |-> OfClass(lp, "input", "control")]>>

\* scan_plugins: the plugins that the browser offers.
scan_plugins(plugins) == {lp \in plugins : lv2_create_descriptor_from_lilv(lp) # <<>>}
-----------------------------------------------------------------------------
(***************************************************************************)
(* Controls.                                                               *)
(***************************************************************************)
\* lv2:sampleRate makes the range relative to the sample rate.
Scaled(d, opt) == IF d.sampleRate /\ opt # <<>> THEN <<opt[1] * SampleRate>> ELSE opt

lv2_new_port_control(d, index) ==
  [type |-> "port", node |-> d.symbol, index |-> index, property |-> 0, value_type |-> "Float",
   is_writable |-> d.flow = "input", is_readable |-> d.flow = "output",
   kind |-> d.kind, def |-> d.default, min |-> Scaled(d, d.min), max |-> Scaled(d, d.max),
   points |-> d.points, group |-> d.group]

ValueTypes == <<"Int", "Long", "Float", "Double", "Bool", "String", "Path">>

\* The first of the atom types that the property has for a range.
FirstRange(p) ==
  LET known == SelectSeq(ValueTypes, LAMBDA t : t \in p.ranges)
  IN  IF known = <<>> THEN "none" ELSE known[1]

\* A property that is a control maps its URI and gets the id; the URIs of the types
\* are mapped before.
lv2_new_property_control(id, p) ==
  [type |-> "property", node |-> p.uri, index |-> 0,
   property |-> id, value_type |-> FirstRange(p),
   is_writable |-> FALSE, is_readable |-> FALSE,
   kind |-> IF FirstRange(p) = "Bool" THEN "toggle" ELSE "plain",
   def |-> p.default, min |-> p.min, max |-> p.max, points |-> {}, group |-> <<>>]

lv2_add_control(controls, control) == Append(controls, control)

\* The control of a property that is writable is made readable, if it has one; any
\* other property gets a control, unless the type of its values is unknown.
AddProperty(before, p, writable) ==
  LET same == {c \in DOMAIN before.controls : before.controls[c].node = p.uri}
      mapped == map_uri(before.map, p.uri)
      new == lv2_new_property_control(mapped.id, p)
  IN  IF ~writable /\ p.writable /\ same # {}
      THEN [map |-> before.map,
            controls |-> [before.controls EXCEPT
              ![CHOOSE c \in same : \A e \in same : c <= e].is_readable = TRUE]]
      ELSE [map |-> mapped.map,
            controls |-> IF new.value_type = "none" THEN before.controls
                         ELSE lv2_add_control(before.controls,
                                IF writable THEN [new EXCEPT !.is_writable = TRUE]
                                ELSE [new EXCEPT !.is_readable = TRUE])]

\* lv2_create_controls goes through the writable properties, or the readable
\* ones: the map of URIs and the controls behind it.
lv2_create_controls(lp, before, writable) ==
  LET Added[n \in 0..Len(lp.properties)] ==
        IF n = 0 THEN before
        ELSE IF (IF writable THEN lp.properties[n].writable ELSE lp.properties[n].readable)
        THEN AddProperty(Added[n - 1], lp.properties[n], writable)
        ELSE Added[n - 1]
  IN  Added[Len(lp.properties)]

lv2_get_property_control(controls, property) ==
  SelectSeq(controls, LAMBDA c : c.property = property)

lv2_control_by_symbol(controls, sym) == SelectSeq(controls, LAMBDA c : c.node = sym)
-----------------------------------------------------------------------------
(***************************************************************************)
(* Ports.                                                                  *)
(***************************************************************************)
\* A mandatory port of which the host knows no flow or no type.
Refused(d) == ~d.optional /\ (d.flow = "unknown" \/ d.class = "unknown")

\* _create_port: the values of the LV2_Port and of its zrythm port.
create_port(d, index) ==
  [index |-> index, symbol |-> d.symbol, flow |-> d.flow,
   type |-> IF d.class = "atom" THEN "event" ELSE d.class,
   old_api |-> d.class = "event",
   control |-> IF d.class = "control" THEN OrElse(d.default, 0) ELSE 0,
   buf_size |-> OrElse(d.minSize, 0),
   latency |-> d.latency,
   evbuf |-> <<>>]

\* Every control port gets a control: show_hidden is 1.
PortControls(lp) ==
  LET n == Len(lp.ports)
      Controls[i \in Nat] ==
        IF i = 0 THEN <<>>
        ELSE IF lp.ports[i].class = "control"
             THEN lv2_add_control(Controls[i - 1], lv2_new_port_control(lp.ports[i], i - 1))
             ELSE Controls[i - 1]
  IN  Controls[n]

\* lv2_create_ports: as many ports as the description has, none when one of
\* them is refused.
lv2_create_ports(lp) ==
  IF \E n \in DOMAIN lp.ports : Refused(lp.ports[n]) THEN <<>>
  ELSE [n \in DOMAIN lp.ports |-> create_port(lp.ports[n], n - 1)]

\* lv2_set_ports, for a project that is loaded: the ports exist, with the
\* flows and types that were saved, and keep what the description leaves open.
lv2_set_ports(lp, saved) ==
  IF \E n \in DOMAIN saved : Refused(lp.ports[n]) THEN <<>>
  ELSE [n \in DOMAIN saved |->
          LET port == create_port(lp.ports[n], n - 1)
          IN  [port EXCEPT
                 !.flow = IF port.flow = "unknown" THEN saved[n].flow ELSE port.flow,
                 !.type = IF port.type = "unknown" THEN saved[n].type ELSE port.type]]

lv2_port_by_symbol(ports, sym) == SelectSeq(ports, LAMBDA p : p.symbol = sym)

\* lv2_ui_port_index, -1 for LV2UI_INVALID_PORT_INDEX.
lv2_ui_port_index(ports, sym) ==
  LET found == lv2_port_by_symbol(ports, sym)
  IN  IF found = <<>> THEN -1 ELSE found[1].index

\* lv2_get_port_value, for lilv to save any port, and get_port_value of
\* lv2/state.c, for lilv to save inputs only.
lv2_get_port_value(ports, sym) ==
  LET found == lv2_port_by_symbol(ports, sym)
  IN  IF found = <<>> THEN <<>> ELSE <<found[1].control>>
get_port_value(ports, sym) ==
  LET found == lv2_port_by_symbol(ports, sym)
  IN  IF found # <<>> /\ found[1].flow = "input" /\ found[1].type = "control"
      THEN <<found[1].control>> ELSE <<>>

\* lv2_allocate_port_buffers: a buffer for every event port.
lv2_allocate_port_buffers(ports) ==
  [n \in DOMAIN ports |->
     IF ports[n].type # "event" THEN ports[n]
     ELSE [ports[n] EXCEPT
             !.evbuf = <<lv2_evbuf_new(IF ports[n].buf_size > 0 THEN ports[n].buf_size
                                       ELSE MidiBufSize)>>]]

\* lv2_backend_activate_port: what the instance is told to use for a port.
lv2_backend_activate_port(port) ==
  CASE port.flow = "unknown" \/ port.type = "unknown" -> "NULL"
    [] port.flow # "unknown" /\ port.type = "control" -> "control"
    [] OTHER -> "connected elsewhere"
-----------------------------------------------------------------------------
(***************************************************************************)
(* The user interface and the rings.                                       *)
(***************************************************************************)
\* The first UI that suil can show, else the last external one, else none.
ChooseUi(lp) ==
  IF \E n \in DOMAIN lp.uis : lp.uis[n] = "native" THEN "native"
  ELSE IF \E n \in DOMAIN lp.uis : lp.uis[n] = "external" THEN "external"
  ELSE "none"

\* The size of both rings; once it is set it is kept for the plugins that follow.
CommBuffer(set) == Larger(4096, IF set = 0 THEN MidiBufSize * 16 ELSE set)

\* ui_update_hz
UpdateRate == Smaller(60, Larger(25, (SampleRate * 2) \div MidiBufSize))

\* Every feature that the plugin requires must be one of the host's.
RequiredFeaturesMet(lp) == \A f \in lp.requires : feature_is_supported(f)

\* _apply_control_arg: a value for a control by name, unknown names are ignored.
apply_control_arg(controls, sym) ==
  LET found == lv2_control_by_symbol(controls, sym)
  IN  IF found = <<>> THEN <<>> ELSE <<found[1].index>>

\* lv2_ui_is_resizable, for a suil instance.
lv2_ui_is_resizable(lp) == lp.uis # <<>> /\ ~lp.fixedSize
-----------------------------------------------------------------------------
(***************************************************************************)
(* The generic UI (lv2_gtk.c): the widget of a control and what it shows.  *)
(***************************************************************************)
get_float(opt, fallback) == OrElse(opt, fallback)

differ_enough(a, b) == a # b

\* -1 when no point of the enumeration has the value.
make_combo(record, value) == IF value \in record.points THEN value ELSE -1

\* A slider and its spin button are kept within the range.
Clamped(record, value) ==
  Larger(get_float(record.min, 0), Smaller(get_float(record.max, 1), value))
make_slider(record, value) == Clamped(record, value)
make_log_slider(record, value) == Clamped(record, value)
make_toggle(record, value) == IF value # 0 THEN 1 ELSE 0

make_controller(record, value) ==
  CASE record.kind = "toggle" -> make_toggle(record, value)
    [] record.kind = "enumeration" -> make_combo(record, value)
    [] record.kind = "logarithmic" -> make_log_slider(record, value)
    [] OTHER -> make_slider(record, value)

\* build_control_widget: one widget per control, showing the default; text and
\* file entries start empty.
build_control_widget(controls) ==
  [n \in DOMAIN controls |->
     IF controls[n].value_type \in {"String", "Path"} THEN -1
     ELSE make_controller(controls[n], get_float(controls[n].def, 0))]

\* What a widget shows once control_changed gave it a value.
control_changed(record, shown, value) ==
  CASE record.kind = "enumeration" -> IF make_combo(record, value) = -1 THEN shown ELSE value
    [] record.kind = "toggle" -> IF value > 0 THEN 1 ELSE 0
    [] OTHER -> Clamped(record, value)

\* The type of the atom that lv2_gtk_set_float_control makes of a value.
FloatControlType(record) ==
  IF record.value_type \in {"Int", "Long", "Float", "Double", "Bool"}
  THEN record.value_type ELSE "Float"
=============================================================================
