------------------------------- MODULE Strip -------------------------------
(***************************************************************************)
(* How a plugin is wired into the strip of a channel: channel_add_plugin   *)
(* and channel_create (channel.c), plugin_free (plugin.c) and the          *)
(* connecting operations of port.c they are built from.                    *)
(*                                                                         *)
(* A port is <<kind, owner, number, type>>.  wires is the sequence of the  *)
(* connections <<source, destination>> in the order in which they were     *)
(* made: the srcs of a port are the sources of the wires that end in it,   *)
(* in that order, and its dests likewise.  A wire whose one end was freed  *)
(* is an entry that the other end still holds.  PortGraph has the two      *)
(* arrays of each port, one operation at a time.                           *)
(*                                                                         *)
(* An operator whose name ends in Mutant is a mistake one could make in    *)
(* the definition that follows it.                                         *)
(***************************************************************************)
EXTENDS Arrays, Integers, FiniteSets, SequencesExt

CONSTANTS
  StripSize,   \* STRIP_SIZE, the slots of a channel
  Descriptors  \* of each plugin: the types of its ins and outs, its number of controls

\* enum PortType
PortType == {"unknown", "control", "audio", "event", "cv"}

\* A strip has slots, and a description has ports of these types.
ASSUME StripAssumption ==
  /\ StripSize \in Nat \ {0}
  /\ \A d \in DOMAIN Descriptors :
       /\ Descriptors[d].ins \in Seq(PortType) /\ Descriptors[d].outs \in Seq(PortType)
       /\ Descriptors[d].controls \in Nat

Slots == 0..(StripSize - 1)
Master == 1

\* AUDIO_ENGINE->midi_in, and the ports of a channel: stereo_in, stereo_out, midi_in
\* and piano_roll.
Jack == <<"jack", 0, 0, "event">>
StereoIn(c, side) == <<"in", c, side, "audio">>
StereoOut(c, side) == <<"out", c, side, "audio">>
MidiIn(c) == <<"midi", c, 0, "event">>
PianoRoll(c) == <<"roll", c, 0, "event">>

\* The in_ports and the out_ports of plugin p, which was made from descriptor d.
InPorts(p, d) ==
  [k \in DOMAIN Descriptors[d].ins |-> <<"plugin in", p, k, Descriptors[d].ins[k]>>]
OutPorts(p, d) ==
  [k \in DOMAIN Descriptors[d].outs |-> <<"plugin out", p, k, Descriptors[d].outs[k]>>]

OfType(ports, type) == Picked(ports, {port \in Elements(ports) : port[4] = type})
-----------------------------------------------------------------------------
\* port_connect: disconnects first, refuses incompatible types, then appends.
Connect(wires, wire) ==
  LET rest == ArrayDelete(wires, wire)
  IN IF wire[1][4] = wire[2][4] THEN ArrayAppend(rest, wire) ELSE rest

ConnectAll(wires, new) ==
  LET made[n \in 0..Len(new)] == IF n = 0 THEN wires ELSE Connect(made[n - 1], new[n])
  IN made[Len(new)]

\* A loop over the wires that have port at the given end (2: its srcs, 1: its dests)
\* that disconnects at each index: the positions move, so every other one survives.
Loop(wires, end, port) ==
  LET Nth(n) == Cardinality({m \in 1..n : wires[m][end] = port})
      kept == Picked([n \in DOMAIN wires |-> n],
                     {n \in DOMAIN wires : wires[n][end] # port \/ Nth(n) % 2 = 0})
  IN [m \in DOMAIN kept |-> wires[kept[m]]]

DisconnectAll(wires, port) == Loop(Loop(wires, 2, port), 1, port)

\* What clean_ports does to a port of a plugin before it frees it.
Cleaned(wires, port) ==
  CASE port[1] = "plugin in" -> Loop(wires, 2, port)
    [] port[1] = "plugin out" -> Loop(wires, 1, port)
    [] OTHER -> wires

\* port_free, on one port after the other.
PortFree(wires, port) == DisconnectAll(Cleaned(wires, port), port)
PortsFree(wires, ports) ==
  LET freed[n \in 0..Len(ports)] == IF n = 0 THEN wires ELSE PortFree(freed[n - 1], ports[n])
  IN freed[Len(ports)]

\* plugin_free: the ins and then the outs.
PluginPorts(p, d) == InPorts(p, d) \o OutPorts(p, d)
PluginFree(wires, p, d) == PortsFree(wires, PluginPorts(p, d))

\* What channel_free frees after the plugins.
ChannelPorts(c) ==
  <<StereoIn(c, 0), StereoIn(c, 1), MidiIn(c), PianoRoll(c), StereoOut(c, 0), StereoOut(c, 1)>>
-----------------------------------------------------------------------------
\* _create_channel and channel_create: the wires of a new channel.
ChannelWires(c, type) ==
  LET through == [n \in 1..2 |-> <<StereoIn(c, n - 1), StereoOut(c, n - 1)>>]
      toMaster == [n \in 1..2 |-> <<StereoOut(c, n - 1), StereoIn(Master, n - 1)>>]
  IN <<<<Jack, MidiIn(c)>>>>
       \o (IF type \in {"bus", "master"} THEN through ELSE <<>>)
       \o (IF type # "master" THEN toMaster ELSE <<>>)

(***************************************************************************)
(* Two plugins in a row.  The inner index of the code never goes back: the *)
(* first audio port of the new plugin meets every port of the neighbour,   *)
(* each later one only the neighbour's last.                               *)
(***************************************************************************)
Met(ours, theirs) ==
  FlattenSeq([n \in DOMAIN ours |->
    LET left == IF n = 1 \/ theirs = <<>> THEN theirs ELSE <<Last(theirs)>>
        audio == OfType(left, "audio")
    IN [m \in DOMAIN audio |-> <<ours[n], audio[m]>>]])

WiresFromPrevious(theirs, ins) ==
  LET met == Met(OfType(ins, "audio"), theirs)
  IN [n \in DOMAIN met |-> <<met[n][2], met[n][1]>>]

WiresToNext(outs, theirs) == Met(OfType(outs, "audio"), theirs)

\* The main plugin of a channel.  Both sides of the stereo in meet the first audio in:
\* the break of the inner loop leaves last_index where it is.
WireMain(wires, c, type, ins) ==
  LET midi == OfType(ins, "event")
      audio == OfType(ins, "audio")
      cut == DisconnectAll(DisconnectAll(wires, StereoIn(c, 0)), StereoIn(c, 1))
  IN IF type = "midi"
     THEN ConnectAll(wires, FlattenSeq([n \in DOMAIN midi |->
                                         <<<<Jack, midi[n]>>, <<PianoRoll(c), midi[n]>>>>]))
     ELSE ConnectAll(cut, IF audio = <<>> THEN <<>>
                          ELSE [n \in 1..2 |-> <<StereoIn(c, n - 1), audio[1]>>])

\* The last plugin: its first two audio outs.
WiresToChannel(c, outs) ==
  LET audio == OfType(outs, "audio")
  IN [n \in 1..(IF Len(audio) < 2 THEN Len(audio) ELSE 2) |->
        <<audio[n], StereoOut(c, n - 1)>>]

\* next_plugin and prev_plugin: the nearest used slot on either side of pos, 0 for none.
AtNearest(strip, near) == IF near = {} THEN 0 ELSE strip[CHOOSE k \in near : TRUE]

\* The search starts at the slot of the plugin itself.
NextPluginMutant(strip, pos) ==
  AtNearest(strip, {k \in pos..(StripSize - 1) :
                      strip[k] # 0 /\ \A m \in pos..(k - 1) : strip[m] = 0})

NextPlugin(strip, pos) ==
  AtNearest(strip, {k \in (pos + 1)..(StripSize - 1) :
                      strip[k] # 0 /\ \A m \in (pos + 1)..(k - 1) : strip[m] = 0})
PrevPlugin(strip, pos) ==
  AtNearest(strip, {k \in 0..(pos - 1) :
                      strip[k] # 0 /\ \A m \in (k + 1)..(pos - 1) : strip[m] = 0})

\* The second half of channel_add_plugin for the plugin p at pos of channel c, when
\* descr[q] is the descriptor of plugin q.
WireIn(wires, c, type, strip, pos, descr) ==
  LET p == strip[pos]
      ins == InPorts(p, descr[p])
      prev == PrevPlugin(strip, pos)
  IN IF prev = 0
     THEN WireMain(wires, c, type, ins)
     ELSE ConnectAll(wires, WiresFromPrevious(OutPorts(prev, descr[prev]), ins))

WireOut(wires, c, strip, pos, descr) ==
  LET p == strip[pos]
      outs == OutPorts(p, descr[p])
      next == NextPlugin(strip, pos)
  IN ConnectAll(wires, IF next = 0
                       THEN WiresToChannel(c, outs)
                       ELSE WiresToNext(outs, InPorts(next, descr[next])))
=============================================================================
