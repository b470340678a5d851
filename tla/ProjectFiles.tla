---------------------------- MODULE ProjectFiles ----------------------------
(***************************************************************************)
(* The project file and the regions file, as xml.c writes and reads them.  *)
(* A file is the sequence of its elements, in document order; an element   *)
(* is its name and the one attribute a reader acts on, 0 when there is     *)
(* none.  The reader walks over the elements and never looks at where one  *)
(* ends, so that an element which is never closed does not show.           *)
(*                                                                         *)
(* A reader that needs an element which does not come reads to the end of  *)
(* the file and then compares a name that is NULL, without end or with     *)
(* it: the file is fatal.  Labels, colours, volumes and what else is       *)
(* copied are left out.                                                    *)
(***************************************************************************)
EXTENDS Strip

Times(k, element) == [n \in 1..k |-> element]

WritePortId == <<<<"Port", 0>>>>
WriteGdkRgba == <<<<"Color", 0>>>>
WritePosition == <<<<"Position", 0>>>>
WritePluginDescr == <<<<"Descriptor", 0>>>>
WriteLv2Port == <<<<"LV2Port", 0>>>>

\* Every port of a plugin, its controls too, is one of the ports of its Lv2Plugin.
WriteLv2Plugin(d) ==
  LET num == Len(Descriptors[d].ins) + Len(Descriptors[d].outs) + Descriptors[d].controls
  IN <<<<"LV2Plugin", 0>>, <<"LV2Ports", num>>>> \o Times(num, WriteLv2Port[1])

\* The controls are input ports.
WritePlugin(d, pos) ==
  LET ins == Len(Descriptors[d].ins) + Descriptors[d].controls
      outs == Len(Descriptors[d].outs)
  IN <<<<"Plugin", pos>>>> \o WritePluginDescr
       \o <<<<"in_ports", ins>>>> \o Times(ins, WritePortId[1])
       \o <<<<"out_ports", outs>>>> \o Times(outs, WritePortId[1])
       \o <<<<"unknown_ports", 0>>>> \o WriteLv2Plugin(d)

\* The element has no attribute and no regions.
WriteTrack == <<<<"Track", 0>>>>

\* StereoOut names the ports of stereo_in.
WriteChannel(c, strip, descr) ==
  <<<<"Channel", c - 1>>, <<"Plugins", 0>>>>
    \o FlattenSeq([n \in 1..StripSize |->
         IF strip[n - 1] = 0 THEN <<>> ELSE WritePlugin(descr[strip[n - 1]], n - 1)])
    \o WriteGdkRgba
    \o <<<<"StereoIn", 2>>>> \o Times(2, WritePortId[1])
    \o <<<<"MidiIn", 1>>>> \o WritePortId \o <<<<"PianoRoll", 1>>>> \o WritePortId
    \o <<<<"StereoOut", 2>>>> \o Times(2, WritePortId[1])
    \o WriteTrack

WriteTransport == <<<<"Transport", 0>>>> \o Times(6, WritePosition[1])

\* saved is the master and the channels of the mixer, in order.
WriteProject(saved, strips, descr) ==
  <<<<"Project", 0>>>> \o WriteTransport \o <<<<"Mixer", 0>>>>
    \o FlattenSeq([n \in DOMAIN saved |-> WriteChannel(saved[n], strips[saved[n]], descr)])

\* xml_write_regions.
WriteRegion == <<<<"Region", 0>>>> \o WritePosition \o WritePosition
WriteRegions(num) == <<<<"Regions", 0>>>> \o FlattenSeq(Times(num, WriteRegion))
-----------------------------------------------------------------------------
\* The loops that read on until they have met enough elements of a name.
ReadsOn(file, n, name, num) == Cardinality({m \in (n + 1)..Len(file) : file[m][1] = name}) >= num

\* The elements that are there must include what the reader waits for.
PortsFollow(file, n) ==
  file[n][1] \in {"in_ports", "out_ports", "StereoIn", "MidiIn", "PianoRoll", "StereoOut"}
    => ReadsOn(file, n, "Port", file[n][2])
Lv2PortsFollow(file, n) == file[n][1] = "LV2Ports" => ReadsOn(file, n, "LV2Port", file[n][2])
RegionsFollow(file, n) == file[n][1] = "Track" => ReadsOn(file, n, "Regions", 1)

\* mixer_add_channel asserts that a channel has a track, and a blank one has none.
ChannelIsMaster(file, n) == file[n][1] = "Channel" => file[n][2] = 0

\* A plugin goes into the strip of the channel before it.
ChannelPrecedes(file, n) ==
  file[n][1] \in {"Plugin", "Color"} => \E m \in 1..(n - 1) : file[m][1] = "Channel"

\* xml_load_project, over a file that is there.
LoadsWhole(file) ==
  \A n \in DOMAIN file :
    /\ PortsFollow(file, n) /\ Lv2PortsFollow(file, n) /\ RegionsFollow(file, n)
    /\ ChannelIsMaster(file, n) /\ ChannelPrecedes(file, n)

\* xml_load_regions: the code that would make a region is commented out, and a position
\* goes into the region.
LoadsRegions(file) == \A n \in DOMAIN file : file[n][1] # "Position"

\* With no file there is no master, which mixer_load_plugins reads.
Loads(file) == \E n \in DOMAIN file : file[n] = <<"Channel", 0>>
=============================================================================
