------------------------------ MODULE PortsFile ------------------------------
(***************************************************************************)
(* The ports file of a project: xml_write_ports writes one Port element    *)
(* per entry of the registry, with the ids of its sources and              *)
(* destinations, and xml_load_ports connects the ports again while it      *)
(* reads, in one pass.  An element may name a port that the file has not   *)
(* reached: port_get_or_create_blank makes it without a label, and the     *)
(* connection is left to the element of that port.                         *)
(*                                                                         *)
(* The reader also stores each named port in the array entry of the same   *)
(* index, which lies at or behind the counted part and is not modelled.    *)
(***************************************************************************)
EXTENDS PortGraph

CONSTANT LastStandard  \* 5: the engine makes the ports with ids up to this one

ASSUME LastStandardAssumption == LastStandard \in Int

-----------------------------------------------------------------------------
Ids(array) == [n \in DOMAIN array |-> id[array[n]]]

WritePort(p) == [id |-> id[p], type |-> PortType[p], srcs |-> Ids(srcs[p]), dests |-> Ids(dests[p])]

WritePorts == [n \in DOMAIN registry |-> WritePort(registry[n])]
-----------------------------------------------------------------------------
\* The ports of the program that loads are a function of their ids.  calloc leaves
\* a blank one without a label and with the first value as its type.
Blank == [label |-> FALSE, type |-> "unknown", srcs |-> <<>>, dests |-> <<>>]

GetOrCreateBlank(ports, n) ==
  [m \in DOMAIN ports \cup {n} |-> IF m \in DOMAIN ports THEN ports[m] ELSE Blank]

\* port_disconnect, then port_connect, on the ports that were loaded.
Reconnect(ports, src, dest) ==
  LET without == [ports EXCEPT ![src].dests = ArrayDelete(@, dest),
                               ![dest].srcs = ArrayDelete(@, src)]
  IN IF ports[src].type # ports[dest].type
     THEN without
     ELSE [without EXCEPT ![src].dests = ArrayAppend(@, dest),
                          ![dest].srcs = ArrayAppend(@, src)]

\* One id under Srcs or Dests; a port without a label is one the file has not reached.
Named(ports, n, src, dest) ==
  LET known == GetOrCreateBlank(ports, n)
  IN IF known[n].label THEN Reconnect(known, src, dest) ELSE known

\* The connections that an element names: the port that is named, source and destination.
NamedSrcs(port) == [n \in DOMAIN port.srcs |-> <<port.srcs[n], port.srcs[n], port.id>>]
NamedDests(port) == [n \in DOMAIN port.dests |-> <<port.dests[n], port.id, port.dests[n]>>]

\* Only the sources are read: every connection is named by its destination too.
ConnectionsMutant(port) == NamedSrcs(port)
Connections(port) == NamedSrcs(port) \o NamedDests(port)

\* One Port element: the port gets what the file says of it, and then its connections,
\* one after the other.  Those of the standard ports are passed over.
LoadPort(ports, port) ==
  LET itself == [GetOrCreateBlank(ports, port.id) EXCEPT ![port.id].label = TRUE,
                                                         ![port.id].type = port.type]
      named == Connections(port)
      Loaded[n \in 0..Len(named)] ==
        IF n = 0 THEN itself ELSE Named(Loaded[n - 1], named[n][1], named[n][2], named[n][3])
  IN IF port.id <= LastStandard THEN ports ELSE Loaded[Len(named)]

\* The engine has made the standard ports, without connections, before it loads.
Standard ==
  LET standard == {p \in Live : id[p] <= LastStandard}
  IN [n \in {id[p] : p \in standard} |->
       [Blank EXCEPT !.label = TRUE, !.type = PortType[CHOOSE p \in standard : id[p] = n]]]

LoadPorts ==
  LET Loaded[n \in 0..Len(registry)] ==
        IF n = 0 THEN Standard ELSE LoadPort(Loaded[n - 1], WritePorts[n])
  IN Loaded[Len(registry)]
-----------------------------------------------------------------------------
\* No freed port is a source or a destination (writing its id reads freed memory),
\* every live port has an id of its own (after a free two may share one), and no other
\* port comes before a standard one (whose connections would be read as those of the
\* port before it).
Writable ==
  /\ FreedIsUnreferenced
  /\ \A p, q \in Live : id[p] = id[q] => p = q
  /\ \A m, n \in DOMAIN registry :
       m < n /\ id[registry[n]] <= LastStandard => id[registry[m]] <= LastStandard

\* What the file says is what the program has after loading it: every connection of
\* a port that is not standard is back, once, at both of its ends, and no other
\* connection is, although most elements name ports that come later in the file.
RestoresConnections ==
  Writable =>
    LET loaded == LoadPorts
    IN \A p, q \in Live :
         (id[p] > LastStandard \/ id[q] > LastStandard) =>
           /\ id[q] \in Elements(loaded[id[p]].dests) <=> q \in Elements(dests[p])
           /\ id[p] \in Elements(loaded[id[q]].srcs) <=> p \in Elements(srcs[q])
           /\ Distinct(loaded[id[p]].dests) /\ Distinct(loaded[id[p]].srcs)
=============================================================================
