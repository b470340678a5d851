------------------------------ MODULE PortGraph ------------------------------
(***************************************************************************)
(* The ports of the engine and the connections between them (port.c, and   *)
(* clean_ports of plugin.c).  A connection is stored twice, in the dests   *)
(* of its source and in the srcs of its destination, and every port is in  *)
(* the registry AUDIO_ENGINE->ports under an id that the project file      *)
(* uses to restore the connections.                                        *)
(*                                                                         *)
(* An operator whose name ends in Mutant is a mistake one could make in    *)
(* the definition that follows it.                                         *)
(***************************************************************************)
EXTENDS Arrays, Integers, FiniteSets

CONSTANTS
  Ports,           \* every port that is ever allocated
  PortType,        \* TYPE_AUDIO or TYPE_EVENT of each port
  PortFlow,        \* FLOW_INPUT or FLOW_OUTPUT of each port
  MaxDestinations  \* MAX_DESTINATIONS, the size of the srcs and dests arrays

\* port_connect does not check that its arrays have room: no more ports than an
\* array holds can be connected to one.
ASSUME PortAssumption ==
  /\ IsFiniteSet(Ports) /\ Cardinality(Ports) <= MaxDestinations
  /\ PortType \in [Ports -> {"audio", "event"}]
  /\ PortFlow \in [Ports -> {"in", "out"}]
  /\ MaxDestinations \in Nat

VARIABLES
  status,    \* of each port: not allocated yet, live, or freed
  registry,  \* AudioEngine.ports and num_ports
  id,        \* Port.id
  srcs,      \* Port.srcs and num_srcs
  dests      \* Port.dests and num_dests

vars == <<status, registry, id, srcs, dests>>

Live == {p \in Ports : status[p] = "live"}

Init ==
  /\ status = [p \in Ports |-> "new"]
  /\ registry = <<>>
  /\ id = [p \in Ports |-> 0]
  /\ srcs = [p \in Ports |-> <<>>]
  /\ dests = [p \in Ports |-> <<>>]

\* The id is one less than the number of ports before this one.
PortNewMutant(p) ==
  /\ status[p] = "new"
  /\ status' = [status EXCEPT ![p] = "live"]
  /\ id' = [id EXCEPT ![p] = Len(registry) - 1]
  /\ registry' = ArrayAppend(registry, p)
  /\ UNCHANGED <<srcs, dests>>

\* port_new: the id is the number of ports registered now.
PortNew(p) ==
  /\ status[p] = "new"
  /\ status' = [status EXCEPT ![p] = "live"]
  /\ id' = [id EXCEPT ![p] = Len(registry)]
  /\ registry' = ArrayAppend(registry, p)
  /\ UNCHANGED <<srcs, dests>>
-----------------------------------------------------------------------------
\* Both ends forget the connection from src to dest.
WithoutDest(src, dest) == [dests EXCEPT ![src] = ArrayDelete(@, dest)]
WithoutSrc(src, dest) == [srcs EXCEPT ![dest] = ArrayDelete(@, src)]

\* Both ends store it, once.
WithDest(src, dest) == [WithoutDest(src, dest) EXCEPT ![src] = ArrayAppend(@, dest)]
WithSrc(src, dest) == [WithoutSrc(src, dest) EXCEPT ![dest] = ArrayAppend(@, src)]

\* Only the source is told.
PortDisconnectMutant(src, dest) ==
  /\ {src, dest} \subseteq Live /\ src # dest
  /\ dests' = WithoutDest(src, dest)
  /\ UNCHANGED <<status, registry, id, srcs>>

PortDisconnect(src, dest) ==
  /\ {src, dest} \subseteq Live /\ src # dest
  /\ dests' = WithoutDest(src, dest)
  /\ srcs' = WithoutSrc(src, dest)
  /\ UNCHANGED <<status, registry, id>>

\* The connection is appended although it may exist.
PortConnectAgainMutant(src, dest) ==
  /\ {src, dest} \subseteq Live /\ src # dest
  /\ PortType[src] = PortType[dest]
  /\ dests' = [dests EXCEPT ![src] = ArrayAppend(@, dest)]
  /\ srcs' = [srcs EXCEPT ![dest] = ArrayAppend(@, src)]
  /\ UNCHANGED <<status, registry, id>>

\* The types are compared after the source has stored the connection.
PortConnectLateMutant(src, dest) ==
  /\ {src, dest} \subseteq Live /\ src # dest
  /\ dests' = WithDest(src, dest)
  /\ srcs' = IF PortType[src] = PortType[dest]
             THEN WithSrc(src, dest)
             ELSE srcs
  /\ UNCHANGED <<status, registry, id>>

\* port_connect (no caller connects a port with itself): disconnects first, so that
\* a connection is stored once, then refuses incompatible types, then appends
\* without looking at the array size.
PortConnect(src, dest) ==
  /\ {src, dest} \subseteq Live /\ src # dest
  /\ IF PortType[src] = PortType[dest]
     THEN /\ dests' = WithDest(src, dest)
          /\ srcs' = WithSrc(src, dest)
     ELSE /\ dests' = WithoutDest(src, dest)
          /\ srcs' = WithoutSrc(src, dest)
  /\ UNCHANGED <<status, registry, id>>
-----------------------------------------------------------------------------
(***************************************************************************)
(* A loop of the form "for (i = 0; i < num; i++) disconnect (array[i])"    *)
(* deletes position 0, finds the old position 2 at position 1, and so on:  *)
(* of the 1-based positions the odd ones go and the even ones stay.        *)
(***************************************************************************)
Visited(array) == {array[n] : n \in {m \in DOMAIN array : m % 2 = 1}}
Survivors(array) == [n \in 1..(Len(array) \div 2) |-> array[2 * n]]

\* The loops over the srcs and over the dests of p, on a graph g = [srcs, dests].
DropSrcs(g, p) ==
  [srcs  |-> [g.srcs EXCEPT ![p] = Survivors(@)],
   dests |-> [q \in Ports |-> IF q \in Visited(g.srcs[p])
                              THEN ArrayDelete(g.dests[q], p) ELSE g.dests[q]]]

DropDests(g, p) ==
  [dests |-> [g.dests EXCEPT ![p] = Survivors(@)],
   srcs  |-> [q \in Ports |-> IF q \in Visited(g.dests[p])
                              THEN ArrayDelete(g.srcs[q], p) ELSE g.srcs[q]]]

DisconnectAll(g, p) == DropDests(DropSrcs(g, p), p)

Graph == [srcs |-> srcs, dests |-> dests]
SetGraph(g) == srcs' = g.srcs /\ dests' = g.dests

PortDisconnectAll(p) ==
  /\ p \in Live
  /\ SetGraph(DisconnectAll(Graph, p))
  /\ UNCHANGED <<status, registry, id>>

\* port_free: the ids of the ports that move down in the registry stay.
Free(p, g) ==
  /\ SetGraph(DisconnectAll(g, p))
  /\ registry' = ArrayDelete(registry, p)
  /\ status' = [status EXCEPT ![p] = "freed"]
  /\ UNCHANGED id

PortFree(p) == p \in Live /\ Free(p, Graph)

\* One port in clean_ports: a loop over one side, by flow, and then port_free.
CleanPort(p) ==
  /\ p \in Live
  /\ Free(p, IF PortFlow[p] = "in" THEN DropSrcs(Graph, p) ELSE DropDests(Graph, p))
-----------------------------------------------------------------------------
Next ==
  \/ \E p \in Ports :
       PortNew(p) \/ PortDisconnectAll(p) \/ PortFree(p) \/ CleanPort(p)
  \/ \E src, dest \in Ports : PortConnect(src, dest) \/ PortDisconnect(src, dest)

Spec == Init /\ [][Next]_vars
-----------------------------------------------------------------------------
TypeOK ==
  /\ status \in [Ports -> {"new", "live", "freed"}]
  /\ registry \in Seq(Ports)
  /\ id \in [Ports -> Nat]
  /\ srcs \in [Ports -> Seq(Ports)]
  /\ dests \in [Ports -> Seq(Ports)]

\* The two halves of every connection between live ports agree, whatever was
\* connected, dropped or freed (port_connect, port_disconnect and the loops that
\* skip).  Nothing is claimed of the arrays of a freed port: they are not there.
Symmetric ==
  \A p, q \in Live : q \in Elements(dests[p]) <=> p \in Elements(srcs[q])

\* A connection is stored once on each side, so that summing the inputs of a port
\* adds each source once (port_sum_signal_from_inputs).
StoredOnce == \A p \in Live : Distinct(srcs[p]) /\ Distinct(dests[p])

\* Only ports of one type are connected, in either array: "Cannot connect ports,
\* incompatible types" (port_connect).
TypesMatch ==
  \A p \in Live : \A q \in Elements(srcs[p]) \cup Elements(dests[p]) :
    PortType[p] = PortType[q]

\* "Disconnects all srcs and dests from port" (port.c): a freed port is nobody's
\* source and nobody's destination.
FreedIsUnreferenced ==
  \A p \in Live : Elements(srcs[p]) \cup Elements(dests[p]) \subseteq Live
=============================================================================
