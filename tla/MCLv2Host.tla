------------------------------ MODULE MCLv2Host ------------------------------
(* Instances of Lv2Host for model checking. *)
EXTENDS Lv2Host

Control(sym, flow, kind) ==
  [symbol |-> sym, flow |-> flow, class |-> "control", optional |-> FALSE, default |-> <<1>>,
   minSize |-> <<>>, kind |-> kind, min |-> <<0>>, max |-> <<1>>, sampleRate |-> FALSE,
   points |-> {0, 1}, group |-> <<>>, latency |-> flow = "output", midi |-> FALSE]

Atom(sym, flow, size) ==
  [Control(sym, flow, "plain") EXCEPT !.class = "atom", !.minSize = <<size>>, !.midi = TRUE]

Plugin(itsPorts, worker, safe) ==
  [ascii |-> TRUE, named |-> TRUE, library |-> TRUE, inPlaceBroken |-> FALSE,
   ports |-> itsPorts, properties |-> <<>>, uis |-> <<>>, requires |-> {"map"},
   fixedSize |-> FALSE, hasState |-> TRUE, presets |-> {}, worker |-> worker, safe |-> safe]

Gain == Control(1, "input", "plain")
Meter == Control(2, "output", "enumeration")
Property(n, ranges) ==
  [uri |-> n, writable |-> TRUE, readable |-> n = 4, ranges |-> ranges,
   default |-> <<>>, min |-> <<0>>, max |-> <<1>>]

Audio(sym) == [Control(sym, "output", "plain") EXCEPT !.class = "audio"]

\* A plugin with a worker and a state; one with an event input and a UI of its
\* own; one with an event output, a meter, properties and the generic UI; one with
\* presets; one that requires what the host lacks.
MCWithWorker == Plugin(<<Audio(5)>>, TRUE, TRUE)
MCWithUi == [Plugin(<<Gain, Atom(3, "input", 64)>>, FALSE, FALSE)
               EXCEPT !.uis = <<"external">>, !.hasState = FALSE]
MCWithEvents == [Plugin(<<Meter, Atom(4, "output", 64)>>, FALSE, FALSE)
                   EXCEPT !.hasState = FALSE,
                          !.properties = <<Property(4, {"Float"}), Property(8, {})>>]
MCWithPresets == [Plugin(<<Gain>>, FALSE, FALSE) EXCEPT !.presets = {"A"}]
MCRefused == [Plugin(<<Gain>>, FALSE, FALSE) EXCEPT !.requires = {"inPlace"}]

MCDescriptions == {MCWithWorker, MCWithUi, MCWithEvents, MCWithPresets, MCRefused}

Bounded(midi, writes, events, opens, changes, pauses) ==
  [midi |-> midi, writes |-> writes, events |-> events, windows |-> opens,
   presets |-> changes, pauses |-> pauses]
MCBounds ==
  [d \in MCDescriptions |->
     CASE d = MCWithWorker -> Bounded(0, 0, 0, 1, 0, 0)
       [] d = MCWithUi -> Bounded(1, 2, 0, 2, 0, 0)
       [] d = MCWithEvents -> Bounded(0, 0, 2, 1, 0, 0)
       [] d = MCWithPresets -> Bounded(0, 1, 0, 1, 2, 1)
       [] OTHER -> Bounded(0, 0, 0, 0, 0, 0)]
MCCachedUris == <<5, 2, 9, 3, 7>>
MCSize == <<0, 1, 0>>

\* What EvbufInBoundsCorrect asks for.
ASSUME WholeBuffersAssumption == WholeBuffers
=============================================================================
