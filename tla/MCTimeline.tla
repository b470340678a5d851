----------------------------- MODULE MCTimeline -----------------------------
(* An instance of Timeline: bars of a few ticks, one track of each kind. *)
EXTENDS Timeline

MCTracks == [I |-> "instrument", A |-> "audio", C |-> "chord", M |-> "master"]
MCChannels == <<"I", "A">>
MCSignature == [top |-> 2, unit |-> 8]
MCOffsets == {-1, 3}
MCSteps == {-1, 1}
\* Nothing yet, or a region and the points of two double presses with snap off.
MCProjects ==
  {[at |-> EmptyTrack, regions |-> <<>>],
   [at |-> [points |-> <<[id |-> 1, pos |-> Pos(1, 1, 1, 0)], [id |-> 2, pos |-> Pos(1, 2, 2, 0)]>>,
            curves |-> <<Midway(MCSignature, Pos(1, 1, 1, 0), Pos(1, 2, 2, 0))>>],
    regions |-> <<[start |-> Pos(1, 1, 2, 1), end |-> Pos(2, 1, 1, 0)]>>]}
MCGarbage == {Bar(1)}

\* The default chords of three of the four scales are triads of the scale.
ASSUME ScalesAssumption == \A scale \in {Ionian, HarmonicMinor, MelodicMinor} : TriadsOfScale(scale)
=============================================================================
