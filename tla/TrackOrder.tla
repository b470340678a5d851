----------------------------- MODULE TrackOrder -----------------------------
(***************************************************************************)
(* What the mixer and the tracklist promise each other.  "Channel order in *)
(* the mixer is reflected in the track list" (mixer.c): behind the master  *)
(* and the chord track, the list shows the tracks of the mixer's channels, *)
(* in the order of the mixer, whatever is added and deleted.               *)
(***************************************************************************)
EXTENDS Arrays

CONSTANTS
  Channels,      \* every channel there can be, but the master
  Master, Chord

\* The master and the chord track are two, and not among the channels.
MasterAndChord == Master # Chord /\ Master \notin Channels /\ Chord \notin Channels

VARIABLES
  order,   \* the channels of the mixer
  tracks   \* the tracks of the tracklist

lists == <<order, tracks>>

Init == order = <<>> /\ tracks = <<>>

\* A project is opened, with a master channel and the chord track, or left.
Open == order' = <<>> /\ tracks' = <<Master, Chord>>
Close == order' = <<>> /\ tracks' = <<>>

Add(channel) ==
  /\ ArrayContains(tracks, Chord) /\ ~ArrayContains(order, channel)
  /\ order' = ArrayAppend(order, channel)
  /\ tracks' = ArrayAppend(tracks, channel)

Remove(track) ==
  /\ track # Chord
  /\ order' = ArrayDelete(order, track)
  /\ tracks' = ArrayDelete(tracks, track)

Next ==
  \/ Open \/ Close
  \/ \E channel \in Channels : Add(channel)
  \/ \E track \in Channels \cup {Master} : Remove(track)

Spec == Init /\ [][Next]_lists
-----------------------------------------------------------------------------
\* The tracks in front of the channels, while a project is open.
Heads == {<<Master, Chord>>, <<Chord>>}

\* The channels of the tracklist are those of the mixer, in the same order.
InMixerOrder ==
  IF ArrayContains(tracks, Chord)
  THEN \E head \in Heads : tracks = head \o order
  ELSE tracks = <<>> /\ order = <<>>
=============================================================================
