------------------------------- MODULE Scales -------------------------------
(***************************************************************************)
(* Chords and the default chords of a scale (audio/chord.c, scale.c).      *)
(*                                                                         *)
(* A chord has an array of 36 notes, three octaves, the first one for the  *)
(* bass; nothing keeps the root, which musical_scale_new counts up from    *)
(* the root of the scale, within one octave.  A note written behind the    *)
(* array lands in the bytes of the field after it, the inversion.          *)
(* musical_scale_new also returns no value, so the scale of the chord      *)
(* track is whatever its caller finds; nothing reads it.                   *)
(***************************************************************************)
EXTENDS Naturals, Sequences

NOTE_A == 9

\* How far the two upper notes of a chord lie above its root; the other types of
\* the enumeration add none.
Upper(type) ==
  CASE type = "MAJ" -> {4, 7}
    [] type = "MIN" -> {3, 7}
    [] type = "DIM" -> {3, 6}
    [] type = "AUG" -> {4, 8}
    [] type = "SUS2" -> {2, 7}
    [] type = "SUS4" -> {5, 7}
    [] OTHER -> {}

\* chord_new with a bass note and without inversion; inversion is the set of its
\* bytes that are not zero.
chord_new(root, bass, type) ==
  LET written == {bass, 12 + root} \cup {12 + root + n : n \in Upper(type)}
  IN  [root |-> root, type |-> type,
       notes |-> {n \in written : n < 36}, inversion |-> {n - 36 : n \in {k \in written : k >= 36}}]

\* A scale: the values stored in notes, and the root, above that of the scale, and
\* type of each default chord.
DefaultChord(above, type) == [above |-> above, type |-> type]

\* 13 values for the 12 entries: there are two lines for F.  The last one lands in
\* notes_asc.  The step from D# to the chord of F is one, and so all that follow
\* are one too low.
Aeolian ==
  [notes |-> <<1, 0, 1, 1, 0, 1, 1, 0, 1, 1, 0, 1, 0>>,
   chords |-> <<DefaultChord(0, "MIN"), DefaultChord(2, "DIM"), DefaultChord(3, "MAJ"),
                DefaultChord(4, "MIN"), DefaultChord(6, "MIN"), DefaultChord(7, "MAJ"),
                DefaultChord(9, "MAJ")>>]

Ionian ==
  [notes |-> <<1, 0, 1, 0, 1, 1, 0, 1, 0, 1, 0, 1>>,
   chords |-> <<DefaultChord(0, "MAJ"), DefaultChord(2, "MIN"), DefaultChord(4, "MIN"),
                DefaultChord(5, "MAJ"), DefaultChord(7, "MAJ"), DefaultChord(9, "MIN"),
                DefaultChord(11, "DIM")>>]

HarmonicMinor ==
  [notes |-> <<1, 0, 1, 1, 0, 1, 0, 1, 1, 0, 0, 1>>,
   chords |-> <<DefaultChord(0, "MIN"), DefaultChord(2, "DIM"), DefaultChord(3, "AUG"),
                DefaultChord(5, "MIN"), DefaultChord(7, "MAJ"), DefaultChord(8, "MAJ"),
                DefaultChord(11, "DIM")>>]

MelodicMinor ==
  [notes |-> <<1, 0, 1, 1, 0, 1, 0, 1, 0, 1, 0, 1>>,
   chords |-> <<DefaultChord(0, "MIN"), DefaultChord(2, "MIN"), DefaultChord(3, "AUG"),
                DefaultChord(5, "MAJ"), DefaultChord(7, "MAJ"), DefaultChord(9, "DIM"),
                DefaultChord(11, "DIM")>>]

\* musical_scale_new
MusicalScale(scale, root) ==
  [root_key |-> root,
   notes |-> scale.notes,
   default_chords |-> [i \in DOMAIN scale.chords |->
      chord_new(root + scale.chords[i].above, root + scale.chords[i].above, scale.chords[i].type)]]

\* chord_track_default
DefaultScale == MusicalScale(Aeolian, NOTE_A)

-----------------------------------------------------------------------------
\* The notes of every default chord are notes of the scale: a basic triad on one of
\* its degrees.
TriadsOfScale(scale) ==
  \A i \in DOMAIN scale.chords : \A n \in {0} \cup Upper(scale.chords[i].type) :
    scale.notes[((scale.chords[i].above + n) % 12) + 1] = 1
=============================================================================
