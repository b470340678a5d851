---------------------------- MODULE MCUndoManager ----------------------------
(***************************************************************************)
(* Two channels, in mixer order, for TLC.  Chords can be exchanged.        *)
(***************************************************************************)
EXTENDS ChannelWidget, TLC
CONSTANTS C1, C2, K1, K2, K3

MCMixer == <<C1, C2>>
MCOffsets == {<<0, 0>>, <<0, 1>>, <<-1, 0>>}
MCSymmetry == Permutations(Chords)
=============================================================================
