---------------------------- MODULE MCEngineCycle ----------------------------
(***************************************************************************)
(* Small engines for TLC: an audio channel A, a bus B and, where a channel *)
(* is created, a channel N.                                                *)
(***************************************************************************)
EXTENDS EngineCycle
CONSTANTS A, B, N

\* The bus comes after the channel that feeds it, or before it.
MCSourceFirst == <<A, B>>
MCBusFirst == <<B, A>>
MCOnlyA == <<A>>
MCSources == [c \in Channels |-> IF c = B THEN <<A>> ELSE <<>>]
MCNoSources == [c \in Channels |-> <<>>]
MCPluginInA == {<<A, 1>>}
=============================================================================
