------------------------------ MODULE MCPlayback ------------------------------
(***************************************************************************)
(* A loop of eight ticks in blocks of two ticks and a half, for TLC: a     *)
(* note inside a block, one on the boundary of two blocks, one that goes   *)
(* on past the end of the loop.                                            *)
(***************************************************************************)
EXTENDS Playback
CONSTANTS Short, Edge, Long

MCStart == [n \in Notes |-> CASE n = Short -> 3 [] n = Edge -> 2 [] n = Long -> 5]
MCEnd   == [n \in Notes |-> CASE n = Short -> 3 [] n = Edge -> 6 [] n = Long -> 9]
=============================================================================
