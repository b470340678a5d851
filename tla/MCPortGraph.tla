----------------------------- MODULE MCPortGraph -----------------------------
(***************************************************************************)
(* Four ports for TLC: three audio ports and a MIDI port.                  *)
(***************************************************************************)
EXTENDS PortsFile, TLC
CONSTANTS P1, P2, P3, M1

MCType == [p \in Ports |-> IF p = M1 THEN "event" ELSE "audio"]
MCFlow == [p \in Ports |-> IF p \in {P2, M1} THEN "in" ELSE "out"]
MCSymmetry == Permutations({P1, P3})
=============================================================================
