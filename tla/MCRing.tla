-------------------------------- MODULE MCRing --------------------------------
(***************************************************************************)
(* A ring of four cells for TLC: three bytes fill it, and chunks of two    *)
(* wrap around its end at every position.                                  *)
(***************************************************************************)
EXTENDS Ring
CONSTANTS B0, B1
=============================================================================
