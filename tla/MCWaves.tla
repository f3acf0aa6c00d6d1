------------------------------ MODULE MCWaves ------------------------------
(* The instance of Waves for TLC: the three channels of the program. *)
EXTENDS Waves
=============================================================================
