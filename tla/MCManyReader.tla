---------------------------- MODULE MCManyReader ----------------------------
(* Instances of ManyReader for TLC. *)
EXTENDS ManyReader
CONSTANTS s1, s2
NoReaders == {}
TwoSync == {s1, s2}
SkipOne == {1}
=============================================================================
