-------------------------- MODULE MCFrameCollecter --------------------------
(* Instances of FrameCollecter for TLC. *)
EXTENDS FrameCollecter
CONSTANT o1
NoOne == {}
OneClient == {o1}
=============================================================================
