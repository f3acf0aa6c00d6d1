--------------------------- MODULE MCOscCollecter ---------------------------
(* Instances of OscCollecter for TLC. *)
EXTENDS OscCollecter
CONSTANTS a1, o1, v1
NoOne == {}
OneAsync == {a1}
OneClient == {o1}
OneView == {v1}
NoSkip == {}

\* the formulas of the two pools
Pools == INSTANCE MemoryPools
ASSUME PoolsHold == Pools!MemoryPoolsHold
=============================================================================
