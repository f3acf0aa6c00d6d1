----------------------------- MODULE MCSettings -----------------------------
(* Instances of Settings for TLC. *)
EXTENDS Settings
CONSTANTS h1, h2
TwoHandles == {h1, h2}
OneHandle == {h1}
AllProps == Props
Tests == INSTANCE PropertyTests
ASSUME PropertyTestsHold == Tests!PropertyTestsPass
\* all writes of the opening fail, the ones after soft_diff, or none
SomeWrites == {0, 2, 5}
Some == {VoltRange("CAN_H"), Coupling("CAN_H"), One("trigger_source")}
=============================================================================
