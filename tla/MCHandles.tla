----------------------------- MODULE MCHandles -----------------------------
(* Instances of Handles for TLC. *)
EXTENDS Handles
TwoRanges == <<4, 8>>

\* the formulas of the channels, which the program makes on top of the handles
Channels == INSTANCE Channels
ASSUME ChannelsHold == Channels!ChannelsHold
=============================================================================
