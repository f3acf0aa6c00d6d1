----------------------------- MODULE MCDevices -----------------------------
(* Instances of Devices for TLC. *)
EXTENDS Devices
CONSTANTS p1, p2
TwoPaths == {p1, p2}
\* p1 comes first; where p2 alone is sound, p1 may fail each time
P1First == p1 :> 1 @@ p2 :> 2
Second == {p2}
OnePath == {p1}
Program == [ui |-> TRUE, user |-> FALSE, first |-> TRUE, all |-> FALSE,
            close |-> FALSE, stop |-> FALSE]
\* DevicesManagerTest
Test == [Program EXCEPT !.ui = FALSE, !.user = TRUE, !.first = FALSE, !.stop = TRUE]
CloseOffline == [Test EXCEPT !.close = TRUE, !.stop = FALSE]
AllOptions == [CloseOffline EXCEPT !.user = FALSE, !.all = TRUE]
FourModes == {Program, Test, CloseOffline, AllOptions}
ASSUME MergeTestsHold == MergeTestsPass
=============================================================================
