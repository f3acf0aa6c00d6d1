----------------------------- MODULE DeviceList -----------------------------
(***************************************************************************)
(* The list of devices that DevicesManager keeps, when a round of the       *)
(* finder is merged into it, and the unit tests of the merge as formulas:   *)
(* merge_device_list_unittest.cc has the same loops once more.              *)
(***************************************************************************)
EXTENDS Integers, FiniteSets

\* device_to_status_ has every path here, and "NoExist" for what it has not;
\* list and state are list_change and state_change
MergeDeviceList(device_to_status, devices) ==
  LET paths == DOMAIN device_to_status
      was(s) == {p \in paths : device_to_status[p] = s}
      new == was("NoExist") \cap devices
      gone == was("Exist") \ devices
      lost == was("Online") \ devices
      back == was("Offline") \cap devices
  IN [status |-> [p \in paths |->
                    IF p \in gone THEN "NoExist" ELSE IF p \in lost THEN "Offline"
                    ELSE IF p \in back THEN "Online" ELSE IF p \in new THEN "Exist"
                    ELSE device_to_status[p]],
      list |-> gone \cup new # {}, state |-> lost \cup back # {}]

---------------------------------------------------------------------------
(* merge_device_list_unittest.cc.                                           *)

MergeList ==
  MergeDeviceList(<<"Exist", "Exist", "Exist", "NoExist">>, 2 .. 4)
    = [status |-> <<"NoExist", "Exist", "Exist", "Exist">>, list |-> TRUE, state |-> FALSE]
MergeAdd ==
  MergeDeviceList(<<"NoExist", "Exist", "Offline", "Online", "NoExist">>, 1 .. 5)
    = [status |-> <<"Exist", "Exist", "Online", "Online", "Exist">>, list |-> TRUE, state |-> TRUE]
MergeRemove ==
  MergeDeviceList(<<"Exist", "Exist", "Offline", "Online">>, 2 .. 3)
    = [status |-> <<"NoExist", "Exist", "Online", "Offline">>, list |-> TRUE, state |-> TRUE]
MergeChangeStatus ==
  MergeDeviceList(<<"NoExist", "Exist", "Offline", "Online">>, 2 .. 4)
    = [status |-> <<"NoExist", "Exist", "Online", "Online">>, list |-> FALSE, state |-> TRUE]

\* all of them
MergeTestsPass == MergeList /\ MergeAdd /\ MergeRemove /\ MergeChangeStatus
=============================================================================
