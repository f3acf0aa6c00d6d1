------------------------------ MODULE Channels ------------------------------
(***************************************************************************)
(* CANScopeChnlContainer and its channels (canscope/chnl): which channels a *)
(* result has, what a channel reads out of the config of the result that is *)
(* shown, and the property of the device that each setter sets.  A run that *)
(* instantiates this module evaluates the formulas at its end.              *)
(***************************************************************************)
EXTENDS PropertyStore

Chnls == {"CAN_H", "CAN_L", "CAN_DIFF"}

\* a ChnlCalcResult: the config it was collected with
Result(prefs, diff, type) == [prefs |-> prefs, hardware_diff |-> diff, type |-> type]

DeviceHDiv(type) == IF type = "DT_CS1203" THEN 40 ELSE 10

---------------------------------------------------------------------------
(* ChnlContainer.                                                           *)

ChnlCount(c) == Len(c.chnls)
GetChnlAt(c, index) == c.chnls[index + 1]
GetChnlByType(c, type) ==
  LET typed == SelectSeq(c.chnls, LAMBDA x : c.type[x] = type)
  IN IF typed = <<>> THEN "NULL" ELSE Head(typed)

AddChnlAt(c, chnl, index) ==
  [Check(c, chnl \notin ToSet(c.chnls)) EXCEPT !.chnls = InsertAt(@, index + 1, chnl)]
AddChnl(c, chnl) == AddChnlAt(c, chnl, ChnlCount(c))
RemoveChnl(c, chnl) ==
  [Check(c, chnl \in ToSet(c.chnls)) EXCEPT !.chnls = SelectSeq(@, LAMBDA x : x # chnl)]

---------------------------------------------------------------------------
(* CANScopeChnlContainer.                                                   *)

PlainTypes == [CAN_H |-> "CHNL_CAN_H", CAN_L |-> "CHNL_CAN_L", CAN_DIFF |-> "CHNL_CAN_DIFF"]

\* UpdateContainer(hardware_diff, true): a channel that is not in the list has no type
NewContainer(result) ==
  LET diff == result.hardware_diff
      empty == [chnls |-> <<>>, result |-> result, hardware_diff |-> diff, alive |-> TRUE,
                type |-> IF diff THEN [PlainTypes EXCEPT !.CAN_DIFF = "CHNL_CAN_H"] ELSE PlainTypes]
  IN IF diff THEN AddChnl(empty, "CAN_DIFF")
     ELSE AddChnl(AddChnl(AddChnl(empty, "CAN_H"), "CAN_L"), "CAN_DIFF")

\* UpdateContainer(hardware_diff, false)
UpdateContainer(c, hardware_diff) ==
  CASE hardware_diff = c.hardware_diff -> c
    [] hardware_diff /\ ~c.hardware_diff ->
         RemoveChnl(RemoveChnl([c EXCEPT !.type.CAN_H = "CHNL_CAN_DIFF", !.hardware_diff = TRUE],
                               "CAN_L"), "CAN_DIFF")
    [] ~hardware_diff /\ c.hardware_diff ->
         AddChnlAt(AddChnlAt([c EXCEPT !.type = PlainTypes, !.hardware_diff = FALSE],
                             "CAN_L", 1), "CAN_DIFF", 2)

\* UpdateResult
UpdateResult(c, result) == [UpdateContainer(c, result.hardware_diff) EXCEPT !.result = result]

Read(c, member) == MemberValue(c.result.prefs, member)
IndexIn(enum, name) == SelectInSeq(OscEnums[enum], LAMBDA x : x = name) - 1

TimeBaseMember == OfEnum("Time.Base", "TimeBase")
\* in microseconds
kTimeBaseValue == [i \in 1 .. 19 |-> <<1, 2, 5>>[((i - 1) % 3) + 1] * 10 ^ ((i - 1) \div 3)]
HRange(c) == IndexIn("TimeBase", Read(c, TimeBaseMember))
HRangeValue(c) == kTimeBaseValue[HRange(c) + 1] * DeviceHDiv(c.result.type)

\* The container divides by 1e-9 and multiplies with it: seconds of it are units
\* of 1e-9 of what the property holds, and those are the unit here.  OscDevice
\* takes the property to be in nanoseconds.
HOffset(c) == Read(c, Of("Time.Offset", "double"))

---------------------------------------------------------------------------
(* CANScopeChnl.                                                            *)

\* GetVoltRange, GetVoltOffset
RangeMember(chnl) ==
  OfEnum([CAN_H |-> "CANH.Range", CAN_L |-> "CANL.Range", CAN_DIFF |-> "CANDIFF.Range"][chnl],
         "VoltRange")
OffsetMember(chnl) ==
  Of([CAN_H |-> "CANH.Offset", CAN_L |-> "CANL.Offset", CAN_DIFF |-> "CANDIFF.Offset"][chnl],
     "double")
SourceMember == OfEnum("Trigger.Source", "TriggerSource")
Chnl2TriggerSource == [CAN_H |-> "CANH", CAN_L |-> "CANL", CAN_DIFF |-> "CANDIFF"]

VRangeOption == <<1, 2, 4, 8, 20, 50>>
VRange(c, chnl) == IndexIn("VoltRange", Read(c, RangeMember(chnl)))
VRangeValue(c, chnl) == VRangeOption[VRange(c, chnl) + 1]
VOffset(c, chnl) == Read(c, OffsetMember(chnl))
IsTrigger(c, chnl) == Read(c, SourceMember) = Chnl2TriggerSource[chnl]
TriggerOffset(c) == Read(c, Of("Trigger.Volt", "double"))

\* a setter sets a property of the handle and leaves the result as it is
SetVRange(q, chnl, i, call) == SetProperty(q, RangeMember(chnl), OscEnums.VoltRange[i + 1], call)
SetVOffset(q, chnl, offset, call) == SetProperty(q, OffsetMember(chnl), offset, call)
BeTrigger(q, chnl, call) == SetProperty(q, SourceMember, Chnl2TriggerSource[chnl], call)
SetTriggerOffset(q, offset, call) == SetProperty(q, Of("Trigger.Volt", "double"), offset, call)
SetHRange(q, i, call) == SetProperty(q, TimeBaseMember, OscEnums.TimeBase[i + 1], call)
SetHOffset(q, offset, call) == SetProperty(q, Of("Time.Offset", "double"), offset, call)

---------------------------------------------------------------------------
(* canscope_chnl_container_unittest.cc.                                     *)

kOscConfig ==
  Ints({"CANL.Range"}, 4) @@ Doubles({"CANL.Offset"}, 1) @@ Ints({"CANDIFF.Range"}, 5)
  @@ Doubles({"CANDIFF.Offset"}, 2) @@ kDefaultCANScopeConfig.OscDevice

\* a channel by its number, its type and what it reads
Shows(c, index, type, range, value, offset) ==
  LET chnl == GetChnlAt(c, index)
  IN /\ c.type[chnl] = type /\ GetChnlByType(c, type) = chnl
     /\ VRange(c, chnl) = range /\ VRangeValue(c, chnl) = value /\ VOffset(c, chnl) = offset

ChnlTest ==
  LET prefs == InitAll(kOscConfig, OscMembers)
      result == Result(prefs, FALSE, "DT_CS1202")
      Three(c) == /\ ChnlCount(c) = 3 /\ c.alive
                  /\ Shows(c, 0, "CHNL_CAN_H", 3, 8, 0) /\ Shows(c, 1, "CHNL_CAN_L", 4, 20, 1)
                  /\ Shows(c, 2, "CHNL_CAN_DIFF", 5, 50, 2)
      container == NewContainer(result)
      diff == UpdateResult(container, Result(prefs, TRUE, "DT_CS1202"))
  IN /\ Three(container) /\ Three(UpdateResult(diff, result))
     /\ ChnlCount(diff) = 1 /\ Shows(diff, 0, "CHNL_CAN_DIFF", 3, 8, 0)

---------------------------------------------------------------------------
(* What no test of the repository says.                                     *)

\* all that the channels and the container read
All(c) ==
  [range |-> [x \in Chnls |-> VRange(c, x)], offset |-> [x \in Chnls |-> VOffset(c, x)],
   trigger |-> {x \in Chnls : IsTrigger(c, x)}, level |-> TriggerOffset(c),
   h |-> <<HRange(c), HOffset(c)>>]

\* What a setter sets is what the getter of the same channel reads, of the next
\* result and not of the one that is shown, and no other getter reads it.
SettersReachTheirOwn ==
  LET pair == Pair(kOscConfig, OscMembers)
      Of1(q) == Result(q.device, FALSE, "DT_CS1203")
      c == NewContainer(Of1(pair))
      Next(q) == All(UpdateResult(c, Of1(q)))
      call == [thread |-> "caller", batch |-> FALSE, valid |-> TRUE, error |-> "OK"]
  IN /\ \A x \in Chnls :
          /\ Next(SetVRange(pair, x, 0, call)) = [All(c) EXCEPT !.range[x] = 0]
          /\ Next(SetVOffset(pair, x, 7, call)) = [All(c) EXCEPT !.offset[x] = 7]
          /\ Next(BeTrigger(pair, x, call)) = [All(c) EXCEPT !.trigger = {x}]
     /\ Next(SetTriggerOffset(pair, 7, call)) = [All(c) EXCEPT !.level = 7]
     /\ Next(SetHRange(pair, 0, call)) = [All(c) EXCEPT !.h = <<0, HOffset(c)>>]
     /\ Next(SetHOffset(pair, 7, call)) = [All(c) EXCEPT !.h = <<HRange(c), 7>>]
     /\ HRangeValue(c) = 800

\* A container made for a result with hardware_diff has another channel than one
\* that is updated to it, with the range of another property, and takes no result
\* without it: AddChnlAt fails its DCHECK.  No device of the program has
\* hardware_diff.
DiffIsMadeAndUpdatedApart ==
  LET prefs == InitAll(kOscConfig, OscMembers)
      plain == Result(prefs, FALSE, "DT_CS1202")
      diff == Result(prefs, TRUE, "DT_CS1202")
      made == NewContainer(diff)
      updated == UpdateResult(NewContainer(plain), diff)
  IN /\ GetChnlAt(made, 0) = "CAN_DIFF" /\ GetChnlAt(updated, 0) = "CAN_H"
     /\ VRange(made, "CAN_DIFF") # VRange(updated, "CAN_H")
     /\ ~UpdateResult(made, plain).alive

\* all of them
ChannelsHold == ChnlTest /\ SettersReachTheirOwn /\ DiffIsMadeAndUpdatedApart
=============================================================================
