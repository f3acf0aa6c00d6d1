---------------------------- MODULE PropertyStore ----------------------------
(***************************************************************************)
(* The property stores (device/property), the members of OscDevice and      *)
(* FrameDevice that are kept in one, and a call of a Property               *)
(* (canscope/device/property) while nothing else runs.  Settings has those  *)
(* calls when other threads run too, with a config for each store.          *)
(*                                                                          *)
(* A store is its prefs, its observers, those of them that keep quiet, and  *)
(* whom it has told of what; it is no longer alive when a DCHECK failed.    *)
(* A value is its type and what it holds.                                   *)
(***************************************************************************)
EXTENDS Integers, Sequences, SequencesExt, FiniteSets

EmptyStore == [prefs |-> <<>>, observers |-> <<>>, quiet |-> {}, told |-> <<>>, alive |-> TRUE]

Check(s, condition) == [s EXCEPT !.alive = @ /\ condition]

\* PropertyNotifiter
ObserversOf(s, key) == IF key \in DOMAIN s.observers THEN s.observers[key] ELSE <<>>
HasObserver(s, key, obs) == obs \in ToSet(ObserversOf(s, key))
AddPrefObserver(s, key, obs) ==
  [Check(s, ~HasObserver(s, key, obs)) EXCEPT
     !.observers = (key :> Append(ObserversOf(s, key), obs)) @@ s.observers]
RemovePrefObserver(s, key, obs) ==
  [s EXCEPT !.observers = (key :> SelectSeq(ObserversOf(s, key), LAMBDA o : o # obs)) @@ s.observers]
FireObservers(s, key) ==
  LET speaking == SelectSeq(ObserversOf(s, key), LAMBDA o : o \notin s.quiet)
  IN [s EXCEPT !.told = @ \o [i \in DOMAIN speaking |-> <<speaking[i], key>>]]

---------------------------------------------------------------------------
(* ValueMapDevicePropertyStore.                                             *)

HasPrefPath(s, key) == key \in DOMAIN s.prefs
GetValue(s, key) == s.prefs[key]
Holds(s, key, value) == HasPrefPath(s, key) /\ GetValue(s, key) = value

SetValueSilently(s, key, value) == [s EXCEPT !.prefs = (key :> value) @@ s.prefs]
SetValue(s, key, value) ==
  IF Holds(s, key, value) THEN s ELSE FireObservers(SetValueSilently(s, key, value), key)
RemoveValue(s, key) ==
  IF ~HasPrefPath(s, key) THEN s
  ELSE FireObservers([s EXCEPT !.prefs = [k \in DOMAIN @ \ {key} |-> @[k]]], key)

\* nobody is told
Reset(s, dict) == [s EXCEPT !.prefs = dict]
Serialize(s) == s.prefs
\* only what has changed is told; "no allow add item"
ChangeContent(s, dict) ==
  FoldSet(LAMBDA key, t : SetValue(Check(t, HasPrefPath(t, key)), key, dict[key]), s, DOMAIN dict)
ChangedSet(s, other) == {key \in DOMAIN s.prefs : ~Holds(other, key, GetValue(s, key))}

---------------------------------------------------------------------------
(* StoreMember and the enum members.                                        *)

\* names: the enumerators of an enum, with what they are in the store
Member(id, key, type) == [id |-> id, key |-> key, type |-> type, names |-> <<>>]
EnumMember(id, key, type, names) == [id |-> id, key |-> key, type |-> type, names |-> names]
\* IMPLEMENT_ENUM_STORE_MEMBER_INT
Numbered(names) == [n \in ToSet(names) |-> <<"int", SelectInSeq(names, LAMBDA x : x = n) - 1>>]

IsEnumerator(m, value) == \E n \in DOMAIN m.names : m.names[n] = value
\* UpdateValueInternal succeeds: a number without a point is a double too, and
\* StringToEnumName knows the names, but any number is cast to an enum
Reads(m, value) ==
  /\ value[1] = m.type \/ (m.type = "double" /\ value[1] = "int")
  /\ m.names # <<>> /\ m.type = "string" => IsEnumerator(m, value)

\* Init, with an observer_ or without, and Destroy
InitMember(s, m, observed) ==
  LET added == AddPrefObserver(Check(s, HasPrefPath(s, m.key)), m.key, m.id)
  IN [added EXCEPT !.quiet = IF observed THEN @ ELSE @ \cup {m.id}]
DestroyMember(s, m) == RemovePrefObserver(s, m.key, m.id)

MemberValue(s, m) ==
  LET value == GetValue(s, m.key)
  IN IF m.names = <<>> THEN value[2] ELSE CHOOSE n \in DOMAIN m.names : m.names[n] = value
\* the member that sets a value is not told of it
SetMember(s, m, v) ==
  LET value == IF m.names = <<>> THEN <<m.type, v>> ELSE m.names[v]
      set == SetValue([s EXCEPT !.quiet = @ \cup {m.id}], m.key, value)
  IN [set EXCEPT !.quiet = s.quiet]

---------------------------------------------------------------------------
(* OscDeviceProperty, FrameDeviceProperty and the default config.           *)

OscEnums ==
  [VoltRange |-> <<"k1V", "k2V", "k4V", "k8V", "k20V", "k50V">>,
   TimeBase |-> <<"k1us", "k2us", "k5us", "k10us", "k20us", "k50us", "k100us", "k200us", "k500us",
                  "k1ms", "k2ms", "k5ms", "k10ms", "k20ms", "k50ms", "k100ms", "k200ms", "k500ms",
                  "k1s">>,
   Coupling |-> <<"kDC", "kAC">>, DiffCtrl |-> <<"kSub", "kAverage">>,
   TriggerSource |-> <<"CANH", "CANL", "CANDIFF", "CANRxD", "CANTxD", "FrameStart", "Exernal">>,
   TriggerType |-> <<"kRisingEdge", "kFallingEdge", "kDoubleEdge", "kPositivePulse",
                     "kNegativePulse">>,
   TriggerMode |-> <<"kAuto", "kNormal">>, TriggerSens |-> <<"kDefault", "kStrengthen">>,
   CompareType |-> <<"kGreater", "kLess", "kEqual">>]

\* a member is known by its key
OfEnum(key, enum) == EnumMember(key, key, "int", Numbered(OscEnums[enum]))
Of(key, type) == Member(key, key, type)
OscMembers ==
  <<OfEnum("CANH.Range", "VoltRange"), Of("CANH.Offset", "double"), OfEnum("CANH.Coupling", "Coupling"),
    OfEnum("CANL.Range", "VoltRange"), Of("CANL.Offset", "double"), OfEnum("CANL.Coupling", "Coupling"),
    OfEnum("CANDIFF.Range", "VoltRange"), Of("CANDIFF.Offset", "double"),
    OfEnum("DiffCtrl", "DiffCtrl"), OfEnum("Time.Base", "TimeBase"), Of("Time.Offset", "double"),
    Of("Trigger.AutoTime", "double"), OfEnum("Trigger.Source", "TriggerSource"),
    OfEnum("Trigger.Type", "TriggerType"), OfEnum("Trigger.Mode", "TriggerMode"),
    OfEnum("Trigger.Sens", "TriggerSens"), OfEnum("Trigger.Compare", "CompareType"),
    Of("Trigger.Volt", "double"), Of("TimeParam", "double")>>
FrameMembers ==
  <<Of("DeviceEnable", "bool"), Of("AckEnable", "bool"), Of("SjaBtr", "int"),
    Of("FrameStoragePercent", "double"), Of("BitSampleRate", "int"), Of("BitNum", "int")>>

Ints(keys, n) == [k \in keys |-> <<"int", n>>]
Doubles(keys, n) == [k \in keys |-> <<"double", n>>]
kDefaultCANScopeConfig ==
  [OscDevice |->
     Ints({"CANH.Range", "CANL.Range", "CANDIFF.Range"}, 3)
     @@ Doubles({"CANH.Offset", "CANL.Offset", "CANDIFF.Offset", "Time.Offset", "Trigger.Volt"}, 0)
     @@ Ints({"CANH.Coupling", "CANL.Coupling"}, 1) @@ Ints({"Time.Base"}, 4)
     @@ Ints({"DiffCtrl", "Trigger.Type", "Trigger.Mode", "Trigger.Sens", "Trigger.Compare"}, 0)
     @@ Doubles({"Trigger.AutoTime"}, 100) @@ Ints({"Trigger.Source"}, 2) @@ Doubles({"TimeParam"}, 1),
   FrameDevice |->
     ("DeviceEnable" :> <<"bool", FALSE>>) @@ ("AckEnable" :> <<"bool", TRUE>>)
     @@ Ints({"SjaBtr"}, 5184) @@ Doubles({"FrameStoragePercent"}, 50)
     @@ Ints({"BitSampleRate"}, 5000) @@ Ints({"BitNum"}, 100)]
\* TakeSubDict
TakeSubDict(config, key) == config[key]

\* OscDeviceProperty::Init, FrameDeviceProperty::Init
InitAll(dict, members) ==
  FoldLeft(LAMBDA s, m : InitMember(s, m, FALSE), Reset(EmptyStore, dict), members)

---------------------------------------------------------------------------
(* One call.  A pair of stores is that of the device and that of a handle,  *)
(* with the last error of either thread, the handlers that were run and     *)
(* whether no DCHECK has failed.  A call comes from a thread, in batch mode *)
(* or not; the check of its value passes or not, and its handler ends with  *)
(* an error or "OK".                                                        *)

Threads == {"caller", "device"}
Pair(dict, members) ==
  [device |-> InitAll(dict, members), handle |-> InitAll(dict, members),
   errors |-> [t \in Threads |-> "OK"], called |-> <<>>, alive |-> TRUE]

\* device_errors.cc, of a thread
CleanError(q, t) == [q EXCEPT !.errors[t] = "OK"]
SetDeviceError(q, t, error) ==
  [q EXCEPT !.alive = @ /\ q.errors[t] = "OK", !.errors[t] = error]
SetDeviceErrorIfNoError(q, t, error) ==
  IF q.errors[t] = "OK" THEN SetDeviceError(q, t, error) ELSE q

FetchNewPref(q) == [q EXCEPT !.handle = ChangeContent(@, Serialize(q.device))]

\* device_member_.set_value and CallCallback
SetOnDevice(q, m, v, call) ==
  SetDeviceErrorIfNoError([q EXCEPT !.device = SetMember(@, m, v), !.called = Append(@, m.id)],
                          "device", call.error)

\* Property::set_value: SetValueImpl is the last three
SetProperty(q, m, v, call) ==
  LET clean == CleanError(q, call.thread)
      posted == SetOnDevice(CleanError(clean, "device"), m, v, call)
  IN CASE ~call.valid -> SetDeviceErrorIfNoError(clean, call.thread, "ERR_INVAILD_VALUE")
       [] call.valid /\ call.batch -> [clean EXCEPT !.handle = SetMember(@, m, v)]
       [] call.valid /\ ~call.batch /\ call.thread = "device" ->
            FetchNewPref(SetOnDevice(clean, m, v, call))
       [] call.valid /\ ~call.batch /\ call.thread = "caller" ->
            FetchNewPref(SetDeviceError(posted, "caller", posted.errors["device"]))

\* the same with an AsyncTaskHandle, whose user may cancel it first: the pair,
\* and what the task tells
SetPropertyAsync(q, m, v, call, cancelled) ==
  LET done == SetOnDevice(CleanError(q, "device"), m, v, call)
  IN CASE ~call.valid ->
            <<SetDeviceErrorIfNoError(q, call.thread, "ERR_INVAILD_VALUE"), <<"start", "error">> >>
       [] call.valid /\ cancelled -> <<q, <<"start", "cancel">> >>
       [] call.valid /\ ~cancelled ->
            <<done, <<"start", IF done.errors["device"] = "OK" THEN "finish" ELSE "error">> >>

\* ScopedDevicePropertyCommit::CommitSync; CommitSyncImpl
CommitSync(q, error) ==
  LET clean == CleanError(q, "device")
      sent == [clean EXCEPT !.device = ChangeContent(@, Serialize(q.handle))]
      done == SetDeviceErrorIfNoError(sent, "device", error)
  IN FetchNewPref(SetDeviceError(done, "caller", done.errors["device"]))
===============================================================================
