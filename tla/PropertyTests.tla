---------------------------- MODULE PropertyTests ----------------------------
(***************************************************************************)
(* The unit tests of the property stores, their members and Property, as    *)
(* formulas about PropertyStore, and the default config.  A run that        *)
(* extends this module evaluates them.                                      *)
(***************************************************************************)
EXTENDS PropertyStore

---------------------------------------------------------------------------
(* device/property/value_map_device_property_store_unittest.cc              *)

\* a path is a key of its own, not a way into a tree
SetAndGetValue ==
  LET prefs == SetValue(EmptyStore, "test.1.2.3", <<"int", 10>>)
  IN ~HasPrefPath(prefs, "test.1.2") /\ Holds(prefs, "test.1.2.3", <<"int", 10>>)

Observer ==
  LET observed == AddPrefObserver(EmptyStore, "test.1.2.3", "stub")
      set == SetValue(observed, "test.1.2.3", <<"int", 10>>)
      silent == SetValueSilently(set, "test.NoNotify", <<"bool", TRUE>>)
  IN /\ set.told = <<<<"stub", "test.1.2.3">>>> /\ silent.told = set.told
     /\ Holds(silent, "test.NoNotify", <<"bool", TRUE>>) /\ silent.alive
     /\ ~HasObserver(RemovePrefObserver(silent, "test.1.2.3", "stub"), "test.1.2.3", "stub")

kTestConfig ==
  ("NoMapItem" :> <<"int", 1>>) @@ ("test.1.2.3" :> <<"int", 10>>) @@ ("test.NoNotify" :> <<"bool", TRUE>>)
kNewTestConfig ==
  ("new item" :> <<"int", 4>>) @@ ("test.1.2.3" :> <<"int", 2>>) @@ ("test.NoNotify" :> <<"bool", TRUE>>)

ReadConfigFile ==
  LET prefs == Reset(EmptyStore, kTestConfig)
  IN /\ Holds(prefs, "test.1.2.3", <<"int", 10>>) /\ Holds(prefs, "test.NoNotify", <<"bool", TRUE>>)
     /\ prefs.told = <<>>

ChangedSetTest ==
  ChangedSet(Reset(EmptyStore, kTestConfig), Reset(EmptyStore, kNewTestConfig))
    = {"NoMapItem", "test.1.2.3"}

---------------------------------------------------------------------------
(* store_member_unittest.cc, enum_store_member_unittest.cc                  *)

path == "test.property1"

BoolMember ==
  LET member == Member("bool_pref", path, "bool")
      prefs == InitMember(SetValue(EmptyStore, path, <<"bool", TRUE>>), member, FALSE)
      set == SetMember(prefs, member, FALSE)
  IN /\ MemberValue(prefs, member)
     /\ Holds(set, path, <<"bool", FALSE>>)
     /\ ~MemberValue(SetValue(set, path, <<"bool", FALSE>>), member)

Callback ==
  LET member == Member("bool_pref", path, "bool")
      prefs == InitMember(SetValue(EmptyStore, path, <<"bool", TRUE>>), member, TRUE)
      first == SetValue(prefs, path, <<"bool", FALSE>>)
      second == SetValue(first, path, <<"bool", TRUE>>)
  IN /\ MemberValue(prefs, member) /\ prefs.told = <<>>
     /\ first.told = <<<<"bool_pref", path>>>> /\ Len(second.told) = 2
     /\ MemberValue(second, member)
     \* "NamedChangeCallback are no call when setting for current StoreMember"
     /\ SetMember(second, member, FALSE).told = second.told

\* by its name, and by its number
CheckString ==
  LET names == [n \in {"kTestEnum1", "kTestEnum2", "kTestEnum3"} |-> <<"string", n>>]
      store == EnumMember("store", path, "string", names)
      prefs == InitMember(SetValue(EmptyStore, path, <<"string", "kTestEnum1">>), store, FALSE)
  IN /\ MemberValue(prefs, store) = "kTestEnum1"
     /\ MemberValue(SetMember(prefs, store, "kTestEnum2"), store) = "kTestEnum2"
     /\ ~Reads(store, <<"string", "kTestEnum7">>)

CheckInt ==
  LET store == EnumMember("store", "test.property2", "int",
                          Numbered(<<"kTestEnum4", "kTestEnum5", "kTestEnum6">>))
      prefs == InitMember(SetValue(EmptyStore, "test.property2", <<"int", 0>>), store, FALSE)
  IN /\ MemberValue(prefs, store) = "kTestEnum4"
     /\ Holds(SetMember(prefs, store, "kTestEnum5"), "test.property2", <<"int", 1>>)

---------------------------------------------------------------------------
(* canscope/device/property/property_unittest.cc: PropertyTest.             *)

bool == Member("bool_member", "test.bool_member", "bool")
int == Member("int_member", "test.int_member", "int")
Start == Pair((bool.key :> <<"bool", FALSE>>) @@ (int.key :> <<"int", 3>>), <<bool, int>>)

Call(thread) == [thread |-> thread, batch |-> FALSE, valid |-> TRUE, error |-> "OK"]
Refused(thread) == [Call(thread) EXCEPT !.valid = FALSE]
Batch(thread) == [Call(thread) EXCEPT !.batch = TRUE]
Failing(thread, error) == [Call(thread) EXCEPT !.error = error]

\* what the handle and the device hold, and what LastDeviceError is
Both(q, m, v) == MemberValue(q.handle, m) = v /\ MemberValue(q.device, m) = v
LastError(q, t) == q.errors[t]

GetValueOneThread == Both(Start, bool, FALSE) /\ Both(Start, int, 3) /\ Start.called = <<>>

\* SetHandleOneThread, SetHandleCrossThread
SetHandle(t) ==
  LET first == SetProperty(Start, bool, TRUE, Call(t))
      second == SetProperty(first, int, 44, Call(t))
  IN /\ Both(first, bool, TRUE) /\ Both(second, int, 44)
     /\ second.called = <<"bool_member", "int_member">> /\ LastError(second, t) = "OK"

\* CheckFalseOneThread, CheckFalseCrossThread
CheckFalse(t) ==
  LET first == SetProperty(Start, bool, TRUE, Refused(t))
      second == SetProperty(first, int, 10, Refused(t))
  IN /\ LastError(first, t) = "ERR_INVAILD_VALUE" /\ Both(first, bool, FALSE)
     /\ LastError(second, t) = "ERR_INVAILD_VALUE" /\ Both(second, int, 3)
     /\ second.called = <<>>

\* ObserverOneThread, ObserverCrossThread: told once, and not again for the same
\* value, though the handler is run again
ObserverTest(t) ==
  LET observed == [Start EXCEPT !.handle = AddPrefObserver(@, bool.key, "handle_observer")]
      same == SetProperty(observed, bool, FALSE, Call(t))
      first == SetProperty(same, bool, TRUE, Call(t))
      second == SetProperty(first, bool, TRUE, Call(t))
  IN /\ same.handle.told = <<>> /\ first.handle.told = <<<<"handle_observer", bool.key>>>>
     /\ second.handle.told = first.handle.told /\ Len(second.called) = 3

\* CallFuncErrorOneThread, CallFuncErrorCrossThread: the error is reported and
\* the value is kept all the same
CallFuncError(t) ==
  LET first == SetProperty(Start, bool, TRUE, Failing(t, "ERR_READ_DEVICE"))
      second == SetProperty(first, bool, FALSE, Failing(t, "ERR_WRITE_DEVICE"))
  IN /\ LastError(first, t) = "ERR_READ_DEVICE" /\ Both(first, bool, TRUE)
     /\ LastError(second, t) = "ERR_WRITE_DEVICE" /\ Both(second, bool, FALSE) /\ second.alive

\* the handle alone has the values until the end of the scope
BatchMode(t) ==
  LET first == SetProperty(Start, bool, TRUE, Batch(t))
      second == SetProperty(first, int, 44, Batch(t))
      end == [second EXCEPT !.device = ChangeContent(@, Serialize(second.handle))]
  IN /\ MemberValue(first.handle, bool) /\ ~MemberValue(first.device, bool)
     /\ MemberValue(second.handle, int) = 44 /\ MemberValue(second.device, int) = 3
     /\ Both(end, bool, TRUE) /\ Both(end, int, 44) /\ end.called = <<>>

\* "no fetch error and property now"
AsyncSetValue ==
  LET done == SetPropertyAsync(Start, bool, TRUE, Call("caller"), FALSE)
  IN /\ done[2] = <<"start", "finish">> /\ done[1].called = <<"bool_member">>
     /\ MemberValue(done[1].device, bool) /\ ~MemberValue(done[1].handle, bool)

PropertyTest ==
  /\ GetValueOneThread /\ AsyncSetValue
  /\ \A t \in Threads :
       SetHandle(t) /\ CheckFalse(t) /\ ObserverTest(t) /\ CallFuncError(t) /\ BatchMode(t)

---------------------------------------------------------------------------
(* What no test of the repository says.                                     *)

\* every property has a value of its type in the default config, which an enum
\* has a name for, and every value is a property's
DefaultsRead ==
  \A part \in {<<OscMembers, "OscDevice">>, <<FrameMembers, "FrameDevice">>} :
    LET dict == TakeSubDict(kDefaultCANScopeConfig, part[2])
        store == InitAll(dict, part[1])
    IN /\ store.alive /\ DOMAIN dict = {m.key : m \in ToSet(part[1])}
       /\ \A m \in ToSet(part[1]) :
            /\ Reads(m, GetValue(store, m.key))
            /\ m.names = <<>> \/ IsEnumerator(m, GetValue(store, m.key))

\* the content that a store takes from another is the other's, whatever each was,
\* and those it tells are the observers of what had changed: this is what
\* Settings has for a fetch and for a commit
ContentIsTaken ==
  \A b1, b2 \in BOOLEAN, i1, i2 \in 0 .. 1 :
    LET Dict(b, i) == (bool.key :> <<"bool", b>>) @@ (int.key :> <<"int", i>>)
        store == AddPrefObserver(AddPrefObserver(Reset(EmptyStore, Dict(b1, i1)), bool.key, "o"),
                                 int.key, "o")
        changed == ChangeContent(store, Dict(b2, i2))
    IN /\ changed.alive /\ Serialize(changed) = Dict(b2, i2)
       /\ {note[2] : note \in ToSet(changed.told)}
            = ChangedSet(store, Reset(EmptyStore, Dict(b2, i2)))
       /\ ChangeContent(changed, Dict(b2, i2)) = changed

\* A batch whose last value is refused leaves its error behind: the end of the
\* scope fails the DCHECK of SetDeviceError.  A value that passes clears it.
RefusedInBatch ==
  LET refused == SetProperty(Start, int, 44, Refused("caller"))
      accepted == SetProperty(refused, bool, TRUE, Batch("caller"))
  IN ~CommitSync(refused, "OK").alive /\ CommitSync(accepted, "OK").alive

\* all of them
PropertyTestsPass ==
  /\ SetAndGetValue /\ Observer /\ ReadConfigFile /\ ChangedSetTest
  /\ BoolMember /\ Callback /\ CheckString /\ CheckInt
  /\ PropertyTest
  /\ DefaultsRead /\ ContentIsTaken /\ RefusedInBatch
===============================================================================
