------------------------------ MODULE Settings ------------------------------
(***************************************************************************)
(* How the settings of the oscilloscope are changed from other threads      *)
(* (canscope/device): Property and ScopedDevicePropertyCommit of a handle   *)
(* send a value, or the whole store of the handle, to the device thread,    *)
(* which runs the handlers of OscRegisters and makes a new config; every    *)
(* handle is notified and fetches the last config from ConfigManager.       *)
(*                                                                          *)
(* A task of the device thread is one step; so is what a handle's thread    *)
(* does between two waits.                                                  *)
(***************************************************************************)
EXTENDS OscRegisters

CONSTANTS
  Handles,    \* the handles, one per thread
  Batchers,   \* those whose calls are asynchronous or in a batch too
  Settable,   \* the properties that users set
  MaxSets     \* bound: how many values and batches are sent

ASSUME SettingsAssumption ==
  Batchers \subseteq Handles /\ Settable \subseteq Props /\ MaxSets \in Nat

VARIABLES
  queue,           \* the tasks of the device thread
  config_history,  \* of ConfigManager; the id of a config is its place from 0
  store,           \* the property store of each handle
  current_pref,    \* current_pref_ of each handle
  inbox,           \* notifications on their way to each thread
  waiting,         \* where each thread is: "no", "device", "signalled"
  async_count,     \* async_count_, over all properties of a handle
  sets,            \* values and batches sent so far
  own,             \* history: the config that the handle's last call made
  local            \* history: the store has values that no config had

settingsVars == <<regVars, queue, config_history, store, current_pref, inbox,
                  waiting, async_count, sets, own, local>>
handleVars == <<store, current_pref, waiting, async_count, sets, own, local>>

SettingsInit ==
  /\ RegInit
  /\ queue = <<>> /\ config_history = <<Default>>
  /\ store = [h \in Handles |-> Default]
  /\ current_pref = [h \in Handles |-> 0] /\ inbox = [h \in Handles |-> 0]
  /\ waiting = [h \in Handles |-> "no"] /\ async_count = [h \in Handles |-> 0]
  /\ sets = 0 /\ own = [h \in Handles |-> 0] /\ local = {}

LastId == Len(config_history) - 1

\* (slip) notifications are counted, not the configs looked at
FetchCounting(h) ==
  /\ current_pref' = [current_pref EXCEPT ![h] = IF @ = LastId THEN @ ELSE @ + 1]
  /\ IF current_pref[h] = LastId THEN UNCHANGED <<store, local>>
     ELSE /\ store' = [store EXCEPT ![h] = config_history[LastId + 1]]
          /\ local' = local \ {h}

\* FetchNewPref: nothing to do when the config is the one the handle has
FetchNewPref(h) ==
  /\ current_pref' = [current_pref EXCEPT ![h] = LastId]
  /\ IF current_pref[h] = LastId THEN UNCHANGED <<store, local>>
     ELSE /\ store' = [store EXCEPT ![h] = config_history[LastId + 1]]
          /\ local' = local \ {h}

\* a task is posted by a thread that does not wait already
Send(h, task) ==
  /\ waiting[h] = "no" /\ sets < MaxSets
  /\ sets' = sets + 1
  /\ queue' = Append(queue, task)

\* Property::set_value, up to WaitForCallFinish
SetValue(h) ==
  /\ \E p \in Settable : \E v \in ValuesOf(p) :
       Send(h, [type |-> "set", handle |-> h, prop |-> p, value |-> v])
  /\ waiting' = [waiting EXCEPT ![h] = "device"]
  /\ UNCHANGED <<regVars, config_history, store, current_pref, inbox, async_count, own, local>>

\* the same with an AsyncTaskHandle
SetValueAsync(h) ==
  /\ \E p \in Settable : \E v \in ValuesOf(p) :
       Send(h, [type |-> "set async", handle |-> h, prop |-> p, value |-> v])
  /\ async_count' = [async_count EXCEPT ![h] = @ + 1]
  /\ UNCHANGED <<regVars, config_history, store, current_pref, inbox, waiting, own, local>>

\* ScopedDevicePropertyCommit: values set in batch mode stay in the store, and
\* at the end of the scope all of the store is sent.  commit_call, if there is
\* one, is SetAll.
Commit(h, type) ==
  /\ \E p \in Settable : \E v \in ValuesOf(p), call \in BOOLEAN :
       /\ store' = [store EXCEPT ![h][p] = v]
       /\ Send(h, [type |-> type, handle |-> h, values |-> store'[h], call |-> call])
  /\ local' = local \cup {h}
  /\ waiting' = [waiting EXCEPT ![h] = IF type = "commit" THEN "device" ELSE @]
  /\ UNCHANGED <<regVars, config_history, current_pref, inbox, async_count, own>>

\* (slip) the handles are not notified
UpdateQuietly ==
  /\ config_history' = Append(config_history, props')
  /\ UNCHANGED inbox

\* UpdateConfig: one notification for the thread of each handle
UpdateConfig ==
  /\ config_history' = Append(config_history, props')
  /\ inbox' = [h \in Handles |-> inbox[h] + 1]

\* Property::SetValueImplSync
SetValueImplSync ==
  /\ queue # <<>> /\ Head(queue).type = "set"
  /\ LET t == Head(queue)
         v == [props EXCEPT ![t.prop] = t.value] IN
     /\ Run(Handler(t.prop, v), v)
     /\ waiting' = [waiting EXCEPT ![t.handle] = "signalled"]
     /\ own' = [own EXCEPT ![t.handle] = LastId + 1]
  /\ UpdateConfig
  /\ queue' = Tail(queue)
  /\ UNCHANGED <<store, current_pref, async_count, sets, local>>

\* Property::SetValueAsyncImpl; a cancelled call stays in async_count_
SetValueAsyncImpl ==
  /\ queue # <<>> /\ Head(queue).type = "set async"
  /\ LET t == Head(queue)
         v == [props EXCEPT ![t.prop] = t.value] IN
     \/ UNCHANGED <<regVars, config_history, inbox, async_count>>
     \/ /\ Run(Handler(t.prop, v), v)
        /\ UpdateConfig
        /\ async_count' = [async_count EXCEPT ![t.handle] = @ - 1]
  /\ queue' = Tail(queue)
  /\ UNCHANGED <<store, current_pref, waiting, sets, own, local>>

\* ChangeContent, commit_call and UpdateConfig; without a commit_call nothing is
\* written
CommitValues(t) ==
  /\ IF t.call THEN Run(SetAll(t.values), t.values) ELSE NoHandler(t.values)
  /\ UpdateConfig

\* ScopedDevicePropertyCommit::CommitSyncImpl
CommitSyncImpl ==
  /\ queue # <<>> /\ Head(queue).type = "commit"
  /\ LET t == Head(queue) IN
     /\ CommitValues(t)
     /\ waiting' = [waiting EXCEPT ![t.handle] = "signalled"]
     /\ own' = [own EXCEPT ![t.handle] = LastId + 1]
  /\ queue' = Tail(queue)
  /\ UNCHANGED <<store, current_pref, async_count, sets, local>>

\* ScopedDevicePropertyCommit::CommitAsyncImpl, cancelled or not
CommitAsyncImpl ==
  /\ queue # <<>> /\ Head(queue).type = "commit async"
  /\ \/ UNCHANGED <<regVars, config_history, inbox>>
     \/ CommitValues(Head(queue))
  /\ queue' = Tail(queue)
  /\ UNCHANGED handleVars

\* (slip) the caller goes on with the values it had
ReturnNoFetch(h) ==
  /\ waiting[h] = "signalled"
  /\ waiting' = [waiting EXCEPT ![h] = "no"]
  /\ UNCHANGED <<regVars, queue, config_history, store, current_pref, inbox,
                 async_count, sets, own, local>>

\* the end of set_value and of CommitSync, once the event is signalled
Return(h) ==
  /\ waiting[h] = "signalled"
  /\ FetchNewPref(h)
  /\ waiting' = [waiting EXCEPT ![h] = "no"]
  /\ UNCHANGED <<regVars, queue, config_history, inbox, async_count, sets, own>>

\* DeviceHandleBase::Observe, a task of the handle's thread
Observe(h) ==
  /\ waiting[h] = "no" /\ inbox[h] > 0
  /\ inbox' = [inbox EXCEPT ![h] = @ - 1]
  /\ FetchNewPref(h)
  /\ UNCHANGED <<regVars, queue, config_history, waiting, async_count, sets, own>>

DeviceStep == SetValueImplSync \/ SetValueAsyncImpl \/ CommitSyncImpl \/ CommitAsyncImpl
HandleStep(h) == Return(h) \/ Observe(h)
UserStep(h) ==
  \/ SetValue(h)
  \/ h \in Batchers /\ (SetValueAsync(h) \/ Commit(h, "commit") \/ Commit(h, "commit async"))

SettingsNext == DeviceStep \/ \E h \in Handles : HandleStep(h) \/ UserStep(h)

SettingsSpec == SettingsInit /\ [][SettingsNext]_settingsVars

\* the threads run their tasks; users may do nothing for ever
FairSettingsSpec ==
  /\ SettingsSpec
  /\ WF_settingsVars(DeviceStep)
  /\ \A h \in Handles : WF_settingsVars(HandleStep(h))

(***************************************************************************)
(* Properties.                                                              *)
(***************************************************************************)

\* The domain of every variable: ids are of configs that there are, and nobody
\* is told of a config to come.
Values == UNION {ValuesOf(p) : p \in Props}
Configs == [Props -> Values]
Tasks ==
  [type : {"set", "set async"}, handle : Handles, prop : Props, value : Values]
  \cup [type : {"commit", "commit async"}, handle : Handles, values : Configs, call : BOOLEAN]
SettingsTypeOK ==
  /\ props \in Configs /\ queue \in Seq(Tasks)
  /\ config_history \in Seq(Configs) /\ config_history # <<>>
  /\ store \in [Handles -> Configs] /\ local \subseteq Handles
  /\ current_pref \in [Handles -> 0 .. LastId] /\ own \in [Handles -> 0 .. LastId]
  /\ waiting \in [Handles -> {"no", "device", "signalled"}]

\* A thread whose call has returned sees that call's config or a later one,
\* though the notification may still be on its way.
ReadsOwnWrite == \A h \in Handles : waiting[h] = "no" => current_pref[h] >= own[h]

\* A handle shows one config, never a mix of two, but for the values of a batch
\* of its own that the device has not had yet.
StoreIsConfig ==
  \A h \in Handles : h \notin local => store[h] = config_history[current_pref[h] + 1]

\* All of it, kept by every step.
SettingsInv == SettingsTypeOK /\ RegInv /\ ReadsOwnWrite /\ StoreIsConfig

\* Every handle comes to show the last config of the device, and every call
\* returns.
HandlesSettle ==
  \A h \in Handles :
    (current_pref[h] # LastId \/ waiting[h] # "no")
      ~> (current_pref[h] = LastId /\ waiting[h] = "no")

\* A handle none of whose calls is under way can be destroyed ("must wait for
\* all async task finish before destroy Property").
AllCounted ==
  \A h \in Handles :
    async_count[h] = Len(SelectSeq(queue, LAMBDA t : t.type = "set async" /\ t.handle = h))
=============================================================================
