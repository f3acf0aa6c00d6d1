# Formal models of device_operate

device_operate drives the CANScope, a USB oscilloscope and CAN bus analyser: it
finds devices, configures them, collects raw samples and frames on a device
thread, computes channel results on worker threads and shows them in a user
interface thread. Everything that crosses a thread does so through a handful of
hand-written classes. These modules model those classes: TLA+ for what they do,
TLC for small instances of it, TLAPS for theorems about every instance.

Line references are to the files under `src/`. `PROJECT.json` maps every
definition of a module to the lines it stands for.

## 1. Inventory

Threads: the **UI thread** (views), the **calculation thread**
(`CANScopeChnlCalc`, `ChnlCalcManager`), the **device threads** (one per device:
property writes, `LoopRun` tasks of the collecters), the **finder's thread**
(enumeration) and the **worker pool** (one task per calculation item).

| Component | State | Operations | Hard behaviour | Correct when |
|---|---|---|---|---|
| `SequencedBulkQueue`, `Reader` (device/) | `buffer_queue_`, `count_`, `callback_map_`, `count_map_`, `reader_min_/max_`, `quiting_`; per reader `count_`, `event_`, `quiting_`, `temp_ptr_` | `PushBulk`, `RecycleOne`, `Quit`; wait, timed wait, callback, `GetBulkSameThread`, `Skip`, construct, destroy | every operation is two or three critical sections with windows between them; wake-ups, timeouts, readers that come and go | nobody misses a wake-up or keeps a stale one, nothing is released under a reader, only overwriting loses bulks |
| `WaitForManyReader` (same file) | a list of readers | wait on all, with or without timeout | several callbacks fire in any order; the ones not taken must be cancelled | the reader reported has a bulk |
| `ThreadedLoopRun` (canscope/device/) | `start_`, `single_`, `stop_`, `running_` | `Start`, `Single`, `Stop` from any thread, `LoopRun` on its own | requests race the end of the loop; observers are told asynchronously | one loop at a time, a stop ends it, observers end up right |
| `OscDataCollecter` (osc_device/) | `next_state_`, `stop_by_offine_`, `limit_time_` | start scope, poll trigger, read, push | device errors in every step, memory that the queue itself holds | the state machine never stops half way |
| `FrameDataCollecter` (frame_device/) | `next_state_`, `next_loop_delay_` | clean, check, wait, collect | as above, and misaligned sizes | as above |
| `MemoryUsagePool`, `MemoryFramePool` (device/) | allocations, one registered callback | `Alloc`, `Free`, set / cancel callback | the callback runs after the lock is released | no callback is lost, none runs after it was cancelled |
| `CalcGroup`, `CalcGroupWalker`, `CalcExecuter` (depend_calc/) | the dependency graph, marks, the running task | build, start runnable items, mark, finish, cancel | items finish in any order; a restart while old items still run | an item runs once, after what it needs, and every run ends once |
| `AsyncTask` (canscope/) | `status`, observers | start, cancel, finish | cancel races finish | exactly one end is announced |
| `ChnlCalcManager`, `CANScopeChnlCalc` (osc_chnl_calc/, app/) | current task, pending raw data, reader | process, reprocess, cancel, start, stop | results of a task that was given up | every raw data is processed or replaced by a newer one |
| `DevicesManager`, `CANScopeDeviceFinder`, `CANScopeDeviceRunner`, `DeviceManager` (canscope/device/) | device list with a state per device, runners | list merge, open, close, destroy, offline, online | a device that disappears while opening; destruction over two threads | the list tells the truth, a device is opened and destroyed once |
| `DeviceBase`, `ConfigManager`, `DeviceHandleBase`, `Property`, `ScopedDevicePropertyCommit` (canscope/device/, property/) | lock owner and sequence number, configuration and its id, pending asynchronous writes | lock, unlock, update, commit sync / async | stale sequence numbers, a wait on the own thread, lost updates | a handle that lost the lock changes nothing, writes are counted down |
| `ChnlContainer` (canscope/chnl/) | channels and ids, the config of the shown result | add, delete, look up, update, set | a setter starts from the config shown, which is older than the device's | what is set is what was meant on the screen |
| `UsbPort` (usb/) | three pipes | open, close, command and answer, data | a transfer that fails leaves the rest in a pipe, which the next caller reads | a call gets its own answer |
| `CommonThread`, `CommonThreadManager`, `NotificationService` (common/) | named threads and their loops, a pool, observers by type and source | create, join, post with or without a lock, register, notify all | threads end one by one while the others post and observers come and go | no post meets a loop that is gone, nothing posted upward is lost, everybody is told once |
| `OscDevice` (osc_device/) | properties, images of five registers | one setter per property | a register depends on several properties; any write may fail | the registers follow the properties |
| registers, `FrameDevice` (register/, frame_device/, device/) | bit fields, shared by two devices | bind, encode, write parts | overlapping parts, narrow fields, an earlier configuration still in the device | the device reads what was meant |
| `Oscilloscope`, `ClassifyWaveControl`, the wave views (canscope/ui, wave_control/) | containers of waves, groups with shared parts, handles, a drag | combine, separate, drag, select, trigger source, zoom, measure | observers that change what others observe; a drag that loses its mouse; settings that come back late | handles follow the waves and come to rest where they were left, the next drag can begin |
| `ValueMapDevicePropertyStore`, `PropertyNotifiter`, the store members (device/property/) | a map of values, observers by key | set, remove, reset, change the whole content, add and remove observers | observers are told in the middle of a change of many values | what is read is what was stored, who observes a key hears of each change of it, once |
| the simulator (device_simulate/) | `opened_`, `load_fpga_`, the registers of a device | open, load, read, write | the checks of a delegate in whatever state it is left | it decodes what the device classes encode |
| painting, layout, panels, samples | | | | not modelled |

How they interact: a collecter is a `ThreadedLoopRun` on the device thread. It
allocates raw data from a `MemoryUsagePool`; when the pool is full it calls
`RecycleOne` on its queue until an allocation works, and then `PushBulk`es.
`CANScopeChnlCalc` reads that queue through an asynchronous reader on the
calculation thread and gives the data to `ChnlCalcManager`, whose `CalcExecuter` runs the
channel calculations on the worker pool as an `AsyncTask`; results go into two
more queues, read by the oscilloscope view. `CANScopeDeviceFinder`, a
`ThreadedLoopRun` too, feeds `DevicesManager`, which creates a device with its
runner; the runner starts, stops and re-runs the collecters. Settings go from
`Property` objects in handles by `ScopedDevicePropertyCommit` to `DeviceBase` on
the device thread and come back as a new configuration by `ConfigManager`.

## 2. Plan

| Step | Module | State |
|---|---|---|
| 1 | `BulkQueue`, `ManyReader` on top of it, abstract `BulkStream` (section 3) | modelled, invariants and refinement proved |
| 2 | `ThreadedLoop` (section 4) | modelled, invariants proved |
| 3 | `OscCollecter` on `ThreadedLoop` and `BulkQueue` (section 5) | modelled, implements `ThreadedLoop`: proved |
| 4 | `CalcGroup`, `CalcExecuter`, `ChnlCalc` on top of it (section 6) | modelled, invariants and refinement proved |
| 5 | `Devices`: finder, manager, runner, process (section 7) | modelled, invariants proved |
| 6 | `OscRegisters`, `Settings` on top of it (section 8) | modelled, invariants proved |
| 7 | `RegisterMap`, `Simulator` and `Registers` on top of it (section 9) | modelled |
| 8 | `UsbPort`, `FrameCollecter` on it and on `ThreadedLoop` (section 10) | modelled, implements `ThreadedLoop`: proved |
| 9 | `Waves` (section 11) | modelled, invariants proved |
| 10 | `Threads` (section 12) | modelled, invariants proved |
| 11 | `Handles` (section 13) | modelled, invariant proved |
| 12 | what is sequential, as operators with the unit tests: `PropertyStore`, `PropertyTests`, `RegisterTests`, `CalcGroupTests`, `AsyncTask`, `DeviceList`, `MemoryPools`, `Channels` (section 14) | modelled |
| 13 | theorems, in one module for each component and what it is built from | below |

`ThreadedLoopProofs` is about the loop alone and used by the proofs of both
collecters; `DeviceThreadProofs` are the settings and the frame collecter, which
share the device thread; `ScreenProofs` are `Handles` and `Waves`.

A property that is proved is not run as well when a run has deeper ones to
show: type invariants, `StopHasTarget` and the inductive
invariants are checked by the prover, or, where nothing is proved yet, kept as
definitions (`OscTypeOK`, `ChnlTypeOK`) to start from.

Disagreements between the code and what it says of itself are kept as
properties too. One has a run (`queue_quit_hang`); the last but one section
(Known disagreements) lists the others, with the instance that shows each.

## 3. The queue: `BulkQueue`, `ManyReader`, `BulkStream`

A bulk is its sequence number, so `buffer_queue_` is a set of numbers. `Init`,
one action per critical section, and one per step of a reader's thread:

| Code | Actions |
|---|---|
| `PushBulk`, `RecycleOne` | `PushBulk`, `RecycleOne` |
| `Quit` | `QuitSet`, `QuitFire` (two critical sections) |
| `WaitGetBulk`, `GetBulkSameThread`, `CallbackOnReady` | `WaitReady` (a bulk is there) or `WaitNotReady`, `SetReadyCallback`, `SetReadyFire` (the three critical sections), then asleep |
| return of `event_.Wait()` | `WaitReturn` |
| `WaitTimeoutGetBulk` | the same, or `WaitTimeout`, `CancelCallback` |
| `OnBufferReady`, `CallHaveData`, `GetResult` | `Signal` posts a task, `CallHaveData`, `GetResult` |
| `Skip` | `Skip` |
| `ReaderBase()` | `RegisterReader` |
| `~Reader`, `~ReaderBase` | `DestroyReader`, `DestroyCancel`, `UnRegisterReader` |

`pc[r]` says in which of the windows a reader's thread is. `recycled`, `passed`,
`base`, `got` are history: what was overwritten, skipped, visible at first, and
handed over. `FindBulk`, `MayReleaseBuffer`, `FireCallbackNoLock`,
`MayFireCallback` and `Recyclable` are the functions of those names.

`ManyReader` extends it with the thread that waits for several readers at once
(`WaitForManyReader`); between such waits it uses them one by one.

| Code | Actions |
|---|---|
| `Wait`, `WaitTimeout` with the loop over the readers | `StartWait`, then for each reader `WaitFrontReady` (a bulk is there) or `WaitFront`, which takes the steps of `WaitForReady` |
| `WaitableEvent::WaitMany`, `TimedWaitMany` | `WaitMany` falls asleep, `WakeMany` returns, with an event or after the time |
| the loop over those that had nothing | `WaitBack`, one critical section each, so that pushes come in between; `EndWait` |
| `IsReaderFinish`, `GetResult` | `TakeResults` |

`BulkStream` is what a user of the queue may rely on: a stream of numbered bulks
some of which are overwritten, and readers that get the first one available at
or after the number they ask for. Memory, waiting and waking do not appear in it.
`ImplementsStream` is the refinement.

### Runs

| Run | Instance | Shows |
|---|---|---|
| `queue_wakeups` | a timed sync and an eager async reader, which may be destroyed while its callback is armed, 2 bulks, recycling, `Quit`, fairness | `NoMissedWakeup`, `NeverStranded`, `EventuallyRead` |
| `queue_recycle` | two sync readers that come, go and skip, wait alone or both together, 3 bulks, recycling | `NothingReleasedEarly`, `OnlyOverwriteLoses`, `ManyLeavesNothing`, `ImplementsStream` |
| `queue_quit_hang` | one reader, `Quit` | violated: `Quit()` on an empty queue wakes nobody |

Bounds: `MaxPush` bulks. The positions of a reader, the bulks queued and the
bulk recycled are all compared, never counted, so three bulks already give two
readers every relative position with a bulk before, between and after them; the
wake-up of one reader depends on one bulk that comes and one that follows it.
Two readers are enough for a slowest and a fastest; more of them differ in
nothing a queue looks at. The theorems have no bound on either.

`CHECK_DEADLOCK FALSE` in every configuration: after `MaxPush` bulks, or once
every reader is destroyed, the system has nothing left to do, and a reader that
waits for a bulk nobody pushes waits for ever in the code too.

Fairness (`FairSpec`): threads that can run do, woken threads go on, posted
tasks are run, and a reader's loop asks for its next bulk. Nothing obliges
anyone to push, skip, time out or destroy. `EventuallyRead` excuses a reader
told to quit, one being destroyed and a bulk overwritten.

### Findings

- `Quit()` reaches readers through `MayFireCallback`, which returns at once when
  the queue is empty. A reader waits when there is nothing for it, so the usual
  waiter is not woken.
- A reader is removed from `callback_map_` in `~ReaderBase`, after `~Reader`;
  `GetBulk` is then pure virtual.
- A wait for several readers sleeps although one of them was finished at once
  (`OneIsEnough`), and a reader woken by `Quit()` is not listed as finished in
  the way the comment says (`FinishIncludesQuit`): see Known disagreements.
- `CANScopeChnlCalc::OnRawDataArrive` calls `CallbackOnReady` before
  `GetResult`; with a bulk queued the first result is replaced and the next is
  taken twice.

### Theorems (`BulkQueueProofs`)

For any set of readers of either kind, any arguments of `Skip`, both overwrite
modes, with or without `Quit`, and any `MaxPush`, from `ReadersAssumption` and
`ParametersAssumption` only:

- `Invariance`: `Spec => []IInv`;
- `TypeCorrect`, `ReleaseIsSafe`, `RangeCorrect`, `WakeupNotMissed`,
  `NobodyStranded`, `SignalsAreFresh`: the parts of it that are properties above;
- `QueueIsAStream`: `Spec => ImplementsStream`;
- `NothingElseLost`: `Spec => []OnlyOverwriteLoses`, when no reader is eager.

And for a thread that waits for any set of sync readers, from `ManyAssumption` too:

- `ManyInvariance`: `ManySpec => [](IInv /\ ManyInv)`;
- `ManyWaitsAreClean`: `ManySpec => []ManyLeavesNothing`;
- `ManyIsAStream`: `ManySpec => ImplementsStream`.

Neither property is inductive alone. That a callback is not missed needs to know
which readers may be in `callback_map_` (`Membership`), that a signalled reader
has no second signal (`NoStaleSignal`), and that a sync reader never has a task
and an async one never an event (`Wakeable`). That nothing is released early
needs the range (`RangeIsExact`), that a reader asks beyond what it got
(`AsksAhead`), and that the queue has no holes but the recycled ones
(`QueueIsTail`). `IInv` is their conjunction, proved kept by one lemma
per action (`KeptBy...`). The lemmas `Serves` and
`Trims` describe once what handing out bulks and releasing memory do to the
positions, `SignalFacts` and `FireFacts` what a fired callback does to the
signals.

The refinement maps each critical section to a step of `BulkStream`, or to none.
A bulk is handed over in two ways, by the reader's own `GetBulk`
(`GetBulkServes`) and by whoever fires its callback (`FireServes`). In both the
queue gives the smallest bulk of `buffer_queue_` at or after the reader's
position, and the stream the smallest one published and not overwritten.
`AskedIsAvailable` says that these are the same sets: nothing that a reader can
still ask for was released (`QueueIsTail`, `AsksAhead`), and nothing that was
overwritten is back (`Gone`, the one fact that `IInv` lacks).

The stream ends where a bulk is fetched for a reader; `NothingElseLost` follows it
to the caller. Every bulk behind a reader was overwritten, skipped or handed to
the caller, or it is the one in `temp_count_` and a signal that tells the caller of it
is there (`Accounted`). A callback that fires must find no such signal, or it would
replace a bulk that nobody took: that is `NoStaleSignal`, and the reason why
`CancelCallback` waits for the signal of a callback that came first. An eager
callback arms while its result is pending, and does lose bulks (Findings).

A wait for many takes the steps of the queue, so `IInv` is kept (the lemmas
`KeptByOwner` and `KeptByReader` serve both), and two facts are added. `ManyLife`
says where each reader can be: still to come, finished at once, armed, to be taken
back, or done. `Results` says that `temp_count_` holds the last bulk fetched, and
that the caller was not given it exactly while the event is set or `WaitFront`
owes it. With both, what is in `finish_list_` at the end is what nobody took.
A reader that was told to quit fires without a bulk, so `Results` says nothing
of its signals.

Model-checked only: `EventuallyRead` (liveness under fairness is out of the
prover's reach).
`RangeIsExact` is proved and has no run of its own.

### Left out

`RegisterReader` truncates `count` to `int`; numbers here are unbounded. A wait
for readers of different queues, which meet less than those of one. Reference counting of bulks: a bulk dropped by
the queue may live on in a reader; who holds memory matters for the collecter
and is modelled there.

## 4. The loop: `ThreadedLoop`

A job that is run again and again on one thread and asked to start and stop from
others. `start`, `single`, `stop`, `running` are the members of those names.

| Code | Actions |
|---|---|
| `Start`, `Single` | `Start`, `Single` (the critical section), then `Post` (the `PostTask` after it) |
| `Stop` | `Stop` |
| `LoopRun` | `Enter` (first look at the flags), `LoopRunImp` (the job, which wants to go on or not), `Leave` (second look), `OnStateChanged` (after either), `Repost` |
| `Observer::StateChanged` | `StateChanged`: a posted task, in which the view calls `IsRunning()` |
| `CANScopeView::CANScopeView` | `UpdateButton` (it looks), then `AddObserver` (it registers) |
| `CANScopeView::~CANScopeView` | `RemoveObserver`; a notice on its way is dropped |

Where the source returns early ("already started", "nothing to stop") no action
is enabled: such a call changes nothing. The clients are `Views`, which behave
as `CANScopeView` does (one button, for starting while the last `IsRunning()`
said no, for stopping otherwise, and only once it is on the screen), and `Others`, which ask for anything at any
time: the runner, `ReRun`, a console.

The run `osc_collect` of the next section checks `OneLoop` and `SeenIsCurrent` with
the job replaced by the collecter's, for one view and another client.

A view is made while the loop runs, is stopped or is about to begin: the runner
posts `LoopRun` and tells the UI thread of the new device at the same time. The
constructor looks first and registers afterwards, and a notice sent between the
two reaches nobody. `untold` remembers such a view until it is told of something
later. `SeenIsCurrent` says that every other view shows what is, and
`SeenFromTheStart`, which makes no exception, is violated (Known disagreements):
the view then offers to start a loop that runs and not to stop it.

Not a property: that a start button does something. With other clients, and the
runner is always one, a stop may be pending while the view still shows the loop
as stopped, or was just made, and `Start()` returns without effect.

Bound: `MaxRuns` counts accepted requests. A run leaves nothing behind but a
notice on its way, so the third one meets all that an earlier run can leave.
`CHECK_DEADLOCK FALSE`: an idle loop that nobody asks for anything stops for
good, as it does in the program.

Fairness: a client between its critical section and `PostTask` is running code
with no wait in it; the run thread serves its queue; the job returns, since a
device access has a time-out; views serve their message loop. Nobody is obliged
to ask for anything, and no view has to be made, registered or destroyed.
Weak fairness is enough, because nothing disables a step of these once it is enabled except that step, or the end of the view it was for.

Theorems (in `ThreadedLoopProofs`), for any views, others and `MaxRuns`:
`LoopInvariance` (`LoopInv`), and from it `LoopIsUnique`, `StopIsForThisRun`,
`ViewsAreCurrent`; `StopIsForThisRun` has a counterpart that is checked, `OscStopEnds`. `OneLoop` is inductive only together with where `LoopRun` is
when `running_` is set (`RunningInRun`); `SeenIsCurrent` needs both, and holds of any
number of views that come and go. The liveness properties stay with TLC.

## 5. The oscilloscope collecter: `OscCollecter`

`OscCollecter` extends `BulkQueue` and `ThreadedLoop` and replaces the abstract
job of the loop by `OnLoopRun`:

| Code | Actions |
|---|---|
| `DoLoadCalibrate`, `DoPreCollect`, `DoCheckCollect` | the actions of these names |
| `DoCollect`, `AllocOscRawData` | `AllocOscRawData`, `Recycle`, `GiveUp`, `ReadOscData`, `Push`: one per lock taken, so that readers come in between |
| `CHECK_DEVICE`, `DeviceOffine` | the second disjunct of every action with a device access |
| `LoopRunImp` and the end of `OnLoopRun` | `Go` |
| `ReRun` | `ReRunStart`, `ReRunClear` |
| `LoopRun` around the job, requests, views | `LoopStep` |
| readers, their callers | `Read`; `Release` when a caller's last reference goes |

Memory: `InUse` are the bulks whose samples are allocated: those in the queue,
the one each reader holds in `temp_ptr_` until it gets another, those callers
keep, and the one being filled. A bulk is counted once however many hold it, as
its reference count does. `MemoryUsagePool` lends while these are fewer than
`PoolBulks`.

| Run | Instance | Shows |
|---|---|---|
| `osc_collect` | a view that comes and goes and another client that also calls `ReRun`, a pool of one bulk, an eager async reader whose caller keeps one, 2 triggers, 2 runs, fairness | `SingleCollectsOnce`, `OneLoop`, `SeenIsCurrent`, `LostWhenFullOnly`, `OscStopEnds`, `ImplementsLoop` |

Bounds: `MaxPush` triggers, `MaxRuns` requests, `PoolBulks` (the product has
room for some tens of bulks) and `MaxKept`. What matters is whether the pool is
full and who holds it: the queue, a reader and its caller can each hold the one
bulk there is, alone or with another, when the second trigger needs it. `CHECK_DEADLOCK FALSE`: after the
last trigger and request there is nothing to do, and a machine without a next
state ends the program.

Fairness: that of the loop, with `OnLoopRun` for its job, and a client that has
begun `ReRun()` ends it. Devices may fail or not trigger for ever.

### Findings

A failed allocation returns `NEXT_LOOP` without setting `next_state_`: the
assertion at the end of `OnLoopRun` fails, or else the next start ends the
program in `CHECK_NE`. A pool filled by the readers' callers is enough, and
`ChnlCalcManager` keeps an unbounded list of raw data. With `MaxKept = 1` the
same model reaches it in two more ways: a reader takes the last queued bulk, and
lets go of its former one, between the allocation and `RecycleOne`, which then
refuses although there is room; or the last reader leaves while the queue holds
the whole pool, and `RecycleOne` does nothing without readers.

`ReRun()` tests `stop_by_offine_`, starts and clears the flag, while the run
thread sets it before the run has ended: the start is ignored, or a fresh flag
cleared, and the run not taken up. The comment in `ReRun` accepts a lost start,
so no property forbids it, and today it is not reached: `ReRunAll`, its only
caller, runs on the device thread itself.

### Theorems (`OscCollecterProofs`)

For any readers, pool and clients.

`CollecterIsALoop`: `OscSpec` implements `ThreadedLoop`, step by step; the
refinement mapping is the identity on the loop's variables. `CollecterLoopIsUnique`
carries `OneLoop` over.

`SinglesCollectOnce` has its inductive invariant (`SingleInv`) relative to that of
the loop, which the refinement provides: a single run starts at `mark` bulks, has
pushed none until its job is done, and is then done with one. It rests on
`StopHasTarget`: a run that goes on was asked for, so that a `Single` in its middle
is ignored and cannot make it a single one after its first push.

`OnlyAFullPoolLoses` is an action property, proved step by step: a job that meets an
error of the device, a stop or no trigger always sets the state it goes on from.

### Left out

Registers, delays, and the clock: `DoPreCollect` computes whether there is a
time limit into a local named `limit_time_`, so that the member that
`DoCheckCollect` tests is never set; its end is one more device error here.
`stop_by_offine_` is not initialised by any constructor, hence either value in
`OscInit`.

## 6. The calculation: `CalcGroup`, `CalcExecuter`, `ChnlCalc`

`CalcGroup` is the graph as its owner builds it: items, dependencies, `Clone`
and the topological sort of `NoCycle`. `MCChnlCalc` assumes, and so TLC
evaluates, that the sort finds the cycles of every graph of three items, defined
there by sets of items without a first one (`SortFindsCycles`), and that `BuildChnlCalcGroup` gives a
graph without one (`GroupIsGood`), which an executer needs to come to an end.

`CalcExecuter` models an executer with its group, its walker and the `AsyncTask`
of each run. A run is its number; `walker[e].run` says whose graph the executer
holds, which is how an item finds that its own is gone.

| Code | Actions |
|---|---|
| `set_delegate`, `StartRun` | `StartRun` (the check and the swap), `Reset` (the critical section), `StartFirst` (`StartAllRunnable`) |
| `RunItem` on a worker | `RunItem` (first critical section), `Run` (the item, no lock), `Mark` (second), `StartNext` (`StartAllRunnable`) |
| `NotifyStartImpl`, `NotifyFinishImpl` | `Deliver`: one posted task on the starting thread |
| `AsyncTask::Cancel` | `Cancel` |

`FreeNode`, `NodeSuccess`, `NodeFailed`, `Finish` are the functions of those
names on a graph kept as a set of edges. Nodes without edges that are done are
not looked at again, so deleting them is not modelled; that a walker's items are
deleted with it is (`crashed` in `Run` and `Mark`). `task_` and `delegate_` are
written without the lock that workers read them under; a reader sees the old or
the new value, which is the order of the two steps.

`ChnlCalc` extends it with `ChnlCalcManager` and the results of
`CANScopeChnlCalc`: two executers, one thread for all handlers.

| Code | Actions |
|---|---|
| `RawDataCollected` | `RawDataCollected`, with `ProcessRaw` and the manager's `StartRun` |
| `OnAsyncTaskFinish` | `ChnlDeliver`, `FinishProcess`, then the executer's `Reset` and `StartFirst` if a run was started, `FinishRecord` |
| `Cancel`, `StopImpl` with `~ChnlCalcManager` | `CancelCurrent`, `Stop` |

| Run | Instance | Shows |
|---|---|---|
| `chnl_serve` | two items that may run side by side and a third that needs both, 2 raw data, cancels, a stop, fairness | `OnceInOrder`, `FinishIsComplete`, `EveryRawCalculated`, `ImplementsExecuter` |

Bounds: the program's own group (`BuildChnlCalcGroup`) is one channel item with
the differential item behind it. The instance has a second channel item, so that two workers
are in the same walker, one success does not free the last item and a failure
can come first from either side. A run meets at most what the one before it
left: two raw data give a second run on the other executer, or one that waits
while the first ends. A run that met a deleted graph stops the model
(`crashed`), and the properties speak of runs before that; it takes a cancel.
`CHECK_DEADLOCK FALSE`: all runs may be
over.

Fairness: the worker pool runs what it was given, and the message loop of the
starting thread goes on. Items return. Nobody has to cancel, stop or send data.

### Theorems (`ChnlCalcProofs`)

For any group without a cycle, any number of executers and runs, and
cancellations at any moment, from the assumptions that `CalcExecuter` states
(`GraphAssumption`, which is the code's `DCHECK(group->NoCycle())`,
`ItemsAssumption`, `RunsAssumption`):

- `CalcInvariance`: `CalcSpec => []CalcInv`, and `CalcTypeCorrect`;
- `ItemsRunOnceInOrder`: `OnceInOrder`;
- `FinishedIsComplete`: `FinishIsComplete`.

`OnceInOrder` is the part `Fates` of `CalcInv` and needs all the others. A worker
that marks its item trusts that the walker is still that of its run; two runs
never share one, and a `StartRun` that has not entered the lock has not touched
it (`Starts`). What it finds runnable was not posted before and has its needs met,
because an edge goes only when its first item has ended (`Graphs`). An item is
in the pool once, so that none is marked twice (`PoolItems`). For
`FinishIsComplete` the graph must be used up for the right reason: an item with
no edge that was never posted needs one that failed or one that is lost itself,
which by the absence of cycles leads to a failure (`GraphEnds`). What is
announced then stays true, since nothing of the run is left in the pool (`Ended`), and
the mail of a run is in order (`InMailOrder`). There is one lemma per action.

`ManagerKeepsToExecuter` proves `ChnlSpec => ImplementsExecuter` from `ChnlInv`: all
runs but the last are over, and no `StartRun` is under way while a finish is
handled. `OnAsyncTaskFinish` therefore starts the next run only when the executer
is free, although it does so before it has recorded the last one. `ChnlOnceInOrder`
and `ChnlFinishIsComplete` follow by refinement, for any number of raw data.

Model-checked only: `EveryRawCalculated` (liveness).

### Findings

- A cancelled run is announced as over by the first worker that sees the
  cancellation, while others are still in an item. A caller that waits for that
  announcement and then starts again takes the graph away from under them.
- `OnAsyncTaskFinish` starts the next run before it records `calc_result_`, which
  by then is the new run's.

### Left out

`ReProcessRawForUI`, which has no caller and is the only caller of `Cancel`;
`Cancel` is modelled all the same, as an operation of the class.
`NotifyProgress`, `NotifyError`, which `CalcExecuter` does not use, are in
`AsyncTask` only. `NodeFailed` takes all that depends on the failed node at once;
the loop at `calc_group.cc:164` compares with an iterator that its inner loop may
have erased, which a set of edges does not show. An empty group. The
rate control between `ui_queue_` and `time_`: `CalcForUI` is a free choice. A
second `Start` of `CANScopeChnlCalc`, which builds new executers.

## 7. Devices come and go: `Devices`

From the plug to the end of the program: `CANScopeDeviceFinder`,
`DevicesManager`, `CANScopeDeviceRunner`, `CANScopeDevice` with `DeviceManager`,
`CANScopeProcess` and the handle on the TASK thread. A task of a thread is one
step, but for the round of the finder, whose enumeration is stale by the time it
is used. `queue[t]` are the tasks posted to thread `t`, first in, first out.

| Code | Actions |
|---|---|
| `CANScopeDeviceFinder::LoopRunImp`, `DevicesManager::DeviceListChanged` | `Enumerate`, `DeviceListChanged` (the merge), `OpenFound` and `CloseLost` (one device each, outside the lock), `EndRound`, `FinderEnds` |
| `OpenDevice`, `CloseDevice` | `Request` posts, `OpenTask`, `CloseTask` run `OpenDeviceImpl`, `CloseDeviceImpl` |
| `CANScopeDeviceRunner::DeviceStateChanged` | `StateChanged` |
| `DestroyDevices` | `DestroyDevices` |
| `StartDestroying`, `DestroyPos`, `DeleteDeviceImpl` | `DestroyPos`, `DeleteDeviceImpl`; `Release` drops references |
| `CANScopeProcess::Observe` | `Created`, `StartDestroy` on the UI thread |
| `CANScopeDeviceHandle` on the TASK thread | `TaskStep` |
| `Close`, `DevicesManager::Destroy`, `ShutdownThreadsAndCleanUp` | `Close`, `DestroyManager`, `JoinDevice`, `JoinTask` |
| USB, external | `Plug(p)`: in, out, in again; `Rank`: the order in which `EnumDevices` lists the places |

| Run | Instance | Shows |
|---|---|---|
| `devices` | two places to plug a device in, the program and three ways tests create the manager, 3 plugs, opens that fail any number of times, 2 calls of a user, fairness | `PointersAlive`, `NothingOpenAtEnd`, `FirstIsOpened`, `ProcessEnds` |

Bounds: two places, so that one device can come while another leaves; three
plugs let a device leave and come back, or two come and one leave; `MaxQueue`
only keeps the finder, which waits a second between rounds, from running while a
task waits longer than that. With more than `MaxDevices` objects alive an open
waits for one to go; four are enough for a device at each place, the one it
replaces and what an open that failed left behind. Two calls of a user are an open
and a close, or two of either. `CHECK_DEADLOCK FALSE`: a program that has ended
has ended.

Fairness: weak for the tasks of the device, UI and TASK threads, which serve
their queues; strong for `Enumerate`, which the bound `MaxQueue` takes away again
and again, as the second of delay does not; and strong for the open of a device in
`Sound`, which may fail often but not each time it is tried. Users, the bus and
the other devices owe nothing.

`FirstIsOpened` is about the first device of the list. `DeviceListChanged` opens
`copy_devices[0]` and nothing else until that has succeeded: a first device that is
tried again and again is opened at last, whatever comes and goes behind it. A
second one beside a first that fails each time stays closed for ever
(`AnyIsOpened`, Known disagreements).

Not covered by the properties, and so in the code:

- a runner compares a device's status with its own `status_`, which nothing sets
  to offline, so a device that comes back is never opened again (`BackOnline`,
  Known disagreements);
- the finder looks whether the manager is still there, but a notice of its last
  round may reach a runner after `DevicesManager::Destroy` has cleared `g_manager`,
  and the runner does not look (`phase = "crashed"`, `ManagerIsThere` in Known
  disagreements; `ProcessEnds` counts it as an end);
- the TASK thread's own raw `device_` may outlive the device, as nobody waits for
  it before the device thread is joined; and if the device thread ends first,
  the last `Release` posts a deletion that is never run;
- `OpenDevice` of the port leaves the pipes it got open when a later one fails;
  they are closed when the object goes, which `PortFree` waits for.

### Theorems (`DevicesProofs`)

For any places, plugs, failures to open, users' calls and ways to create the
manager that `DevicesAssumption` admits: there is a place to plug a device in, and
the program itself creates the manager to open the first device, and to leave one
that went offline open (`canscope_process.cc:100`).

- `DevicesInStep`: `DevicesInv` is inductive. It is `DevTypes`, `EndInv` and
  `OneDevice`.
- `DevicesOutlivePointers`: `PointersAlive`.
- `ClosedStaysClosed`: `NothingOpenAtEnd`.

`EndInv` is about the order of the device thread's tasks. `Close` stops the finder
before it posts "destroy all", and a round that is under way on the device
thread ends before that task can begin. So nothing that opens a device stands behind that task
(`OpenLast`), and after it nothing is open, no round is under way and nothing that
opens is queued (`NothingOpen`).

`OneDevice` is about the life of the one device that the program opens, in four
stages: none was opened yet (`Stage0`); one was, and its creation is all that the
UI thread is to hear (`Stage1`), which it does before anybody can close the
program; the UI thread has a reference to it, so that no task of deletion is
queued for it (`Stage2`); it is gone, and nothing is left that tells of its
creation (`Stage3`). Up to the second one, at most one task would end any device,
and only one that the UI thread was never told of (`EndsOnce`). `PointersAlive`
alone is not inductive: it says nothing of a deletion that is queued.

An object of a device is a member of `Ids`; `MaxDevices`, how many there are, is a
bound, and a device is opened only while one is free.

### Left out

`auto_open_all_` and `auto_close_offline_` have no user in the product
(they are modes of the run); the loops that the runner starts (sections 5, 10).

## 8. Settings: `OscRegisters`, `Settings`

`OscRegisters` says what a property means for the hardware: which of the five
registers of `OscDevice` depend on it, and which of them each setter writes, in
its order, up to the first write that fails (`CHECK_DEVICE`). A register holds
the values it was computed from (`Image`), so that one that is not rewritten is
seen to be old; `missed` are the registers whose write failed, `stale` the fields
whose properties changed without a handler.

`Settings` adds the threads: handles call, the device thread runs, makes a new
config and notifies, and the handles fetch.

| Code | Actions |
|---|---|
| `Property::set_value` | `SetValue`, or with an `AsyncTask` `SetValueAsync` |
| `ScopedDevicePropertyCommit` | `Commit` (`CommitSync`, `CommitAsync`): the handle's whole store |
| on the device thread | `SetValueImplSync`, `SetValueAsyncImpl` (which may find its task cancelled), `CommitSyncImpl`, `CommitAsyncImpl`; each with the handlers of `OscRegisters` and `UpdateConfig` |
| return of the wait, with `FetchNewPref` | `Return` |
| `DeviceHandleBase::Observe` | `Observe` |

| Run | Instance | Shows |
|---|---|---|
| `settings` | two handles, one of which also batches and calls asynchronously; a range, a coupling and the trigger source; two changes; writes that fail; fairness | `RegistersFollow`, `ReadsOwnWrite`, `StoreIsConfig`, `HandlesSettle` |

Bounds: the three properties are one that three registers depend on, one that is
in a register with others, and the one that changes which channel the trigger
level comes from. Of the five writes of the opening none, the first two or all
succeed (`InitWrites`; the theorems are for any). Two changes let one overtake the notification of the other; a
third meets nothing new, since a handle only ever fetches the last config.
`CHECK_DEADLOCK FALSE`: users may stop.

Fairness: the device thread serves its tasks, and a handle's thread goes on and
handles its notifications. Nobody has to change anything.

### Theorems (`DeviceThreadProofs`)

For any handles, any of them batching, any properties set, any number of
changes and an opening that fails at any write. `SettingsInv` is inductive: the domains, `RegInv`, `ReadsOwnWrite` and
`StoreIsConfig`. `RegistersFollow` alone is not: a handler writes a whole
register though it recomputes only the fields it knows of, so that what it
writes for the others must be right already. `RegInv` says so in two parts: a
register that is not `missed` has its image (`HasImage`), and the image of a
field that is not `stale` follows the properties (`ImageFollows`).

| Theorem | From |
|---|---|
| `RegistersAlwaysFollow` | `OthersUnchanged`: for each property and each field that its handler does not compute, the field's image is the same before and after. This is the table of dependencies checked line by line, the trigger levels included, whose channel is itself a property. `ComputedAreWritten`: what is computed is written, or missed |
| `CallerReadsItsWrite` | `UpdateFacts`: a new config has the next id; a thread is signalled after its config has been made, and fetches the last |
| `StoreIsAConfig` | `FetchFacts`: a store is replaced as a whole, with the id that goes with it; the configs before it never change |
| `SettingsInvariance` | the steps, one lemma per task of the device thread and per call of a handle |

Observations, true of the code:

- `CHECK_DEVICE` leaves a setter at the first failed write, and `set_value`
  reports success all the same (the TODO of `property.h`); a config then has
  values that the device does not.
- A batch sends the store of its handle, with what another handle has changed
  since as it was before: that change is undone.
- An asynchronous commit that is cancelled leaves values in the handle's store
  that the device never got, until the next fetch (`local`).
- `SyncCall` asks whether it is on the device thread the wrong way round and
  would wait for itself there; it has no caller there.

Left out: the lock of `DeviceBase` and its sequence numbers, which only tests
use; types and serialisation of values, which are in `PropertyStore`.

## 9. The registers bit by bit: `RegisterMap`, `Simulator`, `Registers`

Where `OscRegisters` says when a register is written, these say what is in it:
`RegisterMap` where every field is, `Simulator` what the simulated device does
with its registers and makes of them, `Registers` what `OscDevice` and
`FrameDevice` write. An image is the set of the bits that are one, numbered from `kBaseAddr`;
a field is the sequence of its bits (`Bytes`, `Sub`, `Split` are the three kinds
of bind), and a part the range of an image that one call writes.

| Code | Definitions |
|---|---|
| the binds of device/ and the `*_register.cc` constructors | `RegisterMap`: `Put`, `Get`, `SetBool`, `Toggle`; `SJA1000`, `WaveStorage`, `SoftDiff`, `FrameStorage`, `AnalogCtrl`, `AnalogSwitch`, `Trigger1`, `Trigger2` |
| `osc_device.cc` | `SetSoftDiff`, `SetAnalogCtrl`, `SetAnalogSwitch`, `SetTrigger1`, `SetTrigger2`, `CH_ZERO`, `CMP_LOW`, `TriggerVolt`; actions `SetVoltRange`, `SetVoltOffset`, `SetCoupling`, `SetDiffCtrl`, `SetTime`, `SetTrigger` |
| `frame_device.cc` | `FrameFields`, `FrameWrites` |
| `CANScopeDevice::Init` | `Open` |
| `SimulateDeviceDelegate`, `CANScopeDeviceRegisterGroup` | `Simulator`: `OpenDevice`, `DownloadFPGA`, `SimWrite`, `WriteDevice`, `ReadDevice`, `InitDevice` |
| `osc_device_simulate.cc` | `Simulator`: `ShownRange`, `ShownOffset`, `ShownTimeBase`, `ShownTimeOffset`, `ToChnlValue` |

| Run | Instance | Shows |
|---|---|---|
| `registers` | a device that is off or still configured, both frame configs of the repository, 2 of 6 ranges, 2 time bases, an offset at the edge of the screen, times left and right of the middle, two properties set | `DeviceUnderstands` |

The properties of the frame device reach the hardware only when it is opened:
there are no setters, and `LoadConfig` has no caller. `OscDevice` and
`FrameDevice` share `SoftDiffRegister` and write overlapping parts of it, so that
an open first sends `fil_div` zero over what an earlier session left, and then
the value; the system range comes last.

`DeviceUnderstands` compares what was set with what the simulator, a second
reading of the same registers, makes of it: ranges, offsets, time base and
offset, the points of a trace and the trigger level. `MCRegisters` assumes, and
so TLC evaluates, that no two registers overlap and every write falls into one
(`WritesFit`), what the simulator takes and refuses (`SimulatorServes`,
`AlwaysTriggered`), that a sample at a voltage is a step from the level that
triggers there, in every range (`SamplesMatchLevels`), and the unit tests of
registers and binds (`TestsPass`).

Bounds: the ranges and time bases are the ends of their tables;
a field is computed from at most one of each. Two calls let one handler meet
what another has left. `CHECK_DEADLOCK FALSE`: users may stop.

The assumptions and guards of the properties name what the code does not cover,
found by evaluating the same formulas outside of them:

- the product in `SetTrigger1` leaves 32 bits from 200 ms per division on
  (`DeviceK` 8; from 500 ms with 2), hence `TimeBases \subseteq 0 .. 15`; the
  entry of `kCOE` for 1 s is 1999999;
- a trigger further from the middle than half of the screen makes `SetTrigger1`
  cast a negative double to `uint32` before it takes the maximum with 8, hence the
  bound of `TimeOffsets`;
- `high = low + 3` or `+ 15` is a byte and wraps for a level less than 15 steps
  below the top, so that the upper level is below the lower;
- `CH_ZERO` of an offset below the screen is negative, wraps in 16 bits, and the
  simulator reads it unsigned; its `UpdateTriggerBase` overflows from 100 ms on,
  and subtracts unsigned numbers, so that a time left of the middle comes out
  as 2^32 ns less (`TimesShown` asks for times from zero on);
- `baud * bit_sample_rate` overflows an `int` at the defaults (harmlessly: only a
  quotient is used); at 500 kbit/s the rate becomes 1 Hz, the frame length zero,
  and `wave_end` a division by zero; with the default of 50 % `wave_start` is
  beyond the memory.

Left out: calibrated offsets, the wave the simulator invents, and
`FpgaSend` of the frame handle, which only tests call; its register is there.

## 10. The USB port and the frame collecter: `UsbPort`, `FrameCollecter`

`UsbPort` is a call of the port as the transfers it consists of. Commands and
answers go through one pipe each way, samples and frames through a third; only
the id of the command ties an answer to it, and nothing ties data to the request.

| Code | Actions |
|---|---|
| `SetCmd`, `SendCmd`, `WritePort` | `SendCmd` |
| reading the answer | `ReadResponse` |
| `ReadEP3` | `ReadEP3`, one unit at a time |
| `CloseDevice` | `CloseDevice` |
| the device, external | `HandleCommand`, `StoreFrame`: it answers late or never, and stores frames at will |

`FrameCollecter` extends it and `ThreadedLoop`; `DoCleanLeftover`,
`DoCheckCollect`, `DoWaitFull`, `DoCollect` are the states of
`FrameDataCollecter::OnLoopRun`, each asking the device through the port and
each with a disjunct for a device error (`DeviceOffine`). `OtherCall` are the
oscilloscope collecter and the settings on the same thread, `Close` is
`CANScopeDeviceRunner::CloseDevice`.

| Run | Instance | Shows |
|---|---|---|
| `frames` | frames of 3 units, a buffer of 5, 9 units in all, a transfer that fails, another user of the port, two runs, a close, fairness | `OwnAnswer`, `FramesInOrder`, `AlignedUnlessCut`, `FrameStopEnds` |

Bounds: the buffer is no multiple of the frame, as in the code (5 MiB, and frames
of 48 bytes), so that one full buffer cuts a frame, and nine units fill it
once with frames left over. One failed transfer leaves an answer, or data, behind
for each later call. `OwnAnswer` speaks of these calls too: `alone` remembers whether one began with empty pipes, and one that did gets its own answer and data
whatever failed before; until a transfer fails (`broken`) every one begins so. Of
one that did not, the code promises nothing: it compares the command's id only.
`CHECK_DEADLOCK FALSE`: a stopped loop on a quiet bus has nothing to do.

Fairness: the device thread runs its tasks and a transfer ends, since it has a
time-out. `SF` for the loop, because other calls of the port come in between.
That `MaxUnits` bounds the frames is what makes `FrameStopEnds` hold: cleaning
goes on as long as frames arrive, which only a quiet bus ends.

Observations: after a failed transfer a later read gets what the earlier left,
as only the command id is compared; a buffer that is filled cuts a frame, and
the rest makes `next_state_` none, which the next `CHECK_NE` ends the program
for (`FrameKnowsNextState`, Known disagreements); an overflow of the device's storage is
only logged.

### Theorems (`DeviceThreadProofs`)

For any size of frames and of the buffer, any number of units, of failed transfers, of
calls of others, of runs and closes, from `UsbAssumption` and `BufferAssumption`.
`FramesInStep` is the inductive invariant `FrameInv`.

| Theorem | Property | From |
|---|---|---|
| `CallsGetTheirOwn` | `OwnAnswer` | `OwnPipes`: in a call that began with empty pipes nothing is in them but what belongs to it, also when it fails. `InStep`: while no transfer failed, a call ends with empty pipes |
| `FramesComeInOrder` | `FramesInOrder` | `InOrder`, which holds whatever fails: what was pushed, what the call has read and what is in the pipe follow each other in order, and the device has sent nothing beyond. `Stock` and `Number`, which hold while nothing failed: these have no gap, and with what was cleaned add up to what the device sent; and it is never asked for more than it has |
| `RunsEndCutOnly` | `AlignedUnlessCut` | `Whole`: unless a bulk was cut, what was taken so far and what is asked for are whole frames; with `Number`, so is what the device says it has |

`pushed`, `cut` and `cleaned` are history: the units pushed, whether a bulk was cut at
the size of the buffer, and how many units `DoCleanLeftover` threw away. None of
the properties is about a single run: the invariant holds through stops,
starts, single runs and closing.

The loop around it: `FramesAreALoop` says that `FrameSpec` implements
`ThreadedLoop`, with one client more. The mapping is the identity on the loop's
variables; the client more (`CloseThread`, anything that is not a client) is
`CANScopeDeviceRunner::CloseDevice`, which stops the loop from the device thread
itself and never starts it, so that `Close` is its `Stop`, or a stutter when the
loop is stopped or stopping. That it has no post under way needs
the invariant of the loop (`posting` are clients), which is proved first:
`FrameLoopInStep`, from the lemmas of `ThreadedLoopProofs` for every step of the
loop and `CloseKeepsLoop` for this one. `FrameLoopIsUnique` is `OneLoop`. The
collecter has no view of its own: `FrameNext` never tells one.

### Left out

`DownloadFPGA`, port 2 and I2C, which the delegate does not use; the
delays between rounds.

## 11. Waves: `Waves`

One thread, but observers upon observers: `Oscilloscope` puts the wave of a
channel into a container, `ClassifyWaveControl` moves it, the view of each
container keeps a `CommonOscWaveGroup` whose parts are shared by its waves, and
`WaveDragController` follows the mouse through all of it.

| Code | Actions |
|---|---|
| `QueueUpdate`, `UpdateControl` | `FirstResult`, `LaterResult` (another trigger source) |
| `set_show_model` | `SetShowModel` |
| `Handle::OnMousePressed`, `OnMouseReleased`, `VisibilityChanged` | `PressHandle`, `ReleaseHandle`, `HiddenInHand` |
| `YTWaveContainerInnerView::OnMousePressed`, the controller | `PressView`, `DragView`, `ReleaseView` (`Drop` where `GetIndicate` says), `Escape`, `CaptureLost` |
| `ListItemsAdded`, `ListItemsRemoved`, `AddOscWave`, `RemoveOscWave` | the operators of those actions on the list of containers |

| Run | Instance | Shows |
|---|---|---|
| `waves` | the program's three channels, a control 17 pixels high with edges of 2 | `BarsFollow`, `HandleFindsWave`, `DragReady` |

The instance is the program's own but for the height: 17 pixels give each of
three containers a middle, two edges and no more, and every height the mouse can
drop at is tried. Deadlock is checked.

Left out: painting and layout; `HardwareDiffChanged`, since `hardware_diff` never
becomes true in the product (`CANScopeChnlContainer` would then add the
differential channel twice); where a handle stands and what it sets, which is
`Handles`; a container that is removed while the mouse has hold of it, since
no button is pressed then. `part` stands for the trigger and the
horizontal part of a group, which are made, shared and re-pointed alike. The
button that changes the model is pressed with the mouse free.

### Theorems (`ScreenProofs`)

For any height and any edge, from `WavesAssumption`: an edge is at least as wide
as the pixels that are left over when the height is divided by three, and a third
of the height is more than two edges. Without the first the pixels below the last
container would name a gap that is not there; the code's edge is 8.

- `WavesInductive`: `WavesInv` is inductive.
- `BarsFollowWaves`, `HandleFindsItsWave`, `DragIsReady`: `BarsFollow`,
  `HandleFindsWave`, `DragReady`.

`WavesInv` is the types, `Arranged`, `NumberedList` and `HandOn`. `Arranged(s, P, E)`
says of a screen that the waves of `P` are each in one container, that the
containers have distinct ids, that those with an id in `E` may be empty and no
others, and that the group, the part and the handle of each agree with its waves
(`BarsOf`). Between the steps `P` is every wave, or none before the first result,
and `E` is nothing. A step is a chain of operations that add and remove a wave and
make and drop a container, and in the middle of one a wave is in no container and
a container has no wave: for each operation a lemma says what it does to `P` and
`E`, so that a step follows by composing them. `HandOn` says whose session is open
for what the mouse has hold of, and that a drag not cancelled still has its wave
first in the container it began in. `HandleFindsWave` needs that a shown handle is
one whose part is the trigger's wave, which `BarsOf` keeps; the converse is false
(`TriggerHandleShown`, below).

Where a wave is dropped is arithmetic: `CountIs` bounds the containers by the
three waves, and `TargetIsThere` says that for every pixel `GetIndicate` names a
container that exists or a gap next to one. The lists are finite, so a new view's
id, one more than the greatest, is new (`NewIdIs`).

## 12. Threads and notifications: `Threads`

The named threads from `CreateThreads` to `ShutdownThreadsAndCleanUp`, the
blocking pool, and the notifications that go over all of them. `Devices` shows
what the program does with these; here any task may do anything.

| Code | Actions |
|---|---|
| `PostTaskHelper` | `BeginPost` (lock or none, the look at the loop), `EndPost` (the post itself, unlock); `PostTask`, `NotifyAll` and the pool say who is next |
| `NotificationServiceImpl`, `NotificationRegistrar` | `Add`, `RemoveReg`, and `Notify`, the four lists an event goes through |
| `CreateThreads` | `Construct`, `StartWithOptions`, `SetUpThreadPool` |
| `MainMessageLoopRun` | `Event`, `RunTask(UI)`, `Quit` |
| `ShutdownThreadsAndCleanUp` | `Shutdown`, then `Stop`, `CleanUp`, `LoopEnds`, `Joined` for each thread, `ShutdownThreadPool`, `CleanUpMain`; `DeleteProcess` |

| Run | Instance | Shows |
|---|---|---|
| `threads` | all threads, a worker of the pool, 4 registrations on the main thread, 3 calls, fairness | `UnlockedIsSafe`, `OutlivedIsRun`, `ToldOnce`, `ShutdownEnds` |

Bounds: a post takes one poster and one target, so three calls let the target of
one be the poster of the next, up or down the order of the threads, while a third
is under way. The registrations are all four kinds (of one or all types, of one
or all sources); they are on the main thread because a service is used by its own
thread only. `CHECK_DEADLOCK FALSE`: a program that has ended has ended.

Fairness: weak, for every thread, poster and worker: they wait for nothing but
the lock, which is held for one step. Nobody has to quit.

`OutlivedIsRun` excepts the main thread, whose loop has been left when the others
are joined: what these post to it at the end is dropped with the loop, and
nothing in the program counts on it. Not a property of the code, and so not
stated: a post *with* the lock, to a thread that does not outlive the poster, may
still meet a loop that is just ending, as `base::Thread` clears its loop without
the lock (`crashed` in `EndPost`); `common_thread.h:50` says that there are no
race conditions. The program posts from TASK to DEVICE with such a lock.

### Theorems (`ThreadsProofs`)

For any registrations and any number of posts. `ThreadsLife` is the inductive
invariant `ThreadsInv`; from it `ThreadsTypeCorrect` (`ThreadsTypeOK`),
`UnlockedPostsAreSafe` (`UnlockedIsSafe`), `OutlivingThreadsRunAll`
(`OutlivedIsRun`) and `RegisteredAreToldOnce` (`ToldOnce`).

The argument is the comment in `PostTaskHelper` made exact. The main thread makes
the named threads in the order of their identifiers and ends them in the reverse
one, one at a time (`MainLife`, `ThreadLife`): a thread that has yet to be joined
has every thread before it alive. A post without the lock goes to one before the
poster, and the poster, being in the middle of it, has yet to be joined
(`PostLife`). What is queued names its poster, so that what is dropped when a
loop ends can be compared with it: once a thread has cleaned up, nothing that it is
still given is from a thread it outlives (`QueueLife`), since those were joined
before. While a service lives, what is registered on its thread is in its
lists and nothing else is (`NotesLife`), and the four lists of an event have no
registration in common, which gives `ToldOnce`.

### Left out

Delays, nested loops, sequenced tasks of the pool. `GetCurrentThreadIdentifier` looks
through the loops of all threads without the lock at every post
(`common_thread_impl.cc:402`); `BeginPost` takes the current thread as known.

## 13. Handles and measure lines: `Handles`

One container from the inside. A handle is dragged in pixels, `DelaySetter` sets
the device at the press, at the release and every 300 ms between; what is on the
screen comes from the last result, which knows an older config; pixels become
values and back through a transform that every zoom, result and layout changes.

| Code | Actions |
|---|---|
| `Handle::OnMousePressed`, `OnHandleActive`, `BeginSet` | `Press` |
| `OnMouseDragged`, `SetValue`; `OnDelayPast`; `OnHandleReleased`, `EndSet` | `Move`; `DelayPast`; `Release` |
| `SelectWave`, from a press or the menu | `ActiveHandle`, `ActiveWaveBarHandle` |
| `ZoomInX` and the like, `OnMouseWheel` | `Zoom`, `Wheel` |
| `ToggleShowVerticalSingle`, `OnPosChanged`, `Layout` | `Toggle`, `DragLine`, `Layout` |
| a result collected and calculated, `QueueUpdate` with `OscConfigChanged` and `OnOscWaveChanged` | `Acquire`, `QueueUpdate` |

`Pixel`, `ReverseDouble` and `SymmetricRound` are the functions of `transform_util.cc`
in integers; the assumption that a range is a multiple of the view's size keeps
a pixel's value an integer, and what is lost to rounding is lost in the model
too. `Notified` says which handles a change reaches: the cases of
`OnOscWaveChanged`.

| Run | Instance | Shows |
|---|---|---|
| `handles` | two waves, a vertical line, 2 ranges, views of 2 and 4 pixels, 2 edits, a result on its way, fairness | `ScreenStands`, `LineKeepsPlace`, `SettlesAtRelease` |

Bounds: an edit is a press, a zoom, a turn of the wheel, a layout or a change of
a line; drags and timers within it are not counted. Two edits put any of them on
top of any other, with results of before, between and after them still on their
way. At the wider range and the smaller view a pixel is four units, at the
narrower and larger one unit, so every value between two pixels appears.
`CHECK_DEADLOCK FALSE`: the user may stop.

Fairness: the acquisition runs, and the message loop goes on. Nobody has to
release a handle, and the timer need not fire.

`SettlesAtRelease` excuses a release while another range (or, for the level,
another position of its wave) is on its way: the pixel is then turned into a
value by a transform that is already out of date, and the handle moves away.
`ScreenStands` excuses the trigger handle after a zoom of its wave (`lag`), which
is `LevelStands` below.

### Theorems (`ScreenProofs`)

For any waves, lines, ranges, sizes of the view, and any number of edits, from
`HandlesAssumption`: ranges are positive multiples of the positive sizes, and a
wave is none of the names that stand for the other axes.

- `ScreenInStep`: `HandlesInv` is inductive: `HandlesTypes`, `HandLife` (the
  bar of the handle that the mouse has hold of is the one in a session) and
  `ScreenStands`.
- `HandlesAndLinesStand`: `ScreenStands`.
- `LinesKeepTheirPlace`: `LineKeepsPlace`.

The key is `PixelOfReverse`: a pixel that becomes a value becomes the same pixel
again. For the rest, a handler that changes what is shown, the size or what is
dragged must tell each handle that stands elsewhere after it; one lemma per handler says
which ones it may leave alone, for each case of `Notified`. `SettlesAtRelease` is
liveness and stays with TLC.

### Left out

Another trigger source and waves that change container, which are in
`Waves`; `UpdateContainer`, since `hardware_diff` is never set; the `Layout` at
`single_line_view.cc:181`, which sets a line's point from the pixel it was just
computed from, and so to the same value; the waves of the simple view; the scaling of the axes' labels.

## 14. What is sequential: operators and unit tests

Some classes have no step that another thread could come between, or have one
only where a module above has it. They are operators from a state to the next,
and formulas about these: the unit tests of the repository, call by call with
the values they expect, and statements about every short row of calls. An `MC`
module instantiates each and assumes its formulas, so that TLC evaluates them at
the start of the run. A formula that a test states keeps the name of the test;
what it shows is that the model answers as the tests say the code does.

| Module | Code | Evaluated by | Beyond the unit tests |
|---|---|---|---|
| `PropertyStore`, `PropertyTests` | the value map store, its notifier and members, `OscDeviceProperty`, `FrameDeviceProperty`, the default config; `Property::set_value` and `CommitSync` on one thread, with `SetDeviceError` | `settings` | `DefaultsRead`: every default is a value its member takes; `ContentIsTaken`; `RefusedInBatch` |
| `RegisterTests` | the tests of the binds, of `RegisterMemory` and of the registers | `registers` | |
| `CalcGroupTests` | `FreeNode`, `NodeSuccess`, `NodeFailed` as loops over the edges | `chnl_serve` | `FailedTakesDescendants`: the walk of `NodeFailed` removes what `CalcExecuter` says at once, in every graph of three nodes without a cycle |
| `AsyncTask` | notifications, posted and delivered | `chnl_serve` | `OneLife`: a task survives exactly the rows that begin with one start and have at most one end, at the end, for any five calls; `AddedIsLost` |
| `DeviceList` | `MergeDeviceList`, which `Devices` uses for each round | `devices` | |
| `MemoryPools` | `MemoryUsagePool`, `MemoryFramePool` | `osc_collect` | for any five calls: the usage is what is out and within the limit, a callback that waits is short of memory, a frame is out or free, and `Alloc` fails when all are out and only then |
| `Channels` | `CANScopeChnlContainer` and `CANScopeChnl` on a `PropertyStore` | `handles` | `SettersReachTheirOwn`: a setter changes what the same channel's getter reads of the next result, and no other getter; `DiffIsMadeAndUpdatedApart` |

Observations:

- `ChangeContent` tells observers of each value as it goes, with the store half
  changed: an observer that reads another value may get the old one.
- A value that is refused as the last one of a batch leaves its error in place,
  and the end of the scope, which reports with `SetDeviceError`, fails its
  `DCHECK` (`RefusedInBatch`).
- `NotifyProgress` with `add` adds to the progress that has arrived, not to what
  is posted: of two that are added at once the first is lost (`AddedIsLost`).
- `SetFreeCallback` with enough memory runs the new callback and leaves an
  earlier one armed.
- A container made for a result with `hardware_diff` has another channel than one
  that is updated to it, and an update back adds a channel twice
  (`DiffIsMadeAndUpdatedApart`). No device of the program sets it.
- `HOffset` divides by 1e-9 what `OscDevice::SetTrigger1` and the simulator take
  for nanoseconds, and `SetHOffset` multiplies, so that the waves read back what
  they set, in seconds as `chnl.h:22` says, and the device gets 1e-18 of it: a
  horizontal drag moves nothing but the handle. `Channels` and `Handles` are in the
  units of the screen, and do not show this; `Registers` is in those of the device.

## Known disagreements

Properties that restate what a comment or an assertion of the code says, or what
a user would take for granted, and that the model violates as the code does. They are definitions of their modules; a
configuration like the named run's, with the constants given and the property in
place of the run's own, shows the counterexample.

| Property | Module, instance | What the code does |
|---|---|---|
| `QuitWakesEveryone` | run `queue_quit_hang` | `Quit()` on an empty queue wakes nobody (`sequenced_bulk_queue.h:537`) |
| `NoCallbackIntoDestroyed` | `MCBulkQueue`; one async reader in `CloseArmed`, `MaxPush = 2` | a reader leaves `callback_map_` after `~Reader` (`sequenced_bulk_queue.cc:454`) |
| `FinishIncludesQuit` | `MCManyReader`; as `queue_recycle` with `CanQuit = TRUE`, `MaxPush = 2` | a reader that `Quit()` woke while its thread slept on others is left out of the list, which should "include quit" (`sequenced_bulk_queue.h:39`) |
| `OneIsEnough` | as above | a wait for many sleeps for the readers that have nothing while another is finished (`sequenced_bulk_queue.cc:54`) |
| `OnlyOverwriteLoses` | `MCBulkQueue`; one async reader in `EagerReaders`, `OverWrite = FALSE` | the callback of `CANScopeChnlCalc` asks for the next bulk before it takes its own (`canscope_chnl_calc.cc:90`) |
| `SeenFromTheStart` | `MCOscCollecter`; as `osc_collect` | a view looks before it registers and misses what happens between (`canscope_view.cc:167`) |
| `KnowsNextState` | `MCOscCollecter`; as `osc_collect` | a failed allocation sets no next state (`osc_data_collecter.cc:129`) |
| `FrameKnowsNextState` | `MCFrameCollecter`; as `frames` with `MaxFault = 0`, `MaxLeft = 0` | a count of cut frames sets no next state (`frame_data_collecter.cc:108`) |
| `NoLateItem` | `MCChnlCalc`; as `chnl_serve` | an item of a cancelled run works on a graph that is deleted (`calc_executer.cc:63`) |
| `RecordsFinished` | `MCChnlCalc`; as `chnl_serve` | the result recorded is that of the next run (`chnl_calc_manager.cc:90`) |
| `AnyIsOpened` | `MCDevices`; as `devices` with `Sound <- Second` | only the first device of the list is ever tried (`devices_manager.cc:111`) |
| `ManagerIsThere` | `MCDevices`; as `devices` | a runner that is told of the last round asks for a manager that is gone (`canscope_device_runner.cc:125`) |
| `BackOnline` | `MCDevices`; as `devices` | a device that comes back is not opened again (`canscope_device_runner.cc:128`) |
| `AllCounted` | `MCSettings`; as `settings` | a cancelled write is never counted down, and `~Property` CHECKs the count (`property.h:194`) |
| `LevelStands` | `MCHandles`; as `handles` | a zoom of the trigger's wave tells the vertical bar only, the trigger handle stays where it was (`common_osc_wave_group.cc:290`) |
| `QuietAfterRelease` | `MCHandles`; as `handles` | the timer of a handle goes on after the release and sets its pixel once more (`delay_setter.cc:60`) |
| `PressKeeps` | `MCHandles`; as `handles` | a press sets the value of the handle's pixel, which is rounded, or stale (`delay_setter.cc:38`) |
| `LabelIsFresh` | `MCHandles`; as `handles` | a line makes its label before it is moved (`single_line_view.cc:184`) |
| `TriggerHandleShown` | `MCWaves`; as `waves` | a shared trigger part shows its handle for the wave it refers to only (`common_osc_wave_group.cc:365`) |

## Proved, model-checked, not modelled

Proved for every value of the constants, as far as the modules assume anything of
them:

| Section | Proved |
|---|---|
| 3 | the inductive invariant of `BulkQueue`, `RangeIsExact`, `NothingReleasedEarly`, `NoMissedWakeup`, `NeverStranded`, `NoStaleSignal`; `OnlyOverwriteLoses` for readers that are not eager; `BulkQueue` implements `BulkStream`; `ManyLeavesNothing`, and `ManyReader` implements `BulkStream` |
| 4 | the inductive invariant of `ThreadedLoop`, `OneLoop`, `SeenIsCurrent` |
| 5 | `OscCollecter` implements `ThreadedLoop`; `SingleCollectsOnce`, `LostWhenFullOnly` |
| 6 | for any group without a cycle `OnceInOrder` and `FinishIsComplete`; `ChnlCalc` uses `CalcExecuter` as it demands |
| 7 | the inductive invariant of `Devices`, `PointersAlive`, `NothingOpenAtEnd` |
| 8 | the inductive invariant of `Settings`, `RegistersFollow`, `ReadsOwnWrite`, `StoreIsConfig` |
| 10 | `FrameCollecter` implements `ThreadedLoop`, `OneLoop`; its inductive invariant, `OwnAnswer`, `FramesInOrder`, `AlignedUnlessCut` |
| 11 | the inductive invariant of `Waves`, `BarsFollow`, `HandleFindsWave`, `DragReady` |
| 12 | the inductive invariant of `Threads`, `ThreadsTypeOK`, `UnlockedIsSafe`, `OutlivedIsRun`, `ToldOnce` |
| 13 | the inductive invariant of `Handles`, `ScreenStands`, `LineKeepsPlace` |

Model-checked only: every liveness property, since liveness under fairness and
`ENABLED` are out of the prover's reach; and `DeviceUnderstands` of section 9
(`Registers`): its values are sums of powers of two over the bits of a register,
built by functions over data, and what such a function computes for every input
is an induction that the provers cannot do. Evaluated only,
over rows of calls or small graphs: the formulas of section 14, many of them
recursive, which the prover cannot do induction over.

Not modelled: `ReProcessRawForUI` and the scoped device lock, which only tests
use or nobody calls; painting, layout and the other panels of the user
interface; the algorithms that compute a channel from its samples, and the wave
the simulator invents; the unit tests that need a device, a second thread or a
window, whose subjects are the modules with steps. Views, their examples and
tests alone are about half of the repository's lines.
