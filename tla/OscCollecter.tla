---------------------------- MODULE OscCollecter ----------------------------
(***************************************************************************)
(* OscDataCollecter: the state machine that acquires oscilloscope samples   *)
(* (canscope/device/osc_device/osc_data_collecter.cc, data_collecter.cc).   *)
(* It is the job of a ThreadedLoop, it pushes what it reads into a          *)
(* BulkQueue, and the memory of a bulk comes from a MemoryUsagePool that    *)
(* the queue, the readers and their callers use up together.                *)
(*                                                                          *)
(* One call of OnLoopRun is one step, but for DoCollect, which takes the    *)
(* locks of the pool and of the queue again and again while readers run.    *)
(* Every device access may fail.                                            *)
(***************************************************************************)
EXTENDS BulkQueue, ThreadedLoop

CONSTANTS
  PoolBulks,   \* how many bulks fit into kOscMemoryUsage
  MaxKept,     \* how many bulks the callers of the readers keep at most
  ReRunners    \* the clients that call ReRun()

ASSUME PoolAssumption ==
  /\ PoolBulks \in Nat \ {0} /\ MaxKept \in Nat /\ ReRunners \subseteq Others

VARIABLES
  next_state,      \* next_state_
  step,            \* where DoCollect is; "call" outside
  stop_by_offine,  \* stop_by_offine_ of DataCollecter; no constructor sets it
  filling,         \* raw data is allocated and not yet pushed
  kept,            \* the bulks that callers of readers still hold
  rerunning,       \* clients in ReRun(), between Start() and the assignment
  mark             \* history: count when the run began

machineVars == <<next_state, step, filling, mark>>
oscVars == <<next_state, step, stop_by_offine, filling, kept, rerunning, mark>>

States == {"LOAD_CALIBRATE", "PRE_COLLECT", "CHECK_COLLECT", "COLLECT", "NONE"}

OscInit ==
  /\ Init /\ LoopInit
  /\ next_state = "LOAD_CALIBRATE" /\ step = "call" /\ filling = FALSE
  /\ stop_by_offine \in BOOLEAN
  /\ kept = {} /\ rerunning = {} /\ mark = 0

\* the bulk that a reader's temp_ptr_ holds until the next one or ~Reader
TempBulks ==
  {temp_count[r] : r \in {x \in registered : pc[x] \notin {"destroying", "leaving"}}}
    \ {Unread}

\* the bulks whose memory is taken from the pool
InUse == buffer_queue \cup TempBulks \cup kept \cup (IF filling THEN {count} ELSE {})

\* the flags, tasks and views of the loop while its job runs
LoopRest == <<flags, posting, loop_tasks, viewVars, runs>>

\* (slip) the collecter posts its next round itself
GoStraightOn(state, loop_state) ==
  /\ next_state' = state /\ step' = "call"
  /\ body' = IF state = "NONE" \/ loop_state = "STOP" THEN "done"
             ELSE IF loop_state = "NEXT_LOOP" THEN "repost" ELSE "body"
  /\ UNCHANGED LoopRest

\* the end of OnLoopRun, and LoopRunImp, which calls it again at IMMEDIATE; a
\* machine without a next state stops whatever its state said
Go(state, loop_state) ==
  /\ next_state' = state /\ step' = "call"
  /\ body' = IF state = "NONE" \/ loop_state = "STOP" THEN "done"
             ELSE IF loop_state = "NEXT_LOOP" THEN "more" ELSE "body"
  /\ UNCHANGED LoopRest

\* (slip) the machine is left without a next state
OffineForgets == Go("NONE", "STOP") /\ stop_by_offine' = TRUE

\* CHECK_DEVICE fails
DeviceOffine == Go("LOAD_CALIBRATE", "STOP") /\ stop_by_offine' = TRUE

Call(state) == body = "body" /\ step = "call" /\ next_state = state

DoLoadCalibrate ==
  /\ Call("LOAD_CALIBRATE")
  /\ Go("PRE_COLLECT", "IMMEDIATE")
  /\ UNCHANGED <<vars, stop_by_offine, filling, kept, rerunning, mark>>

DoPreCollect ==
  /\ Call("PRE_COLLECT")
  /\ \/ Go("CHECK_COLLECT", "IMMEDIATE") /\ UNCHANGED stop_by_offine
     \/ DeviceOffine
  /\ UNCHANGED <<vars, filling, kept, rerunning, mark>>

\* (slip) the trigger is awaited in one go, however long that takes
AwaitTrigger ==
  /\ Call("CHECK_COLLECT")
  /\ count < MaxPush /\ Go("COLLECT", "IMMEDIATE")
  /\ UNCHANGED <<vars, stop_by_offine, filling, kept, rerunning, mark>>

\* A few looks at the trigger: it came, it did not, or the device failed.  The
\* end of the time limit is treated as a failure too.  (Whether there is a limit
\* is read from limit_time_, which is never set: DoPreCollect assigns a local of
\* that name.)  The device triggers at most MaxPush times.
DoCheckCollect ==
  /\ Call("CHECK_COLLECT")
  /\ \/ count < MaxPush /\ Go("COLLECT", "IMMEDIATE") /\ UNCHANGED stop_by_offine
     \/ Go("CHECK_COLLECT", "NEXT_LOOP") /\ UNCHANGED stop_by_offine
     \/ DeviceOffine
  /\ UNCHANGED <<vars, filling, kept, rerunning, mark>>

\* DoCollect is about to try an allocation
Allocating == Call("COLLECT") \/ (body = "body" /\ step = "again")

\* DoCollect, AllocOscRawData: Alloc works unless the pool is used up
AllocOscRawData ==
  /\ Allocating
  /\ IF Cardinality(InUse) < PoolBulks
     THEN filling' = TRUE /\ step' = "read"
     ELSE step' = "recycle" /\ UNCHANGED filling
  /\ UNCHANGED <<vars, loopVars, next_state, stop_by_offine, kept,
                 rerunning, mark>>

\* ... then it has the queue drop a bulk and tries again
Recycle ==
  /\ body = "body" /\ step = "recycle"
  /\ RecycleOne
  /\ step' = "again"
  /\ UNCHANGED <<loopVars, next_state, stop_by_offine, filling, kept,
                 rerunning, mark>>

\* ... or, when RecycleOne has none, gives up.  DoCollect returns NEXT_LOOP and
\* leaves next_state_ as OnLoopRun had set it, to STATE_NONE.
GiveUp ==
  /\ body = "body" /\ step = "recycle"
  /\ registered = {} \/ Recyclable = {}
  /\ Go("NONE", "NEXT_LOOP")
  /\ UNCHANGED <<vars, stop_by_offine, filling, kept, rerunning, mark>>

\* ReadOscData; a failure gives the memory back
ReadOscData ==
  /\ body = "body" /\ step = "read"
  /\ \/ step' = "push" /\ UNCHANGED <<loopVars, next_state, stop_by_offine, filling>>
     \/ DeviceOffine /\ filling' = FALSE
  /\ UNCHANGED <<vars, kept, rerunning, mark>>

\* (slip) a single run goes on
PushAndGoOn ==
  /\ body = "body" /\ step = "push"
  /\ PushBulk
  /\ filling' = FALSE
  /\ Go("PRE_COLLECT", "NEXT_LOOP")
  /\ UNCHANGED <<stop_by_offine, kept, rerunning, mark>>

\* PushBulk and the end of DoCollect; single_ cannot change during a run
Push ==
  /\ body = "body" /\ step = "push"
  /\ PushBulk
  /\ filling' = FALSE
  /\ Go("PRE_COLLECT", IF single THEN "STOP" ELSE "NEXT_LOOP")
  /\ UNCHANGED <<stop_by_offine, kept, rerunning, mark>>

DoCollect == AllocOscRawData \/ Recycle \/ GiveUp \/ ReadOscData \/ Push

\* a machine without a next state runs into CHECK_NE, which ends the program
OnLoopRun == DoLoadCalibrate \/ DoPreCollect \/ DoCheckCollect \/ DoCollect

\* ReRun(), when the device is back online: Start() if the flag is set ...
ReRunStart(c) ==
  /\ c \in ReRunners \ rerunning /\ c \notin posting
  /\ stop_by_offine
  /\ rerunning' = rerunning \cup {c}
  /\ IF start \/ single THEN UNCHANGED loopVars ELSE Start(c)
  /\ UNCHANGED <<vars, machineVars, stop_by_offine, kept>>

\* ... and then clear the flag
ReRunClear(c) ==
  /\ c \in rerunning /\ c \notin posting
  /\ rerunning' = rerunning \ {c}
  /\ stop_by_offine' = FALSE
  /\ UNCHANGED <<vars, loopVars, machineVars, kept>>

\* requests, LoopRun around the job, and the views, as in ThreadedLoop
LoopStep ==
  /\ \/ LoopFrame
     \/ \E c \in Clients \ rerunning : Request(c)
     \/ \E c \in Clients : Post(c)
     \/ \E v \in Views : ViewStep(v)
  /\ mark' = IF running' /\ ~running THEN count ELSE mark
  /\ UNCHANGED <<vars, next_state, step, stop_by_offine, filling, kept, rerunning>>

\* a step of a reader; its caller keeps the bulk it is handed
Read(r) ==
  /\ ReaderStep(r)
  /\ kept' = IF got'[r] = got[r] THEN kept ELSE kept \cup {got'[r][Len(got'[r])]}
  /\ Cardinality(kept') <= MaxKept
  /\ UNCHANGED <<loopVars, machineVars, stop_by_offine, rerunning>>

\* the last reference to a bulk kept by a caller goes
Release ==
  /\ \E c \in kept : kept' = kept \ {c}
  /\ UNCHANGED <<vars, loopVars, machineVars, stop_by_offine, rerunning>>

OscNext ==
  \/ LoopStep \/ OnLoopRun \/ Release
  \/ \E r \in Readers : Read(r)
  \/ \E c \in ReRunners : ReRunStart(c) \/ ReRunClear(c)

allVars == <<vars, loopVars, oscVars>>

OscSpec == OscInit /\ [][OscNext]_allVars

\* The run thread runs its tasks and the job returns; a client that has begun
\* a request or a ReRun goes on with it.  Devices, readers and callers may do
\* nothing for ever.
OscFairness ==
  /\ WF_allVars(LoopStep /\ LoopFrame)
  /\ WF_allVars(OnLoopRun)
  /\ \A c \in Clients : WF_allVars(LoopStep /\ Post(c))
  /\ \A v \in Views : WF_allVars(LoopStep /\ StateChanged(v))
  /\ \A c \in ReRunners : WF_allVars(ReRunClear(c))

FairOscSpec == OscSpec /\ OscFairness

(***************************************************************************)
(* Properties.                                                              *)
(***************************************************************************)

\* The domain of every variable of this module.
OscTypeOK ==
  /\ next_state \in States
  /\ step \in {"call", "again", "recycle", "read", "push"}
  /\ stop_by_offine \in BOOLEAN /\ filling \in BOOLEAN
  /\ kept \in SUBSET (0 .. count - 1)
  /\ rerunning \in SUBSET ReRunners
  /\ mark \in 0 .. count

\* A run asked for by Single() collects once.
SingleCollectsOnce == single /\ running => count <= mark + 1

\* Between two calls of OnLoopRun the machine knows its next state
\* ("CHECK_NE(STATE_NONE, next_state_)", "DCHECK(loop_state ==
\* DataCollecter::STOP)" where it does not).
KnowsNextState == step = "call" => next_state # "NONE"

\* A device error in any state, a missing trigger, a stop or a single run leave
\* a state to go on from: only an allocation that fails for good does not.
LostWhenFullOnly ==
  [][next_state' = "NONE" => step = "recycle" \/ next_state = "NONE"]_allVars

\* A stop ends the run, also when the trigger never comes, unless the machine
\* has lost its state and the program ends.
OscStopEnds == stop ~> (~stop \/ next_state = "NONE")

\* The collecter is a job as ThreadedLoop expects it.
ImplementsLoop == LoopSpec
=============================================================================
