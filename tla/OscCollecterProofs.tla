------------------------- MODULE OscCollecterProofs --------------------------
(***************************************************************************)
(* Theorems about OscCollecter, which implements the loop it is the job of: *)
(* what is proved of ThreadedLoop is true of it.  For any readers, pool and *)
(* clients.                                                                 *)
(***************************************************************************)
EXTENDS OscCollecter, ThreadedLoopProofs

-----------------------------------------------------------------------------
(* The collecter. *)

\* A call of OnLoopRun is a step of the job, or none that the loop can see.
LEMMA JobSteps ==
  ASSUME OnLoopRun
  PROVE  LoopRunImp \/ UNCHANGED loopVars
<1> USE DEF loopVars, LoopRest, flags
<1>1. ASSUME NEW s, NEW l, body = "body", Go(s, l)
      PROVE  LoopRunImp \/ UNCHANGED loopVars
  BY <1>1 DEF Go, LoopRunImp
<1>2. CASE DoLoadCalibrate
  BY <1>1, <1>2 DEF DoLoadCalibrate, Call
<1>3. CASE DoPreCollect
  BY <1>1, <1>3 DEF DoPreCollect, Call, DeviceOffine
<1>4. CASE DoCheckCollect
  BY <1>1, <1>4 DEF DoCheckCollect, Call, DeviceOffine
<1>5. CASE DoCollect
  <2>1. CASE AllocOscRawData
    BY <2>1 DEF AllocOscRawData
  <2>2. CASE Recycle
    BY <2>2 DEF Recycle
  <2>3. CASE GiveUp
    BY <1>1, <2>3 DEF GiveUp
  <2>4. CASE ReadOscData
    BY <1>1, <2>4 DEF ReadOscData, DeviceOffine
  <2>5. CASE Push
    BY <1>1, <2>5 DEF Push
  <2> QED BY <1>5, <2>1, <2>2, <2>3, <2>4, <2>5 DEF DoCollect
<1> QED BY <1>2, <1>3, <1>4, <1>5 DEF OnLoopRun

\* Every step of the collecter, its queue, its readers and its clients is a step
\* of the loop or leaves it alone: nothing but requests and LoopRun touches the
\* flags.
THEOREM CollecterIsALoop == OscSpec => ImplementsLoop
<1>1. OscInit => LoopInit
  BY DEF OscInit
<1>2. [OscNext]_allVars => [LoopNext]_loopVars
  <2> SUFFICES ASSUME [OscNext]_allVars PROVE [LoopNext]_loopVars
    OBVIOUS
  <2>1. CASE UNCHANGED allVars
    BY <2>1 DEF allVars
  <2>2. CASE LoopStep
    BY <2>2 DEF LoopStep, LoopNext
  <2>3. CASE OnLoopRun
    BY <2>3, JobSteps DEF LoopNext
  <2>4. CASE Release
    BY <2>4 DEF Release
  <2>5. ASSUME NEW r \in Readers, Read(r) PROVE [LoopNext]_loopVars
    BY <2>5 DEF Read
  <2>6. ASSUME NEW c \in ReRunners, ReRunStart(c) \/ ReRunClear(c)
        PROVE  [LoopNext]_loopVars
    <3>1. c \in Clients
      BY PoolAssumption DEF Clients
    <3> QED BY <2>6, <3>1 DEF ReRunStart, ReRunClear, LoopNext, Request
  <2> QED BY <2>1, <2>2, <2>3, <2>4, <2>5, <2>6 DEF OscNext
<1> QED BY <1>1, <1>2, PTL DEF OscSpec, ImplementsLoop, LoopSpec

\* However device, readers, callers and requests interleave, one LoopRun of the
\* collecter is under way as long as it is wanted, and none otherwise.
THEOREM CollecterLoopIsUnique == OscSpec => []OneLoop
BY CollecterIsALoop, LoopIsUnique, PTL DEF ImplementsLoop

---------------------------------------------------------------------------
(* A single run. *)

\* As long as a single run has not ended its only round it has pushed nothing.
SingleInv ==
  /\ count \in Nat /\ mark \in Nat
  /\ single /\ running => /\ count <= mark + 1
                          /\ body # "done" => count = mark

\* Readers take bulks out of the queue and never add to what was pushed.
LEMMA ReadersPushNothing ==
  ASSUME NEW r \in Readers, ReaderStep(r)
  PROVE  count' = count
<1> USE DEF queueVars
<1>1. MayFireCallback => count' = count
  BY DEF MayFireCallback
<1>2. WaitStep(r) => count' = count
  BY <1>1 DEF WaitStep, WaitReady, WaitNotReady, SetReadyCallback, SetReadyFire, WaitReturn,
     CancelCallback, CallHaveData, GetResult
<1> QED
  BY <1>2 DEF ReaderStep, RegisterReader, WaitTimeout, Skip, DestroyReader, DestroyCancel,
     UnRegisterReader

\* A round of LoopRun begins a run at the present count, and goes on with it
\* only when it is not over.
LEMMA LoopStepKeepsSingle ==
  ASSUME LoopInv, SingleInv, LoopStep
  PROVE  SingleInv'
<1>1. UNCHANGED count /\ mark' = IF running' /\ ~running THEN count ELSE mark
  BY DEF LoopStep, vars
<1>2. running => start \/ single
  BY DEF LoopInv, StopHasTarget
<1>3. CASE LoopFrame
  <2>1. CASE Enter
    BY <1>1, <2>1 DEF SingleInv, Enter, EnterStop, EnterRun, Reset
  <2>2. CASE OnStateChanged \/ Repost
    BY <1>1, <2>2 DEF SingleInv, OnStateChanged, Repost, flags
  <2>3. CASE Leave
    BY <1>1, <2>3 DEF SingleInv, Leave, Reset, flags
  <2> QED BY <1>3, <2>1, <2>2, <2>3 DEF LoopFrame
<1>4. ASSUME NEW c \in Clients, Request(c)  PROVE SingleInv'
  <2>1. UNCHANGED <<running, body>> /\ (single' => single \/ ~running)
    BY <1>2, <1>4 DEF Request, Start, Single, Stop, Accept
  <2> QED BY <1>1, <2>1 DEF SingleInv
<1>5. ASSUME NEW c \in Clients, Post(c)  PROVE SingleInv'
  BY <1>1, <1>5 DEF SingleInv, Post, flags
<1>6. ASSUME NEW v \in Views, ViewStep(v)  PROVE SingleInv'
  BY <1>1, <1>6 DEF SingleInv, ViewStep, UpdateButton, AddObserver, StateChanged, RemoveObserver,
     flags
<1> QED BY <1>3, <1>4, <1>5, <1>6 DEF LoopStep

\* The job pushes at most once in a call of LoopRun, and is then done.
LEMMA JobKeepsSingle ==
  ASSUME SingleInv, OnLoopRun
  PROVE  SingleInv'
<1>1. CASE Push
  <2>1. count' = count + 1 /\ mark' = mark /\ body = "body" /\ UNCHANGED <<single, running>>
    BY <1>1 DEF Push, PushBulk, Go, LoopRest, flags
  <2>2. single => body' = "done"
    BY <1>1 DEF Push, Go
  <2> QED BY <2>1, <2>2 DEF SingleInv
<1>2. ASSUME ~Push  PROVE SingleInv'
  <2>1. UNCHANGED <<count, mark, single, running>> /\ body = "body"
    BY <1>2 DEF OnLoopRun, DoLoadCalibrate, DoPreCollect, DoCheckCollect, DoCollect,
       AllocOscRawData, Allocating, Recycle, RecycleOne, GiveUp, ReadOscData, DeviceOffine, Call, Go,
       LoopRest, flags, vars, loopVars
  <2> QED BY <2>1 DEF SingleInv
<1> QED BY <1>1, <1>2

\* A run asked for by Single() pushes at most one bulk, however long the device
\* makes it wait, whoever asks for what meanwhile (DoCollect, single_).
THEOREM SinglesCollectOnce == OscSpec => []SingleCollectsOnce
<1>1. OscSpec => []LoopInv
  BY CollecterIsALoop, LoopInvariance, PTL DEF ImplementsLoop
<1>2. OscInit => SingleInv
  BY DEF OscInit, Init, LoopInit, SingleInv
<1>3. LoopInv /\ SingleInv /\ [OscNext]_allVars => SingleInv'
  <2> SUFFICES ASSUME LoopInv, SingleInv, [OscNext]_allVars PROVE SingleInv'
    OBVIOUS
  <2>1. CASE LoopStep
    BY <2>1, LoopStepKeepsSingle
  <2>2. CASE OnLoopRun
    BY <2>2, JobKeepsSingle
  <2>3. CASE Release
    BY <2>3 DEF Release, SingleInv, vars, loopVars, flags, machineVars
  <2>4. ASSUME NEW r \in Readers, Read(r) PROVE SingleInv'
    BY <2>4, ReadersPushNothing DEF Read, SingleInv, loopVars, flags, machineVars
  <2>5. ASSUME NEW c \in ReRunners, ReRunStart(c) PROVE SingleInv'
    BY <2>5 DEF ReRunStart, Start, Accept, SingleInv, vars, loopVars, flags, machineVars
  <2>6. ASSUME NEW c \in ReRunners, ReRunClear(c) PROVE SingleInv'
    BY <2>6 DEF ReRunClear, SingleInv, vars, loopVars, flags, machineVars
  <2>7. CASE UNCHANGED allVars
    BY <2>7 DEF allVars, oscVars, vars, loopVars, flags, SingleInv
  <2> QED BY <2>1, <2>2, <2>3, <2>4, <2>5, <2>6, <2>7 DEF OscNext
<1>4. SingleInv => SingleCollectsOnce
  BY DEF SingleInv, SingleCollectsOnce
<1> QED BY <1>1, <1>2, <1>3, <1>4, PTL DEF OscSpec

\* Only an allocation that fails for good leaves the machine without a state to go
\* on from: no error of the device, stop or single run does (GiveUp of DoCollect).
THEOREM OnlyAFullPoolLoses == OscSpec => LostWhenFullOnly
<1> USE DEF vars, loopVars, machineVars
<1>1. ASSUME OscNext, next_state' = "NONE"  PROVE step = "recycle" \/ next_state = "NONE"
  <2>1. CASE OnLoopRun
    BY <1>1, <2>1 DEF OnLoopRun, DoLoadCalibrate, DoPreCollect, DoCheckCollect, DoCollect,
       AllocOscRawData, Recycle, GiveUp, ReadOscData, Push, DeviceOffine, Call, Go
  <2>2. CASE next_state' = next_state
    BY <1>1, <2>2
  <2>3. LoopStep \/ Release \/ (\E r \in Readers : Read(r))
          \/ (\E c \in ReRunners : ReRunStart(c) \/ ReRunClear(c)) => next_state' = next_state
    BY DEF LoopStep, Release, Read, ReRunStart, ReRunClear
  <2> QED BY <1>1, <2>1, <2>2, <2>3 DEF OscNext
<1>2. [OscNext]_allVars => [next_state' = "NONE" => step = "recycle" \/ next_state = "NONE"]_allVars
  BY <1>1
<1> QED BY <1>2, PTL DEF OscSpec, LostWhenFullOnly
=============================================================================
