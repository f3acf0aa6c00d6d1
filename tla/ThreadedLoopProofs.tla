------------------------- MODULE ThreadedLoopProofs --------------------------
(***************************************************************************)
(* Theorems about ThreadedLoop, for any set of views and of other clients   *)
(* and any number of runs.  The collecters, which are jobs of such a loop,  *)
(* take their facts about it from here.                                     *)
(***************************************************************************)
EXTENDS ThreadedLoop, TLAPS

\* A request to run is accepted only when there is no LoopRun, and makes its
\* client the one who will post it.
LEMMA RequestKeeps ==
  ASSUME LoopInv, NEW c \in Clients, Request(c)
  PROVE  LoopInv'
<1> USE ClientsAssumption, MaxRunsAssumption DEF LoopInv, Clients, viewVars
<1>1. CASE Start(c) \/ Single(c)
  <2>1. posting = {} /\ loop_tasks = 0 /\ ~Live /\ ~stop /\ ~running
    BY <1>1 DEF Start, Single, Accept, OneLoop, StopHasTarget, LoopTypeOK
  <2>2. LoopTypeOK'
    <3>1. posting' \in SUBSET Clients /\ runs' \in 0 .. MaxRuns
      BY <1>1 DEF Start, Single, Accept, LoopTypeOK
    <3>2. start' \in BOOLEAN /\ single' \in BOOLEAN
      BY <1>1 DEF Start, Single, LoopTypeOK
    <3>3. UNCHANGED <<stop, running, loop_tasks, body, view, notices, seen, untold>>
      BY <1>1 DEF Start, Single, Accept
    <3> QED BY <3>1, <3>2, <3>3 DEF LoopTypeOK
  <2>3. OneLoop'
    BY <1>1, <2>1 DEF Start, Single, Accept, OneLoop, Live
  <2>4. StopHasTarget' /\ RunningInRun' /\ SeenIsCurrent'
    BY <1>1, <2>1 DEF Start, Single, Accept, StopHasTarget, RunningInRun, SeenIsCurrent, Current
  <2> QED BY <2>2, <2>3, <2>4
<1>2. CASE Stop(c)
  <2>1. LoopTypeOK' /\ StopHasTarget'
    BY <1>2 DEF Stop, LoopTypeOK, StopHasTarget
  <2>2. OneLoop' /\ RunningInRun' /\ SeenIsCurrent'
    BY <1>2 DEF Stop, OneLoop, Live, RunningInRun, SeenIsCurrent, Current
  <2> QED BY <2>1, <2>2
<1> QED BY <1>1, <1>2 DEF Request

\* The one LoopRun goes from its client to the queue of the run thread.
LEMMA PostKeeps ==
  ASSUME LoopInv, NEW c \in Clients, Post(c)
  PROVE  LoopInv'
<1> USE DEF LoopInv, Post, flags, viewVars
<1>1. posting' = {} /\ loop_tasks = 0 /\ loop_tasks' = 1 /\ ~Live /\ (start \/ single)
  BY DEF OneLoop
<1>2. LoopTypeOK' /\ OneLoop'
  BY <1>1 DEF LoopTypeOK, OneLoop, Live
<1>3. StopHasTarget' /\ RunningInRun' /\ SeenIsCurrent'
  BY DEF StopHasTarget, RunningInRun, SeenIsCurrent, Current
<1> QED BY <1>2, <1>3

\* Entering LoopRun takes the one task, and either resets the flags or begins
\* or continues a run.
LEMMA EnterKeeps ==
  ASSUME LoopInv, Enter
  PROVE  LoopInv'
<1> USE DEF LoopInv, Enter, viewVars
<1>1. loop_tasks = 1 /\ loop_tasks' = 0 /\ posting = {} /\ (start \/ single)
  BY DEF OneLoop, LoopTypeOK
<1>2. CASE EnterStop
  <2>1. ~start' /\ ~single' /\ ~stop' /\ ~running' /\ body' = "tell_end"
    BY <1>2 DEF EnterStop, Reset
  <2>2. LoopTypeOK'
    <3>1. body' \in LoopStates /\ loop_tasks' \in Nat
      BY <1>1, <2>1 DEF LoopStates
    <3>2. start' \in BOOLEAN /\ single' \in BOOLEAN /\ stop' \in BOOLEAN /\ running' \in BOOLEAN
      BY <1>2 DEF EnterStop, Reset
    <3>3. UNCHANGED <<posting, view, notices, seen, untold, runs>>
      OBVIOUS
    <3> QED BY <3>1, <3>2, <3>3 DEF LoopTypeOK
  <2>3. OneLoop' /\ StopHasTarget' /\ RunningInRun' /\ SeenIsCurrent'
    BY <1>1, <2>1 DEF OneLoop, Live, StopHasTarget, RunningInRun, SeenIsCurrent, Current
  <2> QED BY <2>2, <2>3
<1>3. CASE EnterRun
  <2>1. LoopTypeOK' /\ OneLoop'
    BY <1>1, <1>3 DEF EnterRun, LoopTypeOK, LoopStates, OneLoop, Live
  <2>2. StopHasTarget' /\ RunningInRun'
    BY <1>1, <1>3 DEF EnterRun, StopHasTarget, RunningInRun
  <2>3. SeenIsCurrent'
    BY <1>3 DEF EnterRun, SeenIsCurrent, Current
  <2> QED BY <2>1, <2>2, <2>3
<1> QED BY <1>2, <1>3

\* Telling the views leaves each that is registered a notice, and the others
\* untold, so that nothing is owed by those that have neither.
LEMMA TellKeeps ==
  ASSUME LoopInv, OnStateChanged
  PROVE  LoopInv'
<1> USE DEF LoopInv, OnStateChanged, flags
<1>1. \A v \in Views :
        /\ notices[v] \in Nat /\ notices'[v] \in Nat
        /\ view[v] = "observing" => notices'[v] # 0
        /\ view[v] = "made" => v \in untold'
  BY DEF LoopTypeOK
<1>2. LoopTypeOK'
  <2>1. notices' \in [Views -> Nat] /\ untold' \in SUBSET Views /\ body' \in LoopStates
    BY <1>1 DEF LoopTypeOK, LoopStates
  <2> QED BY <2>1 DEF LoopTypeOK
<1>3. OneLoop' /\ StopHasTarget' /\ RunningInRun'
  BY DEF OneLoop, Live, StopHasTarget, RunningInRun
<1>4. SeenIsCurrent'
  <2>1. \A v \in Views : view'[v] \in {"none", "made", "observing"} /\ view'[v] = view[v]
    BY DEF LoopTypeOK
  <2> QED BY <1>1, <2>1 DEF SeenIsCurrent
<1> QED BY <1>2, <1>3, <1>4

\* The job moves LoopRun on and nothing else.
LEMMA BodyKeeps ==
  ASSUME LoopInv, LoopRunImp
  PROVE  LoopInv'
BY DEF LoopInv, LoopRunImp, flags, viewVars, LoopTypeOK, LoopStates, OneLoop, Live,
   StopHasTarget, RunningInRun, SeenIsCurrent, Current

\* After the job the flags are reset and LoopRun is over, or it will post
\* itself again.
LEMMA LeaveKeeps ==
  ASSUME LoopInv, Leave
  PROVE  LoopInv'
<1> USE DEF LoopInv, Leave, viewVars
<1>1. posting = {} /\ loop_tasks = 0 /\ (start \/ single) /\ running
  BY DEF OneLoop, Live, LoopTypeOK, RunningInRun
<1>2. CASE stop \/ body = "done"
  BY <1>1, <1>2 DEF Reset, LoopTypeOK, LoopStates, OneLoop, Live,
     StopHasTarget, RunningInRun, SeenIsCurrent, Current
<1>3. CASE ~(stop \/ body = "done")
  BY <1>1, <1>3 DEF flags, LoopTypeOK, LoopStates, OneLoop, Live,
     StopHasTarget, RunningInRun, SeenIsCurrent, Current
<1> QED BY <1>2, <1>3

\* The one LoopRun goes back to the queue of the run thread.
LEMMA RepostKeeps ==
  ASSUME LoopInv, Repost
  PROVE  LoopInv'
<1> USE DEF LoopInv, Repost, flags, viewVars
<1>1. posting = {} /\ loop_tasks = 0 /\ (start \/ single)
  BY DEF OneLoop, Live, LoopTypeOK
<1>2. LoopTypeOK' /\ OneLoop'
  BY <1>1 DEF LoopTypeOK, LoopStates, OneLoop, Live
<1>3. StopHasTarget' /\ RunningInRun' /\ SeenIsCurrent'
  BY DEF StopHasTarget, RunningInRun, SeenIsCurrent, Current
<1> QED BY <1>2, <1>3

\* A view that looks at the flag, made or told, sees it as it is now; one that
\* registers goes on from there, and one that goes shows nothing.
LEMMA ViewKeeps ==
  ASSUME LoopInv, NEW v \in Views, ViewStep(v)
  PROVE  LoopInv'
<1> USE DEF LoopInv
<1>1. UNCHANGED <<flags, posting, loop_tasks, body, runs>>
  BY DEF ViewStep, UpdateButton, AddObserver, StateChanged, RemoveObserver
<1>2. /\ view' \in [Views -> {"none", "made", "observing"}]
      /\ notices' \in [Views -> Nat] /\ untold' \in SUBSET Views
      /\ seen' \in [Views -> BOOLEAN]
  <2>1. view' \in [Views -> {"none", "made", "observing"}]
    BY DEF ViewStep, UpdateButton, AddObserver, StateChanged, RemoveObserver, LoopTypeOK
  <2>2. notices' \in [Views -> Nat]
    BY DEF ViewStep, UpdateButton, AddObserver, StateChanged, RemoveObserver, LoopTypeOK
  <2>3. untold' \in SUBSET Views
    BY DEF ViewStep, UpdateButton, AddObserver, StateChanged, RemoveObserver, LoopTypeOK
  <2>4. seen' = seen \/ (\E b \in BOOLEAN : seen' = [seen EXCEPT ![v] = b])
    BY DEF ViewStep, UpdateButton, AddObserver, StateChanged, RemoveObserver, LoopTypeOK
  <2>5. seen' \in [Views -> BOOLEAN]
    BY <2>4 DEF LoopTypeOK
  <2> QED BY <2>1, <2>2, <2>3, <2>5
<1>3. LoopTypeOK'
  BY <1>1, <1>2 DEF LoopTypeOK, flags
<1>4. OneLoop' /\ StopHasTarget' /\ RunningInRun'
  BY <1>1 DEF OneLoop, Live, StopHasTarget, RunningInRun, flags
<1>5. SeenIsCurrent'
  <2>1. CASE UpdateButton(v)
    BY <2>1 DEF UpdateButton, SeenIsCurrent, Current, LoopTypeOK, flags
  <2>2. CASE AddObserver(v)
    BY <2>2 DEF AddObserver, SeenIsCurrent, Current, LoopTypeOK, flags
  <2>3. CASE StateChanged(v)
    BY <2>3 DEF StateChanged, SeenIsCurrent, Current, LoopTypeOK, flags
  <2>4. CASE RemoveObserver(v)
    BY <2>4 DEF RemoveObserver, SeenIsCurrent, Current, LoopTypeOK, flags
  <2> QED BY <2>1, <2>2, <2>3, <2>4 DEF ViewStep
<1> QED BY <1>3, <1>4, <1>5

\* Every step keeps the invariant.
LEMMA LoopStepKeeps == LoopInv /\ [LoopNext]_loopVars => LoopInv'
<1> SUFFICES ASSUME LoopInv, [LoopNext]_loopVars PROVE LoopInv'
  OBVIOUS
<1>1. CASE UNCHANGED loopVars
  BY <1>1 DEF loopVars, flags, viewVars, LoopInv, LoopTypeOK, OneLoop, Live, StopHasTarget,
     RunningInRun, SeenIsCurrent, Current
<1>2. CASE LoopNext
  BY <1>2, RequestKeeps, PostKeeps, EnterKeeps, TellKeeps, LeaveKeeps, RepostKeeps,
     BodyKeeps, ViewKeeps DEF LoopNext, LoopFrame
<1> QED BY <1>1, <1>2

\* Nothing is wanted, under way or owed at first.
LEMMA LoopInit_Inv ==
  ASSUME LoopInit
  PROVE  LoopInv
<1>1. LoopTypeOK
  <2>1. start \in BOOLEAN /\ single \in BOOLEAN /\ stop \in BOOLEAN /\ running \in BOOLEAN
    BY DEF LoopInit
  <2>2. posting \in SUBSET Clients /\ loop_tasks \in Nat /\ body \in LoopStates
    BY DEF LoopInit, LoopStates
  <2>3. /\ notices \in [Views -> Nat] /\ seen \in [Views -> BOOLEAN]
        /\ view \in [Views -> {"none", "made", "observing"}] /\ untold \in SUBSET Views
    BY DEF LoopInit
  <2>4. runs \in 0 .. MaxRuns
    BY MaxRunsAssumption DEF LoopInit
  <2> QED BY <2>1, <2>2, <2>3, <2>4 DEF LoopTypeOK
<1>2. OneLoop /\ StopHasTarget /\ RunningInRun
  BY DEF LoopInit, OneLoop, Live, StopHasTarget, RunningInRun
<1>3. SeenIsCurrent
  BY DEF LoopInit, SeenIsCurrent, Current
<1> QED BY <1>1, <1>2, <1>3 DEF LoopInv

\* The flags of ThreadedLoopRun, the task queue of its thread and what views
\* know agree in every reachable state.
THEOREM LoopInvariance == LoopSpec => []LoopInv
<1>1. LoopInit => LoopInv
  BY LoopInit_Inv
<1> QED BY <1>1, LoopStepKeeps, PTL DEF LoopSpec

\* There is one LoopRun while the loop is wanted and none otherwise, however
\* Start, Single, Stop and LoopRun interleave.
THEOREM LoopIsUnique == LoopSpec => []OneLoop
<1>1. LoopInv => OneLoop
  BY DEF LoopInv
<1> QED BY <1>1, LoopInvariance, PTL

\* No request to stop outlives the run it was meant for.
THEOREM StopIsForThisRun == LoopSpec => []StopHasTarget
<1>1. LoopInv => StopHasTarget
  BY DEF LoopInv
<1> QED BY <1>1, LoopInvariance, PTL

\* A view with no StateChanged on its way shows what IsRunning() would say, whenever
\* it was made, unless a notice went out between UpdateButton() and AddObserver()
\* of its constructor.
THEOREM ViewsAreCurrent == LoopSpec => []SeenIsCurrent
<1>1. LoopInv => SeenIsCurrent
  BY DEF LoopInv
<1> QED BY <1>1, LoopInvariance, PTL
=============================================================================
