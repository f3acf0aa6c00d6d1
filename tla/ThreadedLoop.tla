---------------------------- MODULE ThreadedLoop ----------------------------
(***************************************************************************)
(* ThreadedLoopRun: a job that is run again and again on a run thread,      *)
(* started and stopped from any thread (canscope/device/threaded_loop_run). *)
(* The collecters and the device finder are such loops.                     *)
(*                                                                          *)
(* A request sets a flag under lock_ and posts LoopRun after releasing it.  *)
(* LoopRun looks at the flags before and after the body, each time in one   *)
(* critical section, and tells the observers once it has left it.  The      *)
(* observers live on threads of their own and are told by a posted task, so *)
(* what they read is what the flags are by then.  A view comes and goes     *)
(* while the loop runs (canscope/ui/canscope_view.cc): its constructor looks *)
(* at the flags and registers afterwards, and nobody tells it what happened *)
(* between.                                                                 *)
(***************************************************************************)
EXTENDS Integers, FiniteSets

CONSTANTS
  Views,      \* observers: views with a start button, enabled while they take
              \* the loop for stopped, and a stop button, enabled otherwise
  Others,     \* other threads that make requests, whenever they like
  MaxRuns     \* bound: number of requests to run that are accepted

Clients == Views \cup Others

ASSUME ClientsAssumption == Views \cap Others = {}
ASSUME MaxRunsAssumption == MaxRuns \in Nat

VARIABLES
  start, single, stop, running,  \* start_, single_, stop_, running_
  posting,     \* the clients between their critical section and PostTask
  loop_tasks,  \* LoopRun tasks in the queue of the run thread
  body,        \* where LoopRun is
  view,        \* each view: "none", "made" by its constructor, "observing"
  notices,     \* StateChanged tasks posted to each view
  seen,        \* what IsRunning() last told each view
  untold,      \* history: the views that were made, and not yet registered,
               \* when the others were told, and have not been told since
  runs         \* requests to run accepted so far

flags == <<start, single, stop, running>>
viewVars == <<view, notices, seen, untold>>
loopVars == <<flags, posting, loop_tasks, body, viewVars, runs>>

LoopStates == {"idle", "tell_begin", "body", "more", "done", "repost", "tell_end"}

LoopInit ==
  /\ start = FALSE /\ single = FALSE /\ stop = FALSE /\ running = FALSE
  /\ posting = {} /\ loop_tasks = 0 /\ body = "idle"
  /\ view = [v \in Views |-> "none"] /\ untold = {}
  /\ notices = [v \in Views |-> 0] /\ seen = [v \in Views |-> FALSE]
  /\ runs = 0

\* a view offers only the button that fits what it saw, once it is on the screen
MayAskToRun(c) == c \in Views => view[c] = "observing" /\ ~seen[c]
MayAskToStop(c) == c \in Views => view[c] = "observing" /\ seen[c]

\* (slip) Start looks at its own flag only
AcceptBeside(c) ==
  /\ c \notin posting
  /\ ~start
  /\ runs < MaxRuns
  /\ runs' = runs + 1
  /\ posting' = posting \cup {c}
  /\ UNCHANGED <<stop, running, loop_tasks, body, viewVars>>

\* the critical section of a request to run; with either flag set already it
\* returns and changes nothing
Accept(c) ==
  /\ c \notin posting
  /\ ~start /\ ~single
  /\ runs < MaxRuns
  /\ runs' = runs + 1
  /\ posting' = posting \cup {c}
  /\ UNCHANGED <<stop, running, loop_tasks, body, viewVars>>

Start(c)  == MayAskToRun(c) /\ Accept(c) /\ start' = TRUE /\ UNCHANGED single
Single(c) == c \in Others /\ Accept(c) /\ single' = TRUE /\ UNCHANGED start

\* ... and its PostTask
Post(c) ==
  /\ c \in posting
  /\ posting' = posting \ {c}
  /\ loop_tasks' = loop_tasks + 1
  /\ UNCHANGED <<flags, body, viewVars, runs>>

Stop(c) ==
  /\ MayAskToStop(c)
  /\ c \notin posting
  /\ start \/ single
  /\ ~stop
  /\ stop' = TRUE
  /\ UNCHANGED <<start, single, running, posting, loop_tasks, body, viewVars, runs>>

Reset ==
  running' = FALSE /\ start' = FALSE /\ single' = FALSE /\ stop' = FALSE

\* LoopRun is entered: it stops, begins a run, or goes on with one
EnterStop ==
  /\ stop
  /\ Reset
  /\ body' = "tell_end"

EnterRun ==
  /\ ~stop
  /\ running' = TRUE
  /\ body' = IF running THEN "body" ELSE "tell_begin"
  /\ UNCHANGED <<start, single, stop>>

Enter ==
  /\ body = "idle" /\ loop_tasks > 0
  /\ loop_tasks' = loop_tasks - 1
  /\ EnterStop \/ EnterRun
  /\ UNCHANGED <<posting, viewVars, runs>>

\* OnStateChanged: a task for every view that is registered
OnStateChanged ==
  /\ body \in {"tell_begin", "tell_end"}
  /\ notices' = [v \in Views |-> IF view[v] = "observing" THEN notices[v] + 1 ELSE notices[v]]
  /\ untold' = untold \cup {v \in Views : view[v] = "made"}
  /\ body' = IF body = "tell_begin" THEN "body" ELSE "idle"
  /\ UNCHANGED <<flags, posting, loop_tasks, view, seen, runs>>

\* the job itself, which says whether it wants to be run again
LoopRunImp ==
  /\ body = "body"
  /\ body' \in {"more", "done"}
  /\ UNCHANGED <<flags, posting, loop_tasks, viewVars, runs>>

\* back from the job: the run ends when it was told to or wants to
Leave ==
  /\ body \in {"more", "done"}
  /\ IF stop \/ body = "done"
     THEN Reset /\ body' = "tell_end"
     ELSE body' = "repost" /\ UNCHANGED flags
  /\ UNCHANGED <<posting, loop_tasks, viewVars, runs>>

\* PostDelayedTask for the next round
Repost ==
  /\ body = "repost"
  /\ body' = "idle"
  /\ loop_tasks' = loop_tasks + 1
  /\ UNCHANGED <<flags, posting, viewVars, runs>>

\* (slip) a view counts a loop that is only asked for as running
StateChangedEarly(v) ==
  /\ notices[v] > 0
  /\ v \notin posting
  /\ notices' = [notices EXCEPT ![v] = @ - 1]
  /\ seen' = [seen EXCEPT ![v] = running \/ start]
  /\ untold' = untold \ {v}
  /\ UNCHANGED <<flags, posting, loop_tasks, body, view, runs>>

\* a view is told and calls IsRunning()
StateChanged(v) ==
  /\ notices[v] > 0
  /\ v \notin posting
  /\ notices' = [notices EXCEPT ![v] = @ - 1]
  /\ seen' = [seen EXCEPT ![v] = running]
  /\ untold' = untold \ {v}
  /\ UNCHANGED <<flags, posting, loop_tasks, body, view, runs>>

\* the constructor of a view: UpdateButton() calls IsRunning() ...
UpdateButton(v) ==
  /\ view[v] = "none"
  /\ view' = [view EXCEPT ![v] = "made"]
  /\ seen' = [seen EXCEPT ![v] = running]
  /\ UNCHANGED <<flags, posting, loop_tasks, body, notices, untold, runs>>

\* ... and then it registers
AddObserver(v) ==
  /\ view[v] = "made"
  /\ view' = [view EXCEPT ![v] = "observing"]
  /\ UNCHANGED <<flags, posting, loop_tasks, body, notices, seen, untold, runs>>

\* its destructor; a notice on its way finds nobody
RemoveObserver(v) ==
  /\ view[v] = "observing" /\ v \notin posting
  /\ view' = [view EXCEPT ![v] = "none"]
  /\ notices' = [notices EXCEPT ![v] = 0]
  /\ seen' = [seen EXCEPT ![v] = FALSE]
  /\ untold' = untold \ {v}
  /\ UNCHANGED <<flags, posting, loop_tasks, body, runs>>

ViewStep(v) == UpdateButton(v) \/ AddObserver(v) \/ StateChanged(v) \/ RemoveObserver(v)

Request(c) == Start(c) \/ Single(c) \/ Stop(c)

\* what LoopRun does around the job
LoopFrame == Enter \/ OnStateChanged \/ Leave \/ Repost

LoopNext ==
  \/ \E c \in Clients : Request(c) \/ Post(c)
  \/ LoopFrame \/ LoopRunImp
  \/ \E v \in Views : ViewStep(v)

LoopSpec == LoopInit /\ [][LoopNext]_loopVars

\* A thread that has set its flag goes on to post, the run thread runs its
\* tasks, the job returns, and views are told.  Nobody has to ask for anything,
\* and no view has to be made or to go.
LoopFairness ==
  /\ \A c \in Clients : WF_loopVars(Post(c))
  /\ WF_loopVars(LoopFrame) /\ WF_loopVars(LoopRunImp)
  /\ \A v \in Views : WF_loopVars(StateChanged(v))

FairLoopSpec == LoopSpec /\ LoopFairness

(***************************************************************************)
(* Properties.                                                              *)
(***************************************************************************)

\* The domain of every variable.
LoopTypeOK ==
  /\ start \in BOOLEAN /\ single \in BOOLEAN
  /\ stop \in BOOLEAN /\ running \in BOOLEAN
  /\ posting \in SUBSET Clients
  /\ loop_tasks \in Nat
  /\ body \in LoopStates
  /\ view \in [Views -> {"none", "made", "observing"}]
  /\ notices \in [Views -> Nat]
  /\ seen \in [Views -> BOOLEAN]
  /\ untold \in SUBSET Views
  /\ runs \in 0 .. MaxRuns

\* LoopRun is between two looks at the flags and will go on
Live == body \in {"tell_begin", "body", "more", "done", "repost"}

\* As long as somebody wants the loop there is exactly one LoopRun: about to be
\* posted, posted, or under way.  Two would run the job twice as often and end
\* each other's run; none would leave the flags set for ever and the loop
\* impossible to start.
OneLoop ==
  /\ (start \/ single) <=> (posting # {} \/ loop_tasks > 0 \/ Live)
  /\ \A c, d \in posting : c = d
  /\ loop_tasks <= 1
  /\ posting # {} => loop_tasks = 0 /\ ~Live
  /\ loop_tasks > 0 => ~Live

\* A request to stop is held only while there is a run it can end, so that it
\* cannot end a later one, and only a wanted loop counts as running.
StopHasTarget ==
  /\ stop => start \/ single
  /\ running => start \/ single
  /\ ~(start /\ single)

\* The loop as a view ought to show it; only while LoopRun is between changing
\* the flags and telling may it be behind.
Current(v) == body \notin {"tell_begin", "tell_end"} => seen[v] = running

\* A view with no notice on its way shows the loop as it is, whenever it was made,
\* and however often the loop has begun and ended since it looked, but for one
\* that missed a notice: one sent after its constructor had looked and before it
\* had registered (CANScopeView::CANScopeView).
SeenIsCurrent ==
  \A v \in Views : view[v] # "none" /\ notices[v] = 0 /\ v \notin untold => Current(v)

\* Without that exception: what a user would take for granted.  A view that missed
\* the begin of the run offers its start button, which does nothing, and no stop
\* button, until the run ends for another reason.
SeenFromTheStart ==
  \A v \in Views : view[v] = "observing" /\ notices[v] = 0 => Current(v)

(***************************************************************************)
(* The inductive invariants behind the theorems of ThreadedLoopProofs.      *)
(***************************************************************************)

\* running_ is set from the begin of a run to its end
RunningInRun ==
  /\ body \in {"tell_begin", "body", "more", "done", "repost"} => running
  /\ body = "tell_end" => ~running

LoopInv == LoopTypeOK /\ OneLoop /\ StopHasTarget /\ RunningInRun /\ SeenIsCurrent
=============================================================================
