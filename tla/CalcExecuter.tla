---------------------------- MODULE CalcExecuter ----------------------------
(***************************************************************************)
(* CalcExecuter: the items of a group, which depend on one another, run on  *)
(* a pool of worker threads as one AsyncTask (depend_calc/calc_executer.cc, *)
(* calc_group_walker.cc, calc_group.cc, canscope/async_task.cc).            *)
(*                                                                          *)
(* Every run has a walker, with a copy of the graph that shrinks as items   *)
(* end, a task, whose events are posted to the thread that starts runs, and *)
(* a delegate, into which the items write their results.  A worker looks at *)
(* the executer under its lock and reads the members again each time, so    *)
(* that it may meet the walker of a later run.                              *)
(***************************************************************************)
EXTENDS Integers, Sequences, FiniteSets

CONSTANTS
  Executers,  \* executers that one thread starts, over groups of one shape
  Items,      \* all_nodes_ of the group
  Depends,    \* edges_ of the group, none twice: <<i, j>> when j needs i
  MaxRuns     \* bound: number of runs

\* DCHECK(group->NoCycle())
ASSUME GraphAssumption ==
  /\ Depends \subseteq Items \X Items
  /\ \A S \in SUBSET Items : S # {} => \E j \in S : \A i \in S : <<i, j>> \notin Depends
ASSUME RunsAssumption == MaxRuns \in Nat
ASSUME ItemsAssumption == Items # {}

Runs == 1 .. MaxRuns

VARIABLES
  task, delegate,  \* task_ and delegate_ of each executer, by number of the run
  notify_end,      \* notify_end_ of each
  walker,          \* walker_ of each
  start_pc,        \* where in StartRun of each the starting thread is
  workers,         \* the RunItem tasks of the pool
  status,          \* AsyncTask: status_
  cancelled,       \* AsyncTask: the tasks with cancel_ set
  mail,            \* AsyncTask: status changes posted to the starting thread
  refs,            \* references to each run's delegate held by its executer
  runs,            \* runs started so far
  posts,           \* history: how often each item of a run was posted
  outcome,         \* history: how each item of a run ended
  crashed          \* history: memory of an earlier run was used

executerVars == <<task, delegate, notify_end, walker, start_pc, workers>>
taskVars == <<status, cancelled, mail>>
calcVars == <<executerVars, taskVars, refs, runs, posts, outcome, crashed>>

(***************************************************************************)
(* The graph.                                                               *)
(***************************************************************************)

FreeNode == {i \in Items : \A d \in Depends : d[2] # i}

\* what depends on i, directly or not
Descendants(edges, i) ==
  {j \in Items : \A S \in SUBSET Items :
     (\A d \in edges : d[1] \in S \cup {i} => d[2] \in S) => j \in S}

\* (slip) items that need another one too are let go
NodeSuccessAtOnce(w, i) ==
  [w EXCEPT !.edges = {d \in @ : d[1] # i},
            !.runnable = @ \cup {j \in Items : <<i, j>> \in w.edges}]

\* i is done: what needed only i may run
NodeSuccess(w, i) ==
  LET left == {d \in w.edges : d[1] # i}
  IN [w EXCEPT !.edges = left,
               !.runnable = @ \cup {j \in Items : /\ <<i, j>> \in w.edges
                                                  /\ \A d \in left : d[2] # j}]

\* (slip) only the edges of i itself go
NodeFailedShallow(w, i) == [w EXCEPT !.edges = {d \in @ : d[1] # i}]

\* i failed: it goes with all that depends on it
NodeFailed(w, i) ==
  LET lost == Descendants(w.edges, i)
  IN [w EXCEPT !.edges = {d \in @ : d[1] \notin lost \cup {i} /\ d[2] \notin lost}]

Finish(w) == w.current = {} /\ w.runnable = {}

NewWalker(g) == [run |-> g, edges |-> Depends, runnable |-> FreeNode, current |-> {}]

CalcInit ==
  /\ task = [e \in Executers |-> 0] /\ delegate = [e \in Executers |-> 0]
  /\ notify_end = [e \in Executers |-> TRUE]
  /\ walker = [e \in Executers |->
                 [run |-> 0, edges |-> {}, runnable |-> {}, current |-> {}]]
  /\ start_pc = [e \in Executers |-> "idle"]
  /\ workers = {}
  /\ status = [g \in Runs |-> "no_start"] /\ cancelled = {} /\ mail = <<>>
  /\ refs = [g \in Runs |-> 0] /\ runs = 0
  /\ posts = [g \in Runs |-> [i \in Items |-> 0]]
  /\ outcome = [g \in Runs |-> [i \in Items |-> "none"]]
  /\ crashed = FALSE

Over(g) == status[g] \in {"cancel", "finish"}

\* the starting thread is not in a StartRun
Idle == \A e \in Executers : start_pc[e] = "idle"

(***************************************************************************)
(* A run.                                                                   *)
(***************************************************************************)

\* set_delegate, which dies when it is called too early, and StartRun before
\* the lock, for run number runs + 1
StartRun(e) ==
  IF notify_end[e]
  THEN /\ runs' = runs + 1
       /\ task' = [task EXCEPT ![e] = runs + 1]
       /\ delegate' = [delegate EXCEPT ![e] = runs + 1]
       /\ start_pc' = [start_pc EXCEPT ![e] = "reset"]
       /\ UNCHANGED <<notify_end, walker, workers, status, mail, refs, posts, outcome,
                      crashed>>
  ELSE /\ crashed' = TRUE
       /\ UNCHANGED <<executerVars, status, mail, refs, runs, posts, outcome>>

Post(g, what) == Append(mail, [run |-> g, what |-> what])

\* the critical section of StartRun; a group has items
Reset(e) ==
  /\ start_pc[e] = "reset"
  /\ start_pc' = [start_pc EXCEPT ![e] = "start_all"]
  /\ walker' = [walker EXCEPT ![e] = NewWalker(task[e])]
  /\ notify_end' = [notify_end EXCEPT ![e] = FALSE]
  /\ mail' = Post(task[e], "running")
  /\ refs' = [refs EXCEPT ![delegate[e]] = @ + 1]
  /\ UNCHANGED <<task, delegate, workers, status, cancelled, runs, posts, outcome, crashed>>

\* the end of a run is announced once, and its delegate let go
NotifyEnd(e, what) ==
  IF notify_end[e]
  THEN UNCHANGED <<notify_end, mail, refs>>
  ELSE /\ notify_end' = [notify_end EXCEPT ![e] = TRUE]
       /\ mail' = Post(task[e], what)
       /\ refs' = [refs EXCEPT ![delegate[e]] = @ - 1]

Worker(e, g, i, at) == [exec |-> e, run |-> g, item |-> i, at |-> at]

\* StartAllRunnable, besides the other workers
StartAllRunnable(e, others) ==
  IF task[e] \in cancelled
  THEN /\ NotifyEnd(e, "cancel")
       /\ workers' = others
       /\ UNCHANGED <<walker, posts>>
  ELSE LET w == walker[e] IN
       /\ workers' = others \cup {Worker(e, w.run, i, "posted") : i \in w.runnable}
       /\ walker' = [walker EXCEPT ![e].current = @ \cup w.runnable, ![e].runnable = {}]
       /\ posts' = [g \in Runs |-> [i \in Items |->
            posts[g][i] + IF g = w.run /\ i \in w.runnable THEN 1 ELSE 0]]
       /\ UNCHANGED <<notify_end, mail, refs>>

\* ... by StartRun
StartFirst(e) ==
  /\ start_pc[e] = "start_all"
  /\ start_pc' = [start_pc EXCEPT ![e] = "idle"]
  /\ StartAllRunnable(e, workers)
  /\ UNCHANGED <<task, delegate, status, cancelled, runs, outcome, crashed>>

\* ... by an item that is done
StartNext(w) ==
  /\ w.at = "start"
  /\ StartAllRunnable(w.exec, workers \ {w})
  /\ UNCHANGED <<task, delegate, start_pc, status, cancelled, runs, outcome, crashed>>

Advance(w, at) == workers' = (workers \ {w}) \cup {[w EXCEPT !.at = at]}

\* RunItem begins with a look at the task
RunItem(w) ==
  /\ w.at = "posted"
  /\ IF task[w.exec] \in cancelled
     THEN NotifyEnd(w.exec, "cancel") /\ workers' = workers \ {w}
     ELSE Advance(w, "run") /\ UNCHANGED <<notify_end, mail, refs>>
  /\ UNCHANGED <<task, delegate, walker, start_pc, status, cancelled, runs, posts,
                 outcome, crashed>>

\* the item itself, which is gone with the walker of its run
Run(w) ==
  /\ w.at = "run"
  /\ IF walker[w.exec].run # w.run
     THEN crashed' = TRUE /\ UNCHANGED <<workers, outcome>>
     ELSE /\ \E ret \in {"ok", "failed"} :
               Advance(w, ret) /\ outcome' = [outcome EXCEPT ![w.run][w.item] = ret]
          /\ UNCHANGED crashed
  /\ UNCHANGED <<task, delegate, notify_end, walker, start_pc, taskVars, refs, runs, posts>>

\* CalcGroupWalker::Mark of an item that is in current_
Marked(wk, w) ==
  LET rest == [wk EXCEPT !.current = @ \ {w.item}]
  IN IF w.at = "ok" THEN NodeSuccess(rest, w.item) ELSE NodeFailed(rest, w.item)

\* the second critical section of RunItem; an item of an earlier run is not in
\* current_, and erasing it is undefined
Mark(w) ==
  /\ w.at \in {"ok", "failed"}
  /\ IF walker[w.exec].run # w.run
     THEN crashed' = TRUE /\ UNCHANGED <<walker, workers, notify_end, mail, refs>>
     ELSE LET wk == Marked(walker[w.exec], w) IN
          /\ walker' = [walker EXCEPT ![w.exec] = wk]
          /\ IF Finish(wk)
             THEN NotifyEnd(w.exec, "finish") /\ workers' = workers \ {w}
             ELSE Advance(w, "start") /\ UNCHANGED <<notify_end, mail, refs>>
          /\ UNCHANGED crashed
  /\ UNCHANGED <<task, delegate, start_pc, status, cancelled, runs, posts, outcome>>

WorkerStep == \E w \in workers : RunItem(w) \/ Run(w) \/ Mark(w) \/ StartNext(w)

(***************************************************************************)
(* The task, and who starts and cancels runs.                               *)
(***************************************************************************)

\* NotifyStartImpl, NotifyFinishImpl on the starting thread
Deliver ==
  /\ Idle /\ mail # <<>>
  /\ status' = [status EXCEPT ![Head(mail).run] = Head(mail).what]
  /\ mail' = Tail(mail)

\* AsyncTask::Cancel
Cancel(g) == cancelled' = cancelled \cup {g}

\* "call must after previous task finish"
MayStart(e) == Idle /\ runs < MaxRuns /\ (task[e] # 0 => Over(task[e]))

Client ==
  \/ \E e \in Executers : MayStart(e) /\ StartRun(e) /\ UNCHANGED cancelled
  \/ /\ \E g \in 1 .. runs : Cancel(g)
     /\ UNCHANGED <<executerVars, status, mail, refs, runs, posts, outcome, crashed>>

ExecuterStep ==
  \/ \E e \in Executers : Reset(e) \/ StartFirst(e)
  \/ WorkerStep
  \/ Deliver /\ UNCHANGED <<executerVars, cancelled, refs, runs, posts, outcome, crashed>>

CalcNext == ~crashed /\ (Client \/ ExecuterStep)

CalcSpec == CalcInit /\ [][CalcNext]_calcVars

\* the pool runs what it was given, and the starting thread goes on
CalcFairness ==
  /\ WF_calcVars(~crashed /\ WorkerStep)
  /\ WF_calcVars(~crashed /\ \E e \in Executers : Reset(e) \/ StartFirst(e))
  /\ WF_calcVars(~crashed /\ Deliver
       /\ UNCHANGED <<executerVars, cancelled, refs, runs, posts, outcome, crashed>>)

FairCalcSpec == CalcSpec /\ CalcFairness

(***************************************************************************)
(* Properties.                                                              *)
(***************************************************************************)

Walkers == [run : 0 .. MaxRuns, edges : SUBSET Depends,
            runnable : SUBSET Items, current : SUBSET Items]

Stages == {"posted", "run", "ok", "failed", "start"}

\* The domain of every variable.
CalcTypeOK ==
  /\ task \in [Executers -> 0 .. runs] /\ delegate \in [Executers -> 0 .. runs]
  /\ notify_end \in [Executers -> BOOLEAN]
  /\ walker \in [Executers -> Walkers]
  /\ start_pc \in [Executers -> {"idle", "reset", "start_all"}]
  /\ workers \subseteq [exec : Executers, run : Runs, item : Items, at : Stages]
  /\ status \in [Runs -> {"no_start", "running", "cancel", "finish"}]
  /\ cancelled \subseteq Runs
  /\ mail \in Seq([run : Runs, what : {"running", "cancel", "finish"}])
  /\ refs \in [Runs -> 0 .. 1] /\ runs \in 0 .. MaxRuns
  /\ posts \in [Runs -> [Items -> Nat]]
  /\ outcome \in [Runs -> [Items -> {"none", "ok", "failed"}]]
  /\ crashed \in BOOLEAN

\* An item is posted to the pool at most once in a run, and only after all it
\* needs was successful, whichever worker finds it runnable.
OnceInOrder ==
  \A g \in Runs : \A j \in Items :
    /\ posts[g][j] <= 1
    /\ posts[g][j] = 1 => \A i \in Items : <<i, j>> \in Depends => outcome[g][i] = "ok"

\* A run that is announced as finished has run all it could: every item but
\* those that a failed one made impossible.
FinishIsComplete ==
  \A g \in Runs : status[g] = "finish" =>
    \A j \in Items :
      outcome[g][j] # "none"
        <=> \A i \in Items : <<i, j>> \in Depends => outcome[g][i] = "ok"

\* No item outlives the graph of its run ("DCHECK(it != current_.end())").
NoLateItem == ~crashed
=============================================================================
