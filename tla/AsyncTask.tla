------------------------------ MODULE AsyncTask ------------------------------
(***************************************************************************)
(* AsyncTask (canscope/async_task.cc), call by call: what its user notifies *)
(* is posted to the thread that made it, which sets the status and tells    *)
(* the observers.  CalcExecuter has it among the threads that use it.  A    *)
(* run that instantiates this module evaluates the formulas.                *)
(***************************************************************************)
EXTENDS Integers, Sequences, SequencesExt, FiniteSets

Ends == {"error", "finish", "cancel"}

\* alive: no CHECK has failed
NewTask == [status |-> "no_start", percent |-> 0, cancel |-> FALSE, posted |-> <<>>,
            observers |-> {}, told |-> <<>>, alive |-> TRUE]

AddObserver(task, obs) == [task EXCEPT !.observers = @ \cup {obs}]
RemoveObserver(task, obs) == [task EXCEPT !.observers = @ \ {obs}]
Cancel(task) == [task EXCEPT !.cancel = TRUE]
UserCancel(task) == task.cancel

NotifyStart(task) == [task EXCEPT !.posted = Append(@, <<"start", 0>>)]
\* NotifyFinish, NotifyError, NotifyCancel
NotifyEnd(task, status) == [task EXCEPT !.posted = Append(@, <<status, 0>>)]
\* what is added to is the progress that has arrived, not what is posted
NotifyProgress(task, add, percent) ==
  LET sum == IF add THEN percent + task.percent ELSE percent
  IN [task EXCEPT !.alive = @ /\ sum \in 0 .. 100, !.posted = Append(@, <<"progress", sum>>)]

\* NotifyStartImpl, NotifyProgressImpl, NotifyFinishImpl
Deliver(task) ==
  LET note == Head(task.posted)
      rest == [task EXCEPT !.posted = Tail(@), !.told = @ \o SetToSeq(task.observers \X {note})]
  IN CASE note[1] = "start" ->
            [rest EXCEPT !.alive = @ /\ task.status = "no_start", !.status = "running"]
       [] note[1] = "progress" ->
            [rest EXCEPT !.alive = @ /\ task.status = "running" /\ note[2] \in 0 .. 100,
                         !.percent = note[2]]
       [] note[1] \in Ends ->
            [rest EXCEPT !.alive = @ /\ task.status = "running", !.status = note[1]]

---------------------------------------------------------------------------
(* async_task_unittest.cc, and what no test says.                           *)

NormalUse ==
  LET task == AddObserver(NewTask, "observer")
      start == Deliver(NotifyStart(task))
      ten == Deliver(NotifyProgress(start, TRUE, 10))
      twenty == Deliver(NotifyProgress(ten, TRUE, 10))
      thirty == Deliver(NotifyProgress(twenty, FALSE, 30))
      finish == Deliver(NotifyEnd(thirty, "finish"))
      Notes == <<<<"start", 0>>, <<"progress", 10>>, <<"progress", 20>>, <<"progress", 30>>,
                 <<"finish", 0>>>>
  IN /\ task.status = "no_start" /\ start.status = "running" /\ ten.status = "running"
     /\ twenty.percent = 20 /\ thirty.percent = 30 /\ thirty.status = "running"
     /\ finish.status = "finish" /\ finish.alive
     /\ finish.told = [i \in DOMAIN Notes |-> <<"observer", Notes[i]>>]

Notify(task, what) ==
  CASE what = "start" -> NotifyStart(task)
    [] what = "progress" -> NotifyProgress(task, TRUE, 10)
    [] what = "deliver" -> IF task.posted = <<>> THEN task ELSE Deliver(task)
    [] what \in Ends -> NotifyEnd(task, what)

\* Posted in whatever order it arrives in, a task lives through exactly those
\* notifications that begin with a start and have no more than one end, the last.
OneLife ==
  \A calls \in [1 .. 5 -> {"start", "progress", "deliver", "finish", "cancel"}] :
    LET task == FoldLeft(Notify, NewTask, calls)
        done == FoldLeft(LAMBDA t, i : Deliver(t), task, task.posted)
        notes == SelectSeq(calls, LAMBDA c : c # "deliver")
    IN done.alive <=>
         \A i \in DOMAIN notes : /\ notes[i] = "start" <=> i = 1
                                 /\ notes[i] \in Ends => i = Len(notes)

\* progress that is added before what came before it has arrived is lost
AddedIsLost ==
  LET start == Deliver(NotifyStart(NewTask))
      both == NotifyProgress(NotifyProgress(start, TRUE, 10), TRUE, 10)
  IN Deliver(Deliver(both)).percent = 10

\* all of them
AsyncTaskHolds == NormalUse /\ OneLife /\ AddedIsLost
===============================================================================
