------------------------------ MODULE ChnlCalc ------------------------------
(***************************************************************************)
(* ChnlCalc: raw data of the oscilloscope are calculated one after the     *)
(* other, each as one run of one of two executers, and the results pushed  *)
(* to a queue (canscope/osc_chnl_calc/chnl_calc_manager.cc,                 *)
(* canscope/app/canscope_chnl_calc.cc).                                     *)
(*                                                                          *)
(* The manager lives on one thread, the starting thread of CalcExecuter.    *)
(* Its handlers are cut where that thread takes a lock, so that the workers *)
(* get between; Free says that the thread is in no handler.  current_task_  *)
(* and calc_result_ are those of the last run that was started.             *)
(***************************************************************************)
EXTENDS CalcExecuter, SequencesExt

CONSTANTS chnl_calc, ui_calc  \* the executers over the group and its clone
ASSUME ExecutersAssumption == Executers = {chnl_calc, ui_calc} /\ chnl_calc # ui_calc

VARIABLES
  arrived,     \* raw data that arrived, bounded by MaxRuns
  raw_queue,   \* raw_data_queue_
  handle,      \* handle_ of the result of each run: its raw data
  observed,    \* the task that has the manager as observer, or 0
  is_ui_calc,  \* is_ui_calc_
  finish_pc,   \* where in OnAsyncTaskFinish the thread is
  finish_ui,   \* the is_ui_calc of OnAsyncTaskFinish
  chnl_queue,  \* chnl_queue_: the results by number of their run
  stopped      \* the manager is destroyed

managerVars == <<arrived, raw_queue, handle, observed, is_ui_calc, finish_pc, finish_ui,
                 chnl_queue, stopped>>
chnlVars == <<calcVars, managerVars>>

current_task == runs
calc_result == runs

ChnlInit ==
  /\ CalcInit
  /\ arrived = 0 /\ raw_queue = <<>> /\ handle = [g \in Runs |-> 0]
  /\ observed = 0 /\ is_ui_calc = FALSE
  /\ finish_pc = "none" /\ finish_ui = FALSE
  /\ chnl_queue = <<>> /\ stopped = FALSE

Free == Idle /\ finish_pc = "none"

\* (slip) IsReady is not asked
CurrentRunning == current_task # 0 /\ status[current_task] = "running"

\* IsReady or IsRunning
CurrentPending == current_task # 0 /\ ~Over(current_task)

\* ProcessRaw and StartRun, with queue as raw_data_queue_; CalcForUI is a
\* question of time
ProcessRaw(queue) ==
  IF CurrentPending \/ queue = <<>>
  THEN /\ raw_queue' = queue
       /\ UNCHANGED <<calcVars, handle, observed, is_ui_calc>>
  ELSE /\ raw_queue' = Tail(queue)
       /\ handle' = [handle EXCEPT ![runs + 1] = Head(queue)]
       /\ observed' = runs + 1
       /\ \E ui \in BOOLEAN :
            is_ui_calc' = ui /\ StartRun(IF ui THEN ui_calc ELSE chnl_calc)
       /\ UNCHANGED cancelled

RawDataCollected ==
  /\ Free /\ ~stopped /\ arrived < MaxRuns
  /\ arrived' = arrived + 1
  /\ ProcessRaw(Append(raw_queue, arrived + 1))
  /\ UNCHANGED <<finish_pc, finish_ui, chnl_queue, stopped>>

\* a status change; the end of the observed task calls OnAsyncTaskFinish
ChnlDeliver ==
  /\ Free /\ Deliver
  /\ IF Head(mail).what # "running" /\ Head(mail).run = observed
     THEN finish_pc' = "process" /\ finish_ui' = is_ui_calc
     ELSE UNCHANGED <<finish_pc, finish_ui>>
  /\ UNCHANGED <<executerVars, cancelled, refs, runs, posts, outcome, crashed>>
  /\ UNCHANGED <<arrived, raw_queue, handle, observed, is_ui_calc, chnl_queue, stopped>>

\* (slip) the next raw data are not taken up
FinishProcessNone ==
  /\ finish_pc = "process" /\ finish_pc' = "record"
  /\ UNCHANGED <<calcVars, arrived, raw_queue, handle, observed, is_ui_calc, finish_ui,
                 chnl_queue, stopped>>

\* "ProcessRaw immediately, for better concurrent"
FinishProcess ==
  /\ finish_pc = "process" /\ finish_pc' = "record"
  /\ ProcessRaw(raw_queue)
  /\ UNCHANGED <<arrived, finish_ui, chnl_queue, stopped>>

\* RecordResult, and MayNotifyUI, which pushes the result once more
FinishRecord ==
  /\ Idle /\ finish_pc = "record" /\ finish_pc' = "none"
  /\ chnl_queue' = chnl_queue \o
       IF finish_ui THEN <<calc_result, calc_result>> ELSE <<calc_result>>
  /\ UNCHANGED <<calcVars, arrived, raw_queue, handle, observed, is_ui_calc, finish_ui,
                 stopped>>

\* Cancel, which nothing but ReProcessRawForUI calls
CancelCurrent ==
  /\ Free /\ ~stopped /\ current_task # 0
  /\ observed' = 0 /\ Cancel(current_task)
  /\ UNCHANGED <<executerVars, status, mail, refs, runs, posts, outcome, crashed>>
  /\ UNCHANGED <<arrived, raw_queue, handle, is_ui_calc, finish_pc, finish_ui, chnl_queue,
                 stopped>>

\* StopImpl destroys the reader and the manager; a run of the executer goes on
Stop ==
  /\ Free /\ ~stopped /\ stopped' = TRUE
  /\ raw_queue' = <<>> /\ observed' = 0
  /\ UNCHANGED <<calcVars, arrived, handle, is_ui_calc, finish_pc, finish_ui, chnl_queue>>

\* the thread in a handler or in a task that was posted to it
ThreadStep ==
  \/ ChnlDeliver \/ FinishProcess \/ FinishRecord
  \/ (\E e \in Executers : Reset(e) \/ StartFirst(e)) /\ UNCHANGED managerVars

PoolStep == WorkerStep /\ UNCHANGED managerVars

ChnlNext ==
  /\ ~crashed
  /\ RawDataCollected \/ CancelCurrent \/ Stop \/ ThreadStep \/ PoolStep

ChnlSpec == ChnlInit /\ [][ChnlNext]_chnlVars

\* the message loop goes on, and the pool runs what it was given
FairChnlSpec ==
  /\ ChnlSpec
  /\ WF_chnlVars(~crashed /\ ThreadStep)
  /\ WF_chnlVars(~crashed /\ PoolStep)

(***************************************************************************)
(* Properties.                                                              *)
(***************************************************************************)

\* The domain of every variable.
ChnlTypeOK ==
  /\ CalcTypeOK
  /\ arrived \in 0 .. MaxRuns /\ raw_queue \in Seq(Runs)
  /\ handle \in [Runs -> 0 .. MaxRuns] /\ observed \in {0, runs}
  /\ is_ui_calc \in BOOLEAN /\ finish_ui \in BOOLEAN /\ stopped \in BOOLEAN
  /\ finish_pc \in {"none", "process", "record"}
  /\ chnl_queue \in Seq(Runs)

\* All raw data are calculated to the end, in time, if nobody stops or cancels.
EveryRawCalculated ==
  \A r \in Runs : (arrived >= r) ~>
    \/ stopped \/ cancelled # {}
    \/ \E g \in Runs : handle[g] = r /\ status[g] = "finish"

\* The manager keeps to what its executers ask: "call must after previous task
\* finish".
ImplementsExecuter == CalcSpec

\* A result that is recorded belongs to a run that has ended (chnl_calc_manager.cc:88
\* "cache calc_result and ProcessRaw immediately"): it is cached first.
RecordsFinished ==
  [][chnl_queue' # chnl_queue => Over(Last(chnl_queue'))]_chnlVars
=============================================================================
