----------------------------- MODULE ManyReader -----------------------------
(***************************************************************************)
(* WaitForManyReader (device/sequenced_bulk_queue): one thread waits for    *)
(* several readers at once.  It arms a callback for each reader that has    *)
(* nothing, sleeps until one event is set or the time is over, and then     *)
(* takes every callback back: those that were faster are finished too.      *)
(*                                                                          *)
(* A reader that was finished at once is owed its GetResult.                *)
(***************************************************************************)
EXTENDS BulkQueue, SequencesExt

CONSTANT WaitList   \* wait_list_: the readers of the thread

ASSUME ManyAssumption == WaitList \subseteq SyncReaders

VARIABLES
  many,         \* where the thread is: "no" wait, "front", "asleep", "back", "over"
  todo,         \* the readers the loop has still to come to
  need_check,   \* those that had nothing at WaitFront
  finish_list   \* finish_list_

manyLists == <<need_check, finish_list>>
manyVars == <<vars, many, todo, manyLists>>

ManyInit ==
  /\ Init
  /\ many = "no" /\ todo = {} /\ need_check = {} /\ finish_list = {}

\* Wait() and WaitTimeout(), with every reader there and none told to quit
StartWait ==
  /\ many = "no" /\ WaitList # {}
  /\ \A r \in WaitList : MayWait(r)
  /\ many' = "front" /\ todo' = WaitList /\ need_check' = {} /\ finish_list' = {}
  /\ UNCHANGED vars

\* the loop has no reader half way between CheckReady and the second look
AtLoopHead == \A r \in WaitList : pc[r] \notin {"checked", "set"}

\* WaitFront of a reader that has a bulk, which is taken for a later GetResult
WaitFrontReady(r) ==
  /\ many = "front" /\ AtLoopHead /\ r \in todo
  /\ AtLeast(buffer_queue, reader_count[r]) # {}
  /\ GetBulk({r}, buffer_queue)
  /\ buffer_queue' = MayReleaseBuffer(buffer_queue, reader_min')
  /\ owed' = [owed EXCEPT ![r] = TRUE]
  /\ todo' = todo \ {r} /\ finish_list' = finish_list \cup {r}
  /\ UNCHANGED <<quiting, count, callback_map, registered, event, reader_quit, tasks,
                 pc, quit_pc, crashed, histVars, many, need_check>>

\* WaitFront of one that has none: the steps of WaitForReady up to the wait
WaitFront(r) ==
  /\ many = "front"
  /\ \/ /\ AtLoopHead /\ r \in todo /\ WaitNotReady(r)
        /\ todo' = todo \ {r} /\ need_check' = need_check \cup {r}
     \/ (SetReadyCallback(r) \/ SetReadyFire(r)) /\ UNCHANGED <<todo, need_check>>
  /\ UNCHANGED <<many, finish_list>>

\* WaitMany; when there is nothing to wait for the wait is over
WaitMany ==
  /\ many = "front" /\ todo = {} /\ AtLoopHead
  /\ many' = IF need_check = {} THEN "over" ELSE "asleep"
  /\ UNCHANGED <<vars, todo, manyLists>>

\* WaitMany returns with an event, TimedWaitMany with or without
WakeMany ==
  /\ many = "asleep"
  /\ \/ \E r \in need_check : event[r]
     \/ need_check \subseteq TimedReaders
  /\ many' = "back" /\ todo' = need_check
  /\ UNCHANGED <<vars, manyLists>>

\* (slip) the event is reset without a look at the callback
WaitBackForgets(r) ==
  /\ many = "back" /\ r \in todo
  /\ todo' = todo \ {r}
  /\ callback_map' = callback_map \ {r}
  /\ event' = [event EXCEPT ![r] = FALSE]
  /\ Goto(r, "idle")
  /\ UNCHANGED <<owed, finish_list, quiting, queueVars, registered, readerVars, reader_quit,
                 tasks, quit_pc, crashed, histVars, many, need_check>>

\* WaitBack: CancelCallback says whether the callback was called; if it was,
\* the event is set
WaitBack(r) ==
  /\ many = "back" /\ r \in todo
  /\ todo' = todo \ {r}
  /\ callback_map' = callback_map \ {r}
  /\ r \notin callback_map => event[r]
  /\ event' = [event EXCEPT ![r] = FALSE]
  /\ Goto(r, "idle")
  /\ owed' = [owed EXCEPT ![r] = r \notin callback_map]
  /\ finish_list' = IF r \in callback_map THEN finish_list ELSE finish_list \cup {r}
  /\ UNCHANGED <<quiting, queueVars, registered, readerVars, reader_quit,
                 tasks, quit_pc, crashed, histVars, many, need_check>>

EndWait ==
  /\ many = "back" /\ todo = {}
  /\ many' = "over"
  /\ UNCHANGED <<vars, todo, manyLists>>

\* the caller asks IsReaderFinish of each and takes the results of those that are
TakeResults ==
  /\ many = "over"
  /\ got' = [r \in Readers |-> IF r \in finish_list /\ ~reader_quit[r]
                               THEN Append(got[r], temp_count[r]) ELSE got[r]]
  /\ owed' = [r \in Readers |-> owed[r] /\ r \notin finish_list]
  /\ many' = "no" /\ need_check' = {} /\ finish_list' = {}
  /\ UNCHANGED <<quiting, queueVars, callback_map, registered, readerVars, event,
                 reader_quit, tasks, pc, quit_pc, crashed, recycled, passed, base, todo>>

\* between waits for all of them the thread uses its readers one by one
ManyNext ==
  \/ StartWait \/ WaitMany \/ WakeMany \/ EndWait \/ TakeResults
  \/ \E r \in WaitList : WaitFrontReady(r) \/ WaitFront(r) \/ WaitBack(r)
  \/ /\ OwnerStep \/ \E r \in Readers : (r \in WaitList => many = "no") /\ ReaderStep(r)
     /\ UNCHANGED <<many, todo, manyLists>>

ManySpec == ManyInit /\ [][ManyNext]_manyVars

(***************************************************************************)
(* Properties.                                                              *)
(***************************************************************************)

\* Once a wait for many readers is over nothing of it is left: no callback that
\* could still fire, no event that would end the next wait early; and unless the
\* queue quits those that are finished, and only they, have a bulk nobody took.
ManyLeavesNothing ==
  many = "over" => \A r \in WaitList :
    /\ pc[r] = "idle" /\ ~event[r] /\ r \notin callback_map
    /\ ~reader_quit[r] =>
         (r \in finish_list <=> temp_count[r] # Unread /\ ~Contains(got[r], temp_count[r]))

\* "last wait result, finish include quit" (sequenced_bulk_queue.h:39)
FinishIncludesQuit ==
  many = "over" => \A r \in WaitList : reader_quit[r] => r \in finish_list

\* A thread does not sleep while one of its readers is finished already.
OneIsEnough ==
  many = "asleep" => \A r \in WaitList : r \notin finish_list
=============================================================================
