----------------------------- MODULE BulkQueue -----------------------------
(***************************************************************************)
(* SequencedBulkQueue<T>: the queue that carries raw samples, frames and    *)
(* calculation results between the threads of the program, and its Reader   *)
(* (device/sequenced_bulk_queue.{h,cc}).                                    *)
(*                                                                          *)
(* A bulk is known by its sequence number.  buffer_queue_ is a list, but    *)
(* PushBulk only appends the next number, so the set of the numbers still   *)
(* queued says as much: the front is its minimum, back() its maximum.       *)
(*                                                                          *)
(* Every action is one critical section of lock_, or one step of a reader's *)
(* thread outside it, so that the window between CheckReady and             *)
(* SetReadyCallback, the one between a timed-out wait and CancelCallback,   *)
(* and the one inside ~Reader are all open to the pushing thread.           *)
(***************************************************************************)
EXTENDS Integers, FiniteSets, FiniteSetsExt, Sequences

CONSTANTS
  SyncReaders,     \* readers used through WaitGetBulk / GetBulkSameThread
  TimedReaders,    \* the sync readers that use WaitTimeoutGetBulk
  AsyncReaders,    \* readers used through CallbackOnReady
  EagerReaders,    \* the async readers whose callback re-arms before GetResult
  CloseArmed,      \* the async readers that may be destroyed while armed
  Skips,           \* the arguments of Skip()
  OverWrite,       \* over_write_: the owner of the queue calls RecycleOne
  KeepIfNoReader,  \* keep_if_no_reader_
  CanQuit,         \* does the owner ever call Quit()
  MaxPush          \* bound: number of bulks pushed

Readers == SyncReaders \cup AsyncReaders

ASSUME ReadersAssumption ==
  /\ SyncReaders \cap AsyncReaders = {}
  /\ TimedReaders \subseteq SyncReaders
  /\ EagerReaders \subseteq AsyncReaders
  /\ CloseArmed \subseteq AsyncReaders
  /\ IsFiniteSet(Readers)

ASSUME ParametersAssumption ==
  /\ Skips \subseteq Nat
  /\ OverWrite \in BOOLEAN
  /\ KeepIfNoReader \in BOOLEAN
  /\ CanQuit \in BOOLEAN
  /\ MaxPush \in Nat

VARIABLES
  \* SequencedBulkQueueBase and SequencedBulkQueue, under lock_
  quiting,        \* quiting_
  count,          \* count_: numbers of bulks pushed so far
  buffer_queue,   \* buffer_queue_: the numbers of the bulks still held
  callback_map,   \* callback_map_: the readers with a registered callback
  registered,     \* the keys of count_map_
  count_map,      \* count_map_: number of the last bulk each reader got
  reader_min,     \* reader_min_
  reader_max,     \* reader_max_
  \* ReaderBase and Reader
  reader_count,   \* count_: the number the reader asks for next
  temp_count,     \* temp_count_: the bulk stored for the caller
  event,          \* event_, a manual reset event
  reader_quit,    \* quiting_ of the reader
  tasks,          \* CallHaveData tasks posted to the reader's message loop
  pc,             \* where the reader's thread is
  owed,           \* an eager callback has re-armed, its GetResult is to come
  quit_pc,        \* where the thread that calls Quit() is
  crashed,        \* a callback ran into a half destroyed reader
  \* history
  recycled,       \* bulks dropped by RecycleOne
  passed,         \* bulks a reader skipped with Skip()
  base,           \* first bulk a reader could see when it registered
  got             \* the bulks handed to each reader's caller, in order

queueVars  == <<buffer_queue, count, count_map, reader_min, reader_max>>
readerVars == <<reader_count, temp_count>>
histVars   == <<recycled, passed, base, got>>
vars == <<quiting, count, buffer_queue, callback_map, registered, count_map,
          reader_min, reader_max, reader_count, temp_count, event, reader_quit,
          tasks, pc, owed, quit_pc, crashed, recycled, passed, base, got>>

Unread == -1      \* a reader starts with start_count - 1: nothing read yet

PCs == {"none", "idle", "checked", "set", "waiting", "timedout", "drain",
        "destroying", "leaving", "dead"}

Init ==
  /\ quiting = FALSE /\ count = 0 /\ buffer_queue = {} /\ callback_map = {}
  /\ registered = {} /\ reader_min = Unread /\ reader_max = Unread
  /\ count_map = [r \in Readers |-> Unread]
  /\ reader_count = [r \in Readers |-> 0]
  /\ temp_count = [r \in Readers |-> Unread]
  /\ event = [r \in Readers |-> FALSE]
  /\ reader_quit = [r \in Readers |-> FALSE]
  /\ tasks = [r \in Readers |-> 0]
  /\ pc = [r \in Readers |-> "none"]
  /\ owed = [r \in Readers |-> FALSE]
  /\ quit_pc = "no" /\ crashed = FALSE
  /\ recycled = {} /\ passed = [r \in Readers |-> {}]
  /\ base = [r \in Readers |-> 0] /\ got = [r \in Readers |-> <<>>]

(***************************************************************************)
(* Operators on the queue.                                                  *)
(***************************************************************************)

\* the bulks that satisfy a reader asking for number n
AtLeast(queue, n) == {c \in queue : c >= n}

\* (slip) the newest bulk instead of the next one
FindBulkNewest(queue, n) == Max(AtLeast(queue, n))

\* FindBulk: the first of the list whose number is at least n
FindBulk(queue, n) == Min(AtLeast(queue, n))

\* (slip) one bulk too many, and everything the fastest reader has read
ReleaseOneTooMany(queue, min) ==
  IF registered = {}
  THEN IF KeepIfNoReader THEN queue ELSE {}
  ELSE {c \in queue : c > min + 1}

ReleaseToFastest(queue, min) ==
  IF registered = {}
  THEN IF KeepIfNoReader THEN queue ELSE {}
  ELSE {c \in queue : c > reader_max'}

\* MayReleaseBuffer: what it leaves of the queue
MayReleaseBuffer(queue, min) ==
  IF registered = {}
  THEN IF KeepIfNoReader THEN queue ELSE {}
  ELSE {c \in queue : c > min}

\* GetBulkNoLock and UpdateReaderCount for each reader of S, from queue.  The
\* bulks one of them releases are behind every other, so one step for all
\* of S does what the loop over the callbacks does.
GetBulk(S, queue) ==
  LET found == [r \in Readers |->
                  IF r \in S THEN FindBulk(queue, reader_count[r]) ELSE count_map[r]]
  IN  /\ count_map' = found
      /\ reader_min' = IF S = {} THEN reader_min ELSE Min({found[r] : r \in registered})
      /\ reader_max' = Max({reader_max} \cup {found[r] : r \in S})
      /\ reader_count' = [r \in Readers |->
                            IF r \in S THEN found[r] + 1 ELSE reader_count[r]]
      /\ temp_count' = [r \in Readers |-> IF r \in S THEN found[r] ELSE temp_count[r]]

\* OnWaitReady wakes a thread, OnBufferReady posts CallHaveData
Signal(S) ==
  /\ event' = [r \in Readers |-> event[r] \/ r \in S \cap SyncReaders]
  /\ tasks' = [r \in Readers |-> IF r \in S \cap AsyncReaders THEN tasks[r] + 1
                                                              ELSE tasks[r]]

\* FireCallbackNoLock once the queue is quitting: every callback is told to
\* quit, and stays registered
FireQuit ==
  /\ quiting
  /\ reader_quit' = [r \in Readers |-> reader_quit[r] \/ r \in callback_map]
  /\ Signal(callback_map)
  /\ UNCHANGED <<callback_map, count_map, reader_min, reader_max, readerVars, crashed>>

\* FireCallbackNoLock before that: the callbacks reached get their bulk and
\* are erased.  GetBulk is pure virtual once the derived destructor has run.
FireReached(queue, reach) ==
  LET S == {r \in callback_map : reader_count[r] <= reach}
  IN  /\ ~quiting
      /\ crashed' = (crashed \/ \E r \in S : pc[r] = "destroying")
      /\ GetBulk(S, queue)
      /\ Signal(S)
      /\ callback_map' = callback_map \ S
      /\ UNCHANGED reader_quit

FireCallbackNoLock(queue, reach) == FireQuit \/ FireReached(queue, reach)

\* MayFireCallback: nothing at all when the queue is empty
MayFireCallback ==
  IF buffer_queue = {}
  THEN UNCHANGED <<queueVars, readerVars, callback_map, event, tasks, reader_quit, crashed>>
  ELSE /\ FireCallbackNoLock(buffer_queue, Max(buffer_queue))
       /\ buffer_queue' = IF callback_map' = callback_map
                          THEN buffer_queue
                          ELSE MayReleaseBuffer(buffer_queue, reader_min')
       /\ UNCHANGED count

(***************************************************************************)
(* The thread that owns the queue.                                          *)
(***************************************************************************)

PushBulk ==
  /\ count < MaxPush
  /\ count' = count + 1
  /\ FireCallbackNoLock(buffer_queue \cup {count}, count)
  /\ buffer_queue' = MayReleaseBuffer(buffer_queue \cup {count}, reader_min')
  /\ UNCHANGED <<quiting, registered, pc, owed, quit_pc, histVars>>

\* the candidates of RecycleOne: bulks nobody has read yet first, then those
\* between the slowest and the fastest reader
Recyclable ==
  LET unread  == {c \in buffer_queue : c > reader_max}
      between == {c \in buffer_queue : c > reader_min /\ c <= reader_max}
  IN  IF unread # {} THEN unread ELSE between

RecycleOne ==
  /\ OverWrite
  /\ registered # {}
  /\ Recyclable # {}
  /\ buffer_queue' = buffer_queue \ {Min(Recyclable)}
  /\ recycled' = recycled \cup {Min(Recyclable)}
  /\ UNCHANGED <<quiting, count, callback_map, registered, count_map, reader_min,
                 reader_max, readerVars, event, reader_quit, tasks, pc, owed,
                 quit_pc, crashed, passed, base, got>>

\* Quit() sets quiting_ in one critical section ...
QuitSet ==
  /\ CanQuit /\ quit_pc = "no"
  /\ quiting' = TRUE /\ quit_pc' = "set"
  /\ UNCHANGED <<queueVars, callback_map, registered, readerVars, event,
                 reader_quit, tasks, pc, owed, crashed, histVars>>

\* ... and calls MayFireCallback in another
QuitFire ==
  /\ quit_pc = "set"
  /\ quit_pc' = "done"
  /\ MayFireCallback
  /\ UNCHANGED <<quiting, registered, pc, owed, histVars>>

(***************************************************************************)
(* A reader: construction, a wait in its steps, destruction.                *)
(***************************************************************************)

Goto(r, to) == pc' = [pc EXCEPT ![r] = to]

\* ReaderBase(): RegisterReader(this, 0)
RegisterReader(r) ==
  /\ pc[r] = "none"
  /\ Goto(r, "idle")
  /\ registered' = registered \cup {r}
  /\ reader_min' = IF registered = {} THEN Unread ELSE Min({Unread, reader_min})
  /\ reader_max' = IF registered = {} THEN Unread ELSE Max({Unread, reader_max})
  /\ base' = [base EXCEPT ![r] = IF buffer_queue = {} THEN count ELSE Min(buffer_queue)]
  /\ UNCHANGED <<quiting, count, buffer_queue, callback_map, count_map, readerVars,
                 event, reader_quit, tasks, owed, quit_pc, crashed, recycled, passed, got>>

\* may the thread start a wait: WaitForReady and CallbackOnReady CHECK(!IsQuit()),
\* and an async reader has one callback outstanding
MayWait(r) == pc[r] = "idle" /\ ~reader_quit[r]

\* CheckReady (or GetBulkSameThread) finds a bulk and takes it at once.  A sync
\* call returns with it, CallbackOnReady posts CallHaveData.
WaitReady(r) ==
  /\ MayWait(r)
  /\ AtLeast(buffer_queue, reader_count[r]) # {}
  /\ GetBulk({r}, buffer_queue)
  /\ buffer_queue' = MayReleaseBuffer(buffer_queue, reader_min')
  /\ IF r \in SyncReaders
     THEN /\ got' = [got EXCEPT ![r] = Append(@, temp_count'[r])]
          /\ UNCHANGED <<pc, tasks>>
     ELSE /\ tasks' = [tasks EXCEPT ![r] = @ + 1]
          /\ Goto(r, "waiting")
          /\ UNCHANGED got
  /\ UNCHANGED <<quiting, count, callback_map, registered, event, reader_quit,
                 owed, quit_pc, crashed, recycled, passed, base>>

\* CheckReady finds none ...
WaitNotReady(r) ==
  /\ MayWait(r)
  /\ AtLeast(buffer_queue, reader_count[r]) = {}
  /\ Goto(r, "checked")
  /\ UNCHANGED <<quiting, queueVars, callback_map, registered, readerVars, event,
                 reader_quit, tasks, owed, quit_pc, crashed, histVars>>

\* ... so SetReadyCallback registers the callback ...
SetReadyCallback(r) ==
  /\ pc[r] = "checked"
  /\ Goto(r, "set")
  /\ callback_map' = callback_map \cup {r}
  /\ UNCHANGED <<quiting, queueVars, registered, readerVars, event,
                 reader_quit, tasks, owed, quit_pc, crashed, histVars>>

\* (slip) nobody looks again after the callback is registered
SetReadyNoSecondLook(r) ==
  /\ pc[r] = "set"
  /\ Goto(r, "waiting")
  /\ UNCHANGED <<queueVars, readerVars, callback_map, event, tasks, reader_quit, crashed,
                 quiting, registered, owed, quit_pc, histVars>>

\* ... and looks again, in a second critical section
SetReadyFire(r) ==
  /\ pc[r] = "set"
  /\ Goto(r, "waiting")
  /\ MayFireCallback
  /\ UNCHANGED <<quiting, registered, owed, quit_pc, histVars>>

\* event_.Wait() returns: Reset, and the caller gets the bulk unless quitting
WaitReturn(r) ==
  /\ r \in SyncReaders
  /\ pc[r] \in {"waiting", "drain"}
  /\ event[r]
  /\ event' = [event EXCEPT ![r] = FALSE]
  /\ Goto(r, "idle")
  /\ got' = IF reader_quit[r] THEN got ELSE [got EXCEPT ![r] = Append(@, temp_count[r])]
  /\ UNCHANGED <<quiting, queueVars, callback_map, registered, readerVars,
                 reader_quit, tasks, owed, quit_pc, crashed, recycled, passed, base>>

\* event_.TimedWait() returns false ...
WaitTimeout(r) ==
  /\ r \in TimedReaders
  /\ pc[r] = "waiting"
  /\ ~event[r]
  /\ Goto(r, "timedout")
  /\ UNCHANGED <<quiting, queueVars, callback_map, registered, readerVars, event,
                 reader_quit, tasks, owed, quit_pc, crashed, histVars>>

CancelThenDrain(r) ==
  /\ pc[r] = "timedout"
  /\ Goto(r, "drain")
  /\ callback_map' = callback_map \ {r}
  /\ UNCHANGED <<quiting, queueVars, registered, readerVars, event,
                 reader_quit, tasks, owed, quit_pc, crashed, histVars>>

\* ... then CancelCallback: still registered, the call returns false; already
\* fired, the signal is waited for
CancelCallback(r) ==
  /\ pc[r] = "timedout"
  /\ Goto(r, IF r \in callback_map THEN "idle" ELSE "drain")
  /\ callback_map' = callback_map \ {r}
  /\ UNCHANGED <<quiting, queueVars, registered, readerVars, event,
                 reader_quit, tasks, owed, quit_pc, crashed, histVars>>

\* Skip(n), between two reads
Skip(r, n) ==
  /\ pc[r] = "idle"
  /\ reader_count[r] + n <= MaxPush
  /\ reader_count' = [reader_count EXCEPT ![r] = @ + n]
  /\ passed' = [passed EXCEPT ![r] = @ \cup reader_count[r] .. reader_count[r] + n - 1]
  /\ UNCHANGED <<quiting, queueVars, callback_map, registered, temp_count, event,
                 reader_quit, tasks, pc, owed, quit_pc, crashed, recycled, base, got>>

\* CallHaveData runs have_data_.  A prompt callback (Oscilloscope::QueueUpdate)
\* takes its result first and arms later; an eager one
\* (CANScopeChnlCalc::OnRawDataArrive) arms first.
CallHaveData(r) ==
  /\ r \in AsyncReaders
  /\ pc[r] \in {"idle", "waiting"} /\ tasks[r] > 0 /\ ~owed[r]
  /\ tasks' = [tasks EXCEPT ![r] = @ - 1]
  /\ Goto(r, "idle")
  /\ owed' = [owed EXCEPT ![r] = r \in EagerReaders /\ ~reader_quit[r]]
  /\ got' = IF r \in EagerReaders \/ reader_quit[r]
            THEN got ELSE [got EXCEPT ![r] = Append(@, temp_count[r])]
  /\ UNCHANGED <<quiting, queueVars, callback_map, registered, readerVars, event,
                 reader_quit, quit_pc, crashed, recycled, passed, base>>

\* the GetResult of an eager callback, after its CallbackOnReady
GetResult(r) ==
  /\ owed[r] /\ pc[r] = "waiting"
  /\ owed' = [owed EXCEPT ![r] = FALSE]
  /\ got' = IF reader_quit[r] THEN got ELSE [got EXCEPT ![r] = Append(@, temp_count[r])]
  /\ UNCHANGED <<quiting, queueVars, callback_map, registered, readerVars, event,
                 reader_quit, tasks, pc, quit_pc, crashed, recycled, passed, base>>

\* ~Reader() has run, ~ReaderBase() is about to: its two calls take the lock
\* one after the other
DestroyReader(r) ==
  /\ pc[r] \in {"idle"} \cup (IF r \in CloseArmed THEN {"waiting"} ELSE {})
  /\ ~owed[r]
  /\ Goto(r, "destroying")
  /\ UNCHANGED <<quiting, queueVars, callback_map, registered, readerVars, event,
                 reader_quit, tasks, owed, quit_pc, crashed, histVars>>

DestroyCancel(r) ==
  /\ pc[r] = "destroying"
  /\ Goto(r, "leaving")
  /\ callback_map' = callback_map \ {r}
  /\ UNCHANGED <<quiting, queueVars, registered, readerVars, event,
                 reader_quit, tasks, owed, quit_pc, crashed, histVars>>

\* UnRegisterReader: an empty count_map_ leaves the range as it was
UnRegisterReader(r) ==
  LET left == registered \ {r}
      lasts == {count_map[x] : x \in left}
  IN  /\ pc[r] = "leaving"
      /\ Goto(r, "dead")
      /\ registered' = left
      /\ reader_min' = IF left = {} THEN reader_min ELSE Min(lasts)
      /\ reader_max' = IF left = {} THEN reader_max ELSE Max(lasts)
      /\ UNCHANGED <<quiting, count, buffer_queue, callback_map, count_map, readerVars,
                     event, reader_quit, tasks, owed, quit_pc, crashed, histVars>>

OwnerStep == PushBulk \/ RecycleOne \/ QuitSet \/ QuitFire

\* what a reader's thread does in the course of one wait
WaitStep(r) ==
  \/ WaitReady(r) \/ WaitNotReady(r) \/ SetReadyCallback(r) \/ SetReadyFire(r)
  \/ WaitReturn(r) \/ CancelCallback(r) \/ CallHaveData(r) \/ GetResult(r)

ReaderStep(r) ==
  \/ RegisterReader(r) \/ WaitStep(r) \/ WaitTimeout(r)
  \/ \E n \in Skips : Skip(r, n)
  \/ DestroyReader(r) \/ DestroyCancel(r) \/ UnRegisterReader(r)

Next == OwnerStep \/ \E r \in Readers : ReaderStep(r)

Spec == Init /\ [][Next]_vars

\* The operating system runs every thread that can run, a woken thread goes on,
\* posted tasks are run, and a reader's loop asks for the next bulk.  Nothing
\* obliges anyone to push, skip, time out or destroy a reader.
Fairness ==
  /\ WF_vars(QuitFire)
  /\ \A r \in Readers : WF_vars(WaitStep(r))

FairSpec == Spec /\ Fairness

(***************************************************************************)
(* Properties.                                                              *)
(***************************************************************************)

\* The domain of every variable.
TypeOK ==
  /\ quiting \in BOOLEAN /\ crashed \in BOOLEAN
  /\ quit_pc \in {"no", "set", "done"}
  /\ count \in Nat
  /\ buffer_queue \in SUBSET (0 .. count - 1)
  /\ recycled \in SUBSET (0 .. count - 1)
  /\ callback_map \in SUBSET Readers
  /\ registered \in SUBSET Readers
  /\ reader_min \in Int /\ reader_max \in Int
  /\ count_map \in [Readers -> Int]
  /\ \A r \in Readers : count_map[r] >= Unread /\ count_map[r] < count
  /\ reader_count \in [Readers -> Nat]
  /\ temp_count \in [Readers -> Int]
  /\ event \in [Readers -> BOOLEAN]
  /\ reader_quit \in [Readers -> BOOLEAN]
  /\ tasks \in [Readers -> Nat]
  /\ pc \in [Readers -> PCs]
  /\ owed \in [Readers -> BOOLEAN]
  /\ passed \in [Readers -> SUBSET Nat]
  /\ base \in [Readers -> Nat]
  /\ got \in [Readers -> Seq(Int)]

\* reader_min_ and reader_max_, kept up to date piecemeal by the constructor,
\* the destructor and UpdateReaderCount, are the positions of the slowest and
\* the fastest reader.  What is released and what is recycled rests on it.
RangeIsExact ==
  registered # {} =>
    LET lasts == {count_map[r] : r \in registered}
    IN  reader_min = Min(lasts) /\ reader_max = Max(lasts)

\* No bulk is released under a reader that has still to read it: everything
\* from the reader's first bulk on that lies ahead of it is queued, or was
\* overwritten by RecycleOne.
NothingReleasedEarly ==
  \A r \in registered : \A c \in base[r] .. count - 1 :
    c > count_map[r] => c \in buffer_queue \cup recycled

\* A registered callback is never left behind by a bulk it asks for, except in
\* the window in which SetReadyCallback has yet to look again.
NoMissedWakeup ==
  \A r \in callback_map :
    pc[r] # "set" /\ ~quiting => AtLeast(buffer_queue, reader_count[r]) = {}

\* A thread blocked in a wait has a callback that can wake it, or has been
\* woken; once CancelCallback said "already called" the signal is there.
NeverStranded ==
  \A r \in Readers :
    /\ pc[r] = "waiting" => r \in callback_map \/ event[r] \/ tasks[r] > 0
    /\ pc[r] = "drain" => event[r]

\* No signal outlives the wait it belongs to, so that a later wait cannot
\* return early with the bulk of an earlier one: a timeout racing the callback
\* takes the late signal with it.  (After Quit a stale signal is possible.)
NoStaleSignal ==
  \A r \in Readers :
    ~reader_quit[r] =>
      /\ pc[r] \in {"idle", "checked"} => ~event[r] /\ tasks[r] = 0
      /\ r \in callback_map => ~event[r] /\ tasks[r] = 0
      /\ tasks[r] <= 1

\* The results of a reader that is between two waits, or asleep in one.
Settled(r) ==
  ~owed[r] /\ (pc[r] = "idle" \/ (pc[r] = "waiting" /\ r \in callback_map))

\* A reader that has nothing in flight was handed every bulk behind it, but
\* for the overwritten ones and those it skipped itself ("if buck_count >
\* last_count mean data lost by overwrite").
OnlyOverwriteLoses ==
  \A r \in Readers : Settled(r) /\ tasks[r] = 0 =>
    \A c \in base[r] .. reader_count[r] - 1 :
      \/ c \in recycled \cup passed[r]
      \/ \E i \in DOMAIN got[r] : got[r][i] = c

\* No callback runs on a reader whose destructor is running ("if reader is
\* destroy when call callback. the callback is no be called").
NoCallbackIntoDestroyed == ~crashed

\* The queue implements the stream of BulkStream: releasing memory, recycling
\* it, and waking readers from the pushing thread never change which bulk a
\* reader gets next.
Stream == INSTANCE BulkStream WITH
  pushed <- count, overwritten <- recycled, joined <- registered,
  first <- base, next <- reader_count, given_up <- passed
ImplementsStream == Stream!StreamSpec

\* A bulk a reader can still see is read by it, overwritten, or given up by the
\* reader's own destruction, its wait for it included.
EventuallyRead ==
  \A r \in Readers : \A c \in 0 .. MaxPush - 1 :
    (r \in registered /\ c \in base[r] .. count - 1 /\ c >= reader_count[r])
      ~> (reader_count[r] > c \/ c \in recycled \/ reader_quit[r] \/ pc[r] \in
            {"destroying", "leaving", "dead"})

\* Quit() lets every waiting thread go ("false when need to quit").
QuitWakesEveryone ==
  \A r \in SyncReaders :
    (quit_pc = "done" /\ pc[r] = "waiting") ~> pc[r] # "waiting"
(***************************************************************************)
(* The inductive invariant behind the theorems of BulkQueueProofs.          *)
(***************************************************************************)

\* which readers are in the maps of the queue, by where their thread is
Membership ==
  /\ \A r \in Readers : r \in registered <=> pc[r] \notin {"none", "dead"}
  /\ \A r \in callback_map :
       \/ pc[r] \in {"set", "waiting", "timedout", "destroying"}
       \/ pc[r] = "idle" /\ reader_quit[r]
  /\ \A r \in Readers :
       pc[r] = "none" => count_map[r] = Unread /\ ~event[r] /\ tasks[r] = 0
  /\ \A r \in Readers : pc[r] \in {"timedout", "drain"} => r \in SyncReaders
  /\ \A r \in Readers : reader_quit[r] => quiting

\* a reader asks for bulks beyond the last one it got
AsksAhead == \A r \in Readers : count_map[r] < reader_count[r]

\* the queue is the end of the stream, less what was recycled, and no reader
\* joined in front of it
QueueIsTail ==
  /\ \A b \in buffer_queue : \A c \in b .. count - 1 : c \in buffer_queue \cup recycled
  /\ \A r \in registered : base[r] <= count /\ \A c \in buffer_queue : base[r] <= c

\* a thread on its way into or out of a wait can be woken, or was
Wakeable ==
  \A r \in Readers :
    /\ pc[r] \in {"set", "waiting", "timedout"} =>
         r \in callback_map \/ event[r] \/ tasks[r] > 0
    /\ pc[r] = "drain" => event[r]
    /\ r \in SyncReaders => tasks[r] = 0
    /\ r \in AsyncReaders => ~event[r]

\* Everything the safety properties above need of each other, kept by every
\* critical section: positions, range, contents of the queue, and signals.
IInv ==
  /\ TypeOK /\ Membership /\ AsksAhead /\ RangeIsExact
  /\ NothingReleasedEarly /\ QueueIsTail
  /\ NoMissedWakeup /\ Wakeable /\ NoStaleSignal
=============================================================================
