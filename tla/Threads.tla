------------------------------ MODULE Threads ------------------------------
(***************************************************************************)
(* The named threads (common/common_thread_impl.cc), how they are made and  *)
(* ended (common/common_thread_manager.cc), and the notifications between   *)
(* them (common/notification).                                              *)
(*                                                                          *)
(* A post is two steps: the loop of the target is read, with lock or, when  *)
(* the target outlives the poster, without, and then given the task.  The   *)
(* thread and its loop are base::Thread's: it runs what is queued, ends when *)
(* it was told to quit and is idle, and takes no lock for that.             *)
(***************************************************************************)
EXTENDS Integers, Sequences, FiniteSets, SequencesExt

CONSTANTS
  Registrations,  \* what is registered, by the thread it is registered on
  MaxPosts        \* bound: calls of PostTask, NotifyAll and the pool's PostTask

\* CommonThread::ID, "in the order of their life-time"
UI == 0
TASK == 1
CALC == 2
DEVICE == 3
ID_COUNT == 4
Ids == UI .. ID_COUNT - 1
\* a worker of the blocking pool, which has no identifier
Worker == ID_COUNT
Posters == Ids \cup {Worker}
Nobody == -1

ALL == "all"  \* NOTIFICATION_ALL, and AllSources()
Types == {"created", "destroy"}
Sources == {"device"}
Registration == [thread : Ids, observer : {"process", "handle", "log"},
                 type : Types \cup {ALL}, source : Sources \cup {ALL}]

ASSUME ThreadsAssumption == Registrations \subseteq Registration /\ MaxPosts \in Nat

VARIABLES
  main,        \* where CommonThreadManager is, and with which thread
  threads,     \* the identifiers that have a thread in g_globals
  loop,        \* the message loop of each: "none", "live" or "dead"
  told_quit,   \* the loops that were told to quit
  queue,       \* the tasks of each loop
  notifiers,   \* the threads that have a NotificationService
  observers,   \* observers_ of them all
  registered,  \* registered_ of the registrars
  at,          \* each poster: "idle", before a "post" or the "send" of it, or "gone"
  post,        \* what a poster posts, to whom, and whether it found a loop
  lock,        \* who holds g_globals.lock
  pool,        \* blocking_pool: "none", "up" or "down"
  pool_tasks,  \* its tasks
  calls,       \* calls so far
  lost,        \* history: who posted, and to whom, what was never run
  crashed      \* history: a loop or a pool was used that is not there

mgrVars == <<main, threads, loop, told_quit>>
noteVars == <<notifiers, observers, registered>>
postVars == <<at, post, lock, calls>>
threadsVars == <<mgrVars, queue, noteVars, postVars, pool, pool_tasks, lost, crashed>>

NewPost(to, task) == [to |-> to, task |-> task, found |-> FALSE]
NoPost == NewPost(<<>>, [kind |-> "work"])

\* InitializeMainThread is over, and CANScopeProcess is the delegate of all
ThreadsInit ==
  /\ main = [at |-> "create", id |-> TASK]
  /\ threads = {UI} /\ told_quit = {}
  /\ loop = [i \in Ids |-> IF i = UI THEN "live" ELSE "none"]
  /\ queue = [i \in Ids |-> <<>>]
  /\ notifiers = {UI} /\ observers = {} /\ registered = {}
  /\ at = [p \in Posters |-> "idle"] /\ post = [p \in Posters |-> NoPost]
  /\ lock = Nobody /\ pool = "none" /\ pool_tasks = 0 /\ calls = 0
  /\ lost = {} /\ crashed = FALSE

-----------------------------------------------------------------------------
(* Notifications. *)

HasKey(regs, type, source) == \E r \in regs : r.type = type /\ r.source = source
Of(regs, type, source) == {r \in regs : r.type = type /\ r.source = source}

\* Notify: the lists that are gone through, one after the other
Notify(regs, type, source) ==
  << IF source # ALL THEN Of(regs, ALL, ALL) ELSE {}, Of(regs, ALL, source),
     IF source # ALL THEN Of(regs, type, ALL) ELSE {}, Of(regs, type, source) >>

\* NotificationRegistrar::Add
Add(r) ==
  /\ r \notin registered /\ registered' = registered \cup {r}
  /\ observers' = observers \cup {r}
  /\ UNCHANGED notifiers

\* (slip) the list goes though there are other observers on it
RemoveList(r) ==
  /\ r \in registered /\ registered' = registered \ {r}
  /\ observers' = IF r.thread \in notifiers
                  THEN {o \in observers : o.thread # r.thread \/ o.type # r.type
                                          \/ o.source # r.source}
                  ELSE observers
  /\ UNCHANGED notifiers

\* NotificationRegistrar::Remove, RemoveAll; without a service it only forgets
RemoveReg(r) ==
  /\ r \in registered /\ registered' = registered \ {r}
  /\ observers' = IF r.thread \in notifiers THEN observers \ {r} ELSE observers
  /\ UNCHANGED notifiers

-----------------------------------------------------------------------------
(* PostTask. *)

\* "if we know that the target thread outlives current thread"; a worker is no
\* current thread
\* (slip) the identifiers are compared the wrong way
OutlivesReversed(id, p) == p \in Ids /\ p <= id
Outlives(id, p) == p \in Ids /\ p >= id

\* PostTaskHelper up to the look at the loop
BeginPost(p) ==
  /\ at[p] = "post"
  /\ LET id == Head(post[p].to) IN
     /\ IF Outlives(id, p) THEN UNCHANGED lock ELSE lock = Nobody /\ lock' = p
     /\ post' = [post EXCEPT ![p].found = id \in threads /\ loop[id] = "live"]
  /\ at' = [at EXCEPT ![p] = "send"]
  /\ UNCHANGED <<mgrVars, queue, noteVars, pool, pool_tasks, calls, lost, crashed>>

\* ... and the rest; NotifyAll goes on with the next thread
EndPost(p) ==
  /\ at[p] = "send"
  /\ LET id == Head(post[p].to)
         rest == Tail(post[p].to) IN
     /\ IF post[p].found /\ loop[id] = "live"
        THEN queue' = [queue EXCEPT ![id] = Append(@, [task |-> post[p].task, from |-> p])]
        ELSE UNCHANGED queue
     /\ crashed' = (crashed \/ (post[p].found /\ loop[id] # "live"))
     /\ at' = [at EXCEPT ![p] = IF rest = <<>> THEN "idle" ELSE "post"]
     /\ post' = [post EXCEPT ![p] = IF rest = <<>> THEN NoPost
                                    ELSE [@ EXCEPT !.to = rest, !.found = FALSE]]
  /\ lock' = IF lock = p THEN Nobody ELSE lock
  /\ UNCHANGED <<mgrVars, noteVars, pool, pool_tasks, calls, lost>>

\* what a task calls: PostTask to one, NotifyAll to all
Call(p, to, task) ==
  /\ calls < MaxPosts /\ calls' = calls + 1
  /\ at' = [at EXCEPT ![p] = "post"]
  /\ post' = [post EXCEPT ![p] = NewPost(to, task)]
  /\ UNCHANGED <<noteVars, pool_tasks, crashed>>

PostTask(p, id) == Call(p, <<id>>, [kind |-> "work"])
NotifyAll(p, type) ==
  Call(p, [i \in 1 .. ID_COUNT |-> i - 1], [kind |-> "notify", type |-> type, source |-> "device"])

\* GetBlockingPool, PostBlockingPoolTask
PostBlockingPoolTask ==
  /\ calls < MaxPosts /\ calls' = calls + 1
  /\ crashed' = (crashed \/ pool # "up")
  /\ pool_tasks' = pool_tasks + 1
  /\ UNCHANGED <<at, post, noteVars>>

\* the task makes or drops an observer
Register(p) ==
  /\ calls < MaxPosts /\ calls' = calls + 1
  /\ \E r \in Registrations : r.thread = p /\ (Add(r) \/ RemoveReg(r))
  /\ UNCHANGED <<at, post, pool_tasks, crashed>>

-----------------------------------------------------------------------------
(* Tasks: one call in each will do. *)

Work(p) ==
  \/ \E id \in Ids : PostTask(p, id)
  \/ \E type \in Types : NotifyAll(p, type)
  \/ PostBlockingPoolTask
  \/ Register(p)

NoWork == UNCHANGED <<at, post, calls, noteVars, pool_tasks, crashed>>

\* handles destroy themselves when they are told of the end of their device
Told(id, task) ==
  LET lists == Notify({r \in observers : r.thread = id}, task.type, task.source)
      gone == {r \in UNION ToSet(lists) : r.observer = "handle"} IN
  /\ observers' = observers \ gone /\ registered' = registered \ gone
  /\ UNCHANGED <<notifiers, at, post, calls, pool_tasks, crashed>>

\* the main thread runs its loop from MainMessageLoopRun until it is idle
Runs(id) == at[id] = "idle" /\ (id = UI => main.at \in {"run", "quit"})

RunTask(id) ==
  /\ Runs(id) /\ loop[id] = "live" /\ queue[id] # <<>>
  /\ queue' = [queue EXCEPT ![id] = Tail(@)]
  /\ LET task == Head(queue[id]).task IN
     IF task.kind = "notify" THEN Told(id, task) ELSE Work(id) \/ NoWork
  /\ UNCHANGED <<mgrVars, lock, pool, lost>>

\* an event of the user
Event ==
  /\ main.at = "run" /\ at[UI] = "idle" /\ Work(UI)
  /\ UNCHANGED <<mgrVars, queue, lock, pool, lost>>

RunWorker ==
  /\ at[Worker] = "idle" /\ pool_tasks > 0 /\ pool_tasks' = pool_tasks - 1
  /\ \/ \E id \in Ids : /\ calls < MaxPosts /\ calls' = calls + 1
                        /\ at' = [at EXCEPT ![Worker] = "post"]
                        /\ post' = [post EXCEPT ![Worker] = NewPost(<<id>>, [kind |-> "work"])]
     \/ UNCHANGED <<at, post, calls>>
  /\ UNCHANGED <<mgrVars, queue, noteVars, lock, pool, lost, crashed>>

-----------------------------------------------------------------------------
(* CommonThreadManager, on the main thread. *)

\* CreateThreads: the constructor takes the lock
Construct ==
  /\ main.at = "create" /\ lock = Nobody
  /\ threads' = threads \cup {main.id} /\ main' = [main EXCEPT !.at = "start"]
  /\ UNCHANGED <<loop, told_quit, queue, noteVars, postVars, pool, pool_tasks, lost, crashed>>

\* StartWithOptions waits until the thread has a loop and Init, the delegate's,
\* made its notifier
StartWithOptions ==
  /\ main.at = "start"
  /\ loop' = [loop EXCEPT ![main.id] = "live"] /\ notifiers' = notifiers \cup {main.id}
  /\ main' = IF main.id = DEVICE THEN [at |-> "set_up", id |-> UI]
             ELSE [at |-> "create", id |-> main.id + 1]
  /\ UNCHANGED <<threads, told_quit, queue, observers, registered, postVars, pool, pool_tasks,
                 lost, crashed>>

SetUpThreadPool ==
  /\ main.at = "set_up" /\ main' = [at |-> "run", id |-> UI] /\ pool' = "up"
  /\ UNCHANGED <<threads, loop, told_quit, queue, noteVars, postVars, pool_tasks, lost, crashed>>

\* MessageLoop::Quit in a task of the main thread
Quit ==
  /\ main.at = "run" /\ at[UI] = "idle" /\ main' = [main EXCEPT !.at = "quit"]
  /\ UNCHANGED <<threads, loop, told_quit, queue, noteVars, postVars, pool, pool_tasks, lost,
                 crashed>>

\* "the reverse order of occurrence in the BrowserThread::ID list"
StopNext(id) == IF id > UI THEN [at |-> "stop", id |-> id] ELSE [at |-> "pool", id |-> UI]

\* the main loop is idle: ShutdownThreadsAndCleanUp
Shutdown ==
  /\ main.at = "quit" /\ at[UI] = "idle" /\ queue[UI] = <<>>
  /\ main' = StopNext(ID_COUNT - 1)
  /\ UNCHANGED <<threads, loop, told_quit, queue, noteVars, postVars, pool, pool_tasks, lost,
                 crashed>>

\* (slip) the thread is not told to quit
StopUntold ==
  /\ main.at = "stop" /\ main' = [main EXCEPT !.at = "join"]
  /\ UNCHANGED <<threads, loop, told_quit, queue, noteVars, postVars, pool, pool_tasks, lost,
                 crashed>>

\* threads_[id].reset(): Thread::Stop
Stop ==
  /\ main.at = "stop" /\ main' = [main EXCEPT !.at = "join"]
  /\ told_quit' = told_quit \cup {main.id}
  /\ UNCHANGED <<threads, loop, queue, noteVars, postVars, pool, pool_tasks, lost, crashed>>

\* (slip) Run returns at once
CleanUpBusy(id) ==
  /\ id \in told_quit /\ id \in notifiers /\ at[id] = "idle"
  /\ notifiers' = notifiers \ {id}
  /\ observers' = {r \in observers : r.thread # id}
  /\ at' = [at EXCEPT ![id] = "gone"]
  /\ UNCHANGED <<mgrVars, queue, registered, post, lock, pool, pool_tasks, calls, lost, crashed>>

\* Run returns when the loop is idle; CleanUp, the delegate's
CleanUp(id) ==
  /\ id \in told_quit /\ id \in notifiers /\ at[id] = "idle" /\ queue[id] = <<>>
  /\ notifiers' = notifiers \ {id}
  /\ observers' = {r \in observers : r.thread # id}
  /\ at' = [at EXCEPT ![id] = "gone"]
  /\ UNCHANGED <<mgrVars, queue, registered, post, lock, pool, pool_tasks, calls, lost, crashed>>

Dropped(id) == {<<queue[id][k].from, id>> : k \in DOMAIN queue[id]}

\* message_loop_ is NULL, and the loop goes with the tasks it still has
LoopEnds(id) ==
  /\ id \in told_quit /\ id \notin notifiers /\ loop[id] = "live"
  /\ loop' = [loop EXCEPT ![id] = "dead"]
  /\ lost' = lost \cup Dropped(id) /\ queue' = [queue EXCEPT ![id] = <<>>]
  /\ UNCHANGED <<main, threads, told_quit, noteVars, postVars, pool, pool_tasks, crashed>>

\* the thread is joined; the rest of ~CommonThreadImpl takes the lock
Joined ==
  /\ main.at = "join" /\ loop[main.id] = "dead" /\ lock = Nobody
  /\ threads' = threads \ {main.id}
  /\ main' = StopNext(main.id - 1)
  /\ UNCHANGED <<loop, told_quit, queue, noteVars, postVars, pool, pool_tasks, lost, crashed>>

\* Shutdown of the pool waits for its tasks
ShutdownThreadPool ==
  /\ main.at = "pool" /\ pool_tasks = 0 /\ at[Worker] = "idle"
  /\ pool' = "down" /\ main' = [at |-> "main", id |-> UI]
  /\ UNCHANGED <<threads, loop, told_quit, queue, noteVars, postVars, pool_tasks, lost, crashed>>

\* main_thread_->CleanUp() and both resets
CleanUpMain ==
  /\ main.at = "main" /\ main' = [at |-> "over", id |-> UI]
  /\ notifiers' = {} /\ observers' = {} /\ threads' = {}
  /\ loop' = [loop EXCEPT ![UI] = "dead"]
  /\ lost' = lost \cup Dropped(UI) /\ queue' = [queue EXCEPT ![UI] = <<>>]
  /\ UNCHANGED <<told_quit, registered, postVars, pool, pool_tasks, crashed>>

\* delete g_Process, whose registrar finds no service any more
DeleteProcess ==
  /\ main.at = "over" /\ \E r \in registered : RemoveReg(r)
  /\ UNCHANGED <<mgrVars, queue, postVars, pool, pool_tasks, lost, crashed>>

MainStep ==
  \/ Construct \/ StartWithOptions \/ SetUpThreadPool
  \/ Shutdown \/ Stop \/ Joined \/ ShutdownThreadPool \/ CleanUpMain \/ DeleteProcess

ThreadStep(id) == RunTask(id) \/ CleanUp(id) \/ LoopEnds(id)
PosterStep(p) == BeginPost(p) \/ EndPost(p)

ThreadsNext ==
  \/ MainStep \/ Event \/ Quit \/ RunWorker
  \/ \E id \in Ids : ThreadStep(id)
  \/ \E p \in Posters : PosterStep(p)

ThreadsSpec == ThreadsInit /\ [][ThreadsNext]_threadsVars

\* every thread goes on, and so do the main thread and the pool
FairThreadsSpec ==
  /\ ThreadsSpec
  /\ WF_threadsVars(MainStep) /\ WF_threadsVars(RunWorker)
  /\ \A id \in Ids : WF_threadsVars(ThreadStep(id))
  /\ \A p \in Posters : WF_threadsVars(PosterStep(p))

(***************************************************************************)
(* Properties.                                                              *)
(***************************************************************************)

\* The domain of every variable.
ThreadsTypeOK ==
  /\ main.id \in Ids /\ threads \subseteq Ids /\ told_quit \subseteq Ids
  /\ loop \in [Ids -> {"none", "live", "dead"}]
  /\ notifiers \subseteq Ids
  /\ observers \subseteq Registration /\ registered \subseteq Registration
  /\ at \in [Posters -> {"idle", "post", "send", "gone"}]
  /\ lock \in Posters \cup {Nobody}
  /\ pool \in {"none", "up", "down"} /\ pool_tasks \in Nat /\ calls \in 0 .. MaxPosts
  /\ lost \subseteq Posters \X Ids /\ crashed \in BOOLEAN

\* What is posted without the lock is posted to a loop that is there, however the
\* threads are ended meanwhile ("no need to lock if we know that the target
\* thread outlives current thread").
UnlockedIsSafe ==
  \A p \in Ids :
    at[p] = "send" /\ lock # p /\ post[p].found => loop[Head(post[p].to)] = "live"

\* A task for a thread that outlives the poster is never dropped; for the main
\* thread it may be, whose loop ends before the others.
OutlivedIsRun ==
  \A d \in lost : d[1] \in Ids => d[1] < d[2] \/ d[2] = UI

\* While its service lives, every registration is told of what it asked for,
\* exactly once, whatever was registered and removed besides.
ToldOnce ==
  \A id \in notifiers, type \in Types, source \in Sources \cup {ALL} :
    LET lists == Notify({r \in observers : r.thread = id}, type, source)
        asked == {r \in registered : /\ r.thread = id /\ r.type \in {type, ALL}
                                     /\ r.source \in {source, ALL}}
    IN \A r \in Registrations :
         Cardinality({k \in 1 .. 4 : r \in lists[k]}) = IF r \in asked THEN 1 ELSE 0

\* Once the main loop was told to quit, the program comes to its end.
ShutdownEnds == (main.at = "quit") ~> (main.at = "over")
=============================================================================
