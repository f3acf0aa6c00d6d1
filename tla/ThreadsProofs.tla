--------------------------- MODULE ThreadsProofs ---------------------------
(***************************************************************************)
(* Proofs about Threads.                                                    *)
(*                                                                          *)
(* The threads are made in the order of their identifiers and ended in the  *)
(* reverse order, so that where CommonThreadManager is says which of them   *)
(* have a loop, were told to quit and have cleaned up (ThreadLife).  A      *)
(* thread that is ended has none that outlives it behind it: who may post   *)
(* without the lock is there, and so is whom it posts to.                   *)
(***************************************************************************)
EXTENDS Threads, FiniteSetTheorems, TLAPS

Phases == {"create", "start", "set_up", "run", "quit", "stop", "join", "pool", "main", "over"}
Task == [kind : {"work"}] \cup [kind : {"notify"}, type : Types, source : Sources]
Post == [to : Seq(Ids), task : Task, found : BOOLEAN]
Queued == [task : Task, from : Posters]

\* The domain of the variables, those that ThreadsTypeOK leaves out as well.
ThreadsTypes ==
  /\ ThreadsTypeOK
  /\ main \in [at : Phases, id : Ids]
  /\ post \in [Posters -> Post] /\ queue \in [Ids -> Seq(Queued)]

\* Where the main thread is.
MainLife ==
  /\ main.at \in {"create", "start", "stop", "join"} => main.id # UI
  /\ at[UI] # "idle" => main.at \in {"run", "quit"}

\* A thread that is made, told to quit, cleaned up and ended, in this order, and
\* after those with a higher identifier.
ThreadLife ==
  \A i \in Ids :
    /\ loop[i] = "none" <=> main.at \in {"create", "start"} /\ i >= main.id
    /\ loop[i] = "none" => at[i] = "idle"
    /\ i \in told_quit <=> /\ i # UI
                           /\ \/ main.at \in {"pool", "main", "over"}
                              \/ main.at = "stop" /\ i > main.id
                              \/ main.at = "join" /\ i >= main.id
    /\ i \in told_quit /\ (main.at = "join" => i # main.id) => loop[i] = "dead"
    /\ main.at = "over" => loop[i] = "dead"
    /\ loop[i] = "dead" => i \notin notifiers /\ (i \in told_quit \/ main.at = "over")
    /\ loop[i] = "live" => i \in notifiers \cup told_quit
    /\ i \in told_quit \ notifiers => at[i] = "gone"

\* A post is to somebody, and one without the lock to who outlives the poster.
PostLife ==
  /\ \A p \in Posters : at[p] \in {"post", "send"} => post[p].to # <<>>
  /\ \A p \in Ids : at[p] = "send" /\ lock # p => Outlives(Head(post[p].to), p)
  /\ UnlockedIsSafe

\* What a thread that has cleaned up is still given is from threads that end later.
QueueLife ==
  \A i \in told_quit \ notifiers :
    \A k \in DOMAIN queue[i] : queue[i][k].from \in Ids => queue[i][k].from < i

\* A service knows what is registered on its thread; where no thread is, nothing is.
NotesLife ==
  /\ \A r \in Registration : r.thread \in notifiers => (r \in observers <=> r \in registered)
  /\ \A r \in observers \cup registered : loop[r.thread] # "none"

ThreadsInv ==
  ThreadsTypes /\ MainLife /\ ThreadLife /\ PostLife /\ QueueLife /\ NotesLife /\ OutlivedIsRun

-----------------------------------------------------------------------------
(* Tasks. *)

\* What Work(p) and Told(p, task) have in common: they post at most once, for their
\* own thread, and change the registrations of their own thread alone, and those
\* in both lists.
TaskStep(p) ==
  /\ at' \in [Posters -> {"idle", "post", "send", "gone"}] /\ post' \in [Posters -> Post]
  /\ calls' \in 0 .. MaxPosts /\ pool_tasks' \in Nat /\ crashed' \in BOOLEAN
  /\ observers' \subseteq Registration /\ registered' \subseteq Registration
  /\ notifiers' = notifiers
  /\ at'[p] \in {"idle", "post"} /\ (at'[p] = "post" => post'[p].to # <<>>)
  /\ \A q \in Posters : q # p => at'[q] = at[q] /\ post'[q] = post[q]
  /\ \A r \in Registration :
       r.thread # p => (r \in observers' <=> r \in observers) /\ (r \in registered' <=> r \in registered)
  /\ \A r \in Registration :
       r.thread = p /\ p \in notifiers /\ (r \in observers <=> r \in registered)
         => (r \in observers' <=> r \in registered')

LEMMA IdsFacts == /\ Ids = {0, 1, 2, 3} /\ Posters = {0, 1, 2, 3, 4} /\ Nobody \notin Posters
                  /\ UI = 0 /\ TASK = 1 /\ CALC = 2 /\ DEVICE = 3 /\ Worker = 4
BY DEF Ids, Posters, Nobody, UI, ID_COUNT, Worker, TASK, CALC, DEVICE

\* A call is one post.
LEMMA CallIsTaskStep ==
  ASSUME ThreadsTypes, NEW p \in Ids, at[p] = "idle",
         NEW to \in Seq(Ids), to # <<>>, NEW task \in Task, Call(p, to, task),
         pool_tasks' \in Nat
  PROVE  TaskStep(p)
<1>1. NewPost(to, task) \in Post /\ NewPost(to, task).to = to
  BY DEF NewPost, Post
<1>2. post' \in [Posters -> Post] /\ post'[p].to = to
      /\ \A q \in Posters : q # p => post'[q] = post[q]
  BY <1>1 DEF Call, ThreadsTypes, Posters
<1>3. at' \in [Posters -> {"idle", "post", "send", "gone"}] /\ at'[p] = "post"
      /\ \A q \in Posters : q # p => at'[q] = at[q]
  BY DEF Call, ThreadsTypes, ThreadsTypeOK, Posters
<1>4. calls' \in 0 .. MaxPosts
  BY ThreadsAssumption DEF Call, ThreadsTypes, ThreadsTypeOK
<1>. QED  BY <1>2, <1>3, <1>4 DEF TaskStep, Call, ThreadsTypes, ThreadsTypeOK, noteVars

LEMMA WorkIsTaskStep ==
  ASSUME ThreadsTypes, NEW p \in Ids, at[p] = "idle", Work(p)
  PROVE  TaskStep(p)
<1>1. ASSUME NEW id \in Ids, PostTask(p, id)  PROVE TaskStep(p)
  <2>1. <<id>> \in Seq(Ids) /\ <<id>> # <<>>
    OBVIOUS
  <2>2. [kind |-> "work"] \in Task
    BY DEF Task
  <2>3. pool_tasks' \in Nat
    BY <1>1 DEF PostTask, Call, ThreadsTypes, ThreadsTypeOK
  <2>. QED  BY <1>1, <2>1, <2>2, <2>3, CallIsTaskStep DEF PostTask
<1>2. ASSUME NEW type \in Types, NotifyAll(p, type)  PROVE TaskStep(p)
  <2>. DEFINE all == [i \in 1 .. ID_COUNT |-> i - 1]
              note == [kind |-> "notify", type |-> type, source |-> "device"]
  <2>1. all \in Seq(Ids) /\ all # <<>>
    <3>1. all \in [1 .. ID_COUNT -> Ids] /\ ID_COUNT = 4
      BY DEF Ids, UI, ID_COUNT
    <3>2. all \in Seq(Ids)
      BY <3>1
    <3>3. 1 \in DOMAIN all
      BY <3>1
    <3>. HIDE DEF all
    <3>. QED  BY <3>2, <3>3
  <2>2. note \in Task
    BY DEF Task, Sources
  <2>3. pool_tasks' \in Nat
    BY <1>2 DEF NotifyAll, Call, ThreadsTypes, ThreadsTypeOK
  <2>4. Call(p, all, note)
    BY <1>2 DEF NotifyAll
  <2>. HIDE DEF all, note
  <2>. QED  BY <2>1, <2>2, <2>3, <2>4, CallIsTaskStep
<1>3. CASE PostBlockingPoolTask
  <2>1. calls' \in 0 .. MaxPosts /\ pool_tasks' \in Nat
    BY <1>3, ThreadsAssumption DEF PostBlockingPoolTask, ThreadsTypes, ThreadsTypeOK
  <2>2. crashed' \in BOOLEAN
    BY <1>3 DEF PostBlockingPoolTask
  <2>. QED  BY <1>3, <2>1, <2>2 DEF PostBlockingPoolTask, TaskStep, ThreadsTypes, ThreadsTypeOK, noteVars
<1>4. CASE Register(p)
  <2>1. PICK r \in Registrations : r.thread = p /\ (Add(r) \/ RemoveReg(r))
    BY <1>4 DEF Register
  <2>2. calls' \in 0 .. MaxPosts
    BY <1>4, ThreadsAssumption DEF Register, ThreadsTypes, ThreadsTypeOK
  <2>3. r \in Registration
    BY ThreadsAssumption
  <2>4. /\ observers' \subseteq Registration /\ registered' \subseteq Registration
        /\ notifiers' = notifiers
        /\ \A x \in Registration : x.thread # p => /\ x \in observers' <=> x \in observers
                                                   /\ x \in registered' <=> x \in registered
        /\ \A x \in Registration :
             x.thread = p /\ p \in notifiers /\ (x \in observers <=> x \in registered)
               => (x \in observers' <=> x \in registered')
    BY <2>1, <2>3 DEF Add, RemoveReg, ThreadsTypes, ThreadsTypeOK
  <2>. QED  BY <1>4, <2>2, <2>4 DEF Register, TaskStep, ThreadsTypes, ThreadsTypeOK
<1>. QED  BY <1>1, <1>2, <1>3, <1>4 DEF Work

LEMMA ToldIsTaskStep ==
  ASSUME ThreadsTypes, NEW p \in Ids, at[p] = "idle", NEW task, Told(p, task)
  PROVE  TaskStep(p)
<1>. DEFINE regs == {r \in observers : r.thread = p}
            lists == Notify(regs, task.type, task.source)
            gone == {r \in UNION ToSet(lists) : r.observer = "handle"}
<1>1. \A r \in gone : r \in observers /\ r.thread = p
  <2>1. \A k \in DOMAIN lists : \A r \in lists[k] : r \in observers /\ r.thread = p
    BY DEF Notify, Of
  <2>. QED  BY <2>1 DEF ToSet
<1>2. /\ observers' = observers \ gone /\ registered' = registered \ gone
      /\ UNCHANGED <<notifiers, at, post, calls, pool_tasks, crashed>>
  BY DEF Told
<1>. HIDE DEF gone
<1>. QED  BY <1>1, <1>2 DEF TaskStep, ThreadsTypes, ThreadsTypeOK

LEMMA NoWorkIsTaskStep ==
  ASSUME ThreadsTypes, NEW p \in Ids, at[p] = "idle", NoWork
  PROVE  TaskStep(p)
BY DEF NoWork, TaskStep, ThreadsTypes, ThreadsTypeOK, noteVars

-----------------------------------------------------------------------------
(* Steps. *)

\* Who runs a task, runs: it has a loop and a notifier, and the main thread only
\* does between the start of its loop and the end of it.
LEMMA TaskStepKeeps ==
  ASSUME ThreadsInv, NEW p \in Ids, at[p] = "idle", TaskStep(p), loop[p] = "live",
         UNCHANGED <<mgrVars, lock, pool, lost>>,
         p = UI => main.at \in {"run", "quit"},
         queue' = queue \/ (queue[p] # <<>> /\ queue' = [queue EXCEPT ![p] = Tail(@)])
  PROVE  ThreadsInv'
<1>1. ThreadsTypes'
  <2>1. queue' \in [Ids -> Seq(Queued)]
    <3>1. queue \in [Ids -> Seq(Queued)]
      BY DEF ThreadsInv, ThreadsTypes
    <3>2. queue[p] # <<>> => Tail(queue[p]) \in Seq(Queued)
      BY <3>1
    <3>. QED  BY <3>1, <3>2
  <2>2. UNCHANGED <<main, threads, loop, told_quit, lock, pool, lost>>
    BY DEF mgrVars
  <2>. QED  BY <2>1, <2>2 DEF ThreadsInv, ThreadsTypes, ThreadsTypeOK, TaskStep
<1>. USE IdsFacts
<1>2. MainLife'
  BY DEF ThreadsInv, MainLife, TaskStep, mgrVars
<1>3. ThreadLife'
  BY DEF ThreadsInv, ThreadLife, TaskStep, mgrVars
<1>4. PostLife'
  BY DEF ThreadsInv, PostLife, UnlockedIsSafe, TaskStep, mgrVars, Outlives
<1>5. QueueLife'
  <2>. SUFFICES ASSUME NEW i \in told_quit \ notifiers, NEW k \in DOMAIN queue'[i],
                       queue'[i][k].from \in Ids
                PROVE  queue'[i][k].from < i
    BY DEF QueueLife, TaskStep, mgrVars
  <2>1. i \in Ids /\ i # p
    BY DEF ThreadsInv, ThreadLife, ThreadsTypes, ThreadsTypeOK
  <2>2. queue'[i] = queue[i]
    BY <2>1 DEF ThreadsInv, ThreadsTypes
  <2>. QED  BY <2>2 DEF ThreadsInv, QueueLife
<1>6. NotesLife'
  <2>1. \A r \in Registration : r.thread \in notifiers' => (r \in observers' <=> r \in registered')
    BY DEF ThreadsInv, NotesLife, TaskStep
  <2>2. ASSUME NEW r \in observers' \cup registered'  PROVE loop'[r.thread] # "none"
    <3>1. r \in Registration
      BY DEF TaskStep
    <3>. QED  BY <3>1 DEF ThreadsInv, NotesLife, TaskStep, mgrVars
  <2>. QED  BY <2>1, <2>2 DEF NotesLife
<1>7. OutlivedIsRun'
  BY DEF ThreadsInv, OutlivedIsRun
<1>. QED  BY <1>1, <1>2, <1>3, <1>4, <1>5, <1>6, <1>7 DEF ThreadsInv

LEMMA RunTaskKeeps ==
  ASSUME ThreadsInv, NEW id \in Ids, RunTask(id)
  PROVE  ThreadsInv'
<1>1. /\ at[id] = "idle" /\ loop[id] = "live" /\ queue[id] # <<>>
      /\ id = UI => main.at \in {"run", "quit"}
      /\ queue' = [queue EXCEPT ![id] = Tail(@)]
      /\ UNCHANGED <<mgrVars, lock, pool, lost>>
      /\ Told(id, Head(queue[id]).task) \/ Work(id) \/ NoWork
  BY DEF RunTask, Runs
<1>2. ThreadsTypes
  BY DEF ThreadsInv
<1>3. TaskStep(id)
  BY <1>1, <1>2, ToldIsTaskStep, WorkIsTaskStep, NoWorkIsTaskStep
<1>. QED  BY <1>1, <1>3, TaskStepKeeps

LEMMA EventKeeps ==
  ASSUME ThreadsInv, Event
  PROVE  ThreadsInv'
<1>1. UI \in Ids /\ at[UI] = "idle" /\ main.at = "run"
  BY IdsFacts DEF Event
<1>2. loop[UI] = "live"
  BY <1>1, IdsFacts DEF ThreadsInv, ThreadLife, ThreadsTypes, ThreadsTypeOK
<1>3. TaskStep(UI)
  BY <1>1, WorkIsTaskStep DEF Event, ThreadsInv
<1>. QED  BY <1>1, <1>2, <1>3, TaskStepKeeps DEF Event

LEMMA RunWorkerKeeps ==
  ASSUME ThreadsInv, RunWorker
  PROVE  ThreadsInv'
<1>0. Worker \in Posters /\ Ids \subseteq Posters \ {Worker}
  BY IdsFacts
<1>1. /\ at' \in [Posters -> {"idle", "post", "send", "gone"}] /\ post' \in [Posters -> Post]
      /\ calls' \in 0 .. MaxPosts /\ pool_tasks' \in Nat
      /\ at'[Worker] # "send" /\ (at'[Worker] = "post" => post'[Worker].to # <<>>)
      /\ \A q \in Ids : at'[q] = at[q] /\ post'[q] = post[q]
  <2>0. pool_tasks' \in Nat
    BY DEF RunWorker, ThreadsInv, ThreadsTypes, ThreadsTypeOK
  <2>1. CASE UNCHANGED <<at, post, calls>>
    <3>1. at[Worker] = "idle"
      BY DEF RunWorker
    <3>. QED  BY <1>0, <2>0, <2>1, <3>1 DEF ThreadsInv, ThreadsTypes, ThreadsTypeOK
  <2>2. CASE \E id \in Ids : /\ calls < MaxPosts /\ calls' = calls + 1
                             /\ at' = [at EXCEPT ![Worker] = "post"]
                             /\ post' = [post EXCEPT ![Worker] = NewPost(<<id>>, [kind |-> "work"])]
    <3>1. PICK id \in Ids : /\ calls < MaxPosts /\ calls' = calls + 1
                            /\ at' = [at EXCEPT ![Worker] = "post"]
                            /\ post' = [post EXCEPT ![Worker] = NewPost(<<id>>, [kind |-> "work"])]
      BY <2>2
    <3>2. [kind |-> "work"] \in Task /\ <<id>> \in Seq(Ids) /\ <<id>> # <<>>
      <4>1. [kind |-> "work"] \in Task
        BY DEF Task
      <4>2. <<id>> \in Seq(Ids) /\ <<id>> # <<>>
        OBVIOUS
      <4>. QED  BY <4>1, <4>2
    <3>3. calls' \in 0 .. MaxPosts
      BY <3>1, ThreadsAssumption DEF ThreadsInv, ThreadsTypes, ThreadsTypeOK
    <3>. QED  BY <1>0, <2>0, <3>1, <3>2, <3>3 DEF NewPost, Post, ThreadsInv, ThreadsTypes, ThreadsTypeOK
  <2>. QED  BY <2>1, <2>2 DEF RunWorker
<1>2. UNCHANGED <<mgrVars, queue, noteVars, lock, pool, lost, crashed>>
  BY DEF RunWorker
<1>3. ThreadsTypes'
  BY <1>1, <1>2 DEF ThreadsInv, ThreadsTypes, ThreadsTypeOK, mgrVars, noteVars
<1>4. MainLife' /\ ThreadLife' /\ QueueLife' /\ NotesLife' /\ OutlivedIsRun'
  BY <1>1, <1>2, IdsFacts
     DEF ThreadsInv, MainLife, ThreadLife, QueueLife, NotesLife, OutlivedIsRun, ThreadsTypes, ThreadsTypeOK, mgrVars, noteVars
<1>5. PostLife'
  BY <1>1, <1>2, IdsFacts DEF ThreadsInv, PostLife, UnlockedIsSafe, Outlives, mgrVars
<1>. QED  BY <1>3, <1>4, <1>5 DEF ThreadsInv

\* A post that finds the loop without the lock finds that of a thread that outlives
\* the poster; one that takes the lock may find what it likes.
LEMMA BeginPostKeeps ==
  ASSUME ThreadsInv, NEW p \in Posters, BeginPost(p)
  PROVE  ThreadsInv'
<1>. DEFINE id == Head(post[p].to)
            found == id \in threads /\ loop[id] = "live"
<1>1. /\ at[p] = "post" /\ at' = [at EXCEPT ![p] = "send"]
      /\ lock' = lock \/ (lock = Nobody /\ lock' = p)
      /\ lock' # p => Outlives(id, p)
      /\ post' = [post EXCEPT ![p].found = found]
      /\ UNCHANGED <<mgrVars, queue, noteVars, pool, pool_tasks, calls, lost, crashed>>
  BY DEF BeginPost
<1>2. post[p] \in Post /\ post[p].to # <<>> /\ id \in Ids
  BY <1>1 DEF ThreadsInv, ThreadsTypes, PostLife, Post
<1>3. [post[p] EXCEPT !.found = found] \in Post /\ found \in BOOLEAN
  BY <1>2 DEF Post
<1>4. /\ post' \in [Posters -> Post] /\ post'[p].to = post[p].to /\ post'[p].found = found
      /\ \A q \in Posters : q # p => post'[q] = post[q]
  BY <1>1, <1>2, <1>3 DEF ThreadsInv, ThreadsTypes, Post
<1>5. /\ at' \in [Posters -> {"idle", "post", "send", "gone"}] /\ at'[p] = "send"
      /\ \A q \in Posters : q # p => at'[q] = at[q]
  BY <1>1 DEF ThreadsInv, ThreadsTypes, ThreadsTypeOK
<1>6. lock' \in Posters \cup {Nobody} /\ \A q \in Ids : q # p => (lock' = q <=> lock = q)
  BY <1>1, IdsFacts DEF ThreadsInv, ThreadsTypes, ThreadsTypeOK
<1>7. found => loop[id] = "live"
  OBVIOUS
<1>. HIDE DEF id, found
<1>8. ThreadsTypes'
  BY <1>1, <1>4, <1>5, <1>6 DEF ThreadsInv, ThreadsTypes, ThreadsTypeOK, mgrVars, noteVars
<1>9. MainLife'
  BY <1>1, <1>5, IdsFacts DEF ThreadsInv, MainLife, mgrVars
<1>10. ThreadLife'
  BY <1>1, <1>5, IdsFacts DEF ThreadsInv, ThreadLife, mgrVars, noteVars
<1>11. PostLife'
  <2>1. \A q \in Posters : at'[q] \in {"post", "send"} => post'[q].to # <<>>
    BY <1>1, <1>2, <1>4, <1>5 DEF ThreadsInv, PostLife
  <2>2. ASSUME NEW q \in Ids, at'[q] = "send", lock' # q
        PROVE  Outlives(Head(post'[q].to), q) /\ (post'[q].found => loop'[Head(post'[q].to)] = "live")
    <3>1. CASE q = p
      BY <1>1, <1>4, <1>7, <2>2, <3>1 DEF id, mgrVars
    <3>2. CASE q # p
      BY <1>1, <1>4, <1>5, <1>6, <2>2, <3>2, IdsFacts DEF ThreadsInv, PostLife, UnlockedIsSafe, mgrVars
    <3>. QED  BY <3>1, <3>2
  <2>. QED  BY <2>1, <2>2 DEF PostLife, UnlockedIsSafe
<1>12. QueueLife' /\ NotesLife' /\ OutlivedIsRun'
  BY <1>1 DEF ThreadsInv, QueueLife, NotesLife, OutlivedIsRun, mgrVars, noteVars
<1>. QED  BY <1>8, <1>9, <1>10, <1>11, <1>12 DEF ThreadsInv

\* Who gives a task to a thread that has cleaned up has not been ended, so that its
\* identifier is the lower.
LEMMA EndPostKeeps ==
  ASSUME ThreadsInv, NEW p \in Posters, EndPost(p)
  PROVE  ThreadsInv'
<1>. DEFINE id == Head(post[p].to)
            rest == Tail(post[p].to)
            item == [task |-> post[p].task, from |-> p]
            next == IF rest = <<>> THEN NoPost ELSE [post[p] EXCEPT !.to = rest, !.found = FALSE]
<1>1. /\ at[p] = "send" /\ at' = [at EXCEPT ![p] = IF rest = <<>> THEN "idle" ELSE "post"]
      /\ post' = [post EXCEPT ![p] = next]
      /\ queue' = queue \/ queue' = [queue EXCEPT ![id] = Append(@, item)]
      /\ lock' = IF lock = p THEN Nobody ELSE lock
      /\ crashed' \in BOOLEAN
      /\ UNCHANGED <<mgrVars, noteVars, pool, pool_tasks, calls, lost>>
  BY DEF EndPost
<1>2. post[p] \in Post /\ post[p].to # <<>> /\ id \in Ids /\ rest \in Seq(Ids)
  BY <1>1 DEF ThreadsInv, ThreadsTypes, PostLife, Post
<1>3. next \in Post /\ (rest # <<>> => next.to # <<>>)
  BY <1>2 DEF Post, NoPost, NewPost, Task
<1>4. /\ post' \in [Posters -> Post] /\ post'[p] = next
      /\ \A q \in Posters : q # p => post'[q] = post[q]
  BY <1>1, <1>3 DEF ThreadsInv, ThreadsTypes
<1>5. /\ at' \in [Posters -> {"idle", "post", "send", "gone"}]
      /\ at'[p] \in {"idle", "post"} /\ (at'[p] = "post" => rest # <<>>)
      /\ \A q \in Posters : q # p => at'[q] = at[q]
  BY <1>1 DEF ThreadsInv, ThreadsTypes, ThreadsTypeOK
<1>6. lock' \in Posters \cup {Nobody} /\ \A q \in Ids : q # p => (lock' = q <=> lock = q)
  BY <1>1, IdsFacts DEF ThreadsInv, ThreadsTypes, ThreadsTypeOK
<1>7. item \in Queued
  BY <1>2 DEF Queued, Post
<1>8. /\ queue' \in [Ids -> Seq(Queued)]
      /\ \A i \in Ids : queue'[i] = queue[i] \/ (i = id /\ queue'[i] = Append(queue[i], item))
  <2>1. queue \in [Ids -> Seq(Queued)] /\ queue[id] \in Seq(Queued)
    BY <1>2 DEF ThreadsInv, ThreadsTypes
  <2>2. Append(queue[id], item) \in Seq(Queued)
    BY <1>7, <2>1
  <2>. HIDE DEF item, id
  <2>. QED  BY <1>1, <2>1, <2>2
<1>. HIDE DEF next
<1>9. ThreadsTypes'
  BY <1>1, <1>4, <1>5, <1>6, <1>8 DEF ThreadsInv, ThreadsTypes, ThreadsTypeOK, mgrVars, noteVars
<1>10. MainLife'
  BY <1>1, <1>5, IdsFacts DEF ThreadsInv, MainLife, mgrVars
<1>11. ThreadLife'
  BY <1>1, <1>5, IdsFacts DEF ThreadsInv, ThreadLife, mgrVars, noteVars
<1>12. PostLife'
  BY <1>1, <1>3, <1>4, <1>5, <1>6, IdsFacts
     DEF ThreadsInv, PostLife, UnlockedIsSafe, mgrVars
<1>13. QueueLife'
  <2>. SUFFICES ASSUME NEW i \in told_quit \ notifiers, NEW k \in DOMAIN queue'[i],
                       queue'[i][k].from \in Ids
                PROVE  queue'[i][k].from < i
    BY <1>1 DEF QueueLife, mgrVars, noteVars
  <2>1. i \in Ids /\ at[i] = "gone" /\ queue[i] \in Seq(Queued)
    BY DEF ThreadsInv, ThreadLife, ThreadsTypes, ThreadsTypeOK
  <2>2. p \in Ids => p < i
    <3>. SUFFICES ASSUME p \in Ids, p > i  PROVE FALSE
      BY <1>1, <2>1, IdsFacts
    <3>1. p \in told_quit /\ (main.at = "join" => p # main.id)
      BY <2>1, IdsFacts DEF ThreadsInv, ThreadLife, ThreadsTypes
    <3>2. at[p] = "gone"
      BY <3>1 DEF ThreadsInv, ThreadLife
    <3>. QED  BY <1>1, <3>2
  <2>3. CASE queue'[i] = queue[i]
    BY <2>3 DEF ThreadsInv, QueueLife
  <2>4. CASE queue'[i] = Append(queue[i], item)
    <3>1. \/ k \in DOMAIN queue[i] /\ queue'[i][k] = queue[i][k]
          \/ queue'[i][k] = item
      BY <2>1, <2>4, <1>7
    <3>2. item.from = p
      OBVIOUS
    <3>. QED  BY <2>2, <3>1, <3>2 DEF ThreadsInv, QueueLife
  <2>. QED  BY <1>8, <2>1, <2>3, <2>4
<1>14. NotesLife' /\ OutlivedIsRun'
  BY <1>1 DEF ThreadsInv, NotesLife, OutlivedIsRun, mgrVars, noteVars
<1>. QED  BY <1>9, <1>10, <1>11, <1>12, <1>13, <1>14 DEF ThreadsInv

\* Steps of the main thread that leave the loops, the tasks and the registrations alone.
MainOnly == UNCHANGED <<loop, queue, noteVars, postVars, pool_tasks, lost, crashed>>

LEMMA MainOnlyKeeps ==
  ASSUME ThreadsInv, MainOnly, threads' \subseteq Ids, pool' \in {"none", "up", "down"},
         main' \in [at : Phases, id : Ids], told_quit' \subseteq Ids,
         MainLife', ThreadLife', told_quit' \ told_quit \subseteq notifiers
  PROVE  ThreadsInv'
<1>1. UNCHANGED <<loop, queue, notifiers, observers, registered, at, post, lock, calls,
                  pool_tasks, lost, crashed>>
  BY DEF MainOnly, noteVars, postVars
<1>2. ThreadsTypes'
  BY <1>1 DEF ThreadsInv, ThreadsTypes, ThreadsTypeOK
<1>3. PostLife' /\ OutlivedIsRun'
  BY <1>1 DEF ThreadsInv, PostLife, UnlockedIsSafe, OutlivedIsRun
<1>4. QueueLife'
  BY <1>1 DEF ThreadsInv, QueueLife
<1>5. NotesLife'
  BY <1>1 DEF ThreadsInv, NotesLife
<1>. QED  BY <1>2, <1>3, <1>4, <1>5 DEF ThreadsInv

LEMMA MainOnlySteps ==
  ASSUME ThreadsInv,
         Construct \/ SetUpThreadPool \/ Quit \/ Shutdown \/ Stop \/ Joined \/ ShutdownThreadPool
  PROVE  ThreadsInv'
<1>. USE IdsFacts DEF StopNext, Phases, ID_COUNT
<1>0. MainLife /\ ThreadLife /\ ThreadsTypes /\ main \in [at : Phases, id : Ids]
  BY DEF ThreadsInv, ThreadsTypes
<1>1. MainOnly /\ threads' \subseteq Ids /\ pool' \in {"none", "up", "down"}
  BY <1>0 DEF MainOnly, Construct, SetUpThreadPool, Quit, Shutdown, Stop, Joined,
              ShutdownThreadPool, postVars, noteVars, mgrVars, ThreadsTypes, ThreadsTypeOK
<1>2. UNCHANGED <<loop, notifiers, at>>
  BY <1>1 DEF MainOnly, noteVars, postVars
<1>3. CASE Construct
  <2>1. main.at = "create" /\ main'.at = "start" /\ main'.id = main.id /\ told_quit' = told_quit
        /\ main' \in [at : Phases, id : Ids]
    BY <1>0, <1>3 DEF Construct
  <2>2. MainLife'
    BY <1>0, <1>2, <2>1 DEF MainLife
  <2>3. ThreadLife'
    BY <1>0, <1>2, <2>1 DEF ThreadLife
  <2>. QED  BY <1>0, <1>1, <2>1, <2>2, <2>3, MainOnlyKeeps DEF ThreadsTypes, ThreadsTypeOK
<1>4. CASE SetUpThreadPool
  <2>1. main.at = "set_up" /\ main'.at = "run" /\ main'.id = UI /\ told_quit' = told_quit
        /\ main' \in [at : Phases, id : Ids]
    BY <1>0, <1>4 DEF SetUpThreadPool
  <2>2. MainLife'
    BY <1>0, <1>2, <2>1 DEF MainLife
  <2>3. ThreadLife'
    BY <1>0, <1>2, <2>1 DEF ThreadLife
  <2>. QED  BY <1>0, <1>1, <2>1, <2>2, <2>3, MainOnlyKeeps DEF ThreadsTypes, ThreadsTypeOK
<1>5. CASE Quit
  <2>1. main.at = "run" /\ main'.at = "quit" /\ main'.id = main.id /\ told_quit' = told_quit
        /\ main' \in [at : Phases, id : Ids]
    BY <1>0, <1>5 DEF Quit
  <2>2. MainLife'
    BY <1>0, <1>2, <2>1 DEF MainLife
  <2>3. ThreadLife'
    BY <1>0, <1>2, <2>1 DEF ThreadLife
  <2>. QED  BY <1>0, <1>1, <2>1, <2>2, <2>3, MainOnlyKeeps DEF ThreadsTypes, ThreadsTypeOK
<1>6. CASE Shutdown
  <2>1. main.at = "quit" /\ at[UI] = "idle" /\ main'.at = "stop" /\ main'.id = DEVICE
        /\ told_quit' = told_quit /\ main' \in [at : Phases, id : Ids]
    BY <1>0, <1>6 DEF Shutdown
  <2>2. MainLife'
    BY <1>0, <1>2, <2>1 DEF MainLife
  <2>3. ThreadLife'
    BY <1>0, <1>2, <2>1 DEF ThreadLife
  <2>. QED  BY <1>0, <1>1, <2>1, <2>2, <2>3, MainOnlyKeeps DEF ThreadsTypes, ThreadsTypeOK
<1>7. CASE Stop
  <2>1. main.at = "stop" /\ main'.at = "join" /\ main'.id = main.id
        /\ told_quit' = told_quit \cup {main.id} /\ main' \in [at : Phases, id : Ids]
    BY <1>0, <1>7 DEF Stop
  <2>2. MainLife'
    BY <1>0, <1>2, <2>1 DEF MainLife
  <2>3. main.id \in notifiers
    BY <1>0, <2>1 DEF MainLife, ThreadLife, ThreadsTypes, ThreadsTypeOK
  <2>4. ThreadLife'
    BY <1>0, <1>2, <2>1, <2>2, <2>3 DEF ThreadLife, MainLife
  <2>. QED  BY <1>0, <1>1, <2>1, <2>2, <2>3, <2>4, MainOnlyKeeps DEF ThreadsTypes, ThreadsTypeOK
<1>8. CASE Joined
  <2>1. /\ main.at = "join" /\ main' \in [at : Phases, id : Ids] /\ told_quit' = told_quit
        /\ loop[main.id] = "dead" /\ main.id > 0
        /\ \/ main.id > 1 /\ main'.at = "stop" /\ main'.id = main.id - 1
           \/ main.id = 1 /\ main'.at = "pool" /\ main'.id = 0
    BY <1>0, <1>8 DEF Joined, MainLife
  <2>2. MainLife'
    BY <1>0, <1>2, <2>1 DEF MainLife
  <2>3. ThreadLife'
    BY <1>0, <1>2, <2>1 DEF ThreadLife
  <2>. QED  BY <1>0, <1>1, <2>1, <2>2, <2>3, MainOnlyKeeps DEF ThreadsTypes, ThreadsTypeOK
<1>9. CASE ShutdownThreadPool
  <2>1. main.at = "pool" /\ main'.at = "main" /\ main'.id = UI /\ told_quit' = told_quit
        /\ main' \in [at : Phases, id : Ids]
    BY <1>0, <1>9 DEF ShutdownThreadPool
  <2>2. MainLife'
    BY <1>0, <1>2, <2>1 DEF MainLife
  <2>3. ThreadLife'
    BY <1>0, <1>2, <2>1 DEF ThreadLife
  <2>. QED  BY <1>0, <1>1, <2>1, <2>2, <2>3, MainOnlyKeeps DEF ThreadsTypes, ThreadsTypeOK
<1>. QED  BY <1>3, <1>4, <1>5, <1>6, <1>7, <1>8, <1>9

\* The thread that gets its loop and its service had no task to register anything in.
LEMMA StartWithOptionsKeeps ==
  ASSUME ThreadsInv, StartWithOptions
  PROVE  ThreadsInv'
<1>1. /\ main.at = "start" /\ main \in [at : Phases, id : Ids] /\ main.id # UI
      /\ loop' = [loop EXCEPT ![main.id] = "live"] /\ notifiers' = notifiers \cup {main.id}
      /\ main' = IF main.id = DEVICE THEN [at |-> "set_up", id |-> UI]
                 ELSE [at |-> "create", id |-> main.id + 1]
      /\ UNCHANGED <<threads, told_quit, queue, observers, registered, at, post, lock, calls, pool,
                     pool_tasks, lost, crashed>>
  BY DEF StartWithOptions, ThreadsInv, ThreadsTypes, MainLife, postVars
<1>2. loop' \in [Ids -> {"none", "live", "dead"}] /\ loop'[main.id] = "live"
      /\ \A i \in Ids : i # main.id => loop'[i] = loop[i]
  BY <1>1 DEF ThreadsInv, ThreadsTypes, ThreadsTypeOK
<1>3. main' \in [at : Phases, id : Ids]
  BY <1>1, IdsFacts DEF Phases
<1>4. loop[main.id] = "none" /\ main.id \notin told_quit
  BY <1>1, IdsFacts DEF ThreadsInv, ThreadLife, ThreadsTypes
<1>5. ThreadsTypes'
  BY <1>1, <1>2, <1>3 DEF ThreadsInv, ThreadsTypes, ThreadsTypeOK
<1>6. MainLife'
  BY <1>1, IdsFacts DEF ThreadsInv, MainLife
<1>7. ThreadLife'
  BY <1>1, <1>2, IdsFacts DEF ThreadsInv, ThreadLife
<1>8. PostLife'
  BY <1>1, <1>2, <1>4 DEF ThreadsInv, PostLife, UnlockedIsSafe
<1>9. QueueLife' /\ OutlivedIsRun'
  BY <1>1 DEF ThreadsInv, QueueLife, OutlivedIsRun
<1>10. NotesLife'
  BY <1>1, <1>2, <1>4 DEF ThreadsInv, NotesLife, ThreadsTypes, ThreadsTypeOK, Registration
<1>. QED  BY <1>5, <1>6, <1>7, <1>8, <1>9, <1>10 DEF ThreadsInv

\* Run returns with an empty queue: what comes later comes from who is still there.
LEMMA CleanUpKeeps ==
  ASSUME ThreadsInv, NEW id \in Ids, CleanUp(id)
  PROVE  ThreadsInv'
<1>1. /\ id \in told_quit /\ id \in notifiers /\ at[id] = "idle" /\ queue[id] = <<>>
      /\ notifiers' = notifiers \ {id} /\ observers' = {r \in observers : r.thread # id}
      /\ at' = [at EXCEPT ![id] = "gone"]
      /\ UNCHANGED <<main, threads, loop, told_quit, queue, registered, post, lock, pool, pool_tasks,
                     calls, lost, crashed>>
  BY DEF CleanUp, mgrVars
<1>2. /\ at' \in [Posters -> {"idle", "post", "send", "gone"}] /\ at'[id] = "gone"
      /\ \A q \in Posters : q # id => at'[q] = at[q]
  BY <1>1, IdsFacts DEF ThreadsInv, ThreadsTypes, ThreadsTypeOK
<1>3. ThreadsTypes'
  BY <1>1, <1>2 DEF ThreadsInv, ThreadsTypes, ThreadsTypeOK
<1>4. MainLife'
  BY <1>1, <1>2, IdsFacts DEF ThreadsInv, MainLife, ThreadLife
<1>5. ThreadLife'
  BY <1>1, <1>2, IdsFacts DEF ThreadsInv, ThreadLife
<1>6. PostLife'
  BY <1>1, <1>2, IdsFacts DEF ThreadsInv, PostLife, UnlockedIsSafe
<1>7. QueueLife'
  BY <1>1 DEF ThreadsInv, QueueLife
<1>8. NotesLife' /\ OutlivedIsRun'
  BY <1>1 DEF ThreadsInv, NotesLife, OutlivedIsRun
<1>. QED  BY <1>3, <1>4, <1>5, <1>6, <1>7, <1>8 DEF ThreadsInv

\* The tasks that go with a loop are from threads that end later.
LEMMA LoopEndsKeeps ==
  ASSUME ThreadsInv, NEW id \in Ids, LoopEnds(id)
  PROVE  ThreadsInv'
<1>1. /\ id \in told_quit /\ id \notin notifiers /\ loop[id] = "live"
      /\ loop' = [loop EXCEPT ![id] = "dead"]
      /\ lost' = lost \cup Dropped(id) /\ queue' = [queue EXCEPT ![id] = <<>>]
      /\ UNCHANGED <<main, threads, told_quit, notifiers, observers, registered, at, post, lock, calls,
                     pool, pool_tasks, crashed>>
  BY DEF LoopEnds, noteVars, postVars
<1>2. loop' \in [Ids -> {"none", "live", "dead"}] /\ loop'[id] = "dead"
      /\ \A i \in Ids : i # id => loop'[i] = loop[i]
  BY <1>1 DEF ThreadsInv, ThreadsTypes, ThreadsTypeOK
<1>3. /\ queue' \in [Ids -> Seq(Queued)] /\ queue'[id] = <<>>
      /\ \A i \in Ids : i # id => queue'[i] = queue[i]
  BY <1>1 DEF ThreadsInv, ThreadsTypes
<1>4. \A d \in Dropped(id) : d \in Posters \X Ids /\ (d[1] \in Ids => d[1] < d[2])
  <2>. SUFFICES ASSUME NEW k \in DOMAIN queue[id]
                PROVE  queue[id][k].from \in Posters
                       /\ (queue[id][k].from \in Ids => queue[id][k].from < id)
    BY DEF Dropped
  <2>1. queue[id][k] \in Queued
    BY DEF ThreadsInv, ThreadsTypes
  <2>. QED  BY <1>1, <2>1 DEF Queued, ThreadsInv, QueueLife
<1>5. ThreadsTypes'
  BY <1>1, <1>2, <1>3, <1>4 DEF ThreadsInv, ThreadsTypes, ThreadsTypeOK
<1>6. MainLife'
  BY <1>1 DEF ThreadsInv, MainLife
<1>7. at[id] = "gone" /\ id # UI /\ main.at \notin {"create", "start"}
  BY <1>1, IdsFacts DEF ThreadsInv, ThreadLife
<1>8. ThreadLife'
  BY <1>1, <1>2, <1>7, IdsFacts DEF ThreadsInv, ThreadLife
<1>9. PostLife'
  \* who would post to it without the lock has a higher identifier, or is it
  <2>1. ASSUME NEW p \in Ids, at[p] = "send", lock # p, post[p].found
        PROVE  Head(post[p].to) # id
    <3>1. Outlives(Head(post[p].to), p) /\ loop[p] # "none"
      BY <2>1 DEF ThreadsInv, PostLife, ThreadLife
    <3>2. p > id => p \in told_quit /\ loop[p] = "dead"
      BY <1>1, <1>7, IdsFacts DEF ThreadsInv, ThreadLife, ThreadsTypes
    <3>3. loop[p] = "dead" => p \notin notifiers
      BY DEF ThreadsInv, ThreadLife
    <3>4. p \in told_quit \ notifiers => at[p] = "gone"
      BY DEF ThreadsInv, ThreadLife
    <3>. QED  BY <1>7, <2>1, <3>1, <3>2, <3>3, <3>4, IdsFacts DEF Outlives
  <2>2. UnlockedIsSafe'
    <3>. SUFFICES ASSUME NEW p \in Ids, at[p] = "send", lock # p, post[p].found
                  PROVE  loop'[Head(post[p].to)] = "live"
      BY <1>1 DEF UnlockedIsSafe
    <3>1. Head(post[p].to) # id /\ loop[Head(post[p].to)] = "live"
      BY <2>1 DEF ThreadsInv, PostLife, UnlockedIsSafe
    <3>2. Head(post[p].to) \in Ids
      BY IdsFacts DEF ThreadsInv, PostLife, ThreadsTypes, Post
    <3>. QED  BY <1>2, <3>1, <3>2
  <2>. QED  BY <1>1, <2>2 DEF ThreadsInv, PostLife
<1>10. QueueLife'
  BY <1>1, <1>3 DEF ThreadsInv, QueueLife, ThreadsTypes, ThreadsTypeOK
<1>11. NotesLife' /\ OutlivedIsRun'
  <2>1. OutlivedIsRun'
    BY <1>1, <1>4 DEF ThreadsInv, OutlivedIsRun
  <2>2. NotesLife'
    BY <1>1, <1>2 DEF ThreadsInv, NotesLife, ThreadsTypes, ThreadsTypeOK, Registration
  <2>. QED  BY <2>1, <2>2
<1>. QED  BY <1>5, <1>6, <1>8, <1>9, <1>10, <1>11 DEF ThreadsInv

\* The main loop goes last: every other thread is gone.
LEMMA CleanUpMainKeeps ==
  ASSUME ThreadsInv, CleanUpMain
  PROVE  ThreadsInv'
<1>1. /\ main.at = "main" /\ main' = [at |-> "over", id |-> UI]
      /\ notifiers' = {} /\ observers' = {} /\ threads' = {}
      /\ loop' = [loop EXCEPT ![UI] = "dead"]
      /\ lost' = lost \cup Dropped(UI) /\ queue' = [queue EXCEPT ![UI] = <<>>]
      /\ UNCHANGED <<told_quit, registered, at, post, lock, calls, pool, pool_tasks, crashed>>
  BY DEF CleanUpMain, postVars
<1>0. UI \in Ids
  BY IdsFacts
<1>2. /\ loop' \in [Ids -> {"none", "live", "dead"}] /\ \A i \in Ids : loop'[i] = "dead"
  BY <1>1, IdsFacts DEF ThreadsInv, ThreadsTypes, ThreadsTypeOK, ThreadLife
<1>3. /\ queue' \in [Ids -> Seq(Queued)] /\ \A i \in Ids : i # UI => queue'[i] = queue[i]
  BY <1>0, <1>1 DEF ThreadsInv, ThreadsTypes
<1>4. \A d \in Dropped(UI) : d \in Posters \X Ids /\ d[2] = UI
  <2>. SUFFICES ASSUME NEW k \in DOMAIN queue[UI]  PROVE queue[UI][k].from \in Posters
    BY <1>0 DEF Dropped
  <2>1. queue[UI] \in Seq(Queued)
    BY <1>0 DEF ThreadsInv, ThreadsTypes
  <2>2. queue[UI][k] \in Queued
    BY <2>1
  <2>. QED  BY <2>2 DEF Queued
<1>5. ThreadsTypes'
  BY <1>0, <1>1, <1>2, <1>3, <1>4 DEF ThreadsInv, ThreadsTypes, ThreadsTypeOK, Phases
<1>6. \A i \in Ids : at[i] \in {"idle", "gone"}
  BY <1>1, IdsFacts DEF ThreadsInv, ThreadLife, MainLife, ThreadsTypes, ThreadsTypeOK
<1>7. MainLife' /\ ThreadLife'
  BY <1>1, <1>2, <1>6, IdsFacts DEF ThreadsInv, ThreadLife, MainLife
<1>8. PostLife'
  BY <1>1, <1>6 DEF ThreadsInv, PostLife, UnlockedIsSafe
<1>9. QueueLife'
  <2>. SUFFICES ASSUME NEW i \in told_quit, NEW k \in DOMAIN queue'[i], queue'[i][k].from \in Ids
                PROVE  queue'[i][k].from < i
    BY <1>1 DEF QueueLife
  <2>1. i \in Ids /\ i # UI /\ loop[i] = "dead" /\ i \notin notifiers
    BY <1>1, IdsFacts DEF ThreadsInv, ThreadLife, ThreadsTypes, ThreadsTypeOK
  <2>. QED  BY <1>3, <2>1 DEF ThreadsInv, QueueLife
<1>10. NotesLife' /\ OutlivedIsRun'
  <2>1. OutlivedIsRun'
    BY <1>1, <1>4 DEF ThreadsInv, OutlivedIsRun
  <2>2. NotesLife'
    BY <1>1, <1>2 DEF ThreadsInv, NotesLife, ThreadsTypes, ThreadsTypeOK, Registration
  <2>. QED  BY <2>1, <2>2
<1>. QED  BY <1>5, <1>7, <1>8, <1>9, <1>10 DEF ThreadsInv

LEMMA DeleteProcessKeeps ==
  ASSUME ThreadsInv, DeleteProcess
  PROVE  ThreadsInv'
<1>1. /\ UNCHANGED <<main, threads, loop, told_quit, queue, at, post, lock, calls, pool, pool_tasks,
                     lost, crashed, notifiers>>
      /\ main.at = "over" /\ observers' \subseteq observers /\ registered' \subseteq registered
  BY DEF DeleteProcess, RemoveReg, mgrVars, postVars
<1>2. ThreadsTypes'
  BY <1>1 DEF ThreadsInv, ThreadsTypes, ThreadsTypeOK
<1>3. MainLife' /\ ThreadLife' /\ PostLife' /\ QueueLife' /\ OutlivedIsRun'
  BY <1>1 DEF ThreadsInv, MainLife, ThreadLife, PostLife, UnlockedIsSafe, QueueLife, OutlivedIsRun
<1>4. notifiers = {}
  BY <1>1, IdsFacts DEF ThreadsInv, ThreadLife, ThreadsTypes, ThreadsTypeOK
<1>5. NotesLife'
  BY <1>1, <1>4 DEF ThreadsInv, NotesLife
<1>. QED  BY <1>2, <1>3, <1>5 DEF ThreadsInv

-----------------------------------------------------------------------------
(* Theorems. *)

LEMMA ThreadsInitially == ThreadsInit => ThreadsInv
<1>. SUFFICES ASSUME ThreadsInit  PROVE ThreadsInv
  OBVIOUS
<1>. USE IdsFacts
<1>1. NoPost \in Post
  <2>1. [kind |-> "work"] \in Task
    BY DEF Task
  <2>. QED  BY <2>1 DEF NoPost, NewPost, Post
<1>2. ThreadsTypes
  BY <1>1, ThreadsAssumption DEF ThreadsInit, ThreadsTypes, ThreadsTypeOK, Phases
<1>3. MainLife /\ ThreadLife
  BY DEF ThreadsInit, MainLife, ThreadLife
<1>4. PostLife /\ QueueLife /\ NotesLife /\ OutlivedIsRun
  BY DEF ThreadsInit, PostLife, UnlockedIsSafe, QueueLife, NotesLife, OutlivedIsRun
<1>. QED  BY <1>2, <1>3, <1>4 DEF ThreadsInv

LEMMA ThreadsStep == ThreadsInv /\ [ThreadsNext]_threadsVars => ThreadsInv'
<1>. SUFFICES ASSUME ThreadsInv, [ThreadsNext]_threadsVars  PROVE ThreadsInv'
  OBVIOUS
<1>1. CASE MainStep
  BY <1>1, MainOnlySteps, StartWithOptionsKeeps, CleanUpMainKeeps, DeleteProcessKeeps DEF MainStep
<1>2. CASE Event
  BY <1>2, EventKeeps
<1>3. CASE Quit
  BY <1>3, MainOnlySteps
<1>4. CASE RunWorker
  BY <1>4, RunWorkerKeeps
<1>5. ASSUME NEW id \in Ids, ThreadStep(id)  PROVE ThreadsInv'
  BY <1>5, RunTaskKeeps, CleanUpKeeps, LoopEndsKeeps DEF ThreadStep
<1>6. ASSUME NEW p \in Posters, PosterStep(p)  PROVE ThreadsInv'
  BY <1>6, BeginPostKeeps, EndPostKeeps DEF PosterStep
<1>7. CASE UNCHANGED threadsVars
  BY <1>7 DEF threadsVars, mgrVars, noteVars, postVars, ThreadsInv, ThreadsTypes, ThreadsTypeOK,
              MainLife, ThreadLife, PostLife, UnlockedIsSafe, QueueLife, NotesLife, OutlivedIsRun
<1>. QED  BY <1>1, <1>2, <1>3, <1>4, <1>5, <1>6, <1>7 DEF ThreadsNext

\* The invariant of the threads: CommonThreadManager makes and ends them in the
\* order their posts rely on (common_thread_manager.cc:69, 126).
THEOREM ThreadsLife == ThreadsSpec => []ThreadsInv
<1>. QED  BY ThreadsInitially, ThreadsStep, PTL DEF ThreadsSpec

\* The domain of every variable, for any registrations and any number of posts.
THEOREM ThreadsTypeCorrect == ThreadsSpec => []ThreadsTypeOK
<1>1. ThreadsInv => ThreadsTypeOK
  BY DEF ThreadsInv, ThreadsTypes
<1>. QED  BY <1>1, ThreadsLife, PTL

\* A post that takes no lock (common_thread_impl.cc, PostTaskHelper) is to a loop
\* that is there until it has been made.
THEOREM UnlockedPostsAreSafe == ThreadsSpec => []UnlockedIsSafe
<1>1. ThreadsInv => UnlockedIsSafe
  BY DEF ThreadsInv, PostLife
<1>. QED  BY <1>1, ThreadsLife, PTL

\* What a named thread posts to one that outlives it is run, unless it is for the
\* main thread.
THEOREM OutlivingThreadsRunAll == ThreadsSpec => []OutlivedIsRun
<1>1. ThreadsInv => OutlivedIsRun
  BY DEF ThreadsInv
<1>. QED  BY <1>1, ThreadsLife, PTL

\* The four lists of a notification have nobody in common, and between them who
\* asked for it.
LEMMA NotifyTellsOnce ==
  ASSUME NEW regs \in SUBSET Registration, NEW type \in Types, NEW source \in Sources \cup {ALL},
         NEW r \in Registration
  PROVE  Cardinality({k \in 1 .. 4 : r \in Notify(regs, type, source)[k]})
           = IF r \in regs /\ r.type \in {type, ALL} /\ r.source \in {source, ALL} THEN 1 ELSE 0
<1>. DEFINE lists == Notify(regs, type, source)
            S == {k \in 1 .. 4 : r \in lists[k]}
            asked == r \in regs /\ r.type \in {type, ALL} /\ r.source \in {source, ALL}
<1>1. type # ALL
  BY DEF Types, ALL
<1>2. /\ lists[1] = IF source # ALL THEN Of(regs, ALL, ALL) ELSE {}
      /\ lists[2] = Of(regs, ALL, source)
      /\ lists[3] = IF source # ALL THEN Of(regs, type, ALL) ELSE {}
      /\ lists[4] = Of(regs, type, source)
  BY DEF Notify
<1>3. S = {k \in {1, 2, 3, 4} : r \in lists[k]}
  OBVIOUS
<1>4. CASE asked
  <2>1. CASE r.type = ALL /\ r.source = ALL /\ source # ALL
    <3>1. S = {1}
      BY <1>1, <1>2, <1>3, <1>4, <2>1 DEF Of
    <3>. QED  BY <1>4, <3>1, FS_Singleton
  <2>2. CASE r.type = ALL /\ r.source = source
    <3>1. S = {2}
      BY <1>1, <1>2, <1>3, <1>4, <2>2 DEF Of
    <3>. QED  BY <1>4, <3>1, FS_Singleton
  <2>3. CASE r.type = type /\ r.source = ALL /\ source # ALL
    <3>1. S = {3}
      BY <1>1, <1>2, <1>3, <1>4, <2>3 DEF Of
    <3>. QED  BY <1>4, <3>1, FS_Singleton
  <2>4. CASE r.type = type /\ r.source = source
    <3>1. S = {4}
      BY <1>1, <1>2, <1>3, <1>4, <2>4 DEF Of
    <3>. QED  BY <1>4, <3>1, FS_Singleton
  <2>. QED  BY <1>4, <2>1, <2>2, <2>3, <2>4
<1>5. CASE ~asked
  <2>1. S = {}
    BY <1>2, <1>3, <1>5 DEF Of
  <2>. QED  BY <1>5, <2>1, FS_EmptySet
<1>. QED  BY <1>4, <1>5

\* While its service lives, every registration is told exactly once of what it asked
\* for (notification_service_impl.cc, Notify; notification_registrar.cc).
THEOREM RegisteredAreToldOnce == ThreadsSpec => []ToldOnce
<1>1. ThreadsInv => ToldOnce
  <2>. SUFFICES ASSUME ThreadsInv, NEW id \in notifiers, NEW type \in Types,
                       NEW source \in Sources \cup {ALL}, NEW r \in Registrations
       PROVE  Cardinality({k \in 1 .. 4 :
                           r \in Notify({x \in observers : x.thread = id}, type, source)[k]})
              = IF r \in {x \in registered : /\ x.thread = id /\ x.type \in {type, ALL}
                                             /\ x.source \in {source, ALL}} THEN 1 ELSE 0
    BY DEF ToldOnce
  <2>. DEFINE regs == {x \in observers : x.thread = id}
  <2>1. regs \in SUBSET Registration /\ r \in Registration
    BY ThreadsAssumption DEF ThreadsInv, ThreadsTypes, ThreadsTypeOK
  <2>2. r \in regs <=> r \in registered /\ r.thread = id
    BY <2>1 DEF ThreadsInv, NotesLife
  <2>. HIDE DEF regs
  <2>3. Cardinality({k \in 1 .. 4 : r \in Notify(regs, type, source)[k]})
          = IF r \in regs /\ r.type \in {type, ALL} /\ r.source \in {source, ALL} THEN 1 ELSE 0
    BY <2>1, NotifyTellsOnce
  <2>. QED  BY <2>2, <2>3 DEF regs
<1>. QED  BY <1>1, ThreadsLife, PTL
=============================================================================
