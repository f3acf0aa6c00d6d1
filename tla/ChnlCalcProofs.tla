--------------------------- MODULE ChnlCalcProofs ----------------------------
(***************************************************************************)
(* Theorems about CalcExecuter, for every group without a cycle, any number *)
(* of executers and runs, and any order in which workers, cancellations and *)
(* late items of earlier runs meet.                                         *)
(*                                                                          *)
(* CalcInv has one part per piece of state that is shared between threads:  *)
(* whose run it is (Starts), the shrinking graph (Graphs), the items in the *)
(* pool (PoolItems), what became of them (Fates), and what was announced    *)
(* (Announced, InMailOrder).  p and o stand for the posts and the outcomes  *)
(* of one run.                                                              *)
(*                                                                          *)
(* ChnlCalc starts its executers only when it may: every step of the        *)
(* manager is a step of CalcExecuter, or none, for any number of raw data.  *)
(* What is proved of the runs is therefore true of the channel calculation. *)
(***************************************************************************)
EXTENDS ChnlCalc, SequenceTheorems, TLAPS

---------------------------------------------------------------------------
(* The invariant. *)

\* all that item j needs has ended well
NeedsMet(o, j) == \A i \in Items : <<i, j>> \in Depends => o[i] = "ok"

\* item j can still come to run, or has
Alive(w, p, j) == p[j] = 1 \/ j \in w.runnable \/ \E d \in w.edges : d[2] = j

\* What is left of a walker's graph.  An item with edges to it waits for items
\* that are not marked, and all others it needs ended well; an item that lost its
\* edges without being posted lost them to a failure.
GraphHolds(w, p, o) ==
  /\ \A j \in w.runnable : p[j] = 0 /\ NeedsMet(o, j)
  /\ \A d \in w.edges :
       /\ d[2] \notin w.runnable /\ p[d[2]] = 0
       /\ o[d[1]] = "none" \/ d[1] \in w.current
       /\ \A i \in Items : <<i, d[2]>> \in Depends \ w.edges => o[i] = "ok"
  /\ \A j \in Items :
       \/ Alive(w, p, j)
       \/ \E k \in Items : <<k, j>> \in Depends /\ (o[k] = "failed" \/ ~Alive(w, p, k))
  /\ \A j \in Items : p[j] = 1 => j \in w.current \/ o[j] # "none"

Graphs ==
  \A e \in Executers :
    LET w == walker[e] IN
    IF w.run = 0 THEN w.runnable = {} ELSE GraphHolds(w, posts[w.run], outcome[w.run])

\* nothing was announced yet of run g, nothing was done for it
Untold(g) ==
  status[g] = "no_start" /\ refs[g] = 0 /\ \A k \in 1 .. Len(mail) : mail[k].run # g
Unworked(g) ==
  (\A i \in Items : posts[g][i] = 0) /\ \A e \in Executers : walker[e].run # g

\* every run belongs to one executer, whose walker is that of its last run once
\* StartRun has entered the lock; one StartRun is under way at a time
Starts ==
  /\ \A e \in Executers :
       /\ delegate[e] = task[e]
       /\ walker[e].run <= runs
       /\ start_pc[e] = "reset" =>
            task[e] \in Runs /\ Untold(task[e]) /\ Unworked(task[e]) /\ notify_end[e]
       /\ start_pc[e] # "reset" => walker[e].run = task[e]
       /\ ~notify_end[e] => task[e] \in Runs /\ refs[task[e]] = 1
  /\ \A e, f \in Executers : e # f =>
       /\ start_pc[e] # "idle" => start_pc[f] = "idle"
       /\ task[e] = task[f] => task[e] = 0
       /\ walker[e].run = walker[f].run => walker[e].run = 0
  /\ \A g \in Runs : g > runs => Untold(g) /\ Unworked(g)

\* an item is in the pool once, and in current_ until it is marked
PoolItems ==
  /\ \A w \in workers :
       /\ posts[w.run][w.item] = 1
       /\ w.at \in {"posted", "run"} => outcome[w.run][w.item] = "none"
       /\ w.at \in {"ok", "failed"} => outcome[w.run][w.item] = w.at
       /\ \A e \in Executers : walker[e].run = w.run =>
            e = w.exec /\ (w.at # "start" => w.item \in walker[e].current)
  /\ \A v, w \in workers : v.run = w.run /\ v.item = w.item => v = w

\* an item is posted once, when all it needs ended well, and ends after that
Fates ==
  \A g \in Runs : \A j \in Items :
    /\ posts[g][j] \in {0, 1}
    /\ posts[g][j] = 1 => NeedsMet(outcome[g], j)
    /\ posts[g][j] = 0 => outcome[g][j] = "none"

\* run g is complete, and nothing in the pool can change that
Ended(g) ==
  /\ \A j \in Items : outcome[g][j] # "none" <=> NeedsMet(outcome[g], j)
  /\ \A w \in workers : w.run = g => w.at = "start"
  /\ \A e \in Executers : walker[e].run = g => Finish(walker[e])

Announced ==
  /\ \A g \in Runs : status[g] = "finish" => Ended(g)
  /\ \A k \in 1 .. Len(mail) : mail[k].what = "finish" => Ended(mail[k].run)

\* the start of a run is announced before its end
InMailOrder ==
  \A k \in 1 .. Len(mail) : mail[k].what = "running" =>
    /\ status[mail[k].run] = "no_start"
    /\ \A j \in 1 .. k - 1 : mail[j].run # mail[k].run

CalcInv ==
  /\ CalcTypeOK /\ Starts /\ Graphs /\ PoolItems /\ Fates /\ Announced /\ InMailOrder

---------------------------------------------------------------------------
(* The graph of one run. *)

Posts == [Items -> {0, 1}]
Outcomes == [Items -> {"none", "ok", "failed"}]

\* A new walker: every item waits, or can run.
LEMMA GraphStarts ==
  ASSUME NEW g, NEW p \in Posts, NEW o \in Outcomes,
         \A i \in Items : p[i] = 0 /\ o[i] = "none"
  PROVE  GraphHolds(NewWalker(g), p, o)
<1> DEFINE w == NewWalker(g)
<1>1. /\ w.edges = Depends /\ w.runnable = FreeNode /\ w.current = {}
  BY DEF NewWalker
<1>2. Depends \subseteq Items \X Items
  BY GraphAssumption
<1> HIDE DEF w
<1>3. \A j \in w.runnable : p[j] = 0 /\ NeedsMet(o, j)
  BY <1>1 DEF FreeNode, NeedsMet
<1>4. ASSUME NEW d \in w.edges
      PROVE  /\ d[2] \notin w.runnable /\ p[d[2]] = 0
             /\ o[d[1]] = "none" \/ d[1] \in w.current
             /\ \A i \in Items : <<i, d[2]>> \in Depends \ w.edges => o[i] = "ok"
  <2>1. d \in Depends /\ d[1] \in Items /\ d[2] \in Items
    BY <1>1, <1>2
  <2> QED BY <1>1, <2>1 DEF FreeNode
<1>5. \A j \in Items : Alive(w, p, j)
  BY <1>1 DEF Alive, FreeNode
<1>6. \A j \in Items : p[j] # 1
  OBVIOUS
<1> QED BY <1>3, <1>4, <1>5, <1>6 DEF GraphHolds, w

\* Posting what is runnable.
LEMMA GraphPosts ==
  ASSUME NEW w \in Walkers, NEW p \in Posts, NEW q, NEW o \in Outcomes, GraphHolds(w, p, o),
         \A i \in Items : q[i] = p[i] + IF i \in w.runnable THEN 1 ELSE 0,
         NEW v, v.runnable = {}, v.edges = w.edges, v.current = w.current \cup w.runnable
  PROVE  GraphHolds(v, q, o)
<1>1. w.runnable \subseteq Items /\ w.edges \subseteq Items \X Items
  BY GraphAssumption DEF Walkers
<1>2. \A i \in Items : (q[i] = 1 <=> p[i] = 1 \/ i \in w.runnable) /\ (i \notin w.runnable => q[i] = p[i])
  <2> SUFFICES ASSUME NEW i \in Items
               PROVE  (q[i] = 1 <=> p[i] = 1 \/ i \in w.runnable)
                      /\ (i \notin w.runnable => q[i] = p[i])
    OBVIOUS
  <2>1. p[i] \in {0, 1}
    BY DEF Posts
  <2>2. CASE i \in w.runnable
    <3>1. p[i] = 0
      BY <2>2 DEF GraphHolds
    <3> QED BY <2>2, <3>1
  <2>3. CASE i \notin w.runnable
    BY <2>1, <2>3
  <2> QED BY <2>2, <2>3
<1>3. ASSUME NEW d \in v.edges
      PROVE  /\ d[2] \notin v.runnable /\ q[d[2]] = 0
             /\ o[d[1]] = "none" \/ d[1] \in v.current
             /\ \A i \in Items : <<i, d[2]>> \in Depends \ v.edges => o[i] = "ok"
  <2>1. d \in w.edges /\ d[2] \in Items
    BY <1>1
  <2> QED BY <1>2, <2>1 DEF GraphHolds
<1>4. \A j \in Items : Alive(v, q, j) <=> Alive(w, p, j)
  BY <1>2 DEF Alive
<1>5. \A j \in Items : q[j] = 1 => j \in v.current \/ o[j] # "none"
  BY <1>2 DEF GraphHolds
<1>6. \A j \in Items :
       \/ Alive(v, q, j)
       \/ \E k \in Items : <<k, j>> \in Depends /\ (o[k] = "failed" \/ ~Alive(v, q, k))
  BY <1>4 DEF GraphHolds
<1> QED BY <1>3, <1>5, <1>6 DEF GraphHolds

\* An item in current_ ends.
LEMMA GraphRuns ==
  ASSUME NEW w \in Walkers, NEW p \in Posts, NEW o \in Outcomes, GraphHolds(w, p, o),
         NEW i \in w.current, o[i] = "none", NEW ret \in {"ok", "failed"}, NEW u,
         u = [o EXCEPT ![i] = ret]
  PROVE  GraphHolds(w, p, u)
<1>1. /\ w.runnable \subseteq Items /\ w.edges \subseteq Items \X Items
      /\ w.current \subseteq Items /\ i \in Items
  BY GraphAssumption DEF Walkers
<1>2. u[i] = ret /\ \A j \in Items : j # i => u[j] = o[j]
  BY <1>1 DEF Outcomes
<1>3. \A j \in Items : (o[j] = "ok" => u[j] = "ok") /\ (o[j] = "failed" => u[j] = "failed")
  BY <1>2
<1>4. \A j \in w.runnable : p[j] = 0 /\ NeedsMet(u, j)
  BY <1>3 DEF GraphHolds, NeedsMet
<1>5. ASSUME NEW d \in w.edges
      PROVE  /\ d[2] \notin w.runnable /\ p[d[2]] = 0
             /\ u[d[1]] = "none" \/ d[1] \in w.current
             /\ \A k \in Items : <<k, d[2]>> \in Depends \ w.edges => u[k] = "ok"
  <2>1. d[1] \in Items
    BY <1>1
  <2> QED BY <1>2, <1>3, <2>1 DEF GraphHolds
<1>6. \A j \in Items :
       \/ Alive(w, p, j)
       \/ \E k \in Items : <<k, j>> \in Depends /\ (u[k] = "failed" \/ ~Alive(w, p, k))
  BY <1>3 DEF GraphHolds
<1>7. \A j \in Items : p[j] = 1 => j \in w.current \/ u[j] # "none"
  BY <1>2 DEF GraphHolds
<1> QED BY <1>4, <1>5, <1>6, <1>7 DEF GraphHolds

\* An item that is marked after it ended well.
LEMMA GraphSucceeds ==
  ASSUME NEW w \in Walkers, NEW p \in Posts, NEW o \in Outcomes, GraphHolds(w, p, o),
         NEW i \in Items, o[i] = "ok"
  PROVE  GraphHolds(NodeSuccess([w EXCEPT !.current = @ \ {i}], i), p, o)
<1> DEFINE v == NodeSuccess([w EXCEPT !.current = @ \ {i}], i)
           left == {d \in w.edges : d[1] # i}
           freed == {j \in Items : <<i, j>> \in w.edges /\ \A d \in left : d[2] # j}
<1>1. /\ v.edges = left /\ v.runnable = w.runnable \cup freed
      /\ v.current = w.current \ {i}
  BY DEF NodeSuccess, Walkers
<1>2. w.runnable \subseteq Items /\ w.edges \subseteq Items \X Items
  BY GraphAssumption DEF Walkers
<1> HIDE DEF v
<1>3. ASSUME NEW j \in v.runnable PROVE p[j] = 0 /\ NeedsMet(o, j)
  <2>1. CASE j \in w.runnable
    BY <2>1 DEF GraphHolds
  <2>2. CASE j \in freed
    <3>1. <<i, j>> \in w.edges /\ <<i, j>>[2] = j
      BY <2>2
    <3>2. p[j] = 0 /\ \A k \in Items : <<k, j>> \in Depends \ w.edges => o[k] = "ok"
      BY <3>1 DEF GraphHolds
    <3>3. \A k \in Items : <<k, j>> \in w.edges => k = i
      <4> SUFFICES ASSUME NEW k \in Items, <<k, j>> \in w.edges, k # i PROVE FALSE
        OBVIOUS
      <4>1. <<k, j>> \in left /\ <<k, j>>[2] = j
        OBVIOUS
      <4> QED BY <2>2, <4>1
    <3> QED BY <3>2, <3>3 DEF NeedsMet
  <2> QED BY <1>1, <1>3, <2>1, <2>2
<1>4. ASSUME NEW d \in v.edges
      PROVE  /\ d[2] \notin v.runnable /\ p[d[2]] = 0
             /\ o[d[1]] = "none" \/ d[1] \in v.current
             /\ \A k \in Items : <<k, d[2]>> \in Depends \ v.edges => o[k] = "ok"
  <2>1. d \in w.edges /\ d[1] # i
    BY <1>1, <1>4
  <2>2. d[2] \notin freed
    BY <1>1, <1>4
  <2>3. ASSUME NEW k \in Items, <<k, d[2]>> \in Depends \ v.edges PROVE o[k] = "ok"
    <3>1. CASE <<k, d[2]>> \in w.edges
      <4>1. <<k, d[2]>>[1] = i
        BY <1>1, <2>3, <3>1
      <4> QED BY <4>1
    <3>2. CASE <<k, d[2]>> \notin w.edges
      BY <2>1, <2>3, <3>2 DEF GraphHolds
    <3> QED BY <3>1, <3>2
  <2> QED BY <1>1, <2>1, <2>2, <2>3 DEF GraphHolds
<1>5. ASSUME NEW j \in Items PROVE Alive(v, p, j) <=> Alive(w, p, j)
  <2>1. ASSUME Alive(w, p, j) PROVE Alive(v, p, j)
    <3>1. CASE \E d \in w.edges : d[2] = j
      <4>1. PICK d \in w.edges : d[2] = j
        BY <3>1
      <4>2. d = <<d[1], j>>
        BY <1>2, <4>1
      <4>3. CASE \E c \in left : c[2] = j
        BY <1>1, <4>3 DEF Alive
      <4>4. CASE \A c \in left : c[2] # j
        <5>1. d[1] = i
          BY <4>1, <4>4
        <5>2. j \in freed
          BY <4>1, <4>2, <4>4, <5>1
        <5> QED BY <1>1, <5>2 DEF Alive
      <4> QED BY <4>3, <4>4
    <3> QED BY <1>1, <2>1, <3>1 DEF Alive
  <2>2. ASSUME Alive(v, p, j) PROVE Alive(w, p, j)
    <3>1. j \in freed => \E d \in w.edges : d[2] = j
      <4> SUFFICES ASSUME j \in freed PROVE \E d \in w.edges : d[2] = j
        OBVIOUS
      <4>1. <<i, j>> \in w.edges /\ <<i, j>>[2] = j
        OBVIOUS
      <4> QED BY <4>1
    <3> QED BY <1>1, <2>2, <3>1 DEF Alive
  <2> QED BY <2>1, <2>2
<1>6. \A j \in Items :
       \/ Alive(v, p, j)
       \/ \E k \in Items : <<k, j>> \in Depends /\ (o[k] = "failed" \/ ~Alive(v, p, k))
  BY <1>5 DEF GraphHolds
<1>7. \A j \in Items : p[j] = 1 => j \in v.current \/ o[j] # "none"
  BY <1>1 DEF GraphHolds
<1>8. GraphHolds(v, p, o)
  BY <1>3, <1>4, <1>6, <1>7 DEF GraphHolds
<1> QED BY <1>8 DEF v

\* The descendants of an item are closed under the edges, and each of them has
\* an edge from the item or from another.
LEMMA DescendantFacts ==
  ASSUME NEW edges, edges \subseteq Items \X Items, NEW i \in Items
  PROVE  LET D == Descendants(edges, i) IN
         /\ D \subseteq Items
         /\ \A d \in edges : d[1] \in D \cup {i} => d[2] \in D
         /\ \A j \in D : \E d \in edges : d[2] = j /\ d[1] \in D \cup {i}
<1> DEFINE D == Descendants(edges, i)
           Closed(S) == \A d \in edges : d[1] \in S \cup {i} => d[2] \in S
<1>1. \A j : j \in D <=> j \in Items /\ \A S \in SUBSET Items : Closed(S) => j \in S
  BY DEF Descendants
<1> HIDE DEF D
<1>2. ASSUME NEW d \in edges, d[1] \in D \cup {i} PROVE d[2] \in D
  <2>1. d[2] \in Items
    OBVIOUS
  <2>2. ASSUME NEW S \in SUBSET Items, Closed(S) PROVE d[2] \in S
    <3>1. d[1] \in S \cup {i}
      BY <1>1, <1>2, <2>2
    <3> QED BY <2>2, <3>1
  <2> QED BY <1>1, <2>1, <2>2
<1>3. ASSUME NEW j \in D PROVE \E d \in edges : d[2] = j /\ d[1] \in D \cup {i}
  <2> SUFFICES ASSUME ~\E d \in edges : d[2] = j /\ d[1] \in D \cup {i} PROVE FALSE
    OBVIOUS
  <2>1. D \ {j} \in SUBSET Items
    BY <1>1
  <2>2. Closed(D \ {j})
    BY <1>2
  <2>3. j \in D \ {j}
    <3> HIDE DEF Closed
    <3> QED BY <1>1, <2>1, <2>2
  <2> QED BY <2>3
<1>4. D \subseteq Items
  BY <1>1
<1> QED BY <1>2, <1>3, <1>4 DEF D

\* An item that is marked after it failed.
LEMMA GraphFails ==
  ASSUME NEW w \in Walkers, NEW p \in Posts, NEW o \in Outcomes, GraphHolds(w, p, o),
         NEW i \in Items, o[i] = "failed"
  PROVE  GraphHolds(NodeFailed([w EXCEPT !.current = @ \ {i}], i), p, o)
<1> DEFINE v == NodeFailed([w EXCEPT !.current = @ \ {i}], i)
           lost == Descendants(w.edges, i)
           left == {d \in w.edges : d[1] \notin lost \cup {i} /\ d[2] \notin lost}
<1>1. v.edges = left /\ v.runnable = w.runnable /\ v.current = w.current \ {i}
  BY DEF NodeFailed, Walkers
<1>2. w.runnable \subseteq Items /\ w.edges \subseteq Items \X Items
  BY GraphAssumption DEF Walkers
<1>3. /\ lost \subseteq Items
      /\ \A d \in w.edges : d[1] \in lost \cup {i} => d[2] \in lost
      /\ \A j \in lost : \E d \in w.edges : d[2] = j /\ d[1] \in lost \cup {i}
  BY <1>2, DescendantFacts
<1> HIDE DEF v, lost
<1>4. ASSUME NEW d \in v.edges
      PROVE  /\ d[2] \notin v.runnable /\ p[d[2]] = 0
             /\ o[d[1]] = "none" \/ d[1] \in v.current
             /\ \A k \in Items : <<k, d[2]>> \in Depends \ v.edges => o[k] = "ok"
  <2>1. d \in w.edges /\ d[1] # i /\ d[2] \notin lost
    BY <1>1, <1>4
  <2>2. ASSUME NEW k \in Items, <<k, d[2]>> \in Depends \ v.edges PROVE o[k] = "ok"
    <3>1. <<k, d[2]>> \notin w.edges
      <4> SUFFICES ASSUME <<k, d[2]>> \in w.edges PROVE FALSE
        OBVIOUS
      <4>1. <<k, d[2]>>[1] = k /\ <<k, d[2]>>[2] = d[2]
        OBVIOUS
      <4>2. k \in lost \cup {i}
        BY <1>1, <2>1, <2>2, <4>1
      <4> QED BY <1>3, <2>1, <4>1, <4>2
    <3> QED BY <2>1, <2>2, <3>1 DEF GraphHolds
  <2> QED BY <1>1, <2>1, <2>2 DEF GraphHolds
<1>5. \A j \in Items : Alive(v, p, j) => Alive(w, p, j)
  BY <1>1 DEF Alive
<1>6. \A j \in lost : ~Alive(v, p, j)
  <2> SUFFICES ASSUME NEW j \in lost PROVE ~Alive(v, p, j)
    OBVIOUS
  <2>1. p[j] = 0 /\ j \notin w.runnable
    BY <1>3 DEF GraphHolds
  <2> QED BY <1>1, <2>1 DEF Alive
<1>7. ASSUME NEW j \in Items, ~Alive(v, p, j)
      PROVE  \E k \in Items : <<k, j>> \in Depends /\ (o[k] = "failed" \/ ~Alive(v, p, k))
  <2>1. CASE Alive(w, p, j)
    <3>1. PICK c \in w.edges : c[2] = j /\ c \notin left
      BY <1>1, <1>7, <2>1 DEF Alive
    <3>2. j \in lost
      BY <1>3, <3>1
    <3>3. PICK d \in w.edges : d[2] = j /\ d[1] \in lost \cup {i}
      BY <1>3, <3>2
    <3>4. d[1] \in Items /\ <<d[1], j>> \in Depends
      BY <1>2, <3>3 DEF Walkers
    <3> QED BY <1>6, <3>3, <3>4
  <2>2. CASE ~Alive(w, p, j)
    <3>1. PICK k \in Items : <<k, j>> \in Depends /\ (o[k] = "failed" \/ ~Alive(w, p, k))
      BY <2>2 DEF GraphHolds
    <3> QED BY <1>5, <3>1
  <2> QED BY <2>1, <2>2
<1>8. \A j \in v.runnable : p[j] = 0 /\ NeedsMet(o, j)
  BY <1>1 DEF GraphHolds
<1>9. \A j \in Items : p[j] = 1 => j \in v.current \/ o[j] # "none"
  BY <1>1 DEF GraphHolds
<1>10. GraphHolds(v, p, o)
  BY <1>4, <1>7, <1>8, <1>9 DEF GraphHolds
<1> QED BY <1>10 DEF v

\* A walker that has finished: what could run has run.
LEMMA GraphEnds ==
  ASSUME NEW w \in Walkers, NEW p \in Posts, NEW o \in Outcomes, GraphHolds(w, p, o),
         Finish(w),
         \A j \in Items : p[j] = 1 => NeedsMet(o, j),
         \A j \in Items : p[j] = 0 => o[j] = "none"
  PROVE  \A j \in Items : o[j] # "none" <=> NeedsMet(o, j)
<1>1. w.runnable = {} /\ w.current = {} /\ \A j \in Items : p[j] \in {0, 1}
  BY DEF Finish, Posts
<1>2. w.edges \subseteq Depends /\ w.edges \subseteq Items \X Items
  BY GraphAssumption DEF Walkers
<1>3. ASSUME NEW j \in Items, NeedsMet(o, j) PROVE o[j] # "none"
  <2>1. ~\E d \in w.edges : d[2] = j
    <3> SUFFICES ASSUME NEW d \in w.edges, d[2] = j PROVE FALSE
      OBVIOUS
    <3>1. d = <<d[1], j>> /\ d[1] \in Items
      BY <1>2
    <3>2. o[d[1]] = "ok"
      BY <1>2, <1>3, <3>1 DEF NeedsMet
    <3> QED BY <1>1, <3>2 DEF GraphHolds
  <2>2. Alive(w, p, j)
    <3> SUFFICES ASSUME ~Alive(w, p, j) PROVE FALSE
      OBVIOUS
    <3>1. PICK k \in Items : <<k, j>> \in Depends /\ (o[k] = "failed" \/ ~Alive(w, p, k))
      BY DEF GraphHolds
    <3>2. o[k] = "ok"
      BY <1>3, <3>1 DEF NeedsMet
    <3> QED BY <1>1, <3>1, <3>2 DEF Alive
  <2>3. p[j] = 1
    BY <1>1, <2>1, <2>2 DEF Alive
  <2> QED BY <1>1, <2>3 DEF GraphHolds
<1>4. \A j \in Items : o[j] # "none" => NeedsMet(o, j)
  BY <1>1
<1> QED BY <1>3, <1>4

---------------------------------------------------------------------------
(* The pool: what a step of a worker does to walkers, items and fates. *)

WorkTypes ==
  /\ walker \in [Executers -> Walkers]
  /\ workers \subseteq [exec : Executers, run : Runs, item : Items, at : Stages]
  /\ posts \in [Runs -> [Items -> Nat]]
  /\ outcome \in [Runs -> Outcomes]

\* what a step of the pool leaves true
WorkKept ==
  /\ WorkTypes' /\ Graphs' /\ PoolItems' /\ Fates'
  /\ \A g \in Runs : Ended(g) => Ended(g)'
  /\ \A e \in Executers : walker'[e].run = walker[e].run
  /\ \A g \in Runs : Unworked(g) => \A i \in Items : posts'[g][i] = 0

LEMMA WorkNow ==
  ASSUME CalcInv
  PROVE  /\ WorkTypes
         /\ \A g \in Runs : posts[g] \in Posts /\ outcome[g] \in Outcomes
         /\ \A e \in Executers : walker[e] \in Walkers /\ walker[e].run \in 0 .. MaxRuns
         /\ \A w \in workers : w.exec \in Executers /\ w.run \in Runs /\ w.item \in Items
<1>1. WorkTypes
  BY DEF CalcInv, CalcTypeOK, WorkTypes, Outcomes
<1>2. ASSUME NEW g \in Runs PROVE posts[g] \in Posts /\ outcome[g] \in Outcomes
  <2>1. posts[g] \in [Items -> Nat] /\ \A j \in Items : posts[g][j] \in {0, 1}
    BY <1>1 DEF WorkTypes, CalcInv, Fates
  <2> QED BY <1>1, <2>1 DEF Posts, WorkTypes
<1> QED BY <1>1, <1>2 DEF WorkTypes, Walkers

\* an item of a run that is still its executer's
LEMMA OwnRun ==
  ASSUME CalcInv, NEW w \in workers, walker[w.exec].run = w.run
  PROVE  /\ GraphHolds(walker[w.exec], posts[w.run], outcome[w.run])
         /\ walker[w.exec].run # 0
<1>1. w.run \in Runs /\ w.exec \in Executers /\ w.run # 0
  BY WorkNow, RunsAssumption DEF Runs
<1> QED BY <1>1 DEF CalcInv, Graphs

\* A worker leaves the pool.
LEMMA WorkerLeaves ==
  ASSUME CalcInv, NEW w \in workers, workers' = workers \ {w},
         UNCHANGED <<walker, posts, outcome>>
  PROVE  WorkKept
<1>1. WorkTypes'
  BY WorkNow DEF WorkTypes
<1>2. Graphs' /\ Fates'
  BY DEF CalcInv, Graphs, Fates
<1>3. PoolItems'
  BY DEF CalcInv, PoolItems
<1>4. \A g \in Runs : Ended(g) => Ended(g)'
  BY DEF Ended
<1> QED BY <1>1, <1>2, <1>3, <1>4 DEF WorkKept, Unworked

\* A worker begins to run its item.
LEMMA WorkerBegins ==
  ASSUME CalcInv, NEW w \in workers, w.at = "posted", Advance(w, "run"),
         UNCHANGED <<walker, posts, outcome>>
  PROVE  WorkKept
<1> DEFINE n == [w EXCEPT !.at = "run"]
<1>1. /\ workers' = (workers \ {w}) \cup {n}
      /\ n \in [exec : Executers, run : Runs, item : Items, at : Stages]
      /\ n.exec = w.exec /\ n.run = w.run /\ n.item = w.item /\ n.at = "run"
  BY WorkNow DEF Advance, WorkTypes, Stages
<1> HIDE DEF n
<1>2. WorkTypes'
  BY <1>1, WorkNow DEF WorkTypes
<1>3. Graphs' /\ Fates'
  BY DEF CalcInv, Graphs, Fates
<1>4. PoolItems
  BY DEF CalcInv
<1>5. \A v \in workers' : \E u \in workers :
        /\ v.run = u.run /\ v.item = u.item /\ v.exec = u.exec
        /\ (v = u /\ u # w) \/ (u = w /\ v = n)
  BY <1>1
<1>6. PoolItems'
  <2>1. ASSUME NEW v \in workers'
        PROVE  /\ posts[v.run][v.item] = 1
               /\ v.at \in {"posted", "run"} => outcome[v.run][v.item] = "none"
               /\ v.at \in {"ok", "failed"} => outcome[v.run][v.item] = v.at
               /\ \A e \in Executers : walker[e].run = v.run =>
                    e = v.exec /\ (v.at # "start" => v.item \in walker[e].current)
    <3>1. CASE v \in workers
      BY <1>4, <3>1 DEF PoolItems
    <3>2. CASE v = n
      BY <1>1, <1>4, <3>2 DEF PoolItems
    <3> QED BY <1>1, <3>1, <3>2
  <2>2. ASSUME NEW v \in workers', NEW u \in workers', v.run = u.run, v.item = u.item
        PROVE  v = u
    BY <1>4, <1>5, <2>2 DEF PoolItems
  <2> QED BY <2>1, <2>2 DEF PoolItems
<1>7. \A g \in Runs : Ended(g) => Ended(g)'
  <2> SUFFICES ASSUME NEW g \in Runs, Ended(g) PROVE Ended(g)'
    OBVIOUS
  <2>1. w.run # g
    BY DEF Ended
  <2>2. \A v \in workers' : v.run = g => v.at = "start"
    BY <1>1, <2>1 DEF Ended
  <2> QED BY <2>2 DEF Ended
<1> QED BY <1>2, <1>3, <1>6, <1>7 DEF WorkKept, Unworked

\* An item runs.
LEMMA WorkerRuns ==
  ASSUME CalcInv, NEW w \in workers, w.at = "run", walker[w.exec].run = w.run,
         NEW ret \in {"ok", "failed"}, Advance(w, ret),
         outcome' = [outcome EXCEPT ![w.run][w.item] = ret],
         UNCHANGED <<walker, posts>>
  PROVE  WorkKept
<1> DEFINE n == [w EXCEPT !.at = ret]
<1>1. /\ workers' = (workers \ {w}) \cup {n}
      /\ n \in [exec : Executers, run : Runs, item : Items, at : Stages]
      /\ n.exec = w.exec /\ n.run = w.run /\ n.item = w.item /\ n.at = ret
  BY WorkNow DEF Advance, WorkTypes, Stages
<1>2. /\ w.run \in Runs /\ w.item \in Items /\ w.exec \in Executers
      /\ PoolItems /\ outcome[w.run][w.item] = "none" /\ posts[w.run][w.item] = 1
      /\ w.item \in walker[w.exec].current
      /\ \A e \in Executers : walker[e].run = w.run => e = w.exec
  BY WorkNow DEF CalcInv, PoolItems
<1>3. /\ outcome'[w.run] = [outcome[w.run] EXCEPT ![w.item] = ret]
      /\ \A g \in Runs : g # w.run => outcome'[g] = outcome[g]
      /\ outcome'[w.run] \in Outcomes /\ outcome' \in [Runs -> Outcomes]
  BY <1>2, WorkNow DEF WorkTypes, Outcomes
<1>4. /\ outcome'[w.run][w.item] = ret
      /\ \A j \in Items : j # w.item => outcome'[w.run][j] = outcome[w.run][j]
  BY <1>2, <1>3, WorkNow DEF Outcomes
<1> HIDE DEF n
<1>5. WorkTypes'
  BY <1>1, <1>3, WorkNow DEF WorkTypes
<1>6. Graphs'
  <2> SUFFICES ASSUME NEW e \in Executers
               PROVE  IF walker[e].run = 0 THEN walker[e].runnable = {}
                      ELSE GraphHolds(walker[e], posts[walker[e].run], outcome'[walker[e].run])
    BY DEF Graphs
  <2>1. CASE walker[e].run = w.run
    <3>1. e = w.exec
      BY <1>2, <2>1
    <3>2. GraphHolds(walker[e], posts[w.run], outcome[w.run]) /\ walker[e].run # 0
      BY <3>1, OwnRun
    <3>3. /\ walker[e] \in Walkers /\ posts[w.run] \in Posts /\ outcome[w.run] \in Outcomes
      BY <1>2, WorkNow
    <3>4. GraphHolds(walker[e], posts[w.run], outcome'[w.run])
      BY <1>2, <1>3, <3>1, <3>2, <3>3, GraphRuns
    <3> QED BY <2>1, <3>2, <3>4
  <2>2. CASE walker[e].run # w.run
    <3>1. walker[e].run # 0 => walker[e].run \in Runs
      BY WorkNow, RunsAssumption DEF Runs
    <3> QED BY <1>3, <2>2, <3>1 DEF CalcInv, Graphs
  <2> QED BY <2>1, <2>2
<1>7. PoolItems'
  <2>1. ASSUME NEW v \in workers'
        PROVE  /\ posts[v.run][v.item] = 1
               /\ v.at \in {"posted", "run"} => outcome'[v.run][v.item] = "none"
               /\ v.at \in {"ok", "failed"} => outcome'[v.run][v.item] = v.at
               /\ \A e \in Executers : walker[e].run = v.run =>
                    e = v.exec /\ (v.at # "start" => v.item \in walker[e].current)
    <3>1. CASE v \in workers \ {w}
      <4>1. /\ v.run \in Runs /\ v.item \in Items
            /\ ~(v.run = w.run /\ v.item = w.item)
        BY <1>2, <3>1, WorkNow DEF PoolItems
      <4>2. outcome'[v.run][v.item] = outcome[v.run][v.item]
        BY <1>3, <1>4, <4>1
      <4> QED BY <1>2, <3>1, <4>2 DEF PoolItems
    <3>2. CASE v = n
      BY <1>1, <1>2, <1>4, <3>2
    <3> QED BY <1>1, <3>1, <3>2
  <2>2. ASSUME NEW v \in workers', NEW u \in workers', v.run = u.run, v.item = u.item
        PROVE  v = u
    BY <1>1, <1>2, <2>2 DEF PoolItems
  <2> QED BY <2>1, <2>2 DEF PoolItems
<1>8. Fates'
  <2> SUFFICES ASSUME NEW g \in Runs, NEW j \in Items
               PROVE  /\ posts[g][j] \in {0, 1}
                      /\ posts[g][j] = 1 => NeedsMet(outcome'[g], j)
                      /\ posts[g][j] = 0 => outcome'[g][j] = "none"
    BY DEF Fates
  <2>1. /\ posts[g][j] \in {0, 1}
        /\ posts[g][j] = 1 => NeedsMet(outcome[g], j)
        /\ posts[g][j] = 0 => outcome[g][j] = "none"
    BY DEF CalcInv, Fates
  <2>2. CASE g = w.run
    <3>1. NeedsMet(outcome[g], j) => NeedsMet(outcome'[g], j)
      BY <1>2, <1>4, <2>2 DEF NeedsMet
    <3>2. posts[g][j] = 0 => j # w.item
      BY <1>2, <2>2
    <3> QED BY <1>4, <2>1, <2>2, <3>1, <3>2
  <2>3. CASE g # w.run
    BY <1>3, <2>1, <2>3
  <2> QED BY <2>2, <2>3
<1>9. \A g \in Runs : Ended(g) => Ended(g)'
  <2> SUFFICES ASSUME NEW g \in Runs, Ended(g) PROVE Ended(g)'
    OBVIOUS
  <2>1. w.run # g
    BY DEF Ended
  <2>2. \A v \in workers' : v.run = g => v.at = "start"
    BY <1>1, <2>1 DEF Ended
  <2>3. outcome'[g] = outcome[g]
    BY <1>3, <2>1
  <2> QED BY <2>2, <2>3 DEF Ended
<1> QED BY <1>5, <1>6, <1>7, <1>8, <1>9 DEF WorkKept, Unworked

\* What Mark makes of a walker.
LEMMA MarkedFacts ==
  ASSUME CalcInv, NEW w \in workers, w.at \in {"ok", "failed"}, walker[w.exec].run = w.run
  PROVE  LET wk == walker[w.exec]
             m == Marked(wk, w)
         IN  /\ m \in Walkers /\ m.run = wk.run /\ m.current = wk.current \ {w.item}
             /\ GraphHolds(m, posts[w.run], outcome[w.run])
<1> DEFINE wk == walker[w.exec]
           rest == [wk EXCEPT !.current = @ \ {w.item}]
           m == Marked(wk, w)
<1>1. /\ wk \in Walkers /\ w.run \in Runs /\ w.item \in Items
      /\ posts[w.run] \in Posts /\ outcome[w.run] \in Outcomes
  BY WorkNow
<1>2. GraphHolds(wk, posts[w.run], outcome[w.run])
  BY OwnRun
<1>3. outcome[w.run][w.item] = w.at
  BY DEF CalcInv, PoolItems
<1>4. /\ rest \in Walkers /\ rest.run = wk.run /\ rest.current = wk.current \ {w.item}
      /\ rest.edges = wk.edges /\ rest.runnable = wk.runnable
  BY <1>1 DEF Walkers
<1>5. CASE w.at = "ok"
  <2>1. m = NodeSuccess(rest, w.item)
    BY <1>5 DEF Marked
  <2>2. GraphHolds(m, posts[w.run], outcome[w.run])
    BY <1>1, <1>2, <1>3, <1>5, <2>1, GraphSucceeds
  <2>3. m \in Walkers /\ m.run = wk.run /\ m.current = wk.current \ {w.item}
    <3> HIDE DEF rest, wk, m
    <3> QED BY <1>4, <2>1 DEF NodeSuccess, Walkers
  <2> QED BY <2>2, <2>3
<1>6. CASE w.at = "failed"
  <2>1. m = NodeFailed(rest, w.item)
    BY <1>6 DEF Marked
  <2>2. GraphHolds(m, posts[w.run], outcome[w.run])
    BY <1>1, <1>2, <1>3, <1>6, <2>1, GraphFails
  <2>3. m \in Walkers /\ m.run = wk.run /\ m.current = wk.current \ {w.item}
    <3> HIDE DEF rest, wk, m
    <3> QED BY <1>4, <2>1 DEF NodeFailed, Walkers
  <2> QED BY <2>2, <2>3
<1> QED BY <1>5, <1>6

\* An item is marked; if the walker has finished with it, the run is complete.
LEMMA WorkerMarks ==
  ASSUME CalcInv, NEW w \in workers, w.at \in {"ok", "failed"},
         walker[w.exec].run = w.run,
         walker' = [walker EXCEPT ![w.exec] = Marked(walker[w.exec], w)],
         workers' = workers \ {w} \/ Advance(w, "start"),
         UNCHANGED <<posts, outcome>>
  PROVE  WorkKept /\ (Finish(Marked(walker[w.exec], w)) => Ended(w.run)')
<1> DEFINE m == Marked(walker[w.exec], w)
           n == [w EXCEPT !.at = "start"]
<1>1. /\ m \in Walkers /\ m.run = w.run /\ m.current = walker[w.exec].current \ {w.item}
      /\ GraphHolds(m, posts[w.run], outcome[w.run])
  BY MarkedFacts
<1>2. /\ n \in [exec : Executers, run : Runs, item : Items, at : Stages]
      /\ n.exec = w.exec /\ n.run = w.run /\ n.item = w.item /\ n.at = "start"
      /\ workers' \subseteq (workers \ {w}) \cup {n}
  BY WorkNow DEF Advance, WorkTypes, Stages
<1>3. /\ w.run \in Runs /\ w.item \in Items /\ w.exec \in Executers /\ PoolItems /\ WorkTypes
      /\ posts[w.run][w.item] = 1
      /\ \A e \in Executers : walker[e].run = w.run => e = w.exec
  BY WorkNow DEF CalcInv, PoolItems
<1> HIDE DEF m, n
<1>4. walker'[w.exec] = m /\ \A e \in Executers : e # w.exec => walker'[e] = walker[e]
  BY <1>3 DEF WorkTypes, m
<1>5. \A e \in Executers : walker'[e].run = walker[e].run
  BY <1>1, <1>4
<1>6. WorkTypes'
  BY <1>1, <1>2, <1>3 DEF WorkTypes, m
<1>7. Graphs'
  <2> SUFFICES ASSUME NEW e \in Executers
               PROVE  IF walker'[e].run = 0 THEN walker'[e].runnable = {}
                      ELSE GraphHolds(walker'[e], posts[walker'[e].run], outcome[walker'[e].run])
    BY DEF Graphs
  <2>1. CASE e = w.exec
    <3>1. walker'[e].run = w.run /\ w.run # 0
      BY <1>1, <1>4, <2>1, OwnRun
    <3> QED BY <1>1, <1>4, <2>1, <3>1
  <2>2. CASE e # w.exec
    BY <1>4, <2>2 DEF CalcInv, Graphs
  <2> QED BY <2>1, <2>2
<1>8. PoolItems'
  <2>1. ASSUME NEW v \in workers'
        PROVE  /\ posts[v.run][v.item] = 1
               /\ v.at \in {"posted", "run"} => outcome[v.run][v.item] = "none"
               /\ v.at \in {"ok", "failed"} => outcome[v.run][v.item] = v.at
               /\ \A e \in Executers : walker'[e].run = v.run =>
                    e = v.exec /\ (v.at # "start" => v.item \in walker'[e].current)
    <3>1. CASE v \in workers \ {w}
      <4>1. ASSUME NEW e \in Executers, walker'[e].run = v.run, v.at # "start"
            PROVE  v.item \in walker'[e].current
        <5>1. e = v.exec /\ v.item \in walker[e].current
          BY <1>3, <1>5, <3>1, <4>1 DEF PoolItems
        <5>2. CASE e = w.exec
          <6>1. v.run = w.run
            BY <1>1, <1>4, <4>1, <5>2
          <6>2. v.item # w.item
            BY <1>3, <3>1, <6>1 DEF PoolItems
          <6> QED BY <1>1, <1>4, <5>1, <5>2, <6>2
        <5> QED BY <1>4, <5>1, <5>2
      <4> QED BY <1>3, <1>5, <3>1, <4>1 DEF PoolItems
    <3>2. CASE v = n
      BY <1>2, <1>3, <1>5, <3>2
    <3> QED BY <1>2, <3>1, <3>2
  <2>2. ASSUME NEW v \in workers', NEW u \in workers', v.run = u.run, v.item = u.item
        PROVE  v = u
    BY <1>2, <1>3, <2>2 DEF PoolItems
  <2> QED BY <2>1, <2>2 DEF PoolItems
<1>9. Fates'
  BY DEF CalcInv, Fates
<1>10. \A g \in Runs : Ended(g) => Ended(g)'
  <2> SUFFICES ASSUME NEW g \in Runs, Ended(g) PROVE Ended(g)'
    OBVIOUS
  <2>1. w.run # g
    BY DEF Ended
  <2>2. \A v \in workers' : v.run = g => v.at = "start"
    BY <1>2, <2>1 DEF Ended
  <2>3. \A e \in Executers : walker'[e].run = g => Finish(walker'[e])
    BY <1>1, <1>4, <2>1 DEF Ended
  <2> QED BY <2>2, <2>3 DEF Ended
<1>11. ASSUME Finish(m) PROVE Ended(w.run)'
  <2>1. m.current = {}
    BY <1>11 DEF Finish
  <2>2. \A j \in Items : outcome[w.run][j] # "none" <=> NeedsMet(outcome[w.run], j)
    <3>1. posts[w.run] \in Posts /\ outcome[w.run] \in Outcomes
      BY <1>3, WorkNow
    <3>2. \A j \in Items : /\ posts[w.run][j] = 1 => NeedsMet(outcome[w.run], j)
                           /\ posts[w.run][j] = 0 => outcome[w.run][j] = "none"
      BY <1>3 DEF CalcInv, Fates
    <3> QED BY <1>1, <1>11, <3>1, <3>2, GraphEnds
  <2>3. ASSUME NEW v \in workers', v.run = w.run PROVE v.at = "start"
    <3>1. walker'[w.exec].run = v.run
      BY <1>1, <1>4, <2>3
    <3>2. v.at # "start" => v.item \in walker'[w.exec].current
      BY <1>3, <1>8, <2>3, <3>1 DEF PoolItems
    <3> QED BY <1>4, <2>1, <3>2
  <2>4. ASSUME NEW e \in Executers, walker'[e].run = w.run PROVE Finish(walker'[e])
    <3>1. e = w.exec
      BY <1>3, <1>5, <2>4
    <3> QED BY <1>4, <1>11, <3>1
  <2> QED BY <2>2, <2>3, <2>4 DEF Ended
<1>12. WorkKept
  BY <1>5, <1>6, <1>7, <1>8, <1>9, <1>10 DEF WorkKept, Unworked
<1> QED BY <1>11, <1>12 DEF m

\* What is runnable is posted, beside the workers that stay.
LEMMA RunnableIsPosted ==
  ASSUME CalcInv, NEW e \in Executers, NEW others \in SUBSET workers,
         workers' = others \cup
           {Worker(e, walker[e].run, i, "posted") : i \in walker[e].runnable},
         walker' = [walker EXCEPT ![e].current = @ \cup walker[e].runnable,
                                  ![e].runnable = {}],
         posts' = [g \in Runs |-> [i \in Items |->
           posts[g][i] + IF g = walker[e].run /\ i \in walker[e].runnable THEN 1 ELSE 0]],
         UNCHANGED outcome
  PROVE  WorkKept
<1> DEFINE w == walker[e]
           new == {Worker(e, w.run, i, "posted") : i \in w.runnable}
           v == walker'[e]
<1>1. /\ w \in Walkers /\ w.run \in 0 .. MaxRuns /\ w.runnable \subseteq Items
      /\ w.current \subseteq Items /\ w.edges \subseteq Depends
  BY WorkNow DEF Walkers
<1>2. /\ v \in Walkers /\ v.run = w.run /\ v.edges = w.edges /\ v.runnable = {}
      /\ v.current = w.current \cup w.runnable
      /\ \A f \in Executers : f # e => walker'[f] = walker[f]
      /\ walker' \in [Executers -> Walkers]
  BY <1>1, WorkNow DEF WorkTypes, Walkers
<1>3. w.run # 0 => w.run \in Runs
  BY <1>1, RunsAssumption DEF Runs
<1>4. w.run = 0 => w.runnable = {}
  BY DEF CalcInv, Graphs
<1>5. w.run # 0 => GraphHolds(w, posts[w.run], outcome[w.run])
  BY DEF CalcInv, Graphs
<1>6. \A f \in Executers : walker[f].run = w.run /\ w.run # 0 => f = e
  BY DEF CalcInv, Starts
<1>7. \A g \in Runs : \A i \in Items :
        posts'[g][i] = posts[g][i] + IF g = w.run /\ i \in w.runnable THEN 1 ELSE 0
  OBVIOUS
<1>8. \A g \in Runs : g # w.run \/ w.runnable = {} => posts'[g] = posts[g]
  <2> SUFFICES ASSUME NEW g \in Runs, g # w.run \/ w.runnable = {} PROVE posts'[g] = posts[g]
    OBVIOUS
  <2>1. posts[g] \in [Items -> Nat] /\ posts'[g] = [i \in Items |-> posts'[g][i]]
    BY WorkNow DEF WorkTypes
  <2>2. \A i \in Items : posts'[g][i] = posts[g][i]
    BY <1>7, <2>1
  <2> QED BY <2>1, <2>2
<1>9. \A n \in new : /\ n.exec = e /\ n.run = w.run /\ n.item \in w.runnable /\ n.at = "posted"
                     /\ n = Worker(e, w.run, n.item, "posted")
                     /\ n \in [exec : Executers, run : Runs, item : Items, at : Stages]
  BY <1>1, <1>3, <1>4 DEF Worker, Stages
<1>10. workers' = others \cup new
  OBVIOUS
<1> HIDE DEF w, new, v
<1>11. ASSUME NEW i \in w.runnable
       PROVE  /\ i \in Items /\ w.run \in Runs /\ posts[w.run][i] = 0 /\ posts'[w.run][i] = 1
              /\ NeedsMet(outcome[w.run], i) /\ outcome[w.run][i] = "none"
  <2>1. i \in Items /\ w.run \in Runs /\ posts[w.run][i] = 0 /\ NeedsMet(outcome[w.run], i)
    BY <1>1, <1>3, <1>4, <1>5 DEF GraphHolds
  <2>2. outcome[w.run][i] = "none"
    BY <2>1 DEF CalcInv, Fates
  <2> QED BY <1>7, <2>1, <2>2
<1>12. WorkTypes'
  <2>1. posts' \in [Runs -> [Items -> Nat]]
    <3> SUFFICES ASSUME NEW g \in Runs, NEW i \in Items
                 PROVE  posts[g][i] + (IF g = walker[e].run /\ i \in walker[e].runnable
                                       THEN 1 ELSE 0) \in Nat
      OBVIOUS
    <3>1. posts[g][i] \in Nat
      BY WorkNow DEF WorkTypes
    <3> QED BY <3>1
  <2>2. workers' \subseteq [exec : Executers, run : Runs, item : Items, at : Stages]
    BY <1>9, <1>10, WorkNow DEF WorkTypes
  <2> QED BY <1>2, <2>1, <2>2, WorkNow DEF WorkTypes
<1>13. Graphs'
  <2> SUFFICES ASSUME NEW f \in Executers
               PROVE  IF walker'[f].run = 0 THEN walker'[f].runnable = {}
                      ELSE GraphHolds(walker'[f], posts'[walker'[f].run], outcome[walker'[f].run])
    BY DEF Graphs
  <2>1. CASE f = e
    <3>1. CASE w.run = 0
      BY <1>2, <2>1, <3>1 DEF v
    <3>2. CASE w.run # 0
      <4>1. posts[w.run] \in Posts /\ outcome[w.run] \in Outcomes /\ w.run \in Runs
        BY <1>3, <3>2, WorkNow
      <4>2. \A i \in Items : posts'[w.run][i] = posts[w.run][i] + IF i \in w.runnable THEN 1 ELSE 0
        BY <1>7, <4>1
      <4>3. GraphHolds(v, posts'[w.run], outcome[w.run])
        BY <1>1, <1>2, <1>5, <3>2, <4>1, <4>2, GraphPosts
      <4> QED BY <1>2, <2>1, <3>2, <4>3 DEF v
    <3> QED BY <3>1, <3>2
  <2>2. CASE f # e
    <3>1. walker'[f] = walker[f]
      BY <1>2, <2>2
    <3>2. CASE walker[f].run = 0
      BY <3>1, <3>2 DEF CalcInv, Graphs
    <3>3. CASE walker[f].run # 0
      <4>1. walker[f].run \in Runs
        BY <3>3, WorkNow, RunsAssumption DEF Runs
      <4>2. walker[f].run # w.run
        BY <1>6, <2>2, <3>3
      <4> QED BY <1>8, <3>1, <3>3, <4>1, <4>2 DEF CalcInv, Graphs
    <3> QED BY <3>2, <3>3
  <2> QED BY <2>1, <2>2
<1>14. ASSUME NEW u \in others
       PROVE  /\ u \in workers /\ posts[u.run][u.item] = 1
              /\ posts'[u.run][u.item] = 1
              /\ ~(u.run = w.run /\ u.item \in w.runnable)
  <2>1. u \in workers /\ u.run \in Runs /\ u.item \in Items /\ posts[u.run][u.item] = 1
    BY WorkNow DEF CalcInv, PoolItems
  <2>2. ~(u.run = w.run /\ u.item \in w.runnable)
    <3> SUFFICES ASSUME u.run = w.run, u.item \in w.runnable PROVE FALSE
      OBVIOUS
    <3>1. posts[w.run][u.item] = 0
      BY <1>11
    <3> QED BY <2>1, <3>1
  <2> QED BY <1>7, <2>1, <2>2
<1>15. PoolItems'
  <2>1. ASSUME NEW u \in workers'
        PROVE  /\ posts'[u.run][u.item] = 1
               /\ u.at \in {"posted", "run"} => outcome[u.run][u.item] = "none"
               /\ u.at \in {"ok", "failed"} => outcome[u.run][u.item] = u.at
               /\ \A f \in Executers : walker'[f].run = u.run =>
                    f = u.exec /\ (u.at # "start" => u.item \in walker'[f].current)
    <3>1. CASE u \in others
      <4>1. ASSUME NEW f \in Executers, walker'[f].run = u.run
            PROVE  f = u.exec /\ (u.at # "start" => u.item \in walker'[f].current)
        <5>1. walker[f].run = u.run /\ walker[f].current \subseteq walker'[f].current
          BY <1>2, <4>1 DEF v, w
        <5> QED BY <1>14, <3>1, <5>1 DEF CalcInv, PoolItems
      <4> QED BY <1>14, <3>1, <4>1 DEF CalcInv, PoolItems
    <3>2. CASE u \in new
      <4>1. /\ u.exec = e /\ u.run = w.run /\ u.item \in w.runnable /\ u.at = "posted"
        BY <1>9, <3>2
      <4>2. ASSUME NEW f \in Executers, walker'[f].run = w.run
            PROVE  f = e /\ u.item \in walker'[f].current
        <5>1. w.run # 0
          BY <1>4, <4>1
        <5>2. f = e
          BY <1>2, <1>6, <4>2, <5>1
        <5> QED BY <1>2, <4>1, <5>2 DEF v
      <4>3. posts'[w.run][u.item] = 1 /\ outcome[w.run][u.item] = "none"
        BY <1>11, <4>1
      <4> QED BY <4>1, <4>2, <4>3
    <3> QED BY <1>10, <3>1, <3>2
  <2>2. ASSUME NEW u \in workers', NEW t \in workers', u.run = t.run, u.item = t.item
        PROVE  u = t
    <3>1. CASE u \in others /\ t \in others
      BY <1>14, <2>2, <3>1 DEF CalcInv, PoolItems
    <3>2. CASE u \in new /\ t \in new
      BY <1>9, <2>2, <3>2
    <3>3. CASE (u \in others /\ t \in new) \/ (u \in new /\ t \in others)
      BY <1>9, <1>14, <2>2, <3>3
    <3> QED BY <1>10, <3>1, <3>2, <3>3
  <2> QED BY <2>1, <2>2 DEF PoolItems
<1>16. Fates'
  <2> SUFFICES ASSUME NEW g \in Runs, NEW j \in Items
               PROVE  /\ posts'[g][j] \in {0, 1}
                      /\ posts'[g][j] = 1 => NeedsMet(outcome[g], j)
                      /\ posts'[g][j] = 0 => outcome[g][j] = "none"
    BY DEF Fates
  <2>1. /\ posts[g][j] \in {0, 1}
        /\ posts[g][j] = 1 => NeedsMet(outcome[g], j)
        /\ posts[g][j] = 0 => outcome[g][j] = "none"
    BY DEF CalcInv, Fates
  <2>2. CASE g = w.run /\ j \in w.runnable
    BY <1>11, <2>2
  <2>3. CASE ~(g = w.run /\ j \in w.runnable)
    BY <1>7, <2>1, <2>3
  <2> QED BY <2>2, <2>3
<1>17. \A g \in Runs : Ended(g) => Ended(g)'
  <2> SUFFICES ASSUME NEW g \in Runs, Ended(g) PROVE Ended(g)'
    OBVIOUS
  <2>1. w.run = g => w.runnable = {} /\ w.current = {}
    BY DEF Ended, Finish, w
  <2>2. \A u \in workers' : u.run = g => u.at = "start"
    BY <1>9, <1>10, <2>1 DEF Ended
  <2>3. \A f \in Executers : walker'[f].run = g => Finish(walker'[f])
    BY <1>2, <2>1 DEF Ended, Finish, v, w
  <2> QED BY <2>2, <2>3 DEF Ended
<1>18. \A f \in Executers : walker'[f].run = walker[f].run
  BY <1>2 DEF v, w
<1>19. \A g \in Runs : Unworked(g) => \A i \in Items : posts'[g][i] = 0
  BY <1>8 DEF Unworked, w
<1> QED BY <1>12, <1>13, <1>15, <1>16, <1>17, <1>18, <1>19 DEF WorkKept

---------------------------------------------------------------------------
(* What is announced. *)

Messages == [run : Runs, what : {"running", "cancel", "finish"}]

\* AnnounceTypes and WorkTypes are CalcTypeOK.
AnnounceTypes ==
  /\ task \in [Executers -> 0 .. runs] /\ delegate \in [Executers -> 0 .. runs]
  /\ notify_end \in [Executers -> BOOLEAN]
  /\ start_pc \in [Executers -> {"idle", "reset", "start_all"}]
  /\ status \in [Runs -> {"no_start", "running", "cancel", "finish"}]
  /\ cancelled \subseteq Runs /\ mail \in Seq(Messages)
  /\ refs \in [Runs -> 0 .. 1] /\ runs \in 0 .. MaxRuns /\ crashed \in BOOLEAN

LEMMA AnnounceNow == CalcTypeOK <=> AnnounceTypes /\ WorkTypes
BY DEF CalcTypeOK, AnnounceTypes, WorkTypes, Messages, Outcomes

\* One message more at the end.
LEMMA OneMore ==
  ASSUME mail \in Seq(Messages), NEW m \in Messages, mail' = Append(mail, m)
  PROVE  /\ mail' \in Seq(Messages) /\ Len(mail) \in Nat /\ Len(mail') = Len(mail) + 1
         /\ mail'[Len(mail) + 1] = m
         /\ \A k \in 1 .. Len(mail) : mail'[k] = mail[k] /\ mail[k] \in Messages
OBVIOUS

\* NotifyEnd, or nothing.
LEMMA NotifyFacts ==
  ASSUME CalcInv, NEW e \in Executers, NEW what \in {"cancel", "finish"},
         NotifyEnd(e, what) \/ UNCHANGED <<notify_end, mail, refs>>
  PROVE  /\ notify_end' \in [Executers -> BOOLEAN] /\ mail' \in Seq(Messages)
         /\ refs' \in [Runs -> 0 .. 1]
         /\ \A f \in Executers :
              /\ notify_end[f] => notify_end'[f]
              /\ ~notify_end'[f] => ~notify_end[f] /\ refs'[task[f]] = 1
         /\ \A g \in Runs : (refs[g] = 0 => refs'[g] = 0)
         /\ \A k \in 1 .. Len(mail') :
              \/ k \in 1 .. Len(mail) /\ mail'[k] = mail[k]
              \/ /\ k = Len(mail) + 1 /\ mail'[k] = [run |-> task[e], what |-> what]
                 /\ ~notify_end[e] /\ NotifyEnd(e, what)
<1>1. AnnounceTypes /\ Starts
  BY AnnounceNow DEF CalcInv
<1>2. CASE UNCHANGED <<notify_end, mail, refs>>
  BY <1>1, <1>2 DEF AnnounceTypes, Starts
<1>3. CASE NotifyEnd(e, what) /\ notify_end[e]
  BY <1>1, <1>3 DEF AnnounceTypes, Starts, NotifyEnd
<1>4. CASE NotifyEnd(e, what) /\ ~notify_end[e]
  <2>1. /\ notify_end' = [notify_end EXCEPT ![e] = TRUE]
        /\ mail' = Append(mail, [run |-> task[e], what |-> what])
        /\ refs' = [refs EXCEPT ![delegate[e]] = @ - 1]
    BY <1>4 DEF NotifyEnd, Post
  <2>2. task[e] \in Runs /\ refs[task[e]] = 1 /\ delegate[e] = task[e] /\ task[e] # 0
    BY <1>1, <1>4, RunsAssumption DEF Starts, Runs
  <2>3. [run |-> task[e], what |-> what] \in Messages
    BY <2>2 DEF Messages
  <2>4. /\ mail' \in Seq(Messages) /\ Len(mail) \in Nat /\ Len(mail') = Len(mail) + 1
        /\ mail'[Len(mail) + 1] = [run |-> task[e], what |-> what]
        /\ \A k \in 1 .. Len(mail) : mail'[k] = mail[k]
    BY <1>1, <2>1, <2>3, OneMore DEF AnnounceTypes
  <2>5. /\ refs' \in [Runs -> 0 .. 1] /\ refs'[task[e]] = 0
        /\ \A g \in Runs : g # task[e] => refs'[g] = refs[g]
    BY <1>1, <2>1, <2>2 DEF AnnounceTypes
  <2>6. /\ notify_end' \in [Executers -> BOOLEAN] /\ notify_end'[e]
        /\ \A f \in Executers : f # e => notify_end'[f] = notify_end[f]
    BY <1>1, <2>1 DEF AnnounceTypes
  <2>7. ASSUME NEW f \in Executers, ~notify_end'[f]
        PROVE  ~notify_end[f] /\ refs'[task[f]] = 1
    <3>1. f # e /\ ~notify_end[f]
      BY <2>6, <2>7
    <3>2. task[f] \in Runs /\ refs[task[f]] = 1 /\ task[f] # task[e]
      BY <1>1, <2>2, <3>1 DEF Starts
    <3> QED BY <2>5, <3>1, <3>2
  <2>8. \A g \in Runs : (refs[g] = 0 => refs'[g] = 0)
    BY <2>2, <2>5
  <2>9. \A f \in Executers : notify_end[f] => notify_end'[f]
    BY <2>6
  <2>10. \A k \in 1 .. Len(mail') : k \in 1 .. Len(mail) \/ k = Len(mail) + 1
    BY <2>4
  <2> QED BY <1>4, <2>4, <2>5, <2>6, <2>7, <2>8, <2>9, <2>10
<1> QED BY <1>2, <1>3, <1>4

\* A step of the pool, or of StartAllRunnable, that announces the end of a run or
\* nothing.
LEMMA AnnounceKept ==
  ASSUME CalcInv, WorkKept, NEW e \in Executers, NEW what \in {"cancel", "finish"},
         NotifyEnd(e, what) \/ UNCHANGED <<notify_end, mail, refs>>,
         what = "finish" /\ ~notify_end[e] /\ NotifyEnd(e, what) => Ended(task[e])',
         start_pc' \in [Executers -> {"idle", "reset", "start_all"}],
         \A f \in Executers :
           start_pc'[f] = start_pc[f] \/ (start_pc[f] = "start_all" /\ start_pc'[f] = "idle"),
         UNCHANGED <<task, delegate, status, cancelled, runs, crashed>>
  PROVE  CalcInv'
<1>1. /\ notify_end' \in [Executers -> BOOLEAN] /\ mail' \in Seq(Messages)
      /\ refs' \in [Runs -> 0 .. 1]
      /\ \A f \in Executers :
           /\ notify_end[f] => notify_end'[f]
           /\ ~notify_end'[f] => ~notify_end[f] /\ refs'[task[f]] = 1
      /\ \A g \in Runs : (refs[g] = 0 => refs'[g] = 0)
      /\ \A k \in 1 .. Len(mail') :
           \/ k \in 1 .. Len(mail) /\ mail'[k] = mail[k]
           \/ /\ k = Len(mail) + 1 /\ mail'[k] = [run |-> task[e], what |-> what]
              /\ ~notify_end[e] /\ NotifyEnd(e, what)
  BY NotifyFacts
<1>2. /\ AnnounceTypes /\ WorkTypes /\ Starts /\ Announced /\ InMailOrder
  BY AnnounceNow DEF CalcInv
<1>3. Len(mail) \in Nat /\ \A k \in 1 .. Len(mail) : mail[k] \in Messages
  BY <1>2 DEF AnnounceTypes
<1>4. AnnounceTypes'
  BY <1>1, <1>2 DEF AnnounceTypes
<1>5. ASSUME NEW g \in Runs, Untold(g), notify_end[e] \/ task[e] # g PROVE Untold(g)'
  <2>1. \A k \in 1 .. Len(mail') : mail'[k].run # g
    BY <1>1, <1>5 DEF Untold
  <2> QED BY <1>1, <1>5, <2>1 DEF Untold
<1>6. ASSUME NEW g \in Runs, Unworked(g) PROVE Unworked(g)'
  BY <1>6 DEF Unworked, WorkKept
<1>7. Starts'
  <2>1. ASSUME NEW f \in Executers
        PROVE  /\ delegate[f] = task[f]
               /\ walker'[f].run <= runs
               /\ start_pc'[f] = "reset" =>
                    task[f] \in Runs /\ Untold(task[f])' /\ Unworked(task[f])' /\ notify_end'[f]
               /\ start_pc'[f] # "reset" => walker'[f].run = task[f]
               /\ ~notify_end'[f] => task[f] \in Runs /\ refs'[task[f]] = 1
    <3>1. ASSUME start_pc'[f] = "reset"
          PROVE  task[f] \in Runs /\ Untold(task[f])' /\ Unworked(task[f])' /\ notify_end'[f]
      <4>1. task[f] \in Runs /\ Untold(task[f]) /\ Unworked(task[f]) /\ notify_end[f]
        BY <1>2, <3>1 DEF Starts
      <4>2. notify_end[e] \/ task[e] # task[f]
        <5>1. CASE f = e
          BY <4>1, <5>1
        <5>2. CASE f # e /\ ~notify_end[e]
          <6>1. task[e] # 0
            BY <1>2, <5>2, RunsAssumption DEF Starts, Runs
          <6> QED BY <1>2, <5>2, <6>1 DEF Starts
        <5> QED BY <5>1, <5>2
      <4>3. Untold(task[f])'
        <5>1. \A g \in Runs : g = task[f] => Untold(g)'
          BY <1>5, <4>1, <4>2
        <5> QED BY <4>1, <5>1
      <4>4. Unworked(task[f])'
        <5>1. \A g \in Runs : g = task[f] => Unworked(g)'
          BY <1>6, <4>1
        <5> QED BY <4>1, <5>1
      <4> QED BY <1>1, <4>1, <4>3, <4>4
    <3>2. start_pc'[f] # "reset" => start_pc[f] # "reset"
      OBVIOUS
    <3>3. walker'[f].run = walker[f].run
      BY DEF WorkKept
    <3>4. /\ delegate[f] = task[f] /\ walker[f].run <= runs
          /\ start_pc[f] # "reset" => walker[f].run = task[f]
          /\ ~notify_end[f] => task[f] \in Runs
      BY <1>2 DEF Starts
    <3> QED BY <1>1, <3>1, <3>2, <3>3, <3>4
  <2>2. ASSUME NEW f \in Executers, NEW h \in Executers, f # h
        PROVE  /\ start_pc'[f] # "idle" => start_pc'[h] = "idle"
               /\ task[f] = task[h] => task[f] = 0
               /\ walker'[f].run = walker'[h].run => walker'[f].run = 0
    <3>1. /\ start_pc[f] # "idle" => start_pc[h] = "idle"
          /\ task[f] = task[h] => task[f] = 0
          /\ walker[f].run = walker[h].run => walker[f].run = 0
      BY <1>2, <2>2 DEF Starts
    <3>2. start_pc'[f] # "idle" => start_pc[f] # "idle"
      OBVIOUS
    <3>3. start_pc[h] = "idle" => start_pc'[h] = "idle"
      OBVIOUS
    <3> QED BY <3>1, <3>2, <3>3 DEF WorkKept
  <2>3. ASSUME NEW g \in Runs, g > runs PROVE Untold(g)' /\ Unworked(g)'
    <3>1. Untold(g) /\ Unworked(g)
      BY <1>2, <2>3 DEF Starts
    <3>2. task[e] # g
      BY <1>2, <2>3, RunsAssumption DEF AnnounceTypes, Runs
    <3> QED BY <1>5, <1>6, <3>1, <3>2
  <2> QED BY <2>1, <2>2, <2>3 DEF Starts
<1>8. Announced'
  <2>1. ASSUME NEW g \in Runs, status[g] = "finish" PROVE Ended(g)'
    BY <1>2, <2>1 DEF Announced, WorkKept
  <2>2. ASSUME NEW k \in 1 .. Len(mail'), mail'[k].what = "finish" PROVE Ended(mail[k].run)'
    <3>1. CASE k \in 1 .. Len(mail) /\ mail'[k] = mail[k]
      <4>1. mail[k].run \in Runs /\ Ended(mail[k].run)
        BY <1>2, <1>3, <2>2, <3>1 DEF Announced, Messages
      <4>2. \A g \in Runs : g = mail[k].run => Ended(g)'
        BY <4>1 DEF WorkKept
      <4> QED BY <3>1, <4>1, <4>2
    <3>2. CASE /\ mail'[k] = [run |-> task[e], what |-> what]
               /\ ~notify_end[e] /\ NotifyEnd(e, what)
      <4>1. what = "finish" /\ mail'[k].run = task[e]
        BY <2>2, <3>2
      <4>2. Ended(task[e])'
        BY <3>2, <4>1
      <4> QED BY <4>1, <4>2
    <3> QED BY <1>1, <3>1, <3>2
  <2> QED BY <2>1, <2>2 DEF Announced
<1>9. InMailOrder'
  <2> SUFFICES ASSUME NEW k \in 1 .. Len(mail'), mail'[k].what = "running"
               PROVE  /\ status[mail'[k].run] = "no_start"
                      /\ \A j \in 1 .. k - 1 : mail'[j].run # mail'[k].run
    BY DEF InMailOrder
  <2>1. k \in 1 .. Len(mail) /\ mail'[k] = mail[k]
    BY <1>1
  <2>2. \A j \in 1 .. k - 1 : j \in 1 .. Len(mail) /\ j \in 1 .. Len(mail') /\ j # Len(mail) + 1
    BY <1>1, <1>3, <2>1
  <2>3. \A j \in 1 .. k - 1 : mail'[j] = mail[j]
    BY <1>1, <2>2
  <2> QED BY <1>2, <2>1, <2>3 DEF InMailOrder
<1> QED BY <1>4, <1>7, <1>8, <1>9, AnnounceNow DEF WorkKept, CalcInv, AnnounceTypes, WorkTypes,
        CalcTypeOK, Messages, Outcomes

---------------------------------------------------------------------------
(* The actions. *)

LEMMA CalcInitInv == CalcInit => CalcInv
<1> SUFFICES ASSUME CalcInit PROVE CalcInv
  OBVIOUS
<1>1. MaxRuns \in Nat /\ 0 \in 0 .. MaxRuns /\ \A g \in Runs : g # 0 /\ g \in Nat
  BY RunsAssumption DEF Runs
<1>2. CalcTypeOK
  <2>1. walker \in [Executers -> Walkers]
    BY <1>1 DEF CalcInit, Walkers
  <2>2. posts \in [Runs -> [Items -> Nat]]
        /\ outcome \in [Runs -> [Items -> {"none", "ok", "failed"}]]
    BY DEF CalcInit
  <2>3. mail \in Seq([run : Runs, what : {"running", "cancel", "finish"}])
    BY DEF CalcInit
  <2>4. /\ task \in [Executers -> 0 .. runs] /\ delegate \in [Executers -> 0 .. runs]
        /\ notify_end \in [Executers -> BOOLEAN]
        /\ start_pc \in [Executers -> {"idle", "reset", "start_all"}]
    BY DEF CalcInit
  <2>5. status \in [Runs -> {"no_start", "running", "cancel", "finish"}]
        /\ refs \in [Runs -> 0 .. 1]
    BY DEF CalcInit
  <2>6. /\ runs \in 0 .. MaxRuns /\ cancelled \subseteq Runs /\ crashed \in BOOLEAN
        /\ workers \subseteq [exec : Executers, run : Runs, item : Items, at : Stages]
    BY <1>1 DEF CalcInit
  <2> QED BY <2>1, <2>2, <2>3, <2>4, <2>5, <2>6 DEF CalcTypeOK
<1>3. Len(mail) = 0
  BY DEF CalcInit
<1>4. \A g \in Runs : Untold(g) /\ Unworked(g)
  BY <1>1, <1>3 DEF CalcInit, Untold, Unworked
<1>5. Starts
  BY <1>4 DEF CalcInit, Starts
<1>6. Graphs /\ PoolItems /\ Fates
  BY DEF CalcInit, Graphs, PoolItems, Fates
<1>7. Announced /\ InMailOrder
  BY <1>3 DEF CalcInit, Announced, InMailOrder
<1> QED BY <1>2, <1>5, <1>6, <1>7 DEF CalcInv

\* A task is cancelled, or the program dies.
LEMMA OnlyFlags ==
  ASSUME CalcInv, UNCHANGED <<executerVars, status, mail, refs, runs, posts, outcome>>,
         cancelled' \subseteq Runs, crashed' \in BOOLEAN
  PROVE  CalcInv'
<1>1. UNCHANGED <<task, delegate, notify_end, walker, start_pc, workers, status, mail, refs,
                  runs, posts, outcome>>
  BY DEF executerVars
<1>2. CalcTypeOK'
  BY <1>1 DEF CalcInv, CalcTypeOK
<1>3. Starts'
  BY <1>1 DEF CalcInv, Starts, Untold, Unworked
<1>4. Graphs' /\ PoolItems' /\ Fates'
  BY <1>1 DEF CalcInv, Graphs, PoolItems, Fates
<1>5. Announced' /\ InMailOrder'
  BY <1>1 DEF CalcInv, Announced, InMailOrder, Ended
<1> QED BY <1>2, <1>3, <1>4, <1>5 DEF CalcInv

LEMMA KeptByStartRun ==
  ASSUME CalcInv, NEW e \in Executers, MayStart(e), StartRun(e), UNCHANGED cancelled
  PROVE  CalcInv'
<1>1. /\ AnnounceTypes /\ WorkTypes /\ Starts /\ MaxRuns \in Nat /\ runs \in Nat
      /\ runs < MaxRuns /\ runs + 1 \in Runs /\ \A f \in Executers : start_pc[f] = "idle"
  BY AnnounceNow, RunsAssumption DEF CalcInv, AnnounceTypes, MayStart, Idle, Runs
<1>2. CASE ~notify_end[e]
  <2>1. UNCHANGED <<executerVars, status, mail, refs, runs, posts, outcome, cancelled>>
        /\ crashed' = TRUE
    BY <1>2 DEF StartRun
  <2> QED BY <1>1, <2>1, OnlyFlags DEF AnnounceTypes
<1>3. CASE notify_end[e]
  <2>1. /\ runs' = runs + 1
        /\ task' = [task EXCEPT ![e] = runs + 1]
        /\ delegate' = [delegate EXCEPT ![e] = runs + 1]
        /\ start_pc' = [start_pc EXCEPT ![e] = "reset"]
        /\ UNCHANGED <<notify_end, walker, workers, status, mail, refs, posts, outcome,
                       crashed, cancelled>>
    BY <1>3 DEF StartRun
  <2>2. /\ task'[e] = runs + 1 /\ delegate'[e] = runs + 1 /\ start_pc'[e] = "reset"
        /\ \A f \in Executers : f # e =>
             task'[f] = task[f] /\ delegate'[f] = delegate[f] /\ start_pc'[f] = "idle"
    BY <1>1, <2>1 DEF AnnounceTypes
  <2>3. AnnounceTypes'
    <3>1. \A x \in 0 .. runs : x \in 0 .. runs + 1
      BY <1>1
    <3>2. task' \in [Executers -> 0 .. runs + 1] /\ delegate' \in [Executers -> 0 .. runs + 1]
      BY <1>1, <2>1, <3>1 DEF AnnounceTypes
    <3> QED BY <1>1, <2>1, <3>2 DEF AnnounceTypes
  <2>4. \A g \in Runs : (Untold(g) <=> Untold(g)') /\ (Unworked(g) <=> Unworked(g)')
    BY <2>1 DEF Untold, Unworked
  <2>5. \A f \in Executers : task[f] \in 0 .. runs /\ walker[f].run \in 0 .. MaxRuns
    BY <1>1 DEF AnnounceTypes, WorkTypes, Walkers
  <2>6. \A g \in Runs : g = runs + 1 => Untold(g)' /\ Unworked(g)'
    BY <1>1, <2>4 DEF Starts
  <2>7. Starts'
    <3>1. ASSUME NEW f \in Executers
          PROVE  /\ delegate'[f] = task'[f]
                 /\ walker'[f].run <= runs'
                 /\ start_pc'[f] = "reset" =>
                      task'[f] \in Runs /\ Untold(task[f])' /\ Unworked(task[f])' /\ notify_end'[f]
                 /\ start_pc'[f] # "reset" => walker'[f].run = task'[f]
                 /\ ~notify_end'[f] => task'[f] \in Runs /\ refs'[task'[f]] = 1
      <4>1. walker'[f].run <= runs'
        BY <1>1, <2>1, <2>5 DEF Starts
      <4>2. CASE f = e
        <5>1. task'[f] = runs + 1
          BY <2>2, <4>2
        <5>2. Untold(task[f])' /\ Unworked(task[f])'
          <6>1. PICK g \in Runs : g = runs + 1
            BY <1>1
          <6>2. Untold(g)' /\ Unworked(g)'
            BY <2>6, <6>1
          <6> QED BY <5>1, <6>1, <6>2
        <5> QED BY <1>1, <1>3, <2>1, <2>2, <4>1, <4>2, <5>1, <5>2
      <4>3. CASE f # e
        BY <1>1, <2>1, <2>2, <4>1, <4>3 DEF Starts
      <4> QED BY <4>2, <4>3
    <3>2. ASSUME NEW f \in Executers, NEW h \in Executers, f # h
          PROVE  /\ start_pc'[f] # "idle" => start_pc'[h] = "idle"
                 /\ task'[f] = task'[h] => task'[f] = 0
                 /\ walker'[f].run = walker'[h].run => walker'[f].run = 0
      <4>1. task[f] = task[h] => task[f] = 0
        BY <1>1, <3>2 DEF Starts
      <4>2. walker[f].run = walker[h].run => walker[f].run = 0
        BY <1>1, <3>2 DEF Starts
      <4> QED BY <1>1, <2>1, <2>2, <2>5, <3>2, <4>1, <4>2
    <3>3. \A g \in Runs : g > runs' => Untold(g)' /\ Unworked(g)'
      <4> SUFFICES ASSUME NEW g \in Runs, g > runs' PROVE Untold(g)' /\ Unworked(g)'
        OBVIOUS
      <4>1. g > runs
        BY <1>1, <2>1 DEF Runs
      <4> QED BY <1>1, <2>4, <4>1 DEF Starts
    <3> QED BY <3>1, <3>2, <3>3 DEF Starts
  <2>8. WorkTypes' /\ Graphs' /\ PoolItems' /\ Fates' /\ Announced' /\ InMailOrder'
    BY <1>1, <2>1 DEF CalcInv, WorkTypes, Graphs, PoolItems, Fates, Announced, Ended, InMailOrder
  <2> QED BY <2>3, <2>7, <2>8, AnnounceNow DEF CalcInv, AnnounceTypes, WorkTypes, CalcTypeOK,
          Messages, Outcomes
<1> QED BY <1>2, <1>3

\* The critical section of StartRun sets up a new walker for a fresh run.
LEMMA KeptByReset == ASSUME CalcInv, NEW e \in Executers, Reset(e) PROVE CalcInv'
<1> DEFINE g0 == task[e]
           new == NewWalker(g0)
<1>1. /\ AnnounceTypes /\ WorkTypes /\ Starts /\ MaxRuns \in Nat
      /\ start_pc[e] = "reset" /\ g0 \in Runs /\ Untold(g0) /\ Unworked(g0)
      /\ delegate[e] = g0 /\ g0 \in 0 .. runs /\ g0 # 0
  BY AnnounceNow, RunsAssumption DEF CalcInv, AnnounceTypes, Starts, Reset, Runs
<1>2. /\ start_pc' = [start_pc EXCEPT ![e] = "start_all"]
      /\ walker' = [walker EXCEPT ![e] = new]
      /\ notify_end' = [notify_end EXCEPT ![e] = FALSE]
      /\ mail' = Append(mail, [run |-> g0, what |-> "running"])
      /\ refs' = [refs EXCEPT ![g0] = @ + 1]
      /\ UNCHANGED <<task, delegate, workers, status, cancelled, runs, posts, outcome, crashed>>
  BY <1>1 DEF Reset, Post
<1>3. new \in Walkers /\ new.run = g0
  BY <1>1, RunsAssumption DEF NewWalker, Walkers, FreeNode, Runs
<1>4. \A i \in Items : posts[g0][i] = 0 /\ outcome[g0][i] = "none"
  BY <1>1 DEF Unworked, CalcInv, Fates
<1>5. GraphHolds(new, posts[g0], outcome[g0])
  BY <1>1, <1>4, WorkNow, GraphStarts
<1> HIDE DEF g0, new
<1>6. /\ walker'[e] = new /\ start_pc'[e] = "start_all" /\ notify_end'[e] = FALSE
      /\ \A f \in Executers : f # e => /\ walker'[f] = walker[f] /\ start_pc'[f] = start_pc[f]
                                       /\ notify_end'[f] = notify_end[f]
      /\ walker' \in [Executers -> Walkers]
      /\ start_pc' \in [Executers -> {"idle", "reset", "start_all"}]
      /\ notify_end' \in [Executers -> BOOLEAN]
  BY <1>1, <1>2, <1>3 DEF AnnounceTypes, WorkTypes
<1>7. /\ refs' \in [Runs -> 0 .. 1] /\ refs'[g0] = 1
      /\ \A g \in Runs : g # g0 => refs'[g] = refs[g]
  BY <1>1, <1>2 DEF AnnounceTypes, Untold
<1>8. /\ mail' \in Seq(Messages) /\ Len(mail) \in Nat /\ Len(mail') = Len(mail) + 1
      /\ mail'[Len(mail) + 1] = [run |-> g0, what |-> "running"]
      /\ \A k \in 1 .. Len(mail) : mail'[k] = mail[k] /\ mail[k] \in Messages
  <2>1. [run |-> g0, what |-> "running"] \in Messages /\ mail \in Seq(Messages)
    BY <1>1 DEF Messages, AnnounceTypes
  <2> QED BY <1>2, <2>1, OneMore
<1>9. AnnounceTypes' /\ WorkTypes'
  BY <1>1, <1>2, <1>6, <1>7, <1>8 DEF AnnounceTypes, WorkTypes
<1>10. \A k \in 1 .. Len(mail') : k \in 1 .. Len(mail) \/ k = Len(mail) + 1
  BY <1>8
<1>11. ASSUME NEW g \in Runs, g # g0, Untold(g) /\ Unworked(g) PROVE Untold(g)' /\ Unworked(g)'
  <2>1. \A k \in 1 .. Len(mail') : mail'[k].run # g
    BY <1>8, <1>10, <1>11 DEF Untold
  <2>2. \A f \in Executers : walker'[f].run # g
    BY <1>3, <1>6, <1>11 DEF Unworked
  <2> QED BY <1>2, <1>7, <1>11, <2>1, <2>2 DEF Untold, Unworked
<1>12. Starts'
  <2>1. ASSUME NEW f \in Executers
        PROVE  /\ delegate'[f] = task'[f]
               /\ walker'[f].run <= runs'
               /\ start_pc'[f] # "reset"
               /\ walker'[f].run = task'[f]
               /\ ~notify_end'[f] => task'[f] \in Runs /\ refs'[task'[f]] = 1
    <3>1. CASE f = e
      BY <1>1, <1>2, <1>3, <1>6, <1>7, <3>1 DEF AnnounceTypes, g0
    <3>2. CASE f # e
      <4>1. start_pc[f] = "idle" /\ (task[f] = g0 => task[f] = 0)
        BY <1>1, <3>2 DEF Starts, g0
      <4> QED BY <1>1, <1>2, <1>6, <1>7, <3>2, <4>1 DEF Starts
    <3> QED BY <3>1, <3>2
  <2>2. ASSUME NEW f \in Executers, NEW h \in Executers, f # h
        PROVE  /\ start_pc'[f] # "idle" => start_pc'[h] = "idle"
               /\ task'[f] = task'[h] => task'[f] = 0
               /\ walker'[f].run = walker'[h].run => walker'[f].run = 0
    <3>1. /\ start_pc[f] # "idle" => start_pc[h] = "idle"
          /\ task[f] = task[h] => task[f] = 0
          /\ walker[f].run = walker[h].run => walker[f].run = 0
          /\ e # f => start_pc[f] = "idle"
          /\ e # h => start_pc[h] = "idle"
          /\ walker[f].run # g0 /\ walker[h].run # g0
      BY <1>1, <2>2 DEF Starts, Unworked
    <3> QED BY <1>2, <1>3, <1>6, <2>2, <3>1
  <2>3. ASSUME NEW g \in Runs, g > runs' PROVE Untold(g)' /\ Unworked(g)'
    <3>1. g > runs /\ g # g0
      BY <1>1, <1>2, <2>3 DEF AnnounceTypes, Runs
    <3> QED BY <1>1, <1>11, <3>1 DEF Starts
  <2> QED BY <2>1, <2>2, <2>3 DEF Starts
<1>13. Graphs'
  <2> SUFFICES ASSUME NEW f \in Executers
               PROVE  IF walker'[f].run = 0 THEN walker'[f].runnable = {}
                      ELSE GraphHolds(walker'[f], posts'[walker'[f].run], outcome'[walker'[f].run])
    BY DEF Graphs
  <2>1. CASE f = e
    BY <1>1, <1>2, <1>3, <1>5, <1>6, <2>1
  <2>2. CASE f # e
    BY <1>2, <1>6, <2>2 DEF CalcInv, Graphs
  <2> QED BY <2>1, <2>2
<1>14. PoolItems'
  <2>1. ASSUME NEW v \in workers PROVE v.run # g0
    <3>1. posts[v.run][v.item] = 1 /\ v.item \in Items
      BY WorkNow DEF CalcInv, PoolItems
    <3> QED BY <1>4, <3>1
  <2>2. ASSUME NEW v \in workers, NEW f \in Executers, walker'[f].run = v.run
        PROVE  f = v.exec /\ (v.at # "start" => v.item \in walker'[f].current)
    <3>1. f # e
      BY <1>3, <1>6, <2>1, <2>2
    <3> QED BY <1>6, <2>2, <3>1 DEF CalcInv, PoolItems
  <2> QED BY <1>2, <2>2 DEF CalcInv, PoolItems
<1>15. Fates'
  BY <1>2 DEF CalcInv, Fates
<1>16. ASSUME NEW g \in Runs, g # g0, Ended(g) PROVE Ended(g)'
  <2>1. \A f \in Executers : walker'[f].run = g => Finish(walker'[f])
    BY <1>3, <1>6, <1>16 DEF Ended
  <2> QED BY <1>2, <1>16, <2>1 DEF Ended
<1>17. Announced'
  <2>1. ASSUME NEW g \in Runs, status'[g] = "finish" PROVE Ended(g)'
    <3>1. g # g0
      BY <1>1, <1>2, <2>1 DEF Untold
    <3> QED BY <1>2, <1>16, <2>1, <3>1 DEF CalcInv, Announced
  <2>2. ASSUME NEW k \in 1 .. Len(mail'), mail'[k].what = "finish" PROVE Ended(mail[k].run)'
    <3>1. k \in 1 .. Len(mail) /\ mail'[k] = mail[k] /\ mail[k] \in Messages
      BY <1>8, <1>10, <2>2
    <3>2. mail[k].run \in Runs /\ Ended(mail[k].run) /\ mail[k].run # g0
      BY <1>1, <2>2, <3>1 DEF CalcInv, Announced, Messages, Untold
    <3>3. \A g \in Runs : g = mail[k].run => Ended(g)'
      BY <1>16, <3>2
    <3> QED BY <3>1, <3>2, <3>3
  <2> QED BY <2>1, <2>2 DEF Announced
<1>18. InMailOrder'
  <2> SUFFICES ASSUME NEW k \in 1 .. Len(mail'), mail'[k].what = "running"
               PROVE  /\ status[mail'[k].run] = "no_start"
                      /\ \A j \in 1 .. k - 1 : mail'[j].run # mail'[k].run
    BY <1>2 DEF InMailOrder
  <2>1. \A j \in 1 .. k - 1 : j \in 1 .. Len(mail)
    BY <1>8
  <2>2. CASE k \in 1 .. Len(mail)
    <3>1. mail'[k] = mail[k] /\ \A j \in 1 .. k - 1 : mail'[j] = mail[j]
      BY <1>8, <2>1, <2>2
    <3> QED BY <2>2, <3>1 DEF CalcInv, InMailOrder
  <2>3. CASE k = Len(mail) + 1
    <3>1. mail'[k].run = g0
      BY <1>8, <2>3
    <3>2. \A j \in 1 .. k - 1 : mail'[j].run # g0
      BY <1>1, <1>8, <2>1 DEF Untold
    <3> QED BY <1>1, <3>1, <3>2 DEF Untold
  <2> QED BY <1>10, <2>2, <2>3
<1> QED BY <1>9, <1>12, <1>13, <1>14, <1>15, <1>17, <1>18, AnnounceNow
       DEF CalcInv, AnnounceTypes, WorkTypes, CalcTypeOK, Messages, Outcomes

\* A message reaches the starting thread.
LEMMA KeptByDeliver ==
  ASSUME CalcInv, Deliver,
         UNCHANGED <<executerVars, cancelled, refs, runs, posts, outcome, crashed>>
  PROVE  CalcInv'
<1> DEFINE m == mail[1]
<1>1. AnnounceTypes /\ WorkTypes /\ mail \in Seq(Messages) /\ mail # <<>>
  BY AnnounceNow DEF CalcInv, AnnounceTypes, Deliver
<1>2. /\ mail' = Tail(mail) /\ Head(mail) = m /\ m \in Messages
      /\ Len(mail) \in Nat /\ Len(mail) >= 1 /\ Len(mail') = Len(mail) - 1
      /\ mail' \in Seq(Messages)
      /\ \A k \in 1 .. Len(mail') : k + 1 \in 1 .. Len(mail) /\ mail'[k] = mail[k + 1]
      /\ \A k \in 1 .. Len(mail) : mail[k] \in Messages
  BY <1>1 DEF Deliver
<1>3. /\ status' = [status EXCEPT ![m.run] = m.what]
      /\ UNCHANGED <<task, delegate, notify_end, walker, start_pc, workers, cancelled, refs,
                     runs, posts, outcome, crashed>>
  BY <1>2 DEF Deliver, executerVars
<1>4. m.run \in Runs /\ m.what \in {"running", "cancel", "finish"}
  BY <1>2 DEF Messages
<1> HIDE DEF m
<1>5. /\ status'[m.run] = m.what /\ \A g \in Runs : g # m.run => status'[g] = status[g]
      /\ status' \in [Runs -> {"no_start", "running", "cancel", "finish"}]
  BY <1>1, <1>3, <1>4 DEF AnnounceTypes
<1>6. AnnounceTypes' /\ WorkTypes'
  BY <1>1, <1>2, <1>3, <1>5 DEF AnnounceTypes, WorkTypes
<1>7. ASSUME NEW g \in Runs, Untold(g) PROVE Untold(g)'
  <2>1. g # m.run
    BY <1>2, <1>7 DEF Untold, m
  <2>2. \A k \in 1 .. Len(mail') : mail'[k].run # g
    BY <1>2, <1>7 DEF Untold
  <2> QED BY <1>3, <1>5, <1>7, <2>1, <2>2 DEF Untold
<1>8. \A g \in Runs : (Unworked(g) <=> Unworked(g)') /\ (Ended(g) <=> Ended(g)')
  BY <1>3 DEF Unworked, Ended
<1>9. Starts'
  <2>1. ASSUME NEW e \in Executers, start_pc'[e] = "reset"
        PROVE  task'[e] \in Runs /\ Untold(task[e])' /\ Unworked(task[e])' /\ notify_end'[e]
    <3>1. task[e] \in Runs /\ Untold(task[e]) /\ Unworked(task[e]) /\ notify_end[e]
      BY <1>3, <2>1 DEF CalcInv, Starts
    <3>2. \A g \in Runs : g = task[e] => Untold(g)' /\ Unworked(g)'
      BY <1>7, <1>8, <3>1
    <3> QED BY <1>3, <3>1, <3>2
  <2>2. \A g \in Runs : g > runs' => Untold(g)' /\ Unworked(g)'
    BY <1>3, <1>7, <1>8 DEF CalcInv, Starts
  <2> QED BY <1>3, <2>1, <2>2 DEF CalcInv, Starts
<1>10. Graphs' /\ PoolItems' /\ Fates'
  BY <1>3 DEF CalcInv, Graphs, PoolItems, Fates
<1>11. Announced'
  <2>1. ASSUME NEW g \in Runs, status'[g] = "finish" PROVE Ended(g)
    <3>1. CASE g = m.run
      <4>1. mail[1].what = "finish" /\ 1 \in 1 .. Len(mail) /\ mail[1].run = g
        BY <1>2, <1>5, <2>1, <3>1 DEF m
      <4> QED BY <4>1 DEF CalcInv, Announced
    <3>2. CASE g # m.run
      BY <1>5, <2>1, <3>2 DEF CalcInv, Announced
    <3> QED BY <3>1, <3>2
  <2>2. ASSUME NEW k \in 1 .. Len(mail'), mail'[k].what = "finish" PROVE Ended(mail[k].run)'
    <3>1. mail'[k] = mail[k + 1] /\ k + 1 \in 1 .. Len(mail) /\ mail[k + 1].run \in Runs
      BY <1>2 DEF Messages
    <3>2. Ended(mail[k + 1].run)
      BY <2>2, <3>1 DEF CalcInv, Announced
    <3>3. \A g \in Runs : g = mail[k + 1].run => Ended(g)'
      BY <1>8, <3>1, <3>2
    <3> QED BY <3>1, <3>3
  <2> QED BY <1>8, <2>1, <2>2 DEF Announced
<1>12. InMailOrder'
  <2> SUFFICES ASSUME NEW k \in 1 .. Len(mail'), mail'[k].what = "running"
               PROVE  /\ status'[mail'[k].run] = "no_start"
                      /\ \A j \in 1 .. k - 1 : mail'[j].run # mail'[k].run
    BY DEF InMailOrder
  <2>1. mail'[k] = mail[k + 1] /\ k + 1 \in 1 .. Len(mail) /\ mail[k + 1].run \in Runs
    BY <1>2 DEF Messages
  <2>2. /\ status[mail[k + 1].run] = "no_start"
        /\ \A j \in 1 .. (k + 1) - 1 : mail[j].run # mail[k + 1].run
    BY <2>1 DEF CalcInv, InMailOrder
  <2>3. mail[k + 1].run # m.run
    <3>1. 1 \in 1 .. (k + 1) - 1
      BY <1>2
    <3> QED BY <2>2, <3>1 DEF m
  <2>4. \A j \in 1 .. k - 1 : j + 1 \in 1 .. (k + 1) - 1 /\ j \in 1 .. Len(mail')
    BY <1>2
  <2>5. \A j \in 1 .. k - 1 : mail'[j] = mail[j + 1]
    BY <1>2, <2>4
  <2>6. \A j \in 1 .. k - 1 : mail[j + 1].run # mail[k + 1].run
    BY <2>2, <2>4
  <2>7. status'[mail'[k].run] = "no_start"
    BY <1>5, <2>1, <2>2, <2>3
  <2>8. \A j \in 1 .. k - 1 : mail'[j].run # mail'[k].run
    BY <2>1, <2>5, <2>6
  <2> QED BY <2>7, <2>8
<1>13. CalcTypeOK'
  BY <1>6 DEF AnnounceTypes, WorkTypes, CalcTypeOK, Messages, Outcomes
<1> QED BY <1>9, <1>10, <1>11, <1>12, <1>13 DEF CalcInv

\* StartAllRunnable, whoever calls it.
LEMMA KeptByStartAllRunnable ==
  ASSUME CalcInv, NEW e \in Executers, NEW others,
         others = workers \/ \E w \in workers : others = workers \ {w},
         StartAllRunnable(e, others),
         start_pc' \in [Executers -> {"idle", "reset", "start_all"}],
         \A f \in Executers :
           start_pc'[f] = start_pc[f] \/ (start_pc[f] = "start_all" /\ start_pc'[f] = "idle"),
         UNCHANGED <<task, delegate, status, cancelled, runs, outcome, crashed>>
  PROVE  CalcInv'
<1>1. CASE task[e] \in cancelled
  <2>1. NotifyEnd(e, "cancel") /\ workers' = others /\ UNCHANGED <<walker, posts>>
    BY <1>1 DEF StartAllRunnable
  <2>2. WorkKept
    <3>1. CASE others = workers
      <4>1. UNCHANGED <<walker, posts, outcome, workers>>
        BY <2>1, <3>1
      <4> QED BY <4>1, WorkNow DEF WorkKept, WorkTypes, CalcInv, Graphs, PoolItems, Fates,
                                   Ended, Unworked
    <3>2. CASE \E w \in workers : others = workers \ {w}
      BY <2>1, <3>2, WorkerLeaves
    <3> QED BY <3>1, <3>2
  <2> QED BY <2>1, <2>2, AnnounceKept
<1>2. CASE task[e] \notin cancelled
  <2>1. /\ workers' = others \cup
             {Worker(e, walker[e].run, i, "posted") : i \in walker[e].runnable}
        /\ walker' = [walker EXCEPT ![e].current = @ \cup walker[e].runnable,
                                    ![e].runnable = {}]
        /\ posts' = [g \in Runs |-> [i \in Items |-> posts[g][i] +
             IF g = walker[e].run /\ i \in walker[e].runnable THEN 1 ELSE 0]]
        /\ UNCHANGED <<notify_end, mail, refs>>
    BY <1>2 DEF StartAllRunnable
  <2>2. others \in SUBSET workers
    OBVIOUS
  <2>3. WorkKept
    BY <2>1, <2>2, RunnableIsPosted
  <2> QED BY <2>1, <2>3, AnnounceKept
<1> QED BY <1>1, <1>2

\* A step of the pool.
LEMMA KeptByWorker ==
  ASSUME CalcInv, NEW w \in workers, RunItem(w) \/ Run(w) \/ Mark(w) \/ StartNext(w)
  PROVE  CalcInv'
<1> DEFINE e == w.exec
<1>1. /\ e \in Executers /\ AnnounceTypes /\ cancelled \subseteq Runs
  BY WorkNow, AnnounceNow DEF CalcInv, AnnounceTypes
<1>2. UNCHANGED start_pc => start_pc' \in [Executers -> {"idle", "reset", "start_all"}]
  BY <1>1 DEF AnnounceTypes
<1>3. CASE RunItem(w)
  <2>1. /\ w.at = "posted"
        /\ UNCHANGED <<task, delegate, walker, start_pc, status, cancelled, runs, posts,
                       outcome, crashed>>
    BY <1>3 DEF RunItem
  <2>2. CASE task[e] \in cancelled
    <3>1. NotifyEnd(e, "cancel") /\ workers' = workers \ {w}
      BY <1>3, <2>2 DEF RunItem
    <3> QED BY <1>1, <1>2, <2>1, <3>1, WorkerLeaves, AnnounceKept
  <2>3. CASE task[e] \notin cancelled
    <3>1. Advance(w, "run") /\ UNCHANGED <<notify_end, mail, refs>>
      BY <1>3, <2>3 DEF RunItem
    <3> QED BY <1>1, <1>2, <2>1, <3>1, WorkerBegins, AnnounceKept
  <2> QED BY <2>2, <2>3
<1>4. CASE Run(w)
  <2>1. /\ w.at = "run"
        /\ UNCHANGED <<task, delegate, notify_end, walker, start_pc, status, cancelled, mail,
                       refs, runs, posts>>
    BY <1>4 DEF Run, taskVars
  <2>2. CASE walker[e].run # w.run
    <3>1. crashed' = TRUE /\ UNCHANGED <<workers, outcome>>
      BY <1>4, <2>2 DEF Run
    <3> QED BY <1>1, <2>1, <3>1, OnlyFlags DEF executerVars
  <2>3. CASE walker[e].run = w.run
    <3>1. UNCHANGED crashed /\ \E ret \in {"ok", "failed"} :
            Advance(w, ret) /\ outcome' = [outcome EXCEPT ![w.run][w.item] = ret]
      BY <1>4, <2>3 DEF Run
    <3>2. WorkKept
      BY <2>1, <2>3, <3>1, WorkerRuns
    <3> QED BY <1>1, <1>2, <2>1, <3>1, <3>2, AnnounceKept
  <2> QED BY <2>2, <2>3
<1>5. CASE Mark(w)
  <2>1. /\ w.at \in {"ok", "failed"}
        /\ UNCHANGED <<task, delegate, start_pc, status, cancelled, runs, posts, outcome>>
    BY <1>5 DEF Mark
  <2>2. CASE walker[e].run # w.run
    <3>1. crashed' = TRUE /\ UNCHANGED <<walker, workers, notify_end, mail, refs>>
      BY <1>5, <2>2 DEF Mark
    <3> QED BY <1>1, <2>1, <3>1, OnlyFlags DEF executerVars
  <2>3. CASE walker[e].run = w.run
    <3> DEFINE wk == Marked(walker[e], w)
    <3>1. /\ walker' = [walker EXCEPT ![e] = wk] /\ UNCHANGED crashed
          /\ \/ Finish(wk) /\ NotifyEnd(e, "finish") /\ workers' = workers \ {w}
             \/ Advance(w, "start") /\ UNCHANGED <<notify_end, mail, refs>>
      BY <1>5, <2>3 DEF Mark
    <3> HIDE DEF wk
    <3>2. WorkKept /\ (Finish(wk) => Ended(w.run)')
      <4>1. workers' = workers \ {w} \/ Advance(w, "start")
        BY <3>1
      <4> QED BY <2>1, <2>3, <3>1, <4>1, WorkerMarks DEF wk
    <3>3. ~notify_end[e] => task[e] = w.run
      <4> SUFFICES ASSUME ~notify_end[e] PROVE task[e] = w.run
        OBVIOUS
      <4>1. start_pc[e] # "reset"
        BY <1>1 DEF CalcInv, Starts
      <4> QED BY <1>1, <2>3, <4>1 DEF CalcInv, Starts
    <3>4. CASE Finish(wk) /\ NotifyEnd(e, "finish")
      <4>1. ~notify_end[e] => Ended(task[e])'
        BY <2>1, <3>2, <3>3, <3>4
      <4> QED BY <1>1, <1>2, <2>1, <3>1, <3>2, <3>4, <4>1, AnnounceKept
    <3>5. CASE UNCHANGED <<notify_end, mail, refs>>
      <4>1. "cancel" \in {"cancel", "finish"} /\ "cancel" # "finish"
        OBVIOUS
      <4> QED BY <1>1, <1>2, <2>1, <3>1, <3>2, <3>5, <4>1, AnnounceKept
    <3> QED BY <3>1, <3>4, <3>5
  <2> QED BY <2>2, <2>3
<1>6. CASE StartNext(w)
  <2>1. /\ StartAllRunnable(e, workers \ {w})
        /\ UNCHANGED <<task, delegate, start_pc, status, cancelled, runs, outcome, crashed>>
    BY <1>6 DEF StartNext
  <2> QED BY <1>1, <1>2, <2>1, KeptByStartAllRunnable
<1> QED BY <1>3, <1>4, <1>5, <1>6

\* The first items of a run.
LEMMA KeptByStartFirst ==
  ASSUME CalcInv, NEW e \in Executers, StartFirst(e) PROVE CalcInv'
<1>1. AnnounceTypes
  BY AnnounceNow DEF CalcInv
<1>2. /\ start_pc[e] = "start_all" /\ start_pc' = [start_pc EXCEPT ![e] = "idle"]
      /\ StartAllRunnable(e, workers)
      /\ UNCHANGED <<task, delegate, status, cancelled, runs, outcome, crashed>>
  BY DEF StartFirst
<1>3. start_pc' \in [Executers -> {"idle", "reset", "start_all"}]
  BY <1>1, <1>2 DEF AnnounceTypes
<1>4. \A f \in Executers :
        start_pc'[f] = start_pc[f] \/ (start_pc[f] = "start_all" /\ start_pc'[f] = "idle")
  BY <1>1, <1>2 DEF AnnounceTypes
<1> QED BY <1>2, <1>3, <1>4, KeptByStartAllRunnable

\* Every step keeps the invariant.
LEMMA CalcStep == CalcInv /\ [CalcNext]_calcVars => CalcInv'
<1> SUFFICES ASSUME CalcInv, [CalcNext]_calcVars PROVE CalcInv'
  OBVIOUS
<1>1. AnnounceTypes
  BY AnnounceNow DEF CalcInv
<1>2. CASE UNCHANGED calcVars
  BY <1>1, <1>2, OnlyFlags DEF calcVars, taskVars, AnnounceTypes
<1>3. CASE Client
  <2>1. ASSUME NEW e \in Executers, MayStart(e), StartRun(e), UNCHANGED cancelled
        PROVE  CalcInv'
    BY <2>1, KeptByStartRun
  <2>2. ASSUME NEW g \in 1 .. runs, Cancel(g),
               UNCHANGED <<executerVars, status, mail, refs, runs, posts, outcome, crashed>>
        PROVE  CalcInv'
    <3>1. g \in Runs
      BY <1>1, RunsAssumption DEF AnnounceTypes, Runs
    <3>2. cancelled' \subseteq Runs
      BY <1>1, <2>2, <3>1 DEF AnnounceTypes, Cancel
    <3> QED BY <1>1, <2>2, <3>2, OnlyFlags DEF AnnounceTypes
  <2> QED BY <1>3, <2>1, <2>2 DEF Client
<1>4. CASE ExecuterStep
  BY <1>4, KeptByReset, KeptByStartFirst, KeptByWorker, KeptByDeliver
     DEF ExecuterStep, WorkerStep
<1> QED BY <1>2, <1>3, <1>4 DEF CalcNext

---------------------------------------------------------------------------
(* Theorems. *)

\* Whatever the group, the executers and the moments of cancellation, the parts
\* of the state that the workers share stay in step.
THEOREM CalcInvariance == CalcSpec => []CalcInv
BY CalcInitInv, CalcStep, PTL DEF CalcSpec

\* Type correctness of the executers, their tasks and the pool.
THEOREM CalcTypeCorrect == CalcSpec => []CalcTypeOK
<1>1. CalcInv => CalcTypeOK
  BY DEF CalcInv
<1> QED BY <1>1, CalcInvariance, PTL

\* An item is posted at most once in a run, and only after all it needs ended
\* well, also when workers of a cancelled run meet the next one.
THEOREM ItemsRunOnceInOrder == CalcSpec => []OnceInOrder
<1>1. CalcInv => OnceInOrder
  <2> SUFFICES ASSUME CalcInv, NEW g \in Runs, NEW j \in Items
               PROVE  /\ posts[g][j] <= 1
                      /\ posts[g][j] = 1 =>
                           \A i \in Items : <<i, j>> \in Depends => outcome[g][i] = "ok"
    BY DEF OnceInOrder
  <2>1. posts[g][j] \in {0, 1} /\ (posts[g][j] = 1 => NeedsMet(outcome[g], j))
    BY DEF CalcInv, Fates
  <2> QED BY <2>1 DEF NeedsMet
<1> QED BY <1>1, CalcInvariance, PTL

\* What is announced as finished has run every item that could run, whichever
\* worker was the last and however many items failed.
THEOREM FinishedIsComplete == CalcSpec => []FinishIsComplete
<1>1. CalcInv => FinishIsComplete
  BY DEF CalcInv, Announced, Ended, NeedsMet, FinishIsComplete
<1> QED BY <1>1, CalcInvariance, PTL

-----------------------------------------------------------------------------
(* The channel calculation. *)

---------------------------------------------------------------------------
(* The invariant. *)

\* all runs but the last one are over, there is a run for each raw data taken out
\* of the queue, and no StartRun is under way when a finish is being handled
ChnlInv ==
  /\ CalcInv
  /\ raw_queue \in Seq(Nat) /\ arrived \in 0 .. MaxRuns
  /\ runs + Len(raw_queue) <= arrived
  /\ \A g \in Runs : g < runs => Over(g)
  /\ finish_pc = "process" => Idle

\* A run that is over stays over: nothing is announced of it after its end but
\* another end.
LEMMA OverStays ==
  ASSUME CalcInv, Deliver, NEW g \in Runs, Over(g) PROVE Over(g)'
<1>1. mail \in Seq(Messages) /\ mail # <<>> /\ status \in
        [Runs -> {"no_start", "running", "cancel", "finish"}]
  BY AnnounceNow DEF CalcInv, AnnounceTypes, Deliver
<1>2. Head(mail) = mail[1] /\ 1 \in 1 .. Len(mail) /\ mail[1] \in Messages
  BY <1>1
<1>3. mail[1].what = "running" => status[mail[1].run] = "no_start"
  BY <1>2 DEF CalcInv, InMailOrder
<1>4. mail[1].what = "running" => mail[1].run # g
  BY <1>3 DEF Over
<1>5. status' = [status EXCEPT ![mail[1].run] = mail[1].what]
  BY <1>2 DEF Deliver
<1>6. mail[1].what \in {"running", "cancel", "finish"} /\ mail[1].run \in Runs
  BY <1>2 DEF Messages
<1> QED BY <1>1, <1>4, <1>5, <1>6 DEF Over

\* ProcessRaw starts a run when the executer may be asked to, or leaves things as
\* they are.
LEMMA ProcessRawMaps ==
  ASSUME ChnlInv, ~crashed, Idle, NEW queue \in Seq(Nat), NEW n \in 0 .. MaxRuns,
         runs + Len(queue) <= n, ProcessRaw(queue)
  PROVE  /\ [CalcNext]_calcVars
         /\ raw_queue' \in Seq(Nat) /\ runs' + Len(raw_queue') <= n
         /\ \A g \in Runs : g < runs' => Over(g)'
<1>1. /\ AnnounceTypes /\ MaxRuns \in Nat /\ runs \in Nat /\ n \in Nat /\ n <= MaxRuns
      /\ Len(queue) \in Nat
  BY AnnounceNow, RunsAssumption DEF ChnlInv, CalcInv, AnnounceTypes
<1>2. CASE CurrentPending \/ queue = <<>>
  <2>1. raw_queue' = queue /\ UNCHANGED calcVars
    BY <1>2 DEF ProcessRaw
  <2>2. UNCHANGED <<runs, status>>
    BY <2>1 DEF calcVars, taskVars
  <2> QED BY <2>1, <2>2 DEF ChnlInv, Over
<1>3. CASE ~CurrentPending /\ queue # <<>>
  <2>1. /\ raw_queue' = Tail(queue) /\ UNCHANGED cancelled
        /\ \E ui \in BOOLEAN : StartRun(IF ui THEN ui_calc ELSE chnl_calc)
    BY <1>3 DEF ProcessRaw
  <2>2. PICK e \in Executers : StartRun(e)
    BY <2>1, ExecutersAssumption
  <2>3. raw_queue' \in Seq(Nat) /\ Len(raw_queue') = Len(queue) - 1 /\ Len(queue) >= 1
    BY <1>3, <2>1
  <2>4. \A g \in Runs : g <= runs => Over(g)
    <3> SUFFICES ASSUME NEW g \in Runs, g <= runs PROVE Over(g)
      OBVIOUS
    <3>1. g \in Nat /\ g # 0
      BY <1>1 DEF Runs
    <3>2. CASE g = runs
      BY <1>3, <3>1, <3>2 DEF CurrentPending, current_task
    <3>3. CASE g # runs
      BY <1>1, <3>1, <3>3 DEF ChnlInv
    <3> QED BY <3>2, <3>3
  <2>5. MayStart(e)
    <3>1. runs < MaxRuns
      BY <1>1, <2>3
    <3>2. task[e] # 0 => Over(task[e])
      <4> SUFFICES ASSUME task[e] # 0 PROVE Over(task[e])
        OBVIOUS
      <4>1. task[e] \in 0 .. runs
        BY <1>1 DEF AnnounceTypes
      <4>2. task[e] \in Runs /\ task[e] <= runs
        BY <1>1, <3>1, <4>1 DEF Runs
      <4> QED BY <2>4, <4>2
    <3> QED BY <3>1, <3>2 DEF MayStart
  <2>6. CalcNext
    BY <2>1, <2>2, <2>5 DEF CalcNext, Client
  <2>7. runs' \in {runs, runs + 1} /\ UNCHANGED status
    BY <2>2 DEF StartRun
  <2>8. runs' + Len(raw_queue') <= n
    BY <1>1, <2>3, <2>7
  <2>9. \A g \in Runs : g < runs' => Over(g)'
    <3> SUFFICES ASSUME NEW g \in Runs, g < runs' PROVE Over(g)'
      OBVIOUS
    <3>1. g <= runs
      BY <1>1, <2>7 DEF Runs
    <3> QED BY <2>4, <2>7, <3>1 DEF Over
  <2> QED BY <2>3, <2>6, <2>8, <2>9
<1> QED BY <1>2, <1>3

LEMMA ChnlInitInv == ChnlInit => ChnlInv
<1> SUFFICES ASSUME ChnlInit PROVE ChnlInv
  OBVIOUS
<1>1. CalcInv /\ MaxRuns \in Nat
  BY CalcInitInv, RunsAssumption DEF ChnlInit
<1>2. raw_queue = <<>> /\ arrived = 0 /\ runs = 0 /\ finish_pc = "none"
  BY DEF ChnlInit, CalcInit
<1>3. \A g \in Runs : ~(g < runs)
  BY <1>2 DEF Runs
<1>4. raw_queue \in Seq(Nat) /\ Len(raw_queue) = 0
  BY <1>2
<1>5. arrived \in 0 .. MaxRuns /\ runs + Len(raw_queue) <= arrived
  BY <1>1, <1>2, <1>4
<1> QED BY <1>1, <1>2, <1>3, <1>4, <1>5 DEF ChnlInv

\* A step that leaves the manager alone, and the status of its tasks.
LEMMA ManagerRests ==
  ASSUME ChnlInv, UNCHANGED <<raw_queue, arrived, finish_pc, runs, status>>, CalcInv',
         Idle => Idle'
  PROVE  ChnlInv'
BY DEF ChnlInv, Over

\* What a worker does leaves the starting thread where it is.
LEMMA WorkerLeavesThread ==
  ASSUME WorkerStep PROVE UNCHANGED <<start_pc, runs, status>>
BY DEF WorkerStep, RunItem, Run, Mark, StartNext, taskVars

\* Every step of the manager is one of an executer, or none, and keeps the
\* invariant.
LEMMA ChnlStep == ChnlInv /\ [ChnlNext]_chnlVars => ChnlInv' /\ [CalcNext]_calcVars
<1> SUFFICES ASSUME ChnlInv, [ChnlNext]_chnlVars PROVE ChnlInv' /\ [CalcNext]_calcVars
  OBVIOUS
<1>1. ASSUME [CalcNext]_calcVars PROVE CalcInv'
  BY <1>1, CalcStep DEF ChnlInv
<1>2. ASSUME UNCHANGED calcVars PROVE CalcInv' /\ (Idle <=> Idle')
  <2>1. UNCHANGED start_pc
    BY <1>2 DEF calcVars, executerVars
  <2> QED BY <1>1, <1>2, <2>1 DEF Idle
<1>3. CASE UNCHANGED chnlVars
  <2>1. UNCHANGED <<calcVars, raw_queue, arrived, finish_pc, runs, status>>
    BY <1>3 DEF chnlVars, managerVars, calcVars, taskVars
  <2> QED BY <1>2, <2>1, ManagerRests
<1>4. CASE ~crashed /\ RawDataCollected
  <2>1. /\ Free /\ arrived < MaxRuns /\ arrived' = arrived + 1
        /\ ProcessRaw(Append(raw_queue, arrived + 1)) /\ UNCHANGED finish_pc
    BY <1>4 DEF RawDataCollected
  <2>2. /\ arrived \in Nat /\ MaxRuns \in Nat /\ runs \in Nat
        /\ Append(raw_queue, arrived + 1) \in Seq(Nat)
        /\ Len(Append(raw_queue, arrived + 1)) = Len(raw_queue) + 1 /\ Len(raw_queue) \in Nat
    BY RunsAssumption, AnnounceNow DEF ChnlInv, CalcInv, AnnounceTypes
  <2>3. arrived' \in 0 .. MaxRuns
        /\ runs + Len(Append(raw_queue, arrived + 1)) <= arrived'
    BY <2>1, <2>2 DEF ChnlInv
  <2>4. /\ [CalcNext]_calcVars
        /\ raw_queue' \in Seq(Nat) /\ runs' + Len(raw_queue') <= arrived'
        /\ \A g \in Runs : g < runs' => Over(g)'
    <3> HIDE DEF Over
    <3> DEFINE queue == Append(raw_queue, arrived + 1)
    <3>1. queue \in Seq(Nat) /\ runs + Len(queue) <= arrived' /\ ProcessRaw(queue) /\ Idle
      BY <2>1, <2>2, <2>3 DEF Free
    <3> HIDE DEF queue
    <3> QED BY <1>4, <2>3, <3>1, ProcessRawMaps
  <2>5. finish_pc' # "process"
    BY <2>1 DEF Free
  <2> QED BY <1>1, <2>3, <2>4, <2>5 DEF ChnlInv
<1>5. CASE ~crashed /\ CancelCurrent
  <2>1. /\ runs # 0 /\ Cancel(runs)
        /\ UNCHANGED <<executerVars, status, mail, refs, runs, posts, outcome, crashed>>
        /\ UNCHANGED <<arrived, raw_queue, finish_pc>>
    BY <1>5 DEF CancelCurrent, current_task
  <2>2. runs \in 1 .. runs
    BY <2>1, RunsAssumption, AnnounceNow DEF ChnlInv, CalcInv, AnnounceTypes
  <2>3. CalcNext
    BY <1>5, <2>1, <2>2 DEF CalcNext, Client
  <2>4. Idle => Idle'
    BY <2>1 DEF Idle, executerVars
  <2> QED BY <1>1, <2>1, <2>3, <2>4, ManagerRests
<1>6. CASE ~crashed /\ Stop
  <2>1. UNCHANGED <<calcVars, arrived, finish_pc>> /\ raw_queue' = <<>>
    BY <1>6 DEF Stop
  <2>2. CalcInv' /\ (Idle <=> Idle') /\ UNCHANGED <<runs, status>>
    BY <1>2, <2>1 DEF calcVars, taskVars
  <2>3. raw_queue' \in Seq(Nat) /\ Len(raw_queue') = 0 /\ Len(raw_queue) \in Nat
        /\ runs \in Nat /\ arrived \in Nat
    BY <2>1, RunsAssumption, AnnounceNow DEF ChnlInv, CalcInv, AnnounceTypes
  <2>4. runs' + Len(raw_queue') <= arrived'
    BY <2>1, <2>2, <2>3 DEF ChnlInv
  <2> QED BY <2>1, <2>2, <2>3, <2>4 DEF ChnlInv, Over
<1>7. CASE ~crashed /\ ChnlDeliver
  <2>1. /\ Free /\ Deliver /\ UNCHANGED <<arrived, raw_queue>>
        /\ UNCHANGED <<executerVars, cancelled, refs, runs, posts, outcome, crashed>>
    BY <1>7 DEF ChnlDeliver
  <2>2. CalcNext
    BY <1>7, <2>1 DEF CalcNext, ExecuterStep
  <2>3. Idle'
    BY <2>1 DEF Free, Idle, executerVars
  <2>4. \A g \in Runs : g < runs' => Over(g)'
    BY <2>1, OverStays DEF ChnlInv
  <2> QED BY <1>1, <2>1, <2>2, <2>3, <2>4 DEF ChnlInv
<1>8. CASE ~crashed /\ FinishProcess
  <2>1. Idle /\ ProcessRaw(raw_queue) /\ finish_pc' = "record" /\ UNCHANGED arrived
    BY <1>8 DEF FinishProcess, ChnlInv
  <2>2. /\ [CalcNext]_calcVars
        /\ raw_queue' \in Seq(Nat) /\ runs' + Len(raw_queue') <= arrived
        /\ \A g \in Runs : g < runs' => Over(g)'
    <3>1. raw_queue \in Seq(Nat) /\ arrived \in 0 .. MaxRuns /\ runs + Len(raw_queue) <= arrived
      BY DEF ChnlInv
    <3> QED BY <1>8, <2>1, <3>1, ProcessRawMaps
  <2> QED BY <1>1, <2>1, <2>2 DEF ChnlInv
<1>9. CASE ~crashed /\ FinishRecord
  <2>1. UNCHANGED <<calcVars, arrived, raw_queue>> /\ finish_pc' = "none"
    BY <1>9 DEF FinishRecord
  <2>2. CalcInv' /\ UNCHANGED <<runs, status>>
    BY <1>2, <2>1 DEF calcVars, taskVars
  <2> QED BY <2>1, <2>2 DEF ChnlInv, Over
<1>10. ASSUME ~crashed, NEW e \in Executers, Reset(e) \/ StartFirst(e), UNCHANGED managerVars
       PROVE  ChnlInv' /\ [CalcNext]_calcVars
  <2>1. CalcNext
    BY <1>10 DEF CalcNext, ExecuterStep
  <2>2. start_pc[e] # "idle" /\ UNCHANGED <<runs, status>>
    BY <1>10 DEF Reset, StartFirst
  <2>3. ~Idle
    BY <2>2 DEF Idle
  <2>4. UNCHANGED <<raw_queue, arrived, finish_pc>>
    BY <1>10 DEF managerVars
  <2> QED BY <1>1, <2>1, <2>2, <2>3, <2>4, ManagerRests
<1>11. CASE ~crashed /\ PoolStep
  <2>1. WorkerStep /\ UNCHANGED <<raw_queue, arrived, finish_pc>>
    BY <1>11 DEF PoolStep, managerVars
  <2>2. CalcNext
    BY <1>11, <2>1 DEF CalcNext, ExecuterStep
  <2>3. UNCHANGED <<start_pc, runs, status>>
    BY <2>1, WorkerLeavesThread
  <2>4. Idle => Idle'
    BY <2>3 DEF Idle
  <2> QED BY <1>1, <2>1, <2>2, <2>3, <2>4, ManagerRests
<1> QED BY <1>3, <1>4, <1>5, <1>6, <1>7, <1>8, <1>9, <1>10, <1>11 DEF ChnlNext, ThreadStep

---------------------------------------------------------------------------
(* Theorems. *)

\* However raw data, ends of runs, cancellations and the stop interleave, the
\* manager asks an executer for a run only after its last one is over, and so
\* keeps to what CalcExecuter requires of whoever starts it.
THEOREM ManagerKeepsToExecuter == ChnlSpec => ImplementsExecuter
<1>1. ChnlInit => CalcInit
  BY DEF ChnlInit
<1> QED BY <1>1, ChnlInitInv, ChnlStep, PTL DEF ChnlSpec, ImplementsExecuter, CalcSpec

\* The items of the channel calculation run once and in order.
THEOREM ChnlOnceInOrder == ChnlSpec => []OnceInOrder
BY ManagerKeepsToExecuter, ItemsRunOnceInOrder, PTL DEF ImplementsExecuter

\* A calculation that is announced as finished is complete.
THEOREM ChnlFinishIsComplete == ChnlSpec => []FinishIsComplete
BY ManagerKeepsToExecuter, FinishedIsComplete, PTL DEF ImplementsExecuter
=============================================================================
