--------------------------- MODULE BulkQueueProofs ---------------------------
(***************************************************************************)
(* Theorems about BulkQueue and ManyReader, for every set of readers and    *)
(* every bound.                                                             *)
(* The inductive invariant IInv is kept by each critical section; the       *)
(* safety properties are conjuncts of it.  The lemmas about GetBulk,        *)
(* FireCallbackNoLock and MayFireCallback carry the arithmetic of minimum   *)
(* and maximum, so that the proof of an action only says what moved.        *)
(*                                                                          *)
(* BulkQueue implements BulkStream: each critical section is a step of the  *)
(* stream, or none. The argument rests on the bulks of the queue being      *)
(* exactly the published ones that a reader can still get                   *)
(* (AskedIsAvailable), which in turn needs IInv and one fact more, that     *)
(* what RecycleOne dropped never comes back (Gone). What reaches the        *)
(* caller of a reader, beyond what leaves the stream, comes next.           *)
(*                                                                          *)
(* The last part is about ManyReader: a wait for many readers keeps all of  *)
(* that, and what it does with each reader is undone when it is over.       *)
(***************************************************************************)
EXTENDS ManyReader, Integers, FiniteSetsExt, TLAPS, WellFoundedInduction

-----------------------------------------------------------------------------
(* Min and Max of bounded sets of integers: the queue keeps the range of its
   readers with them (reader_min_ and reader_max_). *)

\* A nonempty set of natural numbers has a least element.
LEMMA LeastNat ==
  ASSUME NEW T, T \subseteq Nat, T # {}
  PROVE  \E t \in T : \A y \in T : t <= y
<1>1. PICK t \in T : \A y \in T : ~(<<y, t>> \in OpToRel(<, Nat))
  BY NatLessThanWellFounded, WFMin
<1>2. \A y \in T : ~(y < t)
  BY <1>1 DEF OpToRel
<1> QED BY <1>2

\* A nonempty set of integers bounded from below has a least element, and Min
\* is that element.
LEMMA MinExists ==
  ASSUME NEW S, S \subseteq Int, S # {}, NEW low \in Int, \A x \in S : low <= x
  PROVE  Min(S) \in S /\ \A x \in S : Min(S) <= x
<1> DEFINE T == {x - low : x \in S}
<1>1. T \subseteq Nat
  <2> SUFFICES ASSUME NEW x \in S PROVE x - low \in Nat
    OBVIOUS
  <2> QED OBVIOUS
<1>2. PICK t \in T : \A y \in T : t <= y
  <2>1. T # {}
    OBVIOUS
  <2> HIDE DEF T
  <2> QED BY <1>1, <2>1, LeastNat
<1>3. PICK m \in S : t = m - low
  OBVIOUS
<1>4. ASSUME NEW x \in S PROVE m <= x
  <2>1. t <= x - low
    BY <1>2
  <2>2. m \in Int /\ x \in Int
    OBVIOUS
  <2> QED BY <1>3, <2>1, <2>2
<1> QED BY <1>4 DEF Min

\* Likewise for Max and an upper bound.
LEMMA MaxExists ==
  ASSUME NEW S, S \subseteq Int, S # {}, NEW high \in Int, \A x \in S : x <= high
  PROVE  Max(S) \in S /\ \A x \in S : x <= Max(S)
<1> DEFINE T == {high - x : x \in S}
<1>1. T \subseteq Nat
  <2> SUFFICES ASSUME NEW x \in S PROVE high - x \in Nat
    OBVIOUS
  <2> QED OBVIOUS
<1>2. PICK t \in T : \A y \in T : t <= y
  <2>1. T # {}
    OBVIOUS
  <2> HIDE DEF T
  <2> QED BY <1>1, <2>1, LeastNat
<1>3. PICK m \in S : t = high - m
  OBVIOUS
<1>4. ASSUME NEW x \in S PROVE m >= x
  <2>1. t <= high - x
    BY <1>2
  <2>2. m \in Int /\ x \in Int
    OBVIOUS
  <2> QED BY <1>3, <2>1, <2>2
<1> QED BY <1>4 DEF Max

\* A least element is the minimum.
LEMMA MinUnique ==
  ASSUME NEW S, S \subseteq Int, NEW m \in S, \A x \in S : m <= x
  PROVE  Min(S) = m
<1>1. Min(S) \in S /\ \A x \in S : Min(S) <= x
  BY DEF Min
<1>2. m \in Int /\ Min(S) \in Int
  BY <1>1
<1>3. Min(S) <= m /\ m <= Min(S)
  BY <1>1, <1>2
<1> QED BY <1>2, <1>3

\* A greatest element is the maximum.
LEMMA MaxUnique ==
  ASSUME NEW S, S \subseteq Int, NEW m \in S, \A x \in S : x <= m
  PROVE  Max(S) = m
<1>1. Max(S) \in S /\ \A x \in S : Max(S) >= x
  BY DEF Max
<1>2. m \in Int /\ Max(S) \in Int
  BY <1>1
<1>3. Max(S) >= m /\ m >= Max(S)
  BY <1>1, <1>2
<1> QED BY <1>2, <1>3

-----------------------------------------------------------------------------
(* The inductive invariant. *)

\* The positions of the readers are bounded, so the range of a nonempty set of
\* readers is one of their positions at either end.
LEMMA RangeBounds ==
  ASSUME TypeOK, RangeIsExact, registered # {}
  PROVE  /\ \E r \in registered : reader_min = count_map[r]
         /\ \E r \in registered : reader_max = count_map[r]
         /\ \A r \in registered : reader_min <= count_map[r] /\ count_map[r] <= reader_max
<1> DEFINE lasts == {count_map[r] : r \in registered}
<1>1. lasts \subseteq Int /\ lasts # {}
  BY DEF TypeOK
<1>2. \A x \in lasts : Unread <= x /\ x <= count
  BY DEF TypeOK, Unread
<1>3. Min(lasts) \in lasts /\ \A x \in lasts : Min(lasts) <= x
  <2> HIDE DEF lasts
  <2>1. Unread \in Int
    BY DEF Unread
  <2> QED BY <1>1, <1>2, <2>1, MinExists
<1>4. Max(lasts) \in lasts /\ \A x \in lasts : x <= Max(lasts)
  <2> HIDE DEF lasts
  <2>1. count \in Int
    BY DEF TypeOK
  <2> QED BY <1>1, <1>2, <2>1, MaxExists
<1> QED BY <1>3, <1>4 DEF RangeIsExact

\* FindBulk returns a bulk of the queue at or after the number asked for.
LEMMA FindBulkFacts ==
  ASSUME NEW Q, NEW k \in Nat, Q \subseteq 0 .. k, NEW n \in Nat, AtLeast(Q, n) # {}
  PROVE  /\ FindBulk(Q, n) \in Q
         /\ FindBulk(Q, n) >= n
         /\ \A c \in AtLeast(Q, n) : FindBulk(Q, n) <= c
<1> DEFINE A == AtLeast(Q, n)
<1>1. \A c \in Q : c \in Int /\ 0 <= c
  OBVIOUS
<1>2. A \subseteq Int /\ \A x \in A : 0 <= x
  BY <1>1 DEF AtLeast
<1>3. Min(A) \in A /\ \A c \in A : Min(A) <= c
  <2> HIDE DEF A
  <2>1. A # {} /\ 0 \in Int
    BY DEF A
  <2> QED BY <1>2, <2>1, MinExists
<1>4. FindBulk(Q, n) \in AtLeast(Q, n) /\ \A c \in AtLeast(Q, n) : FindBulk(Q, n) <= c
  BY <1>3 DEF FindBulk
<1> QED BY <1>4 DEF AtLeast

\* GetBulk moves the readers of S forward to bulks of the queue, leaves the
\* others where they are, and keeps the range exact.
LEMMA GetBulkFacts ==
  ASSUME TypeOK, AsksAhead, RangeIsExact,
         NEW S \in SUBSET registered, NEW Q \in SUBSET (0 .. count),
         \A r \in S : AtLeast(Q, reader_count[r]) # {},
         GetBulk(S, Q)
  PROVE  /\ count_map' \in [Readers -> Int]
         /\ reader_count' \in [Readers -> Nat]
         /\ temp_count' \in [Readers -> Int]
         /\ reader_min' \in Int /\ reader_max' \in Int
         /\ \A r \in S : /\ count_map'[r] \in Q
                         /\ count_map'[r] >= reader_count[r]
                         /\ reader_count'[r] = count_map'[r] + 1
         /\ \A r \in Readers \ S : /\ count_map'[r] = count_map[r]
                                   /\ reader_count'[r] = reader_count[r]
         /\ \A r \in registered : reader_min' <= count_map'[r]
         /\ registered # {} =>
              LET lasts == {count_map'[r] : r \in registered}
              IN  reader_min' = Min(lasts) /\ reader_max' = Max(lasts)
<1> DEFINE found == [r \in Readers |->
             IF r \in S THEN FindBulk(Q, reader_count[r]) ELSE count_map[r]]
           lasts == {found[r] : r \in registered}
<1>0. ASSUME NEW c \in Q PROVE c \in Nat /\ c <= count
  <2>1. c \in 0 .. count /\ count \in Nat
    BY DEF TypeOK
  <2> QED BY <2>1
<1>1. ASSUME NEW r \in S
      PROVE  /\ found[r] \in Q /\ found[r] >= reader_count[r]
             /\ found[r] > count_map[r]
  <2>1. r \in Readers /\ reader_count[r] \in Nat /\ count \in Nat
    BY DEF TypeOK
  <2>2. count_map[r] \in Int /\ count_map[r] < reader_count[r]
    BY <2>1 DEF AsksAhead, TypeOK
  <2>3. Q \subseteq 0 .. count /\ AtLeast(Q, reader_count[r]) # {}
    OBVIOUS
  <2>4. FindBulk(Q, reader_count[r]) \in Q /\ FindBulk(Q, reader_count[r]) >= reader_count[r]
    BY <2>1, <2>3, FindBulkFacts
  <2>5. found[r] = FindBulk(Q, reader_count[r])
    BY <2>1
  <2>6. FindBulk(Q, reader_count[r]) \in Nat
    BY <1>0, <2>4
  <2>7. found[r] \in Int
    <3> HIDE DEF found
    <3> QED BY <2>5, <2>6
  <2> QED BY <2>1, <2>2, <2>4, <2>5, <2>7
<1>2. \A r \in Readers \ S : found[r] = count_map[r]
  OBVIOUS
<1>3. found \in [Readers -> Int]
  <2> SUFFICES ASSUME NEW r \in Readers PROVE found[r] \in Int
    OBVIOUS
  <2> HIDE DEF found
  <2>1. CASE r \in S
    <3>1. found[r] \in Nat
      BY <1>0, <1>1, <2>1
    <3> QED BY <3>1
  <2>2. CASE r \notin S
    <3>1. count_map[r] \in Int
      BY DEF TypeOK
    <3> QED BY <1>2, <2>2, <3>1
  <2> QED BY <2>1, <2>2
<1>4. \A r \in Readers : Unread <= found[r] /\ found[r] <= count /\ count_map[r] <= found[r]
  <2> TAKE r \in Readers
  <2> HIDE DEF found
  <2>1. count \in Nat /\ count_map[r] \in Int /\ count_map[r] >= Unread /\ count_map[r] < count
    BY DEF TypeOK
  <2>2. CASE r \in S
    BY <1>0, <1>1, <1>3, <2>1, <2>2 DEF Unread
  <2>3. CASE r \notin S
    BY <1>2, <2>1, <2>3 DEF Unread
  <2> QED BY <2>2, <2>3
<1>5. /\ count_map' = found
      /\ reader_min' = IF S = {} THEN reader_min ELSE Min(lasts)
      /\ reader_max' = Max({reader_max} \cup {found[r] : r \in S})
      /\ reader_count' = [r \in Readers |->
                            IF r \in S THEN found[r] + 1 ELSE reader_count[r]]
      /\ temp_count' = [r \in Readers |-> IF r \in S THEN found[r] ELSE temp_count[r]]
  BY DEF GetBulk
<1>6. registered \subseteq Readers /\ count \in Int /\ reader_max \in Int /\ reader_min \in Int
  BY DEF TypeOK
<1>7. ASSUME registered # {}
      PROVE  reader_min' = Min(lasts) /\ \A r \in registered : reader_min' <= found[r]
  <2>1. lasts \subseteq Int /\ lasts # {} /\ \A x \in lasts : Unread <= x
    BY <1>3, <1>4, <1>6, <1>7
  <2>2. \A x \in lasts : Min(lasts) <= x
    <3> HIDE DEF lasts
    <3>1. Unread \in Int
      BY DEF Unread
    <3> QED BY <2>1, <3>1, MinExists
  <2>3. CASE S = {}
    <3>1. lasts = {count_map[r] : r \in registered}
      BY <1>2, <1>6, <2>3
    <3> HIDE DEF lasts, found
    <3>2. reader_min' = Min(lasts)
      BY <1>5, <1>7, <2>3, <3>1 DEF RangeIsExact
    <3> USE DEF lasts
    <3> QED BY <2>2, <3>2
  <2>4. CASE S # {}
    BY <1>5, <2>2, <2>4
  <2> QED BY <2>3, <2>4
<1>8. reader_max' \in Int /\ (registered # {} => reader_max' = Max(lasts))
  <2> DEFINE T == {reader_max} \cup {found[r] : r \in S}
  <2>1. CASE registered = {}
    <3>1. S = {}
      BY <2>1
    <3> HIDE DEF found
    <3>2. T = {reader_max}
      BY <3>1
    <3>3. Max(T) = reader_max
      <4> HIDE DEF T
      <4>1. T \subseteq Int /\ reader_max \in T /\ \A x \in T : x <= reader_max
        BY <1>6, <3>2
      <4> QED BY <4>1, MaxUnique
    <3> QED BY <1>5, <1>6, <2>1, <3>3
  <2>2. CASE registered # {}
    <3>1. /\ \E r \in registered : reader_max = count_map[r]
          /\ \A r \in registered : count_map[r] <= reader_max
      BY <2>2, RangeBounds
    <3>2. T \subseteq Int /\ T # {} /\ \A x \in T : x <= count
      <4> HIDE DEF found
      <4>1. \A r \in S : found[r] \in Int /\ found[r] <= count
        BY <1>3, <1>4, <1>6
      <4>2. reader_max <= count
        BY <1>6, <3>1 DEF TypeOK
      <4> QED BY <1>6, <4>1, <4>2
    <3>3. Max(T) \in T /\ \A x \in T : x <= Max(T)
      <4> HIDE DEF T
      <4> QED BY <1>6, <3>2, MaxExists
    <3>4. Max(T) \in lasts
      <4>1. CASE Max(T) = reader_max
        <5>1. PICK r0 \in registered : reader_max = count_map[r0]
          BY <3>1
        <5>2. r0 \notin S
          <6> SUFFICES ASSUME r0 \in S PROVE FALSE
            OBVIOUS
          <6>1. found[r0] \in T
            OBVIOUS
          <6>2. found[r0] <= Max(T) /\ found[r0] > count_map[r0] /\ found[r0] \in Int
                /\ count_map[r0] \in Int
            BY <1>1, <1>3, <1>6, <3>3, <6>1 DEF TypeOK
          <6> QED BY <4>1, <5>1, <6>2
        <5> QED BY <1>2, <1>6, <4>1, <5>1, <5>2
      <4>2. CASE Max(T) # reader_max
        BY <3>3, <4>2
      <4> QED BY <4>1, <4>2
    <3>5. ASSUME NEW r \in registered PROVE found[r] <= Max(T)
      <4>1. CASE r \in S
        BY <3>3, <4>1
      <4>2. CASE r \notin S
        <5>1. found[r] = count_map[r] /\ reader_max \in T /\ count_map[r] \in Int
              /\ Max(T) \in Int
          BY <1>2, <1>6, <3>2, <3>3, <4>2 DEF TypeOK
        <5>2. count_map[r] <= reader_max /\ reader_max <= Max(T)
          BY <3>1, <3>3, <5>1
        <5> QED BY <1>6, <5>1, <5>2
      <4> QED BY <4>1, <4>2
    <3>6. lasts \subseteq Int
      BY <1>3, <1>6
    <3>7. \A x \in lasts : x <= Max(T)
      BY <3>5
    <3>8. Max(lasts) = Max(T)
      <4> HIDE DEF lasts, T
      <4> QED BY <3>4, <3>6, <3>7, MaxUnique
    <3>9. reader_max' = Max(T)
      BY <1>5
    <3> QED BY <3>2, <3>3, <3>8, <3>9
  <2> QED BY <2>1, <2>2
<1>9. reader_min' \in Int
  <2>1. CASE S = {}
    BY <1>5, <1>6, <2>1
  <2>2. CASE S # {}
    <3>1. registered # {}
      BY <2>2
    <3>2. lasts \subseteq Int /\ lasts # {} /\ \A x \in lasts : Unread <= x
      BY <1>3, <1>4, <1>6, <3>1
    <3>3. Min(lasts) \in lasts
      <4> HIDE DEF lasts
      <4>1. Unread \in Int
        BY DEF Unread
      <4> QED BY <3>2, <4>1, MinExists
    <3> QED BY <1>7, <3>1, <3>2, <3>3
  <2> QED BY <2>1, <2>2
<1>10. reader_count' \in [Readers -> Nat] /\ temp_count' \in [Readers -> Int]
  <2>1. \A r \in S : found[r] \in Nat
    BY <1>0, <1>1
  <2> HIDE DEF found
  <2>2. \A r \in S : found[r] + 1 \in Nat
    BY <2>1
  <2>3. \A r \in Readers : reader_count[r] \in Nat /\ temp_count[r] \in Int
    BY DEF TypeOK
  <2> QED BY <1>3, <1>5, <2>2, <2>3
<1> HIDE DEF found
<1>11. /\ \A r \in S : /\ count_map'[r] \in Q /\ count_map'[r] >= reader_count[r]
                       /\ reader_count'[r] = count_map'[r] + 1
       /\ \A r \in Readers \ S : /\ count_map'[r] = count_map[r]
                                 /\ reader_count'[r] = reader_count[r]
  BY <1>1, <1>2, <1>5, <1>6
<1> QED BY <1>3, <1>5, <1>7, <1>8, <1>9, <1>10, <1>11

\* Signal touches the readers of S only: their event or their task count,
\* whichever they wait on.
LEMMA SignalFacts ==
  ASSUME TypeOK, NEW S, Signal(S), NEW r \in Readers
  PROVE  /\ event'[r] \in BOOLEAN /\ tasks'[r] \in Nat
         /\ r \notin S => event'[r] = event[r] /\ tasks'[r] = tasks[r]
         /\ r \in S /\ r \in SyncReaders => event'[r]
         /\ r \in S /\ r \in AsyncReaders => tasks'[r] = tasks[r] + 1
         /\ r \in SyncReaders => tasks'[r] = tasks[r]
         /\ r \in AsyncReaders => event'[r] = event[r]
         /\ event[r] => event'[r]
         /\ tasks'[r] >= tasks[r]
<1>1. event[r] \in BOOLEAN /\ tasks[r] \in Nat
  BY DEF TypeOK
<1>2. event'[r] = (event[r] \/ r \in S \cap SyncReaders)
  BY DEF Signal
<1>3. tasks'[r] = IF r \in S \cap AsyncReaders THEN tasks[r] + 1 ELSE tasks[r]
  BY DEF Signal
<1>4. ~(r \in SyncReaders /\ r \in AsyncReaders)
  BY ReadersAssumption
<1>5. event'[r] \in BOOLEAN
  BY <1>2, Zenon
<1>6. /\ r \notin S => event'[r] = event[r]
      /\ r \in S /\ r \in SyncReaders => event'[r]
      /\ r \in AsyncReaders => event'[r] = event[r]
      /\ event[r] => event'[r]
  <2>1. event[r] = TRUE \/ event[r] = FALSE
    BY <1>1
  <2>2. r \notin S \cap SyncReaders => event'[r] = event[r]
    BY <1>2, <2>1, Zenon
  <2>3. r \in S \cap SyncReaders => event'[r]
    BY <1>2, Zenon
  <2>4. event[r] => event'[r]
    BY <1>2, Zenon
  <2> QED BY <1>4, <2>2, <2>3, <2>4
<1>7. /\ tasks'[r] \in Nat /\ tasks'[r] >= tasks[r]
      /\ r \notin S => tasks'[r] = tasks[r]
      /\ r \in S /\ r \in AsyncReaders => tasks'[r] = tasks[r] + 1
      /\ r \in SyncReaders => tasks'[r] = tasks[r]
  BY <1>1, <1>3, <1>4
<1> QED BY <1>5, <1>6, <1>7

\* What one round of callbacks does to each reader.  queue is the list it runs
\* over and reach its last bulk.
LEMMA FireFacts ==
  ASSUME IInv, NEW Q \in SUBSET (0 .. count), NEW reach \in Q,
         \A c \in Q : c <= reach, FireCallbackNoLock(Q, reach)
  PROVE  /\ count_map' \in [Readers -> Int]
         /\ reader_count' \in [Readers -> Nat]
         /\ temp_count' \in [Readers -> Int]
         /\ reader_min' \in Int /\ reader_max' \in Int
         /\ event' \in [Readers -> BOOLEAN]
         /\ tasks' \in [Readers -> Nat]
         /\ reader_quit' \in [Readers -> BOOLEAN]
         /\ crashed' \in BOOLEAN
         /\ callback_map' \subseteq callback_map
         /\ \A r \in Readers :
              \/ count_map'[r] = count_map[r] /\ reader_count'[r] = reader_count[r]
              \/ /\ count_map'[r] \in Q /\ count_map'[r] >= reader_count[r]
                 /\ reader_count'[r] = count_map'[r] + 1
                 /\ r \in callback_map
         /\ \A r \in registered : reader_min' <= count_map'[r]
         /\ registered # {} =>
              LET lasts == {count_map'[r] : r \in registered}
              IN  reader_min' = Min(lasts) /\ reader_max' = Max(lasts)
         /\ ~quiting => \A r \in callback_map' : reader_count'[r] > reach
         /\ \A r \in Readers :
              /\ r \in callback_map' /\ quiting => reader_quit'[r]
              /\ reader_quit[r] => reader_quit'[r]
              /\ reader_quit'[r] => quiting
              /\ ~reader_quit'[r] /\ r \in callback_map' =>
                   event'[r] = event[r] /\ tasks'[r] = tasks[r]
              /\ r \notin callback_map =>
                   /\ event'[r] = event[r] /\ tasks'[r] = tasks[r]
                   /\ reader_quit'[r] = reader_quit[r]
              /\ r \in callback_map \ callback_map' =>
                   /\ r \in SyncReaders => event'[r]
                   /\ r \in AsyncReaders => tasks'[r] = tasks[r] + 1
              /\ r \in SyncReaders => tasks'[r] = tasks[r]
              /\ r \in AsyncReaders => event'[r] = event[r]
              /\ event[r] => event'[r]
              /\ tasks'[r] >= tasks[r]
<1> DEFINE W == {r \in callback_map : reader_count[r] <= reach}
<1>1. /\ TypeOK /\ Membership /\ AsksAhead /\ RangeIsExact
      /\ callback_map \subseteq Readers /\ registered \subseteq Readers
      /\ SyncReaders \cap AsyncReaders = {} /\ Readers = SyncReaders \cup AsyncReaders
  BY ReadersAssumption DEF IInv, TypeOK, Readers
<1>2. callback_map \subseteq registered
  <2> SUFFICES ASSUME NEW r \in callback_map PROVE r \in registered
    OBVIOUS
  <2>1. pc[r] \notin {"none", "dead"}
    BY <1>1 DEF Membership
  <2> QED BY <1>1, <2>1 DEF Membership
<1>3. CASE FireQuit
  <2>1. /\ quiting
        /\ reader_quit' = [r \in Readers |-> reader_quit[r] \/ r \in callback_map]
        /\ event' = [r \in Readers |-> event[r] \/ r \in callback_map \cap SyncReaders]
        /\ tasks' = [r \in Readers |-> IF r \in callback_map \cap AsyncReaders
                                       THEN tasks[r] + 1 ELSE tasks[r]]
        /\ UNCHANGED <<callback_map, count_map, reader_min, reader_max,
                       reader_count, temp_count, crashed>>
    BY <1>3 DEF FireQuit, Signal, readerVars
  <2>2. /\ event' \in [Readers -> BOOLEAN] /\ tasks' \in [Readers -> Nat]
        /\ reader_quit' \in [Readers -> BOOLEAN]
    BY <1>1, <2>1 DEF TypeOK
  <2>3. \A r \in Readers : tasks[r] \in Nat
    BY <1>1 DEF TypeOK
  <2>4. \A r \in Readers : reader_quit[r] => quiting
    BY <1>1 DEF Membership
  <2>5. \A r \in registered : reader_min' <= count_map'[r]
    BY <1>1, <2>1, RangeBounds
  <2>6. /\ count_map' \in [Readers -> Int] /\ reader_count' \in [Readers -> Nat]
        /\ temp_count' \in [Readers -> Int]
        /\ reader_min' \in Int /\ reader_max' \in Int /\ crashed' \in BOOLEAN
    BY <1>1, <2>1 DEF TypeOK
  <2>7. registered # {} =>
          LET lasts == {count_map'[r] : r \in registered}
          IN  reader_min' = Min(lasts) /\ reader_max' = Max(lasts)
    BY <1>1, <2>1 DEF RangeIsExact
  <2>8. ASSUME NEW r \in Readers
        PROVE  /\ r \in callback_map' /\ quiting => reader_quit'[r]
               /\ reader_quit[r] => reader_quit'[r]
               /\ reader_quit'[r] => quiting
               /\ ~reader_quit'[r] /\ r \in callback_map' =>
                    event'[r] = event[r] /\ tasks'[r] = tasks[r]
               /\ r \notin callback_map =>
                    /\ event'[r] = event[r] /\ tasks'[r] = tasks[r]
                    /\ reader_quit'[r] = reader_quit[r]
               /\ r \in SyncReaders => tasks'[r] = tasks[r]
               /\ r \in AsyncReaders => event'[r] = event[r]
               /\ event[r] => event'[r]
               /\ tasks'[r] >= tasks[r]
    <3>1. Signal(callback_map)
      BY <1>3 DEF FireQuit
    <3>2. /\ r \notin callback_map => event'[r] = event[r] /\ tasks'[r] = tasks[r]
          /\ r \in SyncReaders => tasks'[r] = tasks[r]
          /\ r \in AsyncReaders => event'[r] = event[r]
          /\ event[r] => event'[r]
          /\ tasks'[r] >= tasks[r]
      BY <1>1, <3>1, SignalFacts
    <3>3. reader_quit[r] \in BOOLEAN /\ callback_map' = callback_map /\ quiting
      BY <1>1, <2>1 DEF TypeOK
    <3>4. reader_quit'[r] = (reader_quit[r] \/ r \in callback_map)
      BY <2>1
    <3>5. r \in callback_map => reader_quit'[r]
      BY <3>4, Zenon
    <3>6. reader_quit[r] => reader_quit'[r]
      BY <3>4, Zenon
    <3>7. r \notin callback_map => reader_quit'[r] = reader_quit[r]
      <4>1. reader_quit[r] = TRUE \/ reader_quit[r] = FALSE
        BY <3>3
      <4> QED BY <3>4, <4>1, Zenon
    <3> QED BY <3>2, <3>3, <3>5, <3>6, <3>7
  <2> QED BY <2>1, <2>2, <2>5, <2>6, <2>7, <2>8
<1>4. CASE FireReached(Q, reach)
  <2>1. /\ ~quiting
        /\ GetBulk(W, Q)
        /\ event' = [r \in Readers |-> event[r] \/ r \in W \cap SyncReaders]
        /\ tasks' = [r \in Readers |-> IF r \in W \cap AsyncReaders
                                       THEN tasks[r] + 1 ELSE tasks[r]]
        /\ callback_map' = callback_map \ W
        /\ reader_quit' = reader_quit
        /\ crashed' \in BOOLEAN
    BY <1>1, <1>4 DEF FireReached, Signal, TypeOK
  <2>2. W \in SUBSET registered /\ \A r \in W : AtLeast(Q, reader_count[r]) # {}
    BY <1>2 DEF AtLeast
  <2> HIDE DEF W
  <2>3. /\ count_map' \in [Readers -> Int]
        /\ reader_count' \in [Readers -> Nat]
        /\ temp_count' \in [Readers -> Int]
        /\ reader_min' \in Int /\ reader_max' \in Int
        /\ \A r \in W : /\ count_map'[r] \in Q
                        /\ count_map'[r] >= reader_count[r]
                        /\ reader_count'[r] = count_map'[r] + 1
        /\ \A r \in Readers \ W : /\ count_map'[r] = count_map[r]
                                  /\ reader_count'[r] = reader_count[r]
        /\ \A r \in registered : reader_min' <= count_map'[r]
        /\ registered # {} =>
             LET lasts == {count_map'[r] : r \in registered}
             IN  reader_min' = Min(lasts) /\ reader_max' = Max(lasts)
    BY <1>1, <2>1, <2>2, GetBulkFacts
  <2>4. ASSUME NEW r \in callback_map' PROVE reader_count'[r] > reach
    <3>1. r \in callback_map /\ r \notin W /\ r \in Readers
      BY <1>1, <2>1
    <3>2. reader_count[r] \in Nat /\ reach \in Nat
      <4>1. reach \in 0 .. count /\ count \in Nat
        BY <1>1 DEF TypeOK
      <4> QED BY <1>1, <3>1, <4>1 DEF TypeOK
    <3>3. ~(reader_count[r] <= reach)
      BY <3>1 DEF W
    <3> QED BY <2>3, <3>1, <3>2, <3>3
  <2>5. event' \in [Readers -> BOOLEAN] /\ tasks' \in [Readers -> Nat]
        /\ reader_quit' \in [Readers -> BOOLEAN]
    BY <1>1, <2>1 DEF TypeOK
  <2>6. W \subseteq callback_map
    BY DEF W
  <2>7. ASSUME NEW r \in Readers
        PROVE  /\ reader_quit'[r] = reader_quit[r]
               /\ reader_quit[r] => quiting
               /\ r \in callback_map' => event'[r] = event[r] /\ tasks'[r] = tasks[r]
               /\ r \notin callback_map => event'[r] = event[r] /\ tasks'[r] = tasks[r]
               /\ r \in callback_map \ callback_map' =>
                    /\ r \in SyncReaders => event'[r]
                    /\ r \in AsyncReaders => tasks'[r] = tasks[r] + 1
               /\ r \in SyncReaders => tasks'[r] = tasks[r]
               /\ r \in AsyncReaders => event'[r] = event[r]
               /\ event[r] => event'[r]
               /\ tasks'[r] >= tasks[r]
    <3>1. Signal(W)
      BY <1>4 DEF FireReached, W
    <3>2. /\ r \notin W => event'[r] = event[r] /\ tasks'[r] = tasks[r]
          /\ r \in W /\ r \in SyncReaders => event'[r]
          /\ r \in W /\ r \in AsyncReaders => tasks'[r] = tasks[r] + 1
          /\ r \in SyncReaders => tasks'[r] = tasks[r]
          /\ r \in AsyncReaders => event'[r] = event[r]
          /\ event[r] => event'[r]
          /\ tasks'[r] >= tasks[r]
      BY <1>1, <3>1, SignalFacts
    <3>3. reader_quit[r] => quiting
      BY <1>1 DEF Membership
    <3>4. callback_map' = callback_map \ W /\ reader_quit'[r] = reader_quit[r]
      BY <2>1
    <3>5. /\ r \in callback_map' => r \notin W
          /\ r \notin callback_map => r \notin W
          /\ r \in callback_map \ callback_map' => r \in W
      BY <2>6, <3>4
    <3> QED BY <3>2, <3>3, <3>4, <3>5
  <2>8. \A r \in Readers :
          \/ count_map'[r] = count_map[r] /\ reader_count'[r] = reader_count[r]
          \/ /\ count_map'[r] \in Q /\ count_map'[r] >= reader_count[r]
             /\ reader_count'[r] = count_map'[r] + 1
             /\ r \in callback_map
    BY <2>3, <2>6
  <2> QED BY <2>1, <2>3, <2>4, <2>5, <2>7, <2>8
<1> QED BY <1>3, <1>4 DEF FireCallbackNoLock
(***************************************************************************)
(* Positions: what the invariant says of the queue and of the readers'      *)
(* places in it, through a push, a read and a release.                      *)
(***************************************************************************)

\* what the invariant asks of a queue Q when n bulks have been pushed
Serves(Q, n) ==
  /\ \A c \in Q : c \in Nat /\ c < n
  /\ \A b \in Q : \A c \in b .. n - 1 : c \in Q \cup recycled
  /\ \A r \in registered : base[r] <= n /\ \A c \in Q : base[r] <= c
  /\ \A r \in registered : \A c \in base[r] .. n - 1 :
       c > count_map[r] => c \in Q \cup recycled

\* q is left of Q after a release up to min
Trims(Q, q, min) ==
  /\ q \subseteq Q
  /\ \A b \in q : \A c \in Q : c >= b => c \in q
  /\ registered # {} => \A c \in Q : c > min => c \in q

\* Between two steps the queue serves its readers: its bulks are numbered below
\* count_, and it has every bulk a reader can still ask for.
LEMMA ServesNow == IInv => Serves(buffer_queue, count)
<1> SUFFICES ASSUME IInv PROVE Serves(buffer_queue, count)
  OBVIOUS
<1>1. TypeOK /\ QueueIsTail /\ NothingReleasedEarly
  BY DEF IInv
<1>2. \A c \in buffer_queue : c \in Nat /\ c < count
  BY <1>1 DEF TypeOK
<1>3. /\ \A b \in buffer_queue : \A c \in b .. count - 1 : c \in buffer_queue \cup recycled
      /\ \A r \in registered : base[r] <= count /\ \A c \in buffer_queue : base[r] <= c
  BY <1>1 DEF QueueIsTail
<1>4. \A r \in registered : \A c \in base[r] .. count - 1 :
        c > count_map[r] => c \in buffer_queue \cup recycled
  BY <1>1 DEF NothingReleasedEarly
<1> QED BY <1>2, <1>3, <1>4 DEF Serves

\* With the new bulk at its end it serves them as well.
LEMMA ServesPushed == IInv => Serves(buffer_queue \cup {count}, count + 1)
<1> SUFFICES ASSUME IInv PROVE Serves(buffer_queue \cup {count}, count + 1)
  OBVIOUS
<1> DEFINE Q == buffer_queue \cup {count}
<1>1. Serves(buffer_queue, count)
  BY ServesNow
<1>2. count \in Nat /\ \A r \in registered : base[r] \in Nat
  BY DEF IInv, TypeOK
<1>3. \A c \in Q : c \in Nat /\ c < count + 1
  BY <1>1, <1>2 DEF Serves
<1>4. ASSUME NEW b \in Q, NEW c \in b .. (count + 1) - 1 PROVE c \in Q \cup recycled
  <2>1. CASE c = count
    BY <2>1
  <2>2. CASE c # count
    <3>1. c \in Int /\ b <= c /\ c < count /\ b \in Int
      BY <1>2, <1>3, <1>4, <2>2
    <3>2. b \in buffer_queue
      BY <1>2, <1>4, <3>1
    <3>3. c \in b .. count - 1
      BY <1>2, <3>1
    <3> QED BY <1>1, <3>2, <3>3 DEF Serves
  <2> QED BY <2>1, <2>2
<1>5. \A r \in registered : base[r] <= count + 1 /\ \A c \in Q : base[r] <= c
  <2> TAKE r \in registered
  <2>1. base[r] <= count /\ base[r] \in Nat /\ \A c \in buffer_queue : base[r] <= c
    BY <1>1, <1>2 DEF Serves
  <2> QED BY <1>2, <2>1
<1>6. ASSUME NEW r \in registered, NEW c \in base[r] .. (count + 1) - 1, c > count_map[r]
      PROVE  c \in Q \cup recycled
  <2>1. CASE c = count
    BY <2>1
  <2>2. CASE c # count
    <3>1. base[r] \in Nat
      BY <1>2
    <3>2. c \in base[r] .. count - 1
      BY <1>2, <2>2, <3>1
    <3> QED BY <1>1, <1>6, <3>2 DEF Serves
  <2> QED BY <2>1, <2>2
<1> HIDE DEF Q
<1>7. Serves(Q, count + 1)
  <2>1. \A b \in Q : \A c \in b .. (count + 1) - 1 : c \in Q \cup recycled
    BY <1>4
  <2>2. \A r \in registered : \A c \in base[r] .. (count + 1) - 1 :
          c > count_map[r] => c \in Q \cup recycled
    BY <1>6
  <2> QED BY <1>3, <1>5, <2>1, <2>2 DEF Serves
<1> QED BY <1>7 DEF Q

\* MayReleaseBuffer gives up no bulk ahead of the slowest reader.
LEMMA ReleaseTrims ==
  ASSUME NEW Q, \A c \in Q : c \in Int, NEW min \in Int
  PROVE  Trims(Q, MayReleaseBuffer(Q, min), min)
<1>1. CASE registered = {}
  BY <1>1 DEF Trims, MayReleaseBuffer
<1>2. CASE registered # {}
  <2>1. MayReleaseBuffer(Q, min) = {c \in Q : c > min}
    BY <1>2 DEF MayReleaseBuffer
  <2> QED BY <2>1 DEF Trims
<1> QED BY <1>1, <1>2

\* Firing callbacks over a queue that serves, and then releasing memory, keeps
\* what the invariant says of positions and bulks.
LEMMA PositionsKept ==
  ASSUME IInv, NEW Q,
         count' \in {count, count + 1}, Serves(Q, count'),
         reader_min' \in Int, Trims(Q, buffer_queue', reader_min'),
         UNCHANGED <<registered, recycled, base>>,
         \A r \in Readers : count_map'[r] \in Int /\ reader_count'[r] \in Nat,
         \A r \in Readers :
           \/ count_map'[r] = count_map[r] /\ reader_count'[r] = reader_count[r]
           \/ /\ count_map'[r] \in Q /\ count_map'[r] >= reader_count[r]
              /\ reader_count'[r] = count_map'[r] + 1,
         \A r \in registered : reader_min' <= count_map'[r]
  PROVE  /\ count' \in Nat
         /\ buffer_queue' \in SUBSET (0 .. count' - 1)
         /\ recycled' \in SUBSET (0 .. count' - 1)
         /\ \A r \in Readers : count_map'[r] >= Unread /\ count_map'[r] < count'
         /\ AsksAhead' /\ NothingReleasedEarly' /\ QueueIsTail'
<1>1. TypeOK /\ AsksAhead /\ count \in Nat /\ registered \subseteq Readers
  BY DEF IInv, TypeOK
<1>2. count' \in Nat /\ count' \in {count, count + 1} /\ count <= count'
  BY <1>1
<1>3. \A c \in Q : c \in Nat /\ c < count'
  BY DEF Serves
<1>4. /\ buffer_queue' \subseteq Q
      /\ \A b \in buffer_queue' : \A c \in Q : c >= b => c \in buffer_queue'
      /\ registered # {} => \A c \in Q : c > reader_min' => c \in buffer_queue'
  BY DEF Trims
<1>5. buffer_queue' \in SUBSET (0 .. count' - 1)
  <2> SUFFICES ASSUME NEW c \in buffer_queue' PROVE c \in 0 .. count' - 1
    OBVIOUS
  <2> QED BY <1>2, <1>3, <1>4
<1>6. recycled' \in SUBSET (0 .. count' - 1)
  <2> SUFFICES ASSUME NEW c \in recycled PROVE c \in 0 .. count' - 1
    OBVIOUS
  <2>1. c \in 0 .. count - 1
    BY <1>1 DEF TypeOK
  <2> QED BY <1>1, <1>2, <2>1
<1>7. ASSUME NEW r \in Readers
      PROVE  /\ count_map'[r] \in Int /\ count_map'[r] >= Unread /\ count_map'[r] < count'
             /\ count_map[r] \in Int /\ count_map'[r] >= count_map[r]
             /\ count_map'[r] < reader_count'[r]
  <2>1. /\ count_map[r] \in Int /\ count_map[r] >= Unread /\ count_map[r] < count
        /\ reader_count[r] \in Nat /\ count_map[r] < reader_count[r]
    BY <1>1 DEF TypeOK, AsksAhead
  <2>2. CASE count_map'[r] = count_map[r] /\ reader_count'[r] = reader_count[r]
    BY <1>1, <1>2, <2>1, <2>2
  <2>3. CASE /\ count_map'[r] \in Q /\ count_map'[r] >= reader_count[r]
             /\ reader_count'[r] = count_map'[r] + 1
    <3>1. count_map'[r] \in Nat /\ count_map'[r] < count'
      BY <1>3, <2>3
    <3> QED BY <1>2, <2>1, <2>3, <3>1 DEF Unread
  <2> QED BY <2>2, <2>3
<1>8. AsksAhead'
  BY <1>7 DEF AsksAhead
<1>9. NothingReleasedEarly'
  <2> SUFFICES ASSUME NEW r \in registered, NEW c \in base[r] .. count' - 1,
                      c > count_map'[r]
               PROVE  c \in buffer_queue' \cup recycled
    BY DEF NothingReleasedEarly
  <2>1. r \in Readers /\ base[r] \in Nat /\ c \in Int
    BY <1>1, <1>2 DEF TypeOK
  <2>2. c > count_map[r] /\ c > reader_min'
    BY <1>7, <2>1
  <2>3. c \in Q \cup recycled
    BY <2>2 DEF Serves
  <2> QED BY <1>4, <2>2, <2>3
<1>10. QueueIsTail'
  <2>1. ASSUME NEW b \in buffer_queue', NEW c \in b .. count' - 1
        PROVE  c \in buffer_queue' \cup recycled
    <3>1. b \in Q /\ b \in Int
      BY <1>3, <1>4
    <3>2. c >= b
      BY <1>2, <3>1
    <3>3. c \in Q \cup recycled
      BY <3>1 DEF Serves
    <3> QED BY <1>4, <3>2, <3>3
  <2>2. \A r \in registered : base[r] <= count' /\ \A c \in buffer_queue' : base[r] <= c
    BY <1>4 DEF Serves
  <2> QED BY <2>1, <2>2 DEF QueueIsTail
<1>11. \A r \in Readers : count_map'[r] >= Unread /\ count_map'[r] < count'
  BY <1>7
<1> QED BY <1>2, <1>5, <1>6, <1>8, <1>9, <1>10, <1>11

(***************************************************************************)
(* A round of callbacks keeps the invariant.                                *)
(***************************************************************************)

\* A round of callbacks, from PushBulk, Quit or SetReadyCallback, keeps the
\* invariant.
LEMMA FireKeeps ==
  ASSUME IInv, NEW Q \in SUBSET (0 .. count), NEW reach \in Q, \A c \in Q : c <= reach,
         count' \in {count, count + 1}, Serves(Q, count'),
         FireCallbackNoLock(Q, reach),
         Trims(Q, buffer_queue', reader_min'),
         UNCHANGED <<quiting, registered, recycled, passed, base, owed, got>>,
         quit_pc' \in {"no", "set", "done"},
         pc' \in [Readers -> PCs],
         \A r \in Readers : pc'[r] = pc[r] \/ (pc[r] = "set" /\ pc'[r] = "waiting")
  PROVE  IInv'
<1>1. /\ count_map' \in [Readers -> Int]
      /\ reader_count' \in [Readers -> Nat]
      /\ temp_count' \in [Readers -> Int]
      /\ reader_min' \in Int /\ reader_max' \in Int
      /\ event' \in [Readers -> BOOLEAN]
      /\ tasks' \in [Readers -> Nat]
      /\ reader_quit' \in [Readers -> BOOLEAN]
      /\ crashed' \in BOOLEAN
      /\ callback_map' \subseteq callback_map
  BY FireFacts
<1>2. \A r \in Readers :
        \/ count_map'[r] = count_map[r] /\ reader_count'[r] = reader_count[r]
        \/ /\ count_map'[r] \in Q /\ count_map'[r] >= reader_count[r]
           /\ reader_count'[r] = count_map'[r] + 1
           /\ r \in callback_map
  BY FireFacts
<1>3. \A r \in registered : reader_min' <= count_map'[r]
  BY FireFacts
<1>4. ~quiting => \A r \in callback_map' : reader_count'[r] > reach
  BY FireFacts
<1>5. /\ TypeOK /\ Membership /\ Wakeable /\ NoStaleSignal
      /\ callback_map \subseteq Readers /\ callback_map' \subseteq Readers
      /\ registered' = registered /\ quiting' = quiting
  BY <1>1 DEF IInv, TypeOK
<1>6. /\ count' \in Nat
      /\ buffer_queue' \in SUBSET (0 .. count' - 1)
      /\ recycled' \in SUBSET (0 .. count' - 1)
      /\ \A r \in Readers : count_map'[r] >= Unread /\ count_map'[r] < count'
      /\ AsksAhead' /\ NothingReleasedEarly' /\ QueueIsTail'
  <2>1. \A r \in Readers : count_map'[r] \in Int /\ reader_count'[r] \in Nat
    BY <1>1
  <2> QED BY <1>1, <1>2, <1>3, <2>1, PositionsKept
<1>7. TypeOK'
  BY <1>1, <1>5, <1>6 DEF TypeOK
<1>8. RangeIsExact'
  <2>1. registered # {} =>
          LET lasts == {count_map'[r] : r \in registered}
          IN  reader_min' = Min(lasts) /\ reader_max' = Max(lasts)
    BY FireFacts
  <2> QED BY <1>5, <2>1 DEF RangeIsExact
<1>9. ASSUME NEW r \in Readers
      PROVE  /\ r \in callback_map' /\ quiting => reader_quit'[r]
             /\ reader_quit[r] => reader_quit'[r]
             /\ reader_quit'[r] => quiting
             /\ ~reader_quit'[r] /\ r \in callback_map' =>
                  event'[r] = event[r] /\ tasks'[r] = tasks[r]
             /\ r \notin callback_map =>
                  /\ event'[r] = event[r] /\ tasks'[r] = tasks[r]
                  /\ reader_quit'[r] = reader_quit[r]
             /\ r \in callback_map \ callback_map' =>
                  /\ r \in SyncReaders => event'[r]
                  /\ r \in AsyncReaders => tasks'[r] = tasks[r] + 1
             /\ r \in SyncReaders => tasks'[r] = tasks[r]
             /\ r \in AsyncReaders => event'[r] = event[r]
             /\ event[r] => event'[r]
             /\ tasks'[r] >= tasks[r]
  BY FireFacts
<1>10. ASSUME NEW r \in Readers
       PROVE  /\ pc[r] \in PCs /\ (pc'[r] = pc[r] \/ (pc[r] = "set" /\ pc'[r] = "waiting"))
              /\ tasks[r] \in Nat /\ tasks'[r] \in Nat
  BY <1>1, <1>5 DEF TypeOK
<1>11. Membership'
  <2>1. ASSUME NEW r \in Readers
        PROVE  /\ r \in registered <=> pc'[r] \notin {"none", "dead"}
               /\ pc'[r] \in {"timedout", "drain"} => r \in SyncReaders
    BY <1>5, <1>10 DEF Membership
  <2>2. ASSUME NEW r \in callback_map'
        PROVE  \/ pc'[r] \in {"set", "waiting", "timedout", "destroying"}
               \/ pc'[r] = "idle" /\ reader_quit'[r]
    <3>1. r \in Readers /\ r \in callback_map
      BY <1>1, <1>5
    <3>2. \/ pc[r] \in {"set", "waiting", "timedout", "destroying"}
          \/ pc[r] = "idle" /\ reader_quit[r]
      BY <1>5, <3>1 DEF Membership
    <3>3. reader_quit[r] => reader_quit'[r]
      BY <1>9, <3>1
    <3> QED BY <1>10, <3>1, <3>2, <3>3
  <2>3. ASSUME NEW r \in Readers, pc'[r] = "none"
        PROVE  count_map'[r] = Unread /\ ~event'[r] /\ tasks'[r] = 0
    <3>1. pc[r] = "none"
      BY <1>10, <2>3
    <3>2. r \notin callback_map /\ count_map[r] = Unread /\ ~event[r] /\ tasks[r] = 0
      BY <1>5, <3>1 DEF Membership
    <3>3. event'[r] = event[r] /\ tasks'[r] = tasks[r]
      BY <1>9, <3>2
    <3> QED BY <1>2, <3>2, <3>3
  <2>4. \A r \in Readers : reader_quit'[r] => quiting'
    BY <1>5, <1>9
  <2> QED BY <1>5, <2>1, <2>2, <2>3, <2>4 DEF Membership
<1>12. NoMissedWakeup'
  <2> SUFFICES ASSUME NEW r \in callback_map', ~quiting
               PROVE  AtLeast(buffer_queue', reader_count'[r]) = {}
    BY <1>5 DEF NoMissedWakeup
  <2>1. reader_count'[r] > reach /\ reader_count'[r] \in Nat
    BY <1>1, <1>4, <1>5
  <2>2. ASSUME NEW c \in buffer_queue', c >= reader_count'[r] PROVE FALSE
    <3>1. c \in Q /\ c <= reach /\ c \in Nat /\ reach \in Nat
      BY DEF Trims, Serves
    <3> QED BY <2>1, <2>2, <3>1
  <2> QED BY <2>2 DEF AtLeast
<1>13. Wakeable'
  <2> SUFFICES ASSUME NEW r \in Readers
               PROVE  /\ pc'[r] \in {"set", "waiting", "timedout"} =>
                           r \in callback_map' \/ event'[r] \/ tasks'[r] > 0
                      /\ pc'[r] = "drain" => event'[r]
                      /\ r \in SyncReaders => tasks'[r] = 0
                      /\ r \in AsyncReaders => ~event'[r]
    BY DEF Wakeable
  <2>1. /\ pc[r] \in {"set", "waiting", "timedout"} =>
             r \in callback_map \/ event[r] \/ tasks[r] > 0
        /\ pc[r] = "drain" => event[r]
        /\ r \in SyncReaders => tasks[r] = 0
        /\ r \in AsyncReaders => ~event[r]
    BY <1>5 DEF Wakeable
  <2>2. ASSUME pc'[r] \in {"set", "waiting", "timedout"}
        PROVE  r \in callback_map' \/ event'[r] \/ tasks'[r] > 0
    <3>1. r \in callback_map \/ event[r] \/ tasks[r] > 0
      BY <1>10, <2>1, <2>2
    <3>2. CASE r \in callback_map /\ r \notin callback_map'
      <4>1. r \in SyncReaders \/ r \in AsyncReaders
        BY DEF Readers
      <4>2. r \in SyncReaders => event'[r]
        BY <1>9, <3>2
      <4>3. r \in AsyncReaders => tasks'[r] = tasks[r] + 1
        BY <1>9, <3>2
      <4>4. r \in AsyncReaders => tasks'[r] > 0
        BY <1>10, <4>3
      <4> QED BY <4>1, <4>2, <4>4
    <3>3. CASE r \in callback_map'
      BY <3>3
    <3>4. CASE r \notin callback_map
      BY <1>9, <3>1, <3>4
    <3> QED BY <3>2, <3>3, <3>4
  <2>3. pc'[r] = "drain" => event'[r]
    BY <1>9, <1>10, <2>1
  <2>4. r \in SyncReaders => tasks'[r] = 0
    BY <1>9, <2>1
  <2>5. r \in AsyncReaders => ~event'[r]
    BY <1>9, <2>1
  <2> QED BY <2>2, <2>3, <2>4, <2>5
<1>14. NoStaleSignal'
  <2> SUFFICES ASSUME NEW r \in Readers, ~reader_quit'[r]
               PROVE  /\ pc'[r] \in {"idle", "checked"} => ~event'[r] /\ tasks'[r] = 0
                      /\ r \in callback_map' => ~event'[r] /\ tasks'[r] = 0
                      /\ tasks'[r] <= 1
    BY DEF NoStaleSignal
  <2>1. ~reader_quit[r]
    BY <1>9
  <2>2. /\ pc[r] \in {"idle", "checked"} => ~event[r] /\ tasks[r] = 0
        /\ r \in callback_map => ~event[r] /\ tasks[r] = 0
        /\ tasks[r] <= 1
    BY <1>5, <2>1 DEF NoStaleSignal
  <2>3. ASSUME pc'[r] \in {"idle", "checked"} PROVE ~event'[r] /\ tasks'[r] = 0
    <3>1. pc[r] \in {"idle", "checked"}
      BY <1>10, <2>3
    <3>2. r \notin callback_map
      BY <1>5, <2>1, <3>1 DEF Membership
    <3> QED BY <1>9, <2>2, <3>1, <3>2
  <2>4. ASSUME r \in callback_map' PROVE ~event'[r] /\ tasks'[r] = 0
    <3>1. event'[r] = event[r] /\ tasks'[r] = tasks[r]
      BY <1>9, <2>4
    <3> QED BY <1>1, <2>2, <2>4, <3>1
  <2>5. tasks'[r] <= 1
    <3>1. CASE r \in callback_map
      <4>1. tasks[r] = 0
        BY <2>2, <3>1
      <4>2. tasks'[r] = tasks[r] \/ tasks'[r] = tasks[r] + 1
        BY <1>9, <3>1 DEF Readers
      <4> QED BY <1>10, <4>1, <4>2
    <3>2. CASE r \notin callback_map
      <4>1. tasks'[r] = tasks[r]
        BY <1>9, <3>2
      <4> QED BY <2>2, <4>1
    <3> QED BY <3>1, <3>2
  <2> QED BY <2>3, <2>4, <2>5
<1> QED BY <1>6, <1>7, <1>8, <1>11, <1>12, <1>13, <1>14 DEF IInv

(***************************************************************************)
(* One reader's step.  The parts of the invariant that speak of a reader's  *)
(* thread and its signals are a conjunction over the readers.               *)
(***************************************************************************)

ThreadInv(r) ==
  /\ r \in registered <=> pc[r] \notin {"none", "dead"}
  /\ r \in callback_map =>
       \/ pc[r] \in {"set", "waiting", "timedout", "destroying"}
       \/ pc[r] = "idle" /\ reader_quit[r]
  /\ pc[r] = "none" => count_map[r] = Unread /\ ~event[r] /\ tasks[r] = 0
  /\ pc[r] \in {"timedout", "drain"} => r \in SyncReaders
  /\ reader_quit[r] => quiting
  /\ r \in callback_map /\ pc[r] # "set" /\ ~quiting =>
       AtLeast(buffer_queue, reader_count[r]) = {}
  /\ pc[r] \in {"set", "waiting", "timedout"} =>
       r \in callback_map \/ event[r] \/ tasks[r] > 0
  /\ pc[r] = "drain" => event[r]
  /\ r \in SyncReaders => tasks[r] = 0
  /\ r \in AsyncReaders => ~event[r]
  /\ ~reader_quit[r] =>
       /\ pc[r] \in {"idle", "checked"} => ~event[r] /\ tasks[r] = 0
       /\ r \in callback_map => ~event[r] /\ tasks[r] = 0
       /\ tasks[r] <= 1

\* The invariant says of each reader's thread what ThreadInv says of it.
LEMMA ThreadInvNow ==
  ASSUME IInv, NEW r \in Readers PROVE ThreadInv(r)
BY DEF IInv, Membership, NoMissedWakeup, Wakeable, NoStaleSignal, ThreadInv

\* A step of reader r that leaves the other readers alone, and at most takes
\* bulks out of the queue, keeps these parts if it keeps r's own.
LEMMA OneReader ==
  ASSUME IInv, TypeOK', NEW r \in Readers, ThreadInv(r)',
         quiting' = quiting, buffer_queue' \subseteq buffer_queue,
         \A x \in Readers : x # r =>
           /\ pc'[x] = pc[x] /\ event'[x] = event[x] /\ tasks'[x] = tasks[x]
           /\ reader_quit'[x] = reader_quit[x]
           /\ x \in callback_map' <=> x \in callback_map
           /\ x \in registered' <=> x \in registered
           /\ count_map'[x] = count_map[x] /\ reader_count'[x] = reader_count[x]
  PROVE  Membership' /\ NoMissedWakeup' /\ Wakeable' /\ NoStaleSignal'
<1>1. ASSUME NEW x \in Readers PROVE ThreadInv(x)'
  <2>1. CASE x = r
    BY <2>1
  <2>2. CASE x # r
    <3>1. ThreadInv(x)
      BY ThreadInvNow
    <3>2. /\ pc'[x] = pc[x] /\ event'[x] = event[x] /\ tasks'[x] = tasks[x]
          /\ reader_quit'[x] = reader_quit[x]
          /\ x \in callback_map' <=> x \in callback_map
          /\ x \in registered' <=> x \in registered
          /\ count_map'[x] = count_map[x] /\ reader_count'[x] = reader_count[x]
      BY <2>2
    <3>3. AtLeast(buffer_queue, reader_count[x]) = {} =>
            AtLeast(buffer_queue', reader_count'[x]) = {}
      BY <3>2 DEF AtLeast
    <3> QED BY <3>1, <3>2, <3>3 DEF ThreadInv
  <2> QED BY <2>1, <2>2
<1>2. callback_map' \subseteq Readers
  BY DEF TypeOK
<1>3. Membership'
  BY <1>1, <1>2 DEF Membership, ThreadInv
<1>4. NoMissedWakeup'
  BY <1>1, <1>2 DEF NoMissedWakeup, ThreadInv
<1>5. Wakeable'
  BY <1>1 DEF Wakeable, ThreadInv
<1>6. NoStaleSignal'
  BY <1>1 DEF NoStaleSignal, ThreadInv
<1> QED BY <1>3, <1>4, <1>5, <1>6

\* A step that moves no position and no bulk keeps the other parts.
LEMMA PositionsStay ==
  ASSUME IInv,
         UNCHANGED <<count, buffer_queue, registered, count_map, reader_min, reader_max,
                     reader_count, recycled, base>>
  PROVE  AsksAhead' /\ RangeIsExact' /\ NothingReleasedEarly' /\ QueueIsTail'
BY DEF IInv, AsksAhead, RangeIsExact, NothingReleasedEarly, QueueIsTail

\* The queue as constructed, with the readers it begins with.
LEMMA InitIInv == Init => IInv
<1> SUFFICES ASSUME Init PROVE IInv
  OBVIOUS
<1>1. TypeOK
  <2>1. quiting \in BOOLEAN /\ crashed \in BOOLEAN /\ quit_pc \in {"no", "set", "done"}
    BY Zenon DEF Init
  <2>2. count \in Nat /\ reader_min \in Int /\ reader_max \in Int
    BY DEF Init, Unread
  <2>3. buffer_queue = {} /\ recycled = {} /\ callback_map = {} /\ registered = {}
    BY DEF Init
  <2>4. /\ count_map \in [Readers -> Int]
        /\ \A r \in Readers : count_map[r] >= Unread /\ count_map[r] < count
        /\ reader_count \in [Readers -> Nat] /\ temp_count \in [Readers -> Int]
        /\ event \in [Readers -> BOOLEAN] /\ reader_quit \in [Readers -> BOOLEAN]
        /\ tasks \in [Readers -> Nat] /\ owed \in [Readers -> BOOLEAN]
    BY DEF Init, Unread
  <2>5. pc \in [Readers -> PCs]
    BY DEF Init, PCs
  <2>6. /\ passed \in [Readers -> SUBSET Nat] /\ base \in [Readers -> Nat]
        /\ got \in [Readers -> Seq(Int)]
    BY DEF Init
  <2> QED BY <2>1, <2>2, <2>3, <2>4, <2>5, <2>6 DEF TypeOK
<1>2. Membership
  BY DEF Init, Membership
<1>3. AsksAhead /\ RangeIsExact /\ NothingReleasedEarly /\ QueueIsTail
  BY DEF Init, AsksAhead, RangeIsExact, NothingReleasedEarly, QueueIsTail, Unread
<1>4. NoMissedWakeup /\ Wakeable /\ NoStaleSignal
  BY DEF Init, NoMissedWakeup, Wakeable, NoStaleSignal
<1> QED BY <1>1, <1>2, <1>3, <1>4 DEF IInv

\* The steps of a reader's thread that touch neither queue nor positions.
LEMMA QuietStep ==
  ASSUME IInv, NEW r \in Readers, TypeOK', ThreadInv(r)',
         UNCHANGED <<quiting, count, buffer_queue, registered, count_map, reader_min,
                     reader_max, reader_count, recycled, base>>,
         \A x \in Readers : x # r =>
           /\ pc'[x] = pc[x] /\ event'[x] = event[x] /\ tasks'[x] = tasks[x]
           /\ reader_quit'[x] = reader_quit[x]
           /\ x \in callback_map' <=> x \in callback_map
  PROVE  IInv'
<1>1. AsksAhead' /\ RangeIsExact' /\ NothingReleasedEarly' /\ QueueIsTail'
  BY PositionsStay
<1>2. Membership' /\ NoMissedWakeup' /\ Wakeable' /\ NoStaleSignal'
  <2>1. \A x \in Readers : x # r =>
          /\ pc'[x] = pc[x] /\ event'[x] = event[x] /\ tasks'[x] = tasks[x]
          /\ reader_quit'[x] = reader_quit[x]
          /\ x \in callback_map' <=> x \in callback_map
          /\ x \in registered' <=> x \in registered
          /\ count_map'[x] = count_map[x] /\ reader_count'[x] = reader_count[x]
    OBVIOUS
  <2>2. quiting' = quiting /\ buffer_queue' \subseteq buffer_queue
    OBVIOUS
  <2> QED BY <2>1, <2>2, OneReader
<1> QED BY <1>1, <1>2 DEF IInv

\* CheckReady finds nothing; the window before SetReadyCallback opens.
LEMMA KeptByWaitNotReady ==
  ASSUME IInv, NEW r \in Readers, WaitNotReady(r) PROVE IInv'
<1> USE DEF WaitNotReady, MayWait, Goto, queueVars, readerVars, histVars
<1>1. TypeOK /\ ThreadInv(r)
  BY ThreadInvNow DEF IInv
<1>2. TypeOK'
  BY <1>1 DEF TypeOK, PCs
<1>3. pc'[r] = "checked" /\ \A x \in Readers : x # r => pc'[x] = pc[x]
  BY <1>1 DEF TypeOK
<1>4. ThreadInv(r)'
  BY <1>1, <1>3 DEF ThreadInv
<1> QED BY <1>2, <1>3, <1>4, QuietStep

\* The reader enters the callback map.
LEMMA KeptBySetReadyCallback ==
  ASSUME IInv, NEW r \in Readers, SetReadyCallback(r) PROVE IInv'
<1> USE DEF SetReadyCallback, Goto, queueVars, readerVars, histVars
<1>1. TypeOK /\ ThreadInv(r)
  BY ThreadInvNow DEF IInv
<1>2. TypeOK'
  BY <1>1 DEF TypeOK, PCs
<1>3. pc'[r] = "set" /\ \A x \in Readers : x # r => pc'[x] = pc[x]
  BY <1>1 DEF TypeOK
<1>4. ThreadInv(r)'
  BY <1>1, <1>3 DEF ThreadInv
<1> QED BY <1>2, <1>3, <1>4, QuietStep

\* The woken thread takes the bulk it was handed, or sees the quit.
LEMMA KeptByWaitReturn ==
  ASSUME IInv, NEW r \in Readers, WaitReturn(r) PROVE IInv'
<1> USE DEF WaitReturn, Goto, queueVars, readerVars
<1>1. TypeOK /\ ThreadInv(r)
  BY ThreadInvNow DEF IInv
<1>2. got' \in [Readers -> Seq(Int)]
  BY <1>1 DEF TypeOK
<1>3. TypeOK'
  BY <1>1, <1>2 DEF TypeOK, PCs
<1>4. /\ pc'[r] = "idle" /\ event'[r] = FALSE
      /\ \A x \in Readers : x # r => pc'[x] = pc[x] /\ event'[x] = event[x]
  BY <1>1 DEF TypeOK
<1>5. ThreadInv(r)'
  BY <1>1, <1>4 DEF ThreadInv
<1> QED BY <1>3, <1>4, <1>5, QuietStep

\* The timed wait ends; the reader is still in the callback map.
LEMMA KeptByWaitTimeout ==
  ASSUME IInv, NEW r \in Readers, WaitTimeout(r) PROVE IInv'
<1> USE DEF WaitTimeout, Goto, queueVars, readerVars, histVars
<1>1. TypeOK /\ ThreadInv(r) /\ r \in SyncReaders
  BY ThreadInvNow, ReadersAssumption DEF IInv
<1>2. TypeOK'
  BY <1>1 DEF TypeOK, PCs
<1>3. pc'[r] = "timedout" /\ \A x \in Readers : x # r => pc'[x] = pc[x]
  BY <1>1 DEF TypeOK
<1>4. ThreadInv(r)'
  BY <1>1, <1>3 DEF ThreadInv
<1> QED BY <1>2, <1>3, <1>4, QuietStep

\* The callback is cancelled, or a late signal taken back.
LEMMA KeptByCancelCallback ==
  ASSUME IInv, NEW r \in Readers, CancelCallback(r) PROVE IInv'
<1> USE DEF CancelCallback, Goto, queueVars, readerVars, histVars
<1>1. TypeOK /\ ThreadInv(r)
  BY ThreadInvNow DEF IInv
<1>2. TypeOK'
  BY <1>1 DEF TypeOK, PCs
<1>3. /\ pc'[r] = IF r \in callback_map THEN "idle" ELSE "drain"
      /\ r \notin callback_map'
      /\ \A x \in Readers : x # r => pc'[x] = pc[x]
  BY <1>1 DEF TypeOK
<1>4. ThreadInv(r)'
  <2>1. CASE r \in callback_map
    BY <1>1, <1>3, <2>1 DEF ThreadInv
  <2>2. CASE r \notin callback_map
    <3>1. r \in SyncReaders /\ tasks[r] = 0
      BY <1>1 DEF ThreadInv
    <3>2. event[r]
      BY <1>1, <2>2, <3>1 DEF ThreadInv
    <3>3. r \notin AsyncReaders
      BY <3>1, ReadersAssumption
    <3> QED BY <1>1, <1>3, <2>2, <3>1, <3>2, <3>3 DEF ThreadInv
  <2> QED BY <2>1, <2>2
<1> QED BY <1>2, <1>3, <1>4, QuietStep

\* The posted task runs the user's callback.
LEMMA KeptByCallHaveData ==
  ASSUME IInv, NEW r \in Readers, CallHaveData(r) PROVE IInv'
<1> USE DEF CallHaveData, Goto, queueVars, readerVars
<1>1. TypeOK /\ ThreadInv(r) /\ r \notin SyncReaders
  BY ThreadInvNow, ReadersAssumption DEF IInv
<1>2. got' \in [Readers -> Seq(Int)] /\ tasks[r] \in Nat /\ tasks[r] > 0
  BY <1>1 DEF TypeOK
<1>3. tasks' \in [Readers -> Nat] /\ owed' \in [Readers -> BOOLEAN]
  <2>1. tasks[r] - 1 \in Nat
    BY <1>2
  <2> QED BY <1>1, <2>1 DEF TypeOK
<1>4. TypeOK'
  BY <1>1, <1>2, <1>3 DEF TypeOK, PCs
<1>5. /\ pc'[r] = "idle" /\ tasks'[r] = tasks[r] - 1
      /\ \A x \in Readers : x # r => pc'[x] = pc[x] /\ tasks'[x] = tasks[x]
  BY <1>1 DEF TypeOK
<1>6. ThreadInv(r)'
  <2>1. ~reader_quit[r] => tasks'[r] = 0 /\ r \notin callback_map /\ ~event[r]
    BY <1>1, <1>2, <1>5 DEF ThreadInv
  <2> QED BY <1>1, <1>5, <2>1 DEF ThreadInv
<1> QED BY <1>4, <1>5, <1>6, QuietStep

\* The user takes the result and may ask again.
LEMMA KeptByGetResult ==
  ASSUME IInv, NEW r \in Readers, GetResult(r) PROVE IInv'
<1> USE DEF GetResult, queueVars, readerVars
<1>1. TypeOK /\ ThreadInv(r)
  BY ThreadInvNow DEF IInv
<1>2. got' \in [Readers -> Seq(Int)]
  BY <1>1 DEF TypeOK
<1>3. TypeOK'
  BY <1>1, <1>2 DEF TypeOK
<1>4. ThreadInv(r)'
  BY <1>1 DEF ThreadInv
<1> QED BY <1>3, <1>4, QuietStep

\* ~Reader has ended, ~ReaderBase begins.
LEMMA KeptByDestroyReader ==
  ASSUME IInv, NEW r \in Readers, DestroyReader(r) PROVE IInv'
<1> USE DEF DestroyReader, Goto, queueVars, readerVars, histVars
<1>1. TypeOK /\ ThreadInv(r)
  BY ThreadInvNow DEF IInv
<1>2. TypeOK'
  BY <1>1 DEF TypeOK, PCs
<1>3. /\ pc[r] \in {"idle", "waiting"} /\ pc'[r] = "destroying"
      /\ \A x \in Readers : x # r => pc'[x] = pc[x]
  BY <1>1 DEF TypeOK
<1>4. ThreadInv(r)'
  BY <1>1, <1>3 DEF ThreadInv
<1> QED BY <1>2, <1>3, <1>4, QuietStep

\* ~ReaderBase cancels the callback.
LEMMA KeptByDestroyCancel ==
  ASSUME IInv, NEW r \in Readers, DestroyCancel(r) PROVE IInv'
<1> USE DEF DestroyCancel, Goto, queueVars, readerVars, histVars
<1>1. TypeOK /\ ThreadInv(r)
  BY ThreadInvNow DEF IInv
<1>2. TypeOK'
  BY <1>1 DEF TypeOK, PCs
<1>3. pc'[r] = "leaving" /\ \A x \in Readers : x # r => pc'[x] = pc[x]
  BY <1>1 DEF TypeOK
<1>4. ThreadInv(r)'
  BY <1>1, <1>3 DEF ThreadInv
<1> QED BY <1>2, <1>3, <1>4, QuietStep

(***************************************************************************)
(* The steps that move positions or bulks.                                  *)
(***************************************************************************)

\* A reader asks for a later bulk than the next one.
LEMMA KeptBySkip ==
  ASSUME IInv, NEW r \in Readers, NEW n \in Skips, Skip(r, n) PROVE IInv'
<1> USE DEF Skip, queueVars
<1>1. /\ TypeOK /\ AsksAhead /\ RangeIsExact /\ NothingReleasedEarly /\ QueueIsTail
      /\ ThreadInv(r)
  BY ThreadInvNow DEF IInv
<1>2. n \in Nat /\ reader_count[r] \in Nat
  BY <1>1, ParametersAssumption DEF TypeOK
<1>3. reader_count' \in [Readers -> Nat] /\ passed' \in [Readers -> SUBSET Nat]
  <2>1. reader_count[r] + n \in Nat
    BY <1>2
  <2>2. \A c \in reader_count[r] .. reader_count[r] + n - 1 : c \in Nat
    BY <1>2
  <2>3. passed[r] \cup (reader_count[r] .. reader_count[r] + n - 1) \in SUBSET Nat
    BY <1>1, <2>2 DEF TypeOK
  <2>4. reader_count \in [Readers -> Nat] /\ passed \in [Readers -> SUBSET Nat]
    BY <1>1 DEF TypeOK
  <2> QED BY <2>1, <2>3, <2>4
<1>4. TypeOK'
  BY <1>1, <1>3 DEF TypeOK
<1>5. /\ reader_count'[r] = reader_count[r] + n
      /\ \A x \in Readers : x # r => reader_count'[x] = reader_count[x]
  BY <1>1 DEF TypeOK
<1>6. AsksAhead'
  <2> SUFFICES ASSUME NEW x \in Readers PROVE count_map[x] < reader_count'[x]
    BY DEF AsksAhead
  <2>1. /\ count_map[x] < reader_count[x] /\ count_map[x] \in Int
        /\ reader_count[x] \in Nat
    BY <1>1 DEF AsksAhead, TypeOK
  <2> QED BY <1>2, <1>5, <2>1
<1>7. RangeIsExact' /\ NothingReleasedEarly' /\ QueueIsTail'
  BY <1>1 DEF RangeIsExact, NothingReleasedEarly, QueueIsTail
<1>8. AtLeast(buffer_queue, reader_count[r]) = {} =>
        AtLeast(buffer_queue', reader_count'[r]) = {}
  <2> SUFFICES ASSUME NEW c \in buffer_queue, c >= reader_count[r] + n
               PROVE  c >= reader_count[r]
    BY <1>5 DEF AtLeast
  <2>1. c \in Int
    BY <1>1 DEF TypeOK
  <2> QED BY <1>2, <2>1
<1>9. ThreadInv(r)'
  BY <1>1, <1>8 DEF ThreadInv
<1>10. Membership' /\ NoMissedWakeup' /\ Wakeable' /\ NoStaleSignal'
  BY <1>4, <1>5, <1>9, OneReader
<1> QED BY <1>4, <1>6, <1>7, <1>10 DEF IInv

\* A new reader starts at the oldest bulk or at the next one.
LEMMA KeptByRegisterReader ==
  ASSUME IInv, NEW r \in Readers, RegisterReader(r) PROVE IInv'
<1> USE DEF RegisterReader, Goto, readerVars
<1>1. /\ TypeOK /\ AsksAhead /\ RangeIsExact /\ NothingReleasedEarly /\ QueueIsTail
      /\ ThreadInv(r)
  BY ThreadInvNow DEF IInv
<1>2. /\ r \notin registered /\ r \notin callback_map /\ ~event[r] /\ tasks[r] = 0
      /\ count_map[r] = Unread /\ count \in Nat /\ Unread \in Int
  BY <1>1 DEF ThreadInv, TypeOK, Unread
<1>3. ASSUME NEW c \in buffer_queue PROVE c \in Nat /\ c < count
  BY <1>1 DEF TypeOK
<1>4. /\ base'[r] \in Nat /\ base'[r] <= count
      /\ \A c \in buffer_queue : base'[r] <= c
      /\ \A c \in base'[r] .. count - 1 : c \in buffer_queue \cup recycled
  <2>1. base'[r] = IF buffer_queue = {} THEN count ELSE Min(buffer_queue)
    BY <1>1 DEF TypeOK
  <2>2. CASE buffer_queue = {}
    BY <1>2, <2>1, <2>2
  <2>3. CASE buffer_queue # {}
    <3>1. buffer_queue \subseteq Int /\ \A c \in buffer_queue : 0 <= c
      BY <1>3
    <3>2. 0 \in Int
      OBVIOUS
    <3>3. Min(buffer_queue) \in buffer_queue /\ \A c \in buffer_queue : Min(buffer_queue) <= c
      BY <2>3, <3>1, <3>2, MinExists
    <3>4. base'[r] \in buffer_queue /\ \A c \in buffer_queue : base'[r] <= c
      BY <2>1, <2>3, <3>3
    <3>5. \A c \in base'[r] .. count - 1 : c \in buffer_queue \cup recycled
      BY <1>1, <3>4 DEF QueueIsTail
    <3> QED BY <1>2, <1>3, <3>4, <3>5
  <2> QED BY <2>2, <2>3
<1>5. /\ base' \in [Readers -> Nat]
      /\ \A x \in Readers : x # r => base'[x] = base[x]
  <2>1. base \in [Readers -> Nat]
    BY <1>1 DEF TypeOK
  <2> QED BY <1>4, <2>1
<1>6. reader_min' \in Int /\ reader_max' \in Int /\ RangeIsExact'
  <2> DEFINE lasts == {count_map[x] : x \in registered \cup {r}}
  <2>1. lasts \subseteq Int /\ Unread \in lasts /\ \A x \in lasts : Unread <= x
    BY <1>1, <1>2 DEF TypeOK
  <2>2. Min(lasts) = Unread
    <3> HIDE DEF lasts
    <3> QED BY <2>1, MinUnique
  <2>3. CASE registered = {}
    <3>1. \A x \in lasts : x <= Unread
      BY <1>2, <2>3
    <3>2. Max(lasts) = Unread
      <4> HIDE DEF lasts
      <4> QED BY <2>1, <3>1, MaxUnique
    <3>3. reader_min' = Unread /\ reader_max' = Unread
      BY <2>3
    <3> QED BY <1>2, <2>2, <3>2, <3>3 DEF RangeIsExact
  <2>4. CASE registered # {}
    <3>1. /\ reader_min \in Int /\ reader_max \in Int
          /\ \E x \in registered : reader_min = count_map[x]
          /\ \E x \in registered : reader_max = count_map[x]
          /\ \A x \in registered : count_map[x] <= reader_max
      BY <1>1, <2>4, RangeBounds DEF TypeOK
    <3>2. reader_min >= Unread /\ reader_max >= Unread
      BY <1>1, <3>1 DEF TypeOK
    <3>3. Min({Unread, reader_min}) = Unread
      <4>1. {Unread, reader_min} \subseteq Int /\ Unread \in {Unread, reader_min}
            /\ \A x \in {Unread, reader_min} : Unread <= x
        BY <1>2, <3>1, <3>2
      <4> QED BY <4>1, MinUnique
    <3>4. Max({Unread, reader_max}) = reader_max
      <4>1. {Unread, reader_max} \subseteq Int /\ reader_max \in {Unread, reader_max}
            /\ \A x \in {Unread, reader_max} : x <= reader_max
        BY <1>2, <3>1, <3>2
      <4> QED BY <4>1, MaxUnique
    <3>5. reader_max \in lasts /\ \A x \in lasts : x <= reader_max
      BY <1>2, <3>1, <3>2
    <3>6. Max(lasts) = reader_max
      <4> HIDE DEF lasts
      <4> QED BY <2>1, <3>5, MaxUnique
    <3>7. reader_min' = Unread /\ reader_max' = reader_max
      BY <2>4, <3>3, <3>4
    <3> QED BY <1>2, <2>2, <3>1, <3>6, <3>7 DEF RangeIsExact
  <2> QED BY <2>3, <2>4
<1>7. TypeOK'
  BY <1>1, <1>5, <1>6 DEF TypeOK, PCs
<1>8. NothingReleasedEarly'
  <2> SUFFICES ASSUME NEW x \in registered \cup {r}, NEW c \in base'[x] .. count - 1,
                      c > count_map[x]
               PROVE  c \in buffer_queue \cup recycled
    BY DEF NothingReleasedEarly
  <2>1. CASE x = r
    BY <1>4, <2>1
  <2>2. CASE x # r
    <3>1. x \in registered /\ base'[x] = base[x]
      BY <1>1, <1>5, <2>2 DEF TypeOK
    <3> QED BY <1>1, <3>1 DEF NothingReleasedEarly
  <2> QED BY <2>1, <2>2
<1>9. QueueIsTail'
  <2>1. ASSUME NEW x \in registered \cup {r}
        PROVE  base'[x] <= count /\ \A c \in buffer_queue : base'[x] <= c
    <3>1. CASE x = r
      BY <1>4, <3>1
    <3>2. CASE x # r
      <4>1. x \in registered /\ base'[x] = base[x]
        BY <1>1, <1>5, <3>2 DEF TypeOK
      <4> QED BY <1>1, <4>1 DEF QueueIsTail
    <3> QED BY <3>1, <3>2
  <2> QED BY <1>1, <2>1 DEF QueueIsTail
<1>10. AsksAhead'
  BY <1>1 DEF AsksAhead
<1>11. pc'[r] = "idle" /\ \A x \in Readers : x # r => pc'[x] = pc[x]
  BY <1>1 DEF TypeOK
<1>12. ThreadInv(r)'
  BY <1>1, <1>2, <1>11 DEF ThreadInv
<1>13. Membership' /\ NoMissedWakeup' /\ Wakeable' /\ NoStaleSignal'
  BY <1>7, <1>11, <1>12, OneReader
<1> QED BY <1>6, <1>7, <1>8, <1>9, <1>10, <1>13 DEF IInv

\* The slowest reader may leave, and bulks with it.
LEMMA KeptByUnRegisterReader ==
  ASSUME IInv, NEW r \in Readers, UnRegisterReader(r) PROVE IInv'
<1> DEFINE left == registered \ {r}
           lasts == {count_map[x] : x \in left}
<1>1. /\ TypeOK /\ AsksAhead /\ NothingReleasedEarly /\ QueueIsTail /\ ThreadInv(r)
  BY ThreadInvNow DEF IInv
<1>2. /\ pc[r] = "leaving" /\ pc' = [pc EXCEPT ![r] = "dead"]
      /\ registered' = left
      /\ reader_min' = IF left = {} THEN reader_min ELSE Min(lasts)
      /\ reader_max' = IF left = {} THEN reader_max ELSE Max(lasts)
      /\ UNCHANGED <<quiting, count, buffer_queue, callback_map, count_map, reader_count,
                     temp_count, event, reader_quit, tasks, owed, quit_pc, crashed,
                     recycled, passed, base, got>>
  BY DEF UnRegisterReader, Goto, readerVars, histVars
<1>3. reader_min' \in Int /\ reader_max' \in Int
  <2>1. CASE left = {}
    BY <1>1, <1>2, <2>1 DEF TypeOK
  <2>2. CASE left # {}
    <3>2. Unread \in Int /\ count \in Int
      BY <1>1 DEF TypeOK, Unread
    <3>5. /\ \A x \in left : count_map[x] \in Int
          /\ \A x \in left : Unread <= count_map[x] /\ count_map[x] < count
      <4>1. left \subseteq Readers
        BY <1>1 DEF TypeOK
      <4>2. \A x \in Readers : count_map[x] \in Int
        BY <1>1 DEF TypeOK
      <4>3. \A x \in Readers : count_map[x] >= Unread /\ count_map[x] < count
        BY <1>1 DEF TypeOK
      <4> HIDE DEF left
      <4> QED BY <3>2, <4>1, <4>2, <4>3
    <3>1. /\ lasts \subseteq Int /\ lasts # {}
          /\ \A x \in lasts : Unread <= x /\ x <= count
      <4> HIDE DEF left
      <4> QED BY <2>2, <3>2, <3>5
    <3>3. Min(lasts) \in lasts /\ Max(lasts) \in lasts
      <4> HIDE DEF lasts
      <4> QED BY <3>1, <3>2, MinExists, MaxExists
    <3>4. reader_min' \in lasts /\ reader_max' \in lasts
      BY <1>2, <2>2, <3>3
    <3> QED BY <3>1, <3>4
  <2> QED BY <2>1, <2>2
<1>4. RangeIsExact'
  BY <1>2 DEF RangeIsExact
<1>5. TypeOK'
  BY <1>1, <1>2, <1>3 DEF TypeOK, PCs
<1>6. AsksAhead' /\ NothingReleasedEarly' /\ QueueIsTail'
  BY <1>1, <1>2 DEF AsksAhead, NothingReleasedEarly, QueueIsTail
<1>7. pc'[r] = "dead" /\ \A x \in Readers : x # r => pc'[x] = pc[x]
  BY <1>1, <1>2 DEF TypeOK
<1>8. ThreadInv(r)'
  BY <1>1, <1>2, <1>7 DEF ThreadInv
<1>9. Membership' /\ NoMissedWakeup' /\ Wakeable' /\ NoStaleSignal'
  BY <1>2, <1>5, <1>7, <1>8, OneReader
<1> QED BY <1>4, <1>5, <1>6, <1>9 DEF IInv

\* A bulk that is there is taken at once, whoever takes it and whenever its
\* caller is given it.
LEMMA ReadyKeeps ==
  ASSUME IInv, NEW r \in Readers, pc[r] = "idle", ~reader_quit[r],
         AtLeast(buffer_queue, reader_count[r]) # {},
         GetBulk({r}, buffer_queue),
         buffer_queue' = MayReleaseBuffer(buffer_queue, reader_min'),
         \/ r \in SyncReaders /\ pc' = pc /\ tasks' = tasks
         \/ /\ r \notin SyncReaders
            /\ tasks' = [tasks EXCEPT ![r] = @ + 1]
            /\ pc' = [pc EXCEPT ![r] = "waiting"],
         UNCHANGED <<quiting, count, callback_map, registered, event, reader_quit,
                     quit_pc, crashed, recycled, passed, base>>,
         owed' \in [Readers -> BOOLEAN],
         got' = got \/ got' = [got EXCEPT ![r] = Append(@, temp_count'[r])]
  PROVE  IInv'
<1>1. /\ TypeOK /\ AsksAhead /\ RangeIsExact /\ ThreadInv(r)
      /\ Serves(buffer_queue, count)
  BY ThreadInvNow, ServesNow DEF IInv
<1>2. /\ pc[r] = "idle" /\ ~reader_quit[r]
      /\ AtLeast(buffer_queue, reader_count[r]) # {}
      /\ GetBulk({r}, buffer_queue)
      /\ buffer_queue' = MayReleaseBuffer(buffer_queue, reader_min')
      /\ \/ r \in SyncReaders /\ pc' = pc /\ tasks' = tasks
         \/ /\ r \notin SyncReaders
            /\ tasks' = [tasks EXCEPT ![r] = @ + 1]
            /\ pc' = [pc EXCEPT ![r] = "waiting"]
      /\ UNCHANGED <<quiting, count, callback_map, registered, event, reader_quit,
                     quit_pc, crashed, recycled, passed, base>>
  OBVIOUS
<1>3. r \in registered /\ r \notin callback_map /\ ~event[r] /\ tasks[r] = 0
  BY <1>1, <1>2 DEF ThreadInv
<1>4. \A c \in buffer_queue : c \in Nat /\ c < count
  BY <1>1 DEF Serves
<1>5. buffer_queue \in SUBSET (0 .. count)
  <2>1. count \in Nat
    BY <1>1 DEF TypeOK
  <2> QED BY <1>4, <2>1
<1>6. /\ count_map' \in [Readers -> Int]
      /\ reader_count' \in [Readers -> Nat]
      /\ temp_count' \in [Readers -> Int]
      /\ reader_min' \in Int /\ reader_max' \in Int
      /\ count_map'[r] \in buffer_queue /\ count_map'[r] >= reader_count[r]
      /\ reader_count'[r] = count_map'[r] + 1
      /\ \A x \in Readers \ {r} : count_map'[x] = count_map[x] /\ reader_count'[x] = reader_count[x]
      /\ \A x \in registered : reader_min' <= count_map'[x]
      /\ registered # {} =>
           LET lasts == {count_map'[x] : x \in registered}
           IN  reader_min' = Min(lasts) /\ reader_max' = Max(lasts)
  <2>1. {r} \in SUBSET registered /\ \A x \in {r} : AtLeast(buffer_queue, reader_count[x]) # {}
    BY <1>2, <1>3
  <2>2. GetBulk({r}, buffer_queue)
    BY <1>2
  <2> QED BY <1>1, <1>5, <2>1, <2>2, GetBulkFacts
<1>7. Trims(buffer_queue, buffer_queue', reader_min')
  <2>1. \A c \in buffer_queue : c \in Int
    BY <1>4
  <2>2. Trims(buffer_queue, MayReleaseBuffer(buffer_queue, reader_min'), reader_min')
    BY <1>6, <2>1, ReleaseTrims
  <2> QED BY <1>2, <2>2
<1>8. /\ count' \in Nat
      /\ buffer_queue' \in SUBSET (0 .. count' - 1)
      /\ recycled' \in SUBSET (0 .. count' - 1)
      /\ \A x \in Readers : count_map'[x] >= Unread /\ count_map'[x] < count'
      /\ AsksAhead' /\ NothingReleasedEarly' /\ QueueIsTail'
  <2>1. count' \in {count, count + 1} /\ Serves(buffer_queue, count')
    BY <1>1, <1>2
  <2>2. \A x \in Readers : count_map'[x] \in Int /\ reader_count'[x] \in Nat
    BY <1>6
  <2>3. \A x \in Readers :
          \/ count_map'[x] = count_map[x] /\ reader_count'[x] = reader_count[x]
          \/ /\ count_map'[x] \in buffer_queue /\ count_map'[x] >= reader_count[x]
             /\ reader_count'[x] = count_map'[x] + 1
    BY <1>6
  <2>4. UNCHANGED <<registered, recycled, base>>
    BY <1>2
  <2> QED BY <1>6, <1>7, <2>1, <2>2, <2>3, <2>4, PositionsKept
<1>9. RangeIsExact'
  BY <1>2, <1>6 DEF RangeIsExact
<1>10. got' \in [Readers -> Seq(Int)]
  <2>1. temp_count'[r] \in Int
    BY <1>6
  <2>2. got \in [Readers -> Seq(Int)]
    BY <1>1 DEF TypeOK
  <2>3. CASE got' = got
    BY <2>2, <2>3
  <2>4. CASE got' = [got EXCEPT ![r] = Append(@, temp_count'[r])]
    BY <2>1, <2>2, <2>4
  <2> QED BY <2>3, <2>4
<1>11. /\ pc' \in [Readers -> PCs] /\ tasks' \in [Readers -> Nat]
       /\ \A x \in Readers : x # r => pc'[x] = pc[x] /\ tasks'[x] = tasks[x]
       /\ r \in SyncReaders => pc'[r] = "idle" /\ tasks'[r] = 0
       /\ r \notin SyncReaders => pc'[r] = "waiting" /\ tasks'[r] = 1
  <2>1. pc \in [Readers -> PCs] /\ tasks \in [Readers -> Nat] /\ "waiting" \in PCs
    BY <1>1 DEF TypeOK, PCs
  <2> QED BY <1>2, <1>3, <2>1
<1>12. TypeOK'
  BY <1>1, <1>2, <1>6, <1>8, <1>10, <1>11 DEF TypeOK
<1>13. ThreadInv(r)'
  BY <1>1, <1>2, <1>3, <1>11 DEF ThreadInv
<1>14. Membership' /\ NoMissedWakeup' /\ Wakeable' /\ NoStaleSignal'
  <2>1. quiting' = quiting /\ buffer_queue' \subseteq buffer_queue
    BY <1>2, <1>7 DEF Trims
  <2>2. \A x \in Readers : x # r =>
          /\ pc'[x] = pc[x] /\ event'[x] = event[x] /\ tasks'[x] = tasks[x]
          /\ reader_quit'[x] = reader_quit[x]
          /\ x \in callback_map' <=> x \in callback_map
          /\ x \in registered' <=> x \in registered
          /\ count_map'[x] = count_map[x] /\ reader_count'[x] = reader_count[x]
    BY <1>2, <1>6, <1>11
  <2> QED BY <1>12, <1>13, <2>1, <2>2, OneReader
<1> QED BY <1>8, <1>9, <1>12, <1>14 DEF IInv

\* A bulk is there and is handed over in the same critical section.
LEMMA KeptByWaitReady ==
  ASSUME IInv, NEW r \in Readers, WaitReady(r) PROVE IInv'
<1>1. owed' \in [Readers -> BOOLEAN]
  BY DEF IInv, TypeOK, WaitReady
<1>2. got' = got \/ got' = [got EXCEPT ![r] = Append(@, temp_count'[r])]
  BY DEF WaitReady
<1>3. \/ r \in SyncReaders /\ pc' = pc /\ tasks' = tasks
      \/ /\ r \notin SyncReaders
         /\ tasks' = [tasks EXCEPT ![r] = @ + 1]
         /\ pc' = [pc EXCEPT ![r] = "waiting"]
  BY DEF WaitReady, Goto
<1> HIDE DEF IInv
<1> QED BY <1>1, <1>2, <1>3, ReadyKeeps DEF WaitReady, MayWait

\* A bulk is overwritten; holes are what recycled records.
LEMMA KeptByRecycleOne ==
  ASSUME IInv, RecycleOne PROVE IInv'
<1> DEFINE m == Min(Recyclable)
<1>1. /\ TypeOK /\ Membership /\ AsksAhead /\ RangeIsExact /\ NothingReleasedEarly
      /\ QueueIsTail /\ NoMissedWakeup /\ Wakeable /\ NoStaleSignal
  BY DEF IInv
<1>2. /\ Recyclable # {}
      /\ buffer_queue' = buffer_queue \ {m} /\ recycled' = recycled \cup {m}
      /\ UNCHANGED <<quiting, count, callback_map, registered, count_map, reader_min,
                     reader_max, reader_count, temp_count, event, reader_quit, tasks, pc,
                     owed, quit_pc, crashed, passed, base, got>>
  BY DEF RecycleOne, readerVars
<1>3. m \in buffer_queue
  <2>1. Recyclable \subseteq buffer_queue
    BY DEF Recyclable
  <2>2. Recyclable \subseteq Int /\ \A c \in Recyclable : 0 <= c
    BY <1>1, <2>1 DEF TypeOK
  <2>3. 0 \in Int
    OBVIOUS
  <2>4. Min(Recyclable) \in Recyclable
    BY <1>2, <2>2, <2>3, MinExists
  <2> QED BY <2>1, <2>4
<1> HIDE DEF m
<1>4. buffer_queue' \cup recycled' = buffer_queue \cup recycled
      /\ buffer_queue' \subseteq buffer_queue
  BY <1>2, <1>3
<1>5. TypeOK'
  <2>1. buffer_queue' \in SUBSET (0 .. count' - 1) /\ recycled' \in SUBSET (0 .. count' - 1)
    BY <1>1, <1>2, <1>3 DEF TypeOK
  <2> QED BY <1>1, <1>2, <2>1 DEF TypeOK
<1>6. Membership' /\ AsksAhead' /\ RangeIsExact' /\ Wakeable' /\ NoStaleSignal'
  BY <1>1, <1>2 DEF Membership, AsksAhead, RangeIsExact, Wakeable, NoStaleSignal
<1>7. NothingReleasedEarly'
  BY <1>1, <1>2, <1>4 DEF NothingReleasedEarly
<1>8. QueueIsTail'
  BY <1>1, <1>2, <1>4 DEF QueueIsTail
<1>9. NoMissedWakeup'
  BY <1>1, <1>2, <1>4 DEF NoMissedWakeup, AtLeast
<1> QED BY <1>5, <1>6, <1>7, <1>8, <1>9 DEF IInv

\* quiting_ is set, nobody told yet.
LEMMA KeptByQuitSet ==
  ASSUME IInv, QuitSet PROVE IInv'
<1> USE DEF QuitSet, queueVars, readerVars, histVars
<1>1. /\ TypeOK /\ Membership /\ Wakeable /\ NoStaleSignal
  BY DEF IInv
<1>2. TypeOK'
  BY <1>1 DEF TypeOK
<1>3. Membership'
  BY <1>1 DEF Membership
<1>4. NoMissedWakeup' /\ Wakeable' /\ NoStaleSignal'
  BY <1>1 DEF NoMissedWakeup, Wakeable, NoStaleSignal
<1>5. AsksAhead' /\ RangeIsExact' /\ NothingReleasedEarly' /\ QueueIsTail'
  BY PositionsStay
<1> QED BY <1>2, <1>3, <1>4, <1>5 DEF IInv

\* A bulk arrives and wakes every reader it is for.
LEMMA KeptByPushBulk ==
  ASSUME IInv, PushBulk PROVE IInv'
<1> DEFINE Q == buffer_queue \cup {count}
<1>1. /\ TypeOK /\ count \in Nat /\ \A c \in buffer_queue : c \in Nat /\ c < count
      /\ Serves(Q, count + 1)
  BY ServesPushed DEF IInv, TypeOK
<1>2. /\ count' = count + 1 /\ FireCallbackNoLock(Q, count)
      /\ buffer_queue' = MayReleaseBuffer(Q, reader_min')
      /\ UNCHANGED <<quiting, registered, pc, owed, quit_pc, recycled, passed, base, got>>
  BY DEF PushBulk, histVars
<1>3. /\ Q \in SUBSET (0 .. count) /\ count \in Q
      /\ \A c \in Q : c \in Int /\ c <= count
  BY <1>1
<1> HIDE DEF Q
<1>4. reader_min' \in Int
  BY <1>2, <1>3, FireFacts
<1>5. Trims(Q, buffer_queue', reader_min')
  BY <1>2, <1>3, <1>4, ReleaseTrims
<1>6. pc' \in [Readers -> PCs] /\ quit_pc' \in {"no", "set", "done"}
  BY <1>1, <1>2 DEF TypeOK
<1>7. Serves(Q, count') /\ count' \in {count, count + 1}
  BY <1>1, <1>2
<1>8. \A r \in Readers : pc'[r] = pc[r] \/ (pc[r] = "set" /\ pc'[r] = "waiting")
  BY <1>2
<1>9. UNCHANGED <<quiting, registered, recycled, passed, base, owed, got>>
  BY <1>2
<1>10. FireCallbackNoLock(Q, count)
  BY <1>2
<1> QED BY <1>3, <1>5, <1>6, <1>7, <1>8, <1>9, <1>10, FireKeeps

\* MayFireCallback on a queue that holds something, whoever calls it.
LEMMA KeptByMayFireCallback ==
  ASSUME IInv, buffer_queue # {}, MayFireCallback,
         UNCHANGED <<quiting, registered, recycled, passed, base, owed, got>>,
         quit_pc' \in {"no", "set", "done"},
         pc' \in [Readers -> PCs],
         \A r \in Readers : pc'[r] = pc[r] \/ (pc[r] = "set" /\ pc'[r] = "waiting")
  PROVE  IInv'
<1> DEFINE reach == Max(buffer_queue)
<1>1. /\ TypeOK /\ count \in Nat /\ \A c \in buffer_queue : c \in Nat /\ c < count
      /\ Serves(buffer_queue, count)
  BY ServesNow DEF IInv, TypeOK
<1>2. reach \in buffer_queue /\ \A c \in buffer_queue : c <= reach
  <2>1. /\ buffer_queue \subseteq Int /\ \A c \in buffer_queue : c <= count
        /\ count \in Int
    BY <1>1
  <2> QED BY <2>1, MaxExists
<1> HIDE DEF reach
<1>3. /\ FireCallbackNoLock(buffer_queue, reach)
      /\ count' = count
      /\ \/ buffer_queue' = buffer_queue
         \/ buffer_queue' = MayReleaseBuffer(buffer_queue, reader_min')
  BY DEF MayFireCallback, reach
<1>4. buffer_queue \in SUBSET (0 .. count)
  BY <1>1
<1>5. reader_min' \in Int
  BY <1>2, <1>3, <1>4, FireFacts
<1>6. Trims(buffer_queue, buffer_queue', reader_min')
  <2>1. CASE buffer_queue' = buffer_queue
    BY <2>1 DEF Trims
  <2>2. CASE buffer_queue' = MayReleaseBuffer(buffer_queue, reader_min')
    <3>1. \A c \in buffer_queue : c \in Int
      BY <1>1
    <3>2. Trims(buffer_queue, MayReleaseBuffer(buffer_queue, reader_min'), reader_min')
      BY <1>5, <3>1, ReleaseTrims
    <3> QED BY <2>2, <3>2
  <2> QED BY <1>3, <2>1, <2>2
<1>7. Serves(buffer_queue, count') /\ count' \in {count, count + 1}
  BY <1>1, <1>3
<1> QED BY <1>2, <1>3, <1>4, <1>6, <1>7, FireKeeps

\* Quit tells everyone, unless the queue is empty.
LEMMA KeptByQuitFire ==
  ASSUME IInv, QuitFire PROVE IInv'
<1>1. /\ TypeOK /\ quit_pc' = "done" /\ MayFireCallback
      /\ UNCHANGED <<quiting, registered, pc, owed, recycled, passed, base, got>>
  BY DEF IInv, QuitFire, histVars
<1>2. CASE buffer_queue = {}
  <2>1. UNCHANGED <<buffer_queue, count, count_map, reader_min, reader_max, reader_count,
                    temp_count, callback_map, event, tasks, reader_quit, crashed>>
    BY <1>1, <1>2 DEF MayFireCallback, queueVars, readerVars
  <2>2. TypeOK'
    BY <1>1, <2>1 DEF TypeOK
  <2>3. AsksAhead' /\ RangeIsExact' /\ NothingReleasedEarly' /\ QueueIsTail'
    BY <1>1, <2>1, PositionsStay
  <2>4. Membership' /\ NoMissedWakeup' /\ Wakeable' /\ NoStaleSignal'
    BY <1>1, <2>1 DEF IInv, Membership, NoMissedWakeup, Wakeable, NoStaleSignal
  <2> QED BY <2>2, <2>3, <2>4 DEF IInv
<1>3. CASE buffer_queue # {}
  <2>1. quit_pc' \in {"no", "set", "done"} /\ pc' \in [Readers -> PCs]
    BY <1>1 DEF TypeOK
  <2>2. \A r \in Readers : pc'[r] = pc[r] \/ (pc[r] = "set" /\ pc'[r] = "waiting")
    BY <1>1
  <2> QED BY <1>1, <1>3, <2>1, <2>2, KeptByMayFireCallback
<1> QED BY <1>2, <1>3

\* The second look of SetReadyCallback.
LEMMA KeptBySetReadyFire ==
  ASSUME IInv, NEW r \in Readers, SetReadyFire(r) PROVE IInv'
<1>1. /\ TypeOK /\ ThreadInv(r)
      /\ pc[r] = "set" /\ pc' = [pc EXCEPT ![r] = "waiting"] /\ MayFireCallback
      /\ UNCHANGED <<quiting, registered, owed, quit_pc, recycled, passed, base, got>>
  BY ThreadInvNow DEF IInv, SetReadyFire, Goto, histVars
<1>2. /\ pc' \in [Readers -> PCs] /\ pc'[r] = "waiting"
      /\ \A x \in Readers : x # r => pc'[x] = pc[x]
      /\ quit_pc' \in {"no", "set", "done"}
  BY <1>1 DEF TypeOK, PCs
<1>3. CASE buffer_queue = {}
  <2>1. UNCHANGED <<buffer_queue, count, count_map, reader_min, reader_max, reader_count,
                    temp_count, callback_map, event, tasks, reader_quit, crashed>>
    BY <1>1, <1>3 DEF MayFireCallback, queueVars, readerVars
  <2>2. TypeOK'
    BY <1>1, <1>2, <2>1 DEF TypeOK
  <2>3. AtLeast(buffer_queue', reader_count'[r]) = {}
    BY <1>3, <2>1 DEF AtLeast
  <2>4. ThreadInv(r)'
    BY <1>1, <1>2, <2>1, <2>3 DEF ThreadInv
  <2> QED BY <1>1, <1>2, <2>1, <2>2, <2>4, QuietStep
<1>4. CASE buffer_queue # {}
  <2>1. \A x \in Readers : pc'[x] = pc[x] \/ (pc[x] = "set" /\ pc'[x] = "waiting")
    BY <1>1, <1>2
  <2> QED BY <1>1, <1>2, <1>4, <2>1, KeptByMayFireCallback
<1> QED BY <1>3, <1>4

\* Nothing happens.
LEMMA KeptByStuttering ==
  ASSUME IInv, UNCHANGED vars PROVE IInv'
<1> USE DEF IInv, vars
<1>1. TypeOK'
  BY DEF TypeOK
<1>2. Membership' /\ Wakeable' /\ NoStaleSignal'
  BY DEF Membership, Wakeable, NoStaleSignal
<1>3. NoMissedWakeup'
  BY DEF NoMissedWakeup, AtLeast
<1>4. AsksAhead' /\ RangeIsExact' /\ NothingReleasedEarly' /\ QueueIsTail'
  BY PositionsStay
<1> QED BY <1>1, <1>2, <1>3, <1>4

\* All of them together.
LEMMA KeptByOwner ==
  ASSUME IInv, OwnerStep PROVE IInv'
BY KeptByPushBulk, KeptByRecycleOne, KeptByQuitSet, KeptByQuitFire DEF OwnerStep

LEMMA KeptByReader ==
  ASSUME IInv, NEW r \in Readers, ReaderStep(r) PROVE IInv'
<1>1. CASE WaitStep(r)
  BY <1>1, KeptByWaitReady, KeptByWaitNotReady, KeptBySetReadyCallback,
     KeptBySetReadyFire, KeptByWaitReturn, KeptByCancelCallback, KeptByCallHaveData,
     KeptByGetResult DEF WaitStep
<1>2. CASE \E n \in Skips : Skip(r, n)
  BY <1>2, KeptBySkip
<1>3. CASE RegisterReader(r) \/ WaitTimeout(r) \/ DestroyReader(r)
           \/ DestroyCancel(r) \/ UnRegisterReader(r)
  BY <1>3, KeptByRegisterReader, KeptByWaitTimeout, KeptByDestroyReader,
     KeptByDestroyCancel, KeptByUnRegisterReader
<1> QED BY <1>1, <1>2, <1>3 DEF ReaderStep

(***************************************************************************)
(* The theorems.                                                            *)
(***************************************************************************)

\* Every critical section of the queue and every step of a reader's thread
\* keeps the inductive invariant, whatever the readers, the way they are used,
\* the overwriting mode and the number of bulks.
THEOREM Invariance == Spec => []IInv
<1>1. Init => IInv
  BY InitIInv
<1>2. IInv /\ [Next]_vars => IInv'
  BY KeptByStuttering, KeptByOwner, KeptByReader DEF Next
<1> QED BY <1>1, <1>2, PTL DEF Spec

\* Type correctness of the queue.
THEOREM TypeCorrect == Spec => []TypeOK
<1>1. IInv => TypeOK
  BY DEF IInv
<1> QED BY <1>1, Invariance, PTL

\* MayReleaseBuffer never gives up the memory of a bulk that a registered
\* reader has still to read.
THEOREM ReleaseIsSafe == Spec => []NothingReleasedEarly
<1>1. IInv => NothingReleasedEarly
  BY DEF IInv
<1> QED BY <1>1, Invariance, PTL

\* reader_min_ and reader_max_ are the ends of the readers' range.
THEOREM RangeCorrect == Spec => []RangeIsExact
<1>1. IInv => RangeIsExact
  BY DEF IInv
<1> QED BY <1>1, Invariance, PTL

\* No bulk is pushed past a registered callback: the second look in
\* SetReadyCallback closes the window after CheckReady.
THEOREM WakeupNotMissed == Spec => []NoMissedWakeup
<1>1. IInv => NoMissedWakeup
  BY DEF IInv
<1> QED BY <1>1, Invariance, PTL

\* A thread asleep in a wait is in the callback map or has been signalled, and
\* a cancelled wait that came too late finds its signal.
THEOREM NobodyStranded == Spec => []NeverStranded
<1>1. IInv => NeverStranded
  BY DEF IInv, Wakeable, NeverStranded
<1> QED BY <1>1, Invariance, PTL

\* A wait starts with the event reset and no posted task left over.
THEOREM SignalsAreFresh == Spec => []NoStaleSignal
<1>1. IInv => NoStaleSignal
  BY DEF IInv
<1> QED BY <1>1, Invariance, PTL

-----------------------------------------------------------------------------
(* BulkQueue implements BulkStream. *)

\* what was overwritten is no longer queued
Gone == buffer_queue \cap recycled = {}

IInvGone == IInv /\ Gone

\* The bulks of the queue that satisfy a reader are those the stream still has
\* for it: nothing it asks for was released, nothing queued was withdrawn.
LEMMA AskedIsAvailable ==
  ASSUME IInv, NEW p \in Nat, NEW Q, Serves(Q, p), Q \cap recycled = {},
         NEW r \in registered
  PROVE  AtLeast(Q, reader_count[r]) = Stream!Available(r, p)
<1>1. /\ base[r] \in Nat /\ count_map[r] \in Int /\ reader_count[r] \in Nat
      /\ count_map[r] < reader_count[r]
  BY DEF IInv, TypeOK, AsksAhead
<1>2. /\ \A c \in Q : c \in Nat /\ c < p /\ base[r] <= c
      /\ \A c \in base[r] .. p - 1 : c > count_map[r] => c \in Q \cup recycled
  BY DEF Serves
<1>3. ASSUME NEW c \in AtLeast(Q, reader_count[r]) PROVE c \in Stream!Available(r, p)
  <2>1. c \in Q /\ c >= reader_count[r] /\ c \notin recycled
    BY <1>3 DEF AtLeast
  <2>2. c \in base[r] .. p - 1
    BY <1>1, <1>2, <2>1
  <2> QED BY <2>1, <2>2 DEF Stream!Available
<1>4. ASSUME NEW c \in Stream!Available(r, p) PROVE c \in AtLeast(Q, reader_count[r])
  <2>1. c \in base[r] .. p - 1 /\ c >= reader_count[r] /\ c \notin recycled
    BY <1>4 DEF Stream!Available
  <2>2. c > count_map[r]
    BY <1>1, <2>1
  <2> QED BY <1>2, <2>1, <2>2 DEF AtLeast
<1> QED BY <1>3, <1>4

\* GetBulk for readers that find something is a Serve of the stream.
LEMMA GetBulkServes ==
  ASSUME IInv, NEW p \in Nat, NEW Q, Serves(Q, p), Q \cap recycled = {},
         NEW S \in SUBSET registered,
         \A r \in S : AtLeast(Q, reader_count[r]) # {},
         GetBulk(S, Q)
  PROVE  Stream!Serve(S, p)
<1>1. S \subseteq Readers
  BY DEF IInv, TypeOK
<1>2. \A r \in S : AtLeast(Q, reader_count[r]) = Stream!Available(r, p)
  BY AskedIsAvailable
<1>3. \A r \in S : FindBulk(Q, reader_count[r]) = Stream!Min(Stream!Available(r, p))
  BY <1>2 DEF FindBulk, Min, Stream!Min
<1>4. reader_count' = [r \in Readers |->
        IF r \in S THEN FindBulk(Q, reader_count[r]) + 1 ELSE reader_count[r]]
  BY <1>1 DEF GetBulk
<1>5. reader_count' = [r \in Readers |->
        IF r \in S THEN Stream!Min(Stream!Available(r, p)) + 1 ELSE reader_count[r]]
  BY <1>3, <1>4
<1> QED BY <1>2, <1>5 DEF Stream!Serve

\* A round of callbacks serves the readers it reaches, none when quitting.
LEMMA FireServes ==
  ASSUME IInv, NEW p \in Nat, NEW Q, Serves(Q, p), Q \cap recycled = {},
         NEW reach \in Q, FireCallbackNoLock(Q, reach)
  PROVE  \E S \in SUBSET Readers : Stream!Serve(S, p)
                                   /\ (S = {} => reader_count' = reader_count)
<1>1. registered \subseteq Readers /\ reader_count \in [Readers -> Nat]
  BY DEF IInv, TypeOK
<1>2. CASE FireQuit
  <2>1. reader_count' = [r \in Readers |-> IF r \in {} THEN Stream!Min(Stream!Available(r, p)) + 1
                                                       ELSE reader_count[r]]
        /\ reader_count' = reader_count
    BY <1>1, <1>2 DEF FireQuit, readerVars
  <2>2. Stream!Serve({}, p)
    BY <2>1 DEF Stream!Serve
  <2> QED BY <2>1, <2>2
<1>3. CASE FireReached(Q, reach)
  <2> DEFINE S == {r \in callback_map : reader_count[r] <= reach}
  <2>1. S \subseteq registered
    BY DEF IInv, TypeOK, Membership
  <2>2. \A r \in S : AtLeast(Q, reader_count[r]) # {}
    BY DEF AtLeast
  <2>3. GetBulk(S, Q)
    BY <1>3 DEF FireReached
  <2>4. S = {} => reader_count' = reader_count
    BY <1>1, <2>3 DEF GetBulk
  <2> HIDE DEF S
  <2>5. Stream!Serve(S, p)
    BY <2>1, <2>2, <2>3, GetBulkServes
  <2> QED BY <1>1, <2>1, <2>4, <2>5
<1> QED BY <1>2, <1>3 DEF FireCallbackNoLock

\* MayReleaseBuffer takes bulks away and brings none back.
LEMMA ReleaseShrinks ==
  ASSUME NEW Q, NEW min PROVE MayReleaseBuffer(Q, min) \subseteq Q
BY DEF MayReleaseBuffer

\* a step of the stream, or none
StreamStep == Stream!SNext \/ UNCHANGED Stream!streamVars

\* PushBulk publishes.
LEMMA PushBulkMaps ==
  ASSUME IInvGone, PushBulk PROVE StreamStep /\ Gone'
<1> DEFINE Q == buffer_queue \cup {count}
<1>1. IInv /\ Gone /\ TypeOK /\ count \in Nat /\ count + 1 \in Nat
  BY DEF IInvGone, IInv, TypeOK
<1>2. /\ count' = count + 1
      /\ FireCallbackNoLock(Q, count)
      /\ buffer_queue' = MayReleaseBuffer(Q, reader_min')
      /\ UNCHANGED <<registered, recycled, passed, base>>
  BY DEF PushBulk, histVars
<1>3. count \notin recycled
  <2>1. recycled \subseteq 0 .. count - 1
    BY <1>1 DEF TypeOK
  <2> QED BY <1>1, <2>1
<1>4. Q \cap recycled = {} /\ count \in Q
  BY <1>1, <1>3 DEF Gone
<1>5. Serves(Q, count + 1)
  BY <1>1, ServesPushed
<1>6. Gone'
  BY <1>2, <1>4, ReleaseShrinks DEF Gone
<1> HIDE DEF Q
<1>7. \E S \in SUBSET Readers : Stream!Serve(S, count + 1)
  BY <1>1, <1>2, <1>4, <1>5, FireServes
<1>8. Stream!Publish
  BY <1>2, <1>7 DEF Stream!Publish
<1> QED BY <1>6, <1>8 DEF StreamStep, Stream!SNext

\* MayFireCallback hands out bulks, to somebody or to nobody.
LEMMA MayFireMaps ==
  ASSUME IInvGone, MayFireCallback, UNCHANGED <<registered, recycled, passed, base>>
  PROVE  StreamStep /\ Gone'
<1>1. IInv /\ Gone /\ TypeOK /\ count \in Nat
  BY DEF IInvGone, IInv, TypeOK
<1>2. CASE buffer_queue = {}
  <2>1. UNCHANGED <<buffer_queue, count, reader_count>>
    BY <1>2 DEF MayFireCallback, queueVars, readerVars
  <2> QED BY <1>1, <2>1 DEF StreamStep, Stream!streamVars, Gone
<1>3. CASE buffer_queue # {}
  <2>1. /\ FireCallbackNoLock(buffer_queue, Max(buffer_queue))
        /\ count' = count
        /\ buffer_queue' = buffer_queue
             \/ buffer_queue' = MayReleaseBuffer(buffer_queue, reader_min')
    BY <1>3 DEF MayFireCallback
  <2>2. Max(buffer_queue) \in buffer_queue
    <3>1. buffer_queue \subseteq Int /\ \A c \in buffer_queue : c <= count
      BY <1>1 DEF TypeOK
    <3>2. count \in Int
      BY <1>1
    <3> QED BY <1>3, <3>1, <3>2, MaxExists
  <2>3. Serves(buffer_queue, count) /\ buffer_queue \cap recycled = {}
    BY <1>1, ServesNow DEF Gone
  <2>4. \E S \in SUBSET Readers : Stream!Serve(S, count)
                                  /\ (S = {} => reader_count' = reader_count)
    BY <1>1, <2>1, <2>2, <2>3, FireServes
  <2>5. Stream!Take \/ UNCHANGED Stream!streamVars
    BY <2>1, <2>4 DEF Stream!Take, Stream!streamVars
  <2>6. Gone'
    BY <2>1, <2>3, ReleaseShrinks DEF Gone
  <2> QED BY <2>5, <2>6 DEF StreamStep, Stream!SNext
<1> QED BY <1>2, <1>3

\* RecycleOne withdraws a bulk that some reader sees.
LEMMA RecycleOneMaps ==
  ASSUME IInvGone, RecycleOne PROVE StreamStep /\ Gone'
<1> DEFINE x == Min(Recyclable)
<1>1. TypeOK /\ QueueIsTail /\ Gone /\ count \in Nat
  BY DEF IInvGone, IInv, TypeOK
<1>2. /\ registered # {} /\ Recyclable # {}
      /\ buffer_queue' = buffer_queue \ {x} /\ recycled' = recycled \cup {x}
      /\ UNCHANGED <<count, registered, base, reader_count, passed>>
  BY DEF RecycleOne, readerVars
<1>3. buffer_queue \subseteq 0 .. count - 1 /\ Recyclable \subseteq buffer_queue
  BY <1>1 DEF TypeOK, Recyclable
<1>4. x \in buffer_queue
  <2>1. Recyclable \subseteq Int /\ 0 \in Int /\ \A c \in Recyclable : 0 <= c
    BY <1>3
  <2>2. x \in Recyclable
    BY <1>2, <2>1, MinExists
  <2> QED BY <1>3, <2>2
<1> HIDE DEF x
<1>5. x \notin recycled /\ x \in 0 .. count - 1
  BY <1>1, <1>3, <1>4 DEF Gone
<1>6. PICK r \in registered : TRUE
  BY <1>2
<1>7. base[r] \in Nat /\ base[r] <= x
  BY <1>1, <1>4 DEF QueueIsTail, TypeOK
<1>8. x \in base[r] .. count - 1
  BY <1>1, <1>5, <1>7
<1>9. Stream!Overwrite
  BY <1>2, <1>5, <1>8 DEF Stream!Overwrite
<1>10. Gone'
  BY <1>1, <1>2 DEF Gone
<1> QED BY <1>9, <1>10 DEF StreamStep, Stream!SNext

\* A reader joins in front of what is queued.
LEMMA RegisterReaderMaps ==
  ASSUME IInvGone, NEW r \in Readers, RegisterReader(r) PROVE StreamStep /\ Gone'
<1>1. TypeOK /\ Membership /\ Gone /\ count \in Nat
  BY DEF IInvGone, IInv, TypeOK
<1> DEFINE c == IF buffer_queue = {} THEN count ELSE Min(buffer_queue)
<1>2. /\ pc[r] = "none" /\ registered' = registered \cup {r}
      /\ base' = [base EXCEPT ![r] = c]
      /\ UNCHANGED <<count, buffer_queue, reader_count, recycled, passed>>
  BY DEF RegisterReader, readerVars
<1>3. r \notin registered
  BY <1>1, <1>2 DEF Membership
<1>4. c \in 0 .. count
  <2>1. CASE buffer_queue = {}
    BY <1>1, <2>1
  <2>2. CASE buffer_queue # {}
    <3>1. buffer_queue \subseteq Int /\ 0 \in Int /\ \A b \in buffer_queue : 0 <= b
      BY <1>1 DEF TypeOK
    <3>2. Min(buffer_queue) \in buffer_queue
      BY <2>2, <3>1, MinExists
    <3>3. Min(buffer_queue) \in 0 .. count - 1
      BY <1>1, <3>2 DEF TypeOK
    <3> QED BY <1>1, <2>2, <3>3
  <2> QED BY <2>1, <2>2
<1> HIDE DEF c
<1>5. Stream!Join(r)
  BY <1>2, <1>3, <1>4 DEF Stream!Join
<1>6. Gone'
  BY <1>1, <1>2 DEF Gone
<1> QED BY <1>5, <1>6 DEF StreamStep, Stream!SNext

\* A reader that finds a bulk takes it.
LEMMA ReadyMaps ==
  ASSUME IInvGone, NEW r \in Readers, pc[r] = "idle",
         AtLeast(buffer_queue, reader_count[r]) # {},
         GetBulk({r}, buffer_queue),
         buffer_queue' = MayReleaseBuffer(buffer_queue, reader_min'),
         UNCHANGED <<count, registered, recycled, passed, base>>
  PROVE  StreamStep /\ Gone'
<1>1. IInv /\ Membership /\ Gone /\ count \in Nat
  BY DEF IInvGone, IInv, TypeOK
<1>2. {r} \in SUBSET registered
  BY <1>1 DEF Membership
<1>3. Serves(buffer_queue, count) /\ buffer_queue \cap recycled = {}
  BY <1>1, ServesNow DEF Gone
<1>4. Stream!Serve({r}, count)
  BY <1>1, <1>2, <1>3, GetBulkServes
<1>5. Stream!Take
  BY <1>4 DEF Stream!Take
<1>6. Gone'
  BY <1>3, ReleaseShrinks DEF Gone
<1> QED BY <1>5, <1>6 DEF StreamStep, Stream!SNext

LEMMA WaitReadyMaps ==
  ASSUME IInvGone, NEW r \in Readers, WaitReady(r) PROVE StreamStep /\ Gone'
BY ReadyMaps DEF WaitReady, MayWait

\* Skip passes over.
LEMMA SkipMaps ==
  ASSUME IInvGone, NEW r \in Readers, NEW n \in Skips, Skip(r, n)
  PROVE  StreamStep /\ Gone'
<1>1. /\ TypeOK /\ Membership /\ Gone /\ n \in Nat
      /\ reader_count \in [Readers -> Nat] /\ passed \in [Readers -> SUBSET Nat]
  BY ParametersAssumption DEF IInvGone, IInv, TypeOK
<1>2. /\ pc[r] = "idle"
      /\ reader_count' = [reader_count EXCEPT ![r] = @ + n]
      /\ passed' = [passed EXCEPT ![r] = @ \cup reader_count[r] .. reader_count[r] + n - 1]
      /\ UNCHANGED <<count, buffer_queue, registered, recycled, base>>
  BY DEF Skip, queueVars
<1>3. r \in registered
  BY <1>1, <1>2 DEF Membership
<1>4. reader_count'[r] = reader_count[r] + n /\ reader_count'[r] >= reader_count[r]
  BY <1>1, <1>2
<1>5. reader_count' = [reader_count EXCEPT ![r] = reader_count'[r]]
  BY <1>2, <1>4
<1>6. passed' = [passed EXCEPT ![r] = @ \cup reader_count[r] .. reader_count'[r] - 1]
  <2>1. reader_count[r] + n - 1 = reader_count'[r] - 1
    BY <1>1, <1>4
  <2> QED BY <1>2, <2>1
<1>7. Stream!PassOver(r)
  BY <1>2, <1>3, <1>4, <1>5, <1>6 DEF Stream!PassOver
<1>8. Gone'
  BY <1>1, <1>2 DEF Gone
<1> QED BY <1>7, <1>8 DEF StreamStep, Stream!SNext

\* A reader leaves.
LEMMA UnRegisterReaderMaps ==
  ASSUME IInvGone, NEW r \in Readers, UnRegisterReader(r) PROVE StreamStep /\ Gone'
<1>1. /\ registered' = registered \ {r}
      /\ UNCHANGED <<count, buffer_queue, reader_count, recycled, passed, base>>
  BY DEF UnRegisterReader, readerVars, histVars
<1>2. Stream!Leave(r)
  BY <1>1 DEF Stream!Leave
<1> QED BY <1>1, <1>2 DEF StreamStep, Stream!SNext, IInvGone, Gone

\* Everything else happens behind the stream.
LEMMA HiddenMaps ==
  ASSUME IInvGone,
         UNCHANGED <<count, buffer_queue, registered, reader_count, recycled, passed, base>>
  PROVE  StreamStep /\ Gone'
BY DEF StreamStep, Stream!streamVars, IInvGone, Gone

LEMMA HiddenReaderSteps ==
  ASSUME NEW r \in Readers,
         \/ WaitNotReady(r) \/ SetReadyCallback(r) \/ WaitReturn(r) \/ CancelCallback(r)
         \/ CallHaveData(r) \/ GetResult(r) \/ WaitTimeout(r) \/ DestroyReader(r)
         \/ DestroyCancel(r)
  PROVE  UNCHANGED <<count, buffer_queue, registered, reader_count, recycled, passed, base>>
BY DEF WaitNotReady, SetReadyCallback, WaitReturn, CancelCallback, CallHaveData, GetResult,
       WaitTimeout, DestroyReader, DestroyCancel, queueVars, readerVars, histVars

\* Every step of the queue is a step of the stream, or none.
LEMMA StepMaps == IInvGone /\ [Next]_vars => StreamStep /\ Gone'
<1> SUFFICES ASSUME IInvGone, [Next]_vars PROVE StreamStep /\ Gone'
  OBVIOUS
<1>1. CASE UNCHANGED vars
  BY <1>1, HiddenMaps DEF vars
<1>2. CASE OwnerStep
  <2>1. CASE QuitSet
    <3>1. UNCHANGED <<count, buffer_queue, registered, reader_count, recycled, passed, base>>
      BY <2>1 DEF QuitSet, queueVars, readerVars, histVars
    <3> QED BY <3>1, HiddenMaps
  <2>2. CASE QuitFire
    <3>1. MayFireCallback /\ UNCHANGED <<registered, recycled, passed, base>>
      BY <2>2 DEF QuitFire, histVars
    <3> QED BY <3>1, MayFireMaps
  <2> QED BY <1>2, <2>1, <2>2, PushBulkMaps, RecycleOneMaps DEF OwnerStep
<1>3. ASSUME NEW r \in Readers, ReaderStep(r) PROVE StreamStep /\ Gone'
  <2>1. CASE SetReadyFire(r)
    <3>1. MayFireCallback /\ UNCHANGED <<registered, recycled, passed, base>>
      BY <2>1 DEF SetReadyFire, histVars
    <3> QED BY <3>1, MayFireMaps
  <2>2. CASE \E n \in Skips : Skip(r, n)
    BY <2>2, SkipMaps
  <2>3. CASE RegisterReader(r) \/ WaitReady(r) \/ UnRegisterReader(r)
    BY <2>3, RegisterReaderMaps, WaitReadyMaps, UnRegisterReaderMaps
  <2>4. CASE \/ WaitNotReady(r) \/ SetReadyCallback(r) \/ WaitReturn(r) \/ CancelCallback(r)
             \/ CallHaveData(r) \/ GetResult(r) \/ WaitTimeout(r) \/ DestroyReader(r)
             \/ DestroyCancel(r)
    BY <2>4, HiddenReaderSteps, HiddenMaps
  <2> QED BY <1>3, <2>1, <2>2, <2>3, <2>4 DEF ReaderStep, WaitStep
<1> QED BY <1>1, <1>2, <1>3 DEF Next

\* Whatever the readers, the bounds and the order in which the threads enter the
\* lock, the queue is a stream: what a reader gets next is the first bulk it
\* asks for that was not overwritten, whoever hands it over, and neither a
\* release nor another reader makes it miss one.
THEOREM QueueIsAStream == Spec => ImplementsStream
<1>1. Init => Stream!SInit /\ Gone
  BY DEF Init, Stream!SInit, Gone
<1>2. IInv /\ Gone /\ [Next]_vars => [Stream!SNext]_Stream!streamVars /\ Gone'
  BY StepMaps DEF StreamStep, IInvGone
<1> QED BY <1>1, <1>2, Invariance, PTL DEF Spec, ImplementsStream, Stream!StreamSpec

---------------------------------------------------------------------------
(* What is lost. *)

\* a bulk was fetched for reader r whose thread has not come to it yet
Pending(r) == ~reader_quit[r] /\ (event[r] \/ tasks[r] > 0)

\* bulk c is none that reader r misses
HandedOut(r, c) ==
  c \in recycled \cup passed[r] \/ \E i \in DOMAIN got[r] : got[r][i] = c

\* every bulk behind reader r was handed out, or is about to be
Accounted(r) ==
  \A c \in base[r] .. reader_count[r] - 1 :
    HandedOut(r, c) \/ (Pending(r) /\ c = temp_count[r])

\* what was handed out stays handed out
LEMMA HandedOutStays ==
  ASSUME TypeOK, NEW r \in Readers, NEW c,
         recycled \subseteq recycled', passed[r] \subseteq passed'[r],
         got'[r] = got[r] \/ \E x \in Int : got'[r] = Append(got[r], x),
         HandedOut(r, c)
  PROVE  HandedOut(r, c)'
<1>1. got[r] \in Seq(Int)
  BY DEF TypeOK
<1>2. ASSUME NEW i \in DOMAIN got[r]
      PROVE  i \in DOMAIN got'[r] /\ got'[r][i] = got[r][i]
  BY <1>1, <1>2
<1> QED BY <1>2 DEF HandedOut

\* A reader that keeps its place: what is pending stays so, or goes to the caller.
LEMMA AccountedStays ==
  ASSUME TypeOK, NEW r \in Readers, Accounted(r),
         base'[r] = base[r], reader_count'[r] = reader_count[r],
         recycled \subseteq recycled', passed[r] \subseteq passed'[r],
         \/ got'[r] = Append(got[r], temp_count[r])
         \/ got'[r] = got[r] /\ (Pending(r) => Pending(r)' /\ temp_count'[r] = temp_count[r])
  PROVE  Accounted(r)'
<1>1. got[r] \in Seq(Int) /\ temp_count[r] \in Int
  BY DEF TypeOK
<1> SUFFICES ASSUME NEW c \in base[r] .. reader_count[r] - 1
             PROVE  HandedOut(r, c)' \/ (Pending(r)' /\ c = temp_count'[r])
  BY DEF Accounted
<1>2. CASE HandedOut(r, c)
  BY <1>1, <1>2, HandedOutStays
<1>3. CASE Pending(r) /\ c = temp_count[r]
  <2>1. CASE got'[r] = Append(got[r], temp_count[r])
    <3>1. Len(got[r]) + 1 \in DOMAIN got'[r] /\ got'[r][Len(got[r]) + 1] = c
      BY <1>1, <1>3, <2>1
    <3> QED BY <3>1 DEF HandedOut
  <2> QED BY <1>3, <2>1
<1> QED BY <1>2, <1>3 DEF Accounted

\* A reader that is served: the bulks it passes on the way were overwritten.
LEMMA AccountedServed ==
  ASSUME IInv, NEW r \in registered, Accounted(r), ~Pending(r),
         NEW p \in Nat, NEW Q, Serves(Q, p), AtLeast(Q, reader_count[r]) # {},
         reader_count'[r] = FindBulk(Q, reader_count[r]) + 1,
         temp_count'[r] = FindBulk(Q, reader_count[r]),
         base'[r] = base[r], recycled' = recycled, passed'[r] = passed[r],
         \/ got'[r] = got[r] /\ Pending(r)'
         \/ got'[r] = Append(got[r], temp_count'[r])
  PROVE  Accounted(r)'
<1> DEFINE m == FindBulk(Q, reader_count[r])
<1>1. /\ TypeOK /\ r \in Readers /\ base[r] \in Nat /\ reader_count[r] \in Nat
      /\ count_map[r] \in Int /\ count_map[r] < reader_count[r] /\ got[r] \in Seq(Int)
  BY DEF IInv, TypeOK, AsksAhead
<1>2. Q \subseteq 0 .. p
  BY DEF Serves
<1>3. m \in Q /\ m >= reader_count[r] /\ \A c \in AtLeast(Q, reader_count[r]) : m <= c
  BY <1>1, <1>2, FindBulkFacts
<1> HIDE DEF m
<1>4. m \in Int /\ m < p
  BY <1>3 DEF Serves
<1>5. reader_count'[r] = m + 1 /\ temp_count'[r] = m
  BY DEF m
<1> SUFFICES ASSUME NEW c \in base[r] .. m
             PROVE  HandedOut(r, c)' \/ (Pending(r)' /\ c = temp_count'[r])
  BY <1>1, <1>4, <1>5 DEF Accounted
<1>6. got'[r] = got[r] \/ \E x \in Int : got'[r] = Append(got[r], x)
  BY <1>4, <1>5
<1>7. CASE c < reader_count[r]
  <2>1. c \in base[r] .. reader_count[r] - 1
    BY <1>1, <1>4, <1>7
  <2>2. HandedOut(r, c)
    BY <2>1 DEF Accounted
  <2> QED BY <1>1, <1>6, <2>2, HandedOutStays
<1>8. CASE c >= reader_count[r] /\ c # m
  <2>1. c \in base[r] .. p - 1 /\ c > count_map[r] /\ c < m
    BY <1>1, <1>4, <1>8
  <2>2. c \in Q \cup recycled
    BY <2>1 DEF Serves
  <2>3. c \notin Q
    BY <1>1, <1>3, <1>4, <1>8, <2>1 DEF AtLeast
  <2> QED BY <2>2, <2>3 DEF HandedOut
<1>9. CASE c = m
  <2>1. CASE got'[r] = Append(got[r], temp_count'[r])
    <3>1. Len(got[r]) + 1 \in DOMAIN got'[r] /\ got'[r][Len(got[r]) + 1] = c
      BY <1>1, <1>4, <1>5, <1>9, <2>1
    <3> QED BY <3>1 DEF HandedOut
  <2> QED BY <1>5, <1>9, <2>1
<1> QED BY <1>1, <1>4, <1>7, <1>8, <1>9

\* A round of callbacks: those it reaches had nothing pending, and have now.
LEMMA FireAccounts ==
  ASSUME IInv, NEW p \in Nat, NEW Q, Serves(Q, p), NEW reach \in Q,
         FireCallbackNoLock(Q, reach), UNCHANGED histVars,
         NEW r \in Readers, Accounted(r)
  PROVE  Accounted(r)' /\ (r \notin callback_map => reader_count'[r] = reader_count[r])
<1>1. /\ TypeOK /\ NoStaleSignal /\ Membership
      /\ base'[r] = base[r] /\ recycled' = recycled /\ passed'[r] = passed[r]
      /\ got'[r] = got[r]
  BY DEF IInv, histVars
<1>2. ~reader_quit[r] /\ r \in callback_map => ~Pending(r)
  BY <1>1 DEF NoStaleSignal, Pending, TypeOK
<1>3. tasks[r] \in Nat
  BY <1>1 DEF TypeOK
<1>4. CASE FireQuit
  <2>1. /\ reader_quit'[r] = (reader_quit[r] \/ r \in callback_map)
        /\ Signal(callback_map) /\ UNCHANGED readerVars
    BY <1>4 DEF FireQuit
  <2>2. (event[r] => event'[r]) /\ tasks'[r] \in Nat /\ tasks'[r] >= tasks[r]
    BY <1>1, <2>1, SignalFacts
  <2>3. Pending(r) => ~reader_quit'[r]
    BY <1>2, <2>1, Zenon DEF Pending
  <2>4. Pending(r) => Pending(r)'
    BY <1>3, <2>2, <2>3 DEF Pending
  <2> QED BY <1>1, <2>1, <2>4, AccountedStays DEF readerVars
<1>5. CASE FireReached(Q, reach)
  <2> DEFINE S == {x \in callback_map : reader_count[x] <= reach}
  <2>1. ~quiting /\ GetBulk(S, Q) /\ Signal(S) /\ reader_quit' = reader_quit
    BY <1>5 DEF FireReached
  <2>2. /\ event[r] => event'[r]
        /\ tasks'[r] \in Nat /\ tasks'[r] >= tasks[r]
        /\ r \in S /\ r \in SyncReaders => event'[r]
        /\ r \in S /\ r \in AsyncReaders => tasks'[r] = tasks[r] + 1
    BY <1>1, <2>1, SignalFacts
  <2>3. CASE r \in S
    <3>1. r \in registered /\ ~reader_quit[r] /\ AtLeast(Q, reader_count[r]) # {}
      BY <1>1, <2>1, <2>3 DEF Membership, AtLeast, TypeOK
    <3>2. /\ reader_count'[r] = FindBulk(Q, reader_count[r]) + 1
          /\ temp_count'[r] = FindBulk(Q, reader_count[r])
      BY <2>1, <2>3 DEF GetBulk
    <3>3. Pending(r)'
      BY <1>3, <2>1, <2>2, <2>3, <3>1 DEF Pending, Readers
    <3>4. ~Pending(r)
      BY <1>2, <2>3, <3>1
    <3> QED BY <1>1, <2>3, <3>1, <3>2, <3>3, <3>4, AccountedServed
  <2>4. CASE r \notin S
    <3>1. reader_count'[r] = reader_count[r] /\ temp_count'[r] = temp_count[r]
      BY <2>1, <2>4 DEF GetBulk
    <3>2. Pending(r) => Pending(r)'
      BY <1>3, <2>1, <2>2 DEF Pending
    <3> QED BY <1>1, <3>1, <3>2, AccountedStays
  <2> QED BY <2>3, <2>4
<1> QED BY <1>4, <1>5 DEF FireCallbackNoLock

\* The readers that an action leaves alone.
LEMMA OthersAccounted ==
  ASSUME TypeOK, NEW r \in Readers, Accounted(r),
         UNCHANGED <<reader_count[r], temp_count[r], event[r], tasks[r], reader_quit[r],
                     passed[r], base[r], got[r]>>,
         recycled \subseteq recycled'
  PROVE  Accounted(r)'
<1>1. Pending(r) => Pending(r)'
  BY DEF Pending
<1> QED BY <1>1, AccountedStays

\* MayFireCallback, for a queue with bulks and for an empty one.
LEMMA MayFireAccounts ==
  ASSUME IInv, MayFireCallback, UNCHANGED histVars, NEW r \in Readers, Accounted(r)
  PROVE  Accounted(r)' /\ (r \notin callback_map => reader_count'[r] = reader_count[r])
<1>1. TypeOK /\ count \in Nat
  BY DEF IInv, TypeOK
<1>2. CASE buffer_queue = {}
  <2>1. UNCHANGED <<reader_count, temp_count, event, tasks, reader_quit, recycled,
                    passed, base, got>>
    BY <1>2 DEF MayFireCallback, readerVars, histVars
  <2> QED BY <1>1, <2>1, OthersAccounted
<1>3. CASE buffer_queue # {}
  <2>1. FireCallbackNoLock(buffer_queue, Max(buffer_queue))
    BY <1>3 DEF MayFireCallback
  <2>2. Max(buffer_queue) \in buffer_queue
    <3>1. buffer_queue \subseteq Int /\ \A c \in buffer_queue : c <= count
      BY <1>1 DEF TypeOK
    <3>2. count \in Int
      BY <1>1
    <3> QED BY <1>3, <3>1, <3>2, MaxExists
  <2>3. Serves(buffer_queue, count)
    BY ServesNow
  <2> QED BY <1>1, <2>1, <2>2, <2>3, FireAccounts
<1> QED BY <1>2, <1>3

\* what Handed says of one reader
HandedTo(r) == (pc[r] = "none" => reader_count[r] = 0) /\ Accounted(r)

LEMMA HandedByOwner ==
  ASSUME IInv, OwnerStep, NEW r \in Readers, HandedTo(r) PROVE HandedTo(r)'
<1>1. TypeOK /\ Membership /\ count + 1 \in Nat
  BY DEF IInv, TypeOK
<1>2. pc' = pc /\ (pc[r] = "none" => r \notin callback_map)
  BY <1>1 DEF OwnerStep, PushBulk, RecycleOne, QuitSet, QuitFire, Membership
<1>3. CASE PushBulk
  <2>1. FireCallbackNoLock(buffer_queue \cup {count}, count) /\ UNCHANGED histVars
    BY <1>3 DEF PushBulk
  <2>2. Serves(buffer_queue \cup {count}, count + 1)
    BY ServesPushed
  <2> HIDE DEF IInv
  <2>3. Accounted(r)' /\ (r \notin callback_map => reader_count'[r] = reader_count[r])
    BY <1>1, <2>1, <2>2, FireAccounts DEF HandedTo
  <2> QED BY <1>2, <2>3 DEF HandedTo
<1>4. CASE RecycleOne \/ QuitSet
  <2>1. UNCHANGED <<reader_count, temp_count, event, tasks, reader_quit, passed, base, got>>
        /\ recycled \subseteq recycled'
    BY <1>4 DEF RecycleOne, QuitSet, readerVars, histVars
  <2>2. Accounted(r)'
    BY <1>1, <2>1, OthersAccounted DEF HandedTo
  <2> QED BY <1>2, <2>1, <2>2 DEF HandedTo
<1>5. CASE QuitFire
  <2>1. MayFireCallback /\ UNCHANGED histVars
    BY <1>5 DEF QuitFire
  <2> QED BY <1>2, <2>1, MayFireAccounts DEF HandedTo
<1> QED BY <1>3, <1>4, <1>5 DEF OwnerStep

\* A reader that has no bulk pending after a wait.
LEMMA HandedByReader ==
  ASSUME IInv, NEW r \in Readers, NEW x \in Readers, ReaderStep(x),
         HandedTo(r), r \notin EagerReaders
  PROVE  HandedTo(r)'
<1>1. TypeOK /\ Membership /\ NoStaleSignal /\ AsksAhead /\ count \in Nat
  BY DEF IInv, TypeOK
<1>2. Accounted(r) /\ (pc[r] = "none" => reader_count[r] = 0)
  BY DEF HandedTo
<1>3. CASE SetReadyFire(x)
  <2>1. /\ MayFireCallback /\ UNCHANGED histVars /\ pc[x] = "set"
        /\ pc' = [pc EXCEPT ![x] = "waiting"]
    BY <1>3 DEF SetReadyFire, Goto
  <2>2. pc'[r] = "none" => pc[r] = "none" /\ r \notin callback_map
    BY <1>1, <2>1 DEF TypeOK, Membership
  <2> QED BY <1>2, <2>1, <2>2, MayFireAccounts DEF HandedTo
<1>4. CASE WaitReady(x)
  <2>1. /\ pc[x] = "idle" /\ ~reader_quit[x]
        /\ AtLeast(buffer_queue, reader_count[x]) # {}
        /\ GetBulk({x}, buffer_queue)
        /\ UNCHANGED <<event, reader_quit, recycled, passed, base>>
        /\ IF x \in SyncReaders
           THEN /\ got' = [got EXCEPT ![x] = Append(@, temp_count'[x])]
                /\ UNCHANGED <<pc, tasks>>
           ELSE /\ tasks' = [tasks EXCEPT ![x] = @ + 1]
                /\ pc' = [pc EXCEPT ![x] = "waiting"]
                /\ UNCHANGED got
    BY <1>4 DEF WaitReady, MayWait, Goto
  <2>2. /\ \A y \in Readers : y # x => /\ reader_count'[y] = reader_count[y]
                                       /\ temp_count'[y] = temp_count[y]
        /\ reader_count'[x] = FindBulk(buffer_queue, reader_count[x]) + 1
        /\ temp_count'[x] = FindBulk(buffer_queue, reader_count[x])
    BY <2>1 DEF GetBulk
  <2>3. CASE r # x
    <3>1. pc'[r] = pc[r] /\ tasks'[r] = tasks[r] /\ got'[r] = got[r]
      BY <1>1, <2>1, <2>3 DEF TypeOK
    <3>2. Accounted(r)'
      BY <1>1, <1>2, <2>1, <2>2, <2>3, <3>1, OthersAccounted
    <3> QED BY <1>2, <2>2, <2>3, <3>1, <3>2 DEF HandedTo
  <2>4. CASE r = x
    <3>1. r \in registered /\ ~Pending(r)
      <4>1. pc[r] = "idle" /\ ~reader_quit[r]
        BY <2>1, <2>4
      <4>2. ~event[r] /\ tasks[r] = 0
        BY <1>1, <4>1 DEF NoStaleSignal
      <4>3. pc[r] \notin {"none", "dead"}
        BY <4>1
      <4> QED BY <1>1, <4>2, <4>3 DEF Membership, Pending
    <3>2. \/ got'[r] = got[r] /\ Pending(r)'
          \/ got'[r] = Append(got[r], temp_count'[r])
      BY <1>1, <2>1, <2>4 DEF TypeOK, Pending
    <3>3. Serves(buffer_queue, count)
      BY ServesNow
    <3>4. Accounted(r)'
      BY <1>1, <1>2, <2>1, <2>2, <2>4, <3>1, <3>2, <3>3, AccountedServed
    <3>5. pc'[r] # "none"
      BY <1>1, <2>1, <2>4 DEF TypeOK
    <3> QED BY <3>4, <3>5 DEF HandedTo
  <2> QED BY <2>3, <2>4
<1>5. CASE WaitReturn(x) \/ CallHaveData(x) \/ GetResult(x)
  <2>1. /\ UNCHANGED <<reader_count, temp_count, reader_quit, passed, base, recycled>>
        /\ pc[x] # "none" /\ (pc' = pc \/ pc' = [pc EXCEPT ![x] = "idle"])
    BY <1>5 DEF WaitReturn, CallHaveData, GetResult, readerVars, Goto
  <2>2. pc'[r] = "none" => pc[r] = "none"
    BY <1>1, <2>1 DEF TypeOK
  <2>3. CASE r # x
    <3>1. event'[r] = event[r] /\ tasks'[r] = tasks[r] /\ got'[r] = got[r]
      BY <1>1, <1>5, <2>3 DEF WaitReturn, CallHaveData, GetResult, TypeOK
    <3>2. Accounted(r)'
      BY <1>1, <1>2, <2>1, <3>1, OthersAccounted
    <3> QED BY <1>2, <2>1, <2>2, <3>2 DEF HandedTo
  <2>4. CASE r = x
    <3>1. \/ got'[r] = Append(got[r], temp_count[r])
          \/ got'[r] = got[r] /\ reader_quit[r]
      BY <1>1, <1>5, <2>4 DEF WaitReturn, CallHaveData, GetResult, TypeOK
    <3>2. reader_quit[r] => ~Pending(r)
      BY DEF Pending
    <3>3. Accounted(r)'
      BY <1>1, <1>2, <2>1, <3>1, <3>2, AccountedStays
    <3> QED BY <1>2, <2>1, <2>2, <3>3 DEF HandedTo
  <2> QED BY <2>3, <2>4
<1>6. CASE RegisterReader(x)
  <2>1. /\ UNCHANGED <<reader_count, temp_count, event, tasks, reader_quit, passed,
                       recycled, got>>
        /\ pc[x] = "none" /\ pc' = [pc EXCEPT ![x] = "idle"]
        /\ \A y \in Readers : y # x => base'[y] = base[y]
    BY <1>1, <1>6 DEF RegisterReader, readerVars, Goto, TypeOK
  <2>2. CASE r # x
    <3>1. Accounted(r)'
      BY <1>1, <1>2, <2>1, <2>2, OthersAccounted
    <3> QED BY <1>1, <1>2, <2>1, <2>2, <3>1 DEF HandedTo, TypeOK
  <2>3. CASE r = x
    <3>1. reader_count'[r] = 0
      BY <1>2, <2>1, <2>3
    <3>2. base'[r] \in Nat
      <4>1. TypeOK'
        BY <1>6, KeptByRegisterReader DEF IInv
      <4> QED BY <4>1 DEF TypeOK
    <3>3. Accounted(r)'
      BY <3>1, <3>2 DEF Accounted
    <3> QED BY <3>1, <3>3 DEF HandedTo
  <2> QED BY <2>2, <2>3
<1>7. CASE \E n \in Skips : Skip(x, n)
  <2>1. PICK n \in Skips : Skip(x, n)
    BY <1>7
  <2>2. /\ pc[x] = "idle" /\ UNCHANGED <<temp_count, event, reader_quit, tasks, pc, recycled,
                                         base, got>>
        /\ reader_count' = [reader_count EXCEPT ![x] = @ + n]
        /\ passed' = [passed EXCEPT ![x] = @ \cup reader_count[x] .. reader_count[x] + n - 1]
        /\ n \in Nat
    BY <2>1, ParametersAssumption DEF Skip
  <2>3. CASE r # x
    <3>1. reader_count'[r] = reader_count[r] /\ passed'[r] = passed[r]
      BY <1>1, <2>2, <2>3 DEF TypeOK
    <3>2. Accounted(r)'
      BY <1>1, <1>2, <2>2, <3>1, OthersAccounted
    <3> QED BY <1>2, <2>2, <3>1, <3>2 DEF HandedTo
  <2>4. CASE r = x
    <3>1. /\ reader_count[r] \in Nat /\ base[r] \in Nat
          /\ reader_count'[r] = reader_count[r] + n
          /\ passed'[r] = passed[r] \cup reader_count[r] .. reader_count[r] + n - 1
      BY <1>1, <2>2, <2>4 DEF TypeOK
    <3>2. ASSUME NEW c \in base[r] .. reader_count[r] + n - 1
          PROVE  HandedOut(r, c)' \/ (Pending(r)' /\ c = temp_count'[r])
      <4>1. CASE c < reader_count[r]
        <5>1. c \in base[r] .. reader_count[r] - 1
          BY <2>2, <3>1, <4>1
        <5>2. HandedOut(r, c) \/ (Pending(r) /\ c = temp_count[r])
          BY <1>2, <5>1 DEF Accounted
        <5>3. HandedOut(r, c) => HandedOut(r, c)'
          BY <2>2, <3>1 DEF HandedOut
        <5>4. Pending(r) => Pending(r)'
          BY <2>2 DEF Pending
        <5> QED BY <2>2, <5>2, <5>3, <5>4
      <4>2. CASE c >= reader_count[r]
        <5>1. c \in passed'[r]
          BY <2>2, <3>1, <4>2
        <5> QED BY <5>1 DEF HandedOut
      <4> QED BY <3>1, <4>1, <4>2
    <3>3. Accounted(r)'
      BY <2>2, <3>1, <3>2 DEF Accounted
    <3> QED BY <2>2, <2>4, <3>3 DEF HandedTo
  <2> QED BY <2>3, <2>4
<1>8. CASE \/ WaitNotReady(x) \/ SetReadyCallback(x) \/ CancelCallback(x) \/ WaitTimeout(x)
           \/ DestroyReader(x) \/ DestroyCancel(x) \/ UnRegisterReader(x)
  <2>1. UNCHANGED <<reader_count, temp_count, event, tasks, reader_quit, passed, base,
                    recycled, got>>
    BY <1>8 DEF WaitNotReady, SetReadyCallback, CancelCallback, WaitTimeout, DestroyReader,
       DestroyCancel, UnRegisterReader, readerVars, histVars
  <2>2. \E to \in PCs \ {"none"} : pc' = [pc EXCEPT ![x] = to]
    BY <1>8 DEF WaitNotReady, SetReadyCallback, CancelCallback, WaitTimeout, DestroyReader,
       DestroyCancel, UnRegisterReader, Goto, PCs
  <2>3. pc'[r] = "none" => pc[r] = "none"
    BY <1>1, <2>2 DEF TypeOK
  <2>4. Accounted(r)'
    BY <1>1, <1>2, <2>1, OthersAccounted
  <2> QED BY <1>2, <2>1, <2>3, <2>4 DEF HandedTo
<1> QED BY <1>3, <1>4, <1>5, <1>6, <1>7, <1>8 DEF ReaderStep, WaitStep

\* A reader misses no bulk but those that were overwritten or that it skipped,
\* however waits, timeouts, releases and Quit interleave, provided that its
\* callback takes its result before it arms again.
THEOREM NothingElseLost ==
  ASSUME EagerReaders = {} PROVE Spec => []OnlyOverwriteLoses
<1> DEFINE Handed == \A r \in Readers : HandedTo(r)
<1>1. Init => Handed
  BY DEF Init, HandedTo, Accounted
<1>2. IInv /\ Handed /\ [Next]_vars => Handed'
  <2> SUFFICES ASSUME IInv, Handed, [Next]_vars, NEW r \in Readers PROVE HandedTo(r)'
    OBVIOUS
  <2>1. HandedTo(r) /\ TypeOK
    BY DEF IInv
  <2>2. CASE UNCHANGED vars
    <3>1. Accounted(r)'
      BY <2>1, <2>2, OthersAccounted DEF vars, HandedTo
    <3> QED BY <2>1, <2>2, <3>1 DEF vars, HandedTo
  <2>3. CASE Next
    BY <2>1, <2>3, HandedByOwner, HandedByReader DEF Next
  <2> QED BY <2>2, <2>3
<1>3. IInv /\ Handed => OnlyOverwriteLoses
  <2> SUFFICES ASSUME IInv, Handed, NEW r \in Readers, Settled(r), tasks[r] = 0,
                      NEW c \in base[r] .. reader_count[r] - 1
               PROVE  HandedOut(r, c)
    BY DEF OnlyOverwriteLoses, HandedOut
  <2>1. HandedOut(r, c) \/ Pending(r)
    BY DEF HandedTo, Accounted
  <2>2. ~Pending(r)
    BY DEF Settled, Pending, IInv, NoStaleSignal
  <2> QED BY <2>1, <2>2
<1> QED BY <1>1, <1>2, <1>3, Invariance, PTL DEF Spec

-----------------------------------------------------------------------------
(* Several readers waited for at once (ManyReader). *)

\* a bulk was fetched for the caller of reader r, who was not given it yet
Fresh(r) == temp_count[r] # Unread /\ \A i \in DOMAIN got[r] : got[r][i] < temp_count[r]
\* the last bulk that was fetched was given to the caller
Taken(r) == temp_count[r] = Unread \/ \E i \in DOMAIN got[r] : got[r][i] = temp_count[r]

\* What is in temp_count_ is the last bulk, and was not given to the caller yet
\* exactly while a signal or a wait for many says so.
Results(r) ==
  /\ temp_count[r] = count_map[r]
  /\ \A i \in DOMAIN got[r] : got[r][i] <= temp_count[r]
  /\ ~reader_quit[r] => IF event[r] \/ owed[r] THEN Fresh(r) ELSE Taken(r)

\* Where a reader of the thread can be in a wait for many.
Untouched(r) == pc[r] = "idle" /\ ~reader_quit[r]
ToCome(r)    == r \in todo /\ r \notin need_check \cup finish_list /\ ~owed[r] /\ Untouched(r)
AtOnce(r)    == r \notin todo \cup need_check /\ r \in finish_list /\ owed[r] /\ Untouched(r)
Armed(r)     == r \notin todo \cup finish_list /\ r \in need_check /\ ~owed[r]
                /\ pc[r] \in {"checked", "set", "waiting"}
TakeBack(r)  == r \in todo /\ r \notin finish_list /\ ~owed[r] /\ pc[r] = "waiting"
Done(r)      == /\ r \notin todo /\ pc[r] = "idle" /\ ~event[r] /\ r \notin callback_map
                /\ r \in finish_list <=> owed[r]

ManyLife(r) ==
  /\ many = "no" => ~owed[r]
  /\ many = "front" => ToCome(r) \/ AtOnce(r) \/ Armed(r)
  /\ many = "asleep" => AtOnce(r) \/ (Armed(r) /\ pc[r] = "waiting")
  /\ many = "back" => TakeBack(r) \/ Done(r)
  /\ many = "over" => Done(r)

ManyTypes ==
  /\ many \in {"no", "front", "asleep", "back", "over"}
  /\ todo \subseteq WaitList /\ need_check \subseteq WaitList /\ finish_list \subseteq WaitList
  /\ \A r \in SyncReaders \ WaitList : ~owed[r]

ManyInv ==
  /\ ManyTypes
  /\ \A r \in SyncReaders : Results(r)
  /\ \A r \in WaitList : ManyLife(r)

LEMMA SyncIsReader == SyncReaders \subseteq Readers /\ WaitList \subseteq SyncReaders
BY ManyAssumption DEF Readers

\* A bulk that is fetched is newer than all the caller was given.
LEMMA FetchedIsFresh ==
  ASSUME IInv, NEW r \in Readers, Results(r), temp_count'[r] = count_map'[r],
         count_map'[r] \in Int, count_map'[r] >= reader_count[r]
  PROVE  /\ temp_count'[r] # Unread
         /\ \A i \in DOMAIN got[r] : got[r][i] < temp_count'[r]
<1>1. /\ count_map[r] \in Int /\ reader_count[r] \in Nat /\ count_map[r] < reader_count[r]
      /\ \A i \in DOMAIN got[r] : got[r][i] \in Int
  <2>1. got[r] \in Seq(Int)
    BY DEF IInv, TypeOK
  <2> QED BY <2>1 DEF IInv, TypeOK, AsksAhead
<1>2. temp_count'[r] # Unread
  BY <1>1 DEF Unread
<1>3. ASSUME NEW i \in DOMAIN got[r] PROVE got[r][i] < temp_count'[r]
  BY <1>1 DEF Results
<1> QED BY <1>2, <1>3

\* A signalled or fetched bulk that stays where it is.
LEMMA ResultsStay ==
  ASSUME NEW r, Results(r),
         UNCHANGED <<temp_count[r], count_map[r], got[r]>>,
         \/ reader_quit'[r]
         \/ UNCHANGED <<reader_quit[r], event[r], owed[r]>>
  PROVE  Results(r)'
BY DEF Results, Fresh, Taken

\* A bulk that is fetched, with a signal for whoever takes it.
LEMMA ResultsFetched ==
  ASSUME IInv, NEW r \in Readers, Results(r), temp_count'[r] = count_map'[r],
         count_map'[r] \in Int, count_map'[r] >= reader_count[r],
         got'[r] = got[r], event'[r] \/ owed'[r]
  PROVE  Results(r)'
<1>1. /\ temp_count'[r] # Unread
      /\ \A i \in DOMAIN got[r] : got[r][i] < temp_count'[r]
  BY FetchedIsFresh
<1>2. \A i \in DOMAIN got[r] : got[r][i] \in Int
  <2>1. got[r] \in Seq(Int)
    BY DEF IInv, TypeOK
  <2> QED BY <2>1
<1> QED BY <1>1, <1>2 DEF Results, Fresh

\* A bulk that is given to the caller, with no signal left.
LEMMA ResultsTaken ==
  ASSUME NEW r, got[r] \in Seq(Int), temp_count'[r] \in Int,
         temp_count'[r] = count_map'[r],
         got'[r] = Append(got[r], temp_count'[r]),
         \A i \in DOMAIN got[r] : got[r][i] <= temp_count'[r],
         ~event'[r], ~owed'[r]
  PROVE  Results(r)'
<1>1. /\ Len(got[r]) + 1 \in DOMAIN got'[r] /\ got'[r][Len(got[r]) + 1] = temp_count'[r]
      /\ \A i \in DOMAIN got'[r] : (i \in DOMAIN got[r] /\ got'[r][i] = got[r][i])
                                   \/ got'[r][i] = temp_count'[r]
  OBVIOUS
<1>2. \A i \in DOMAIN got'[r] : got'[r][i] <= temp_count'[r]
  BY <1>1
<1> QED BY <1>1, <1>2 DEF Results, Taken

\* A round of callbacks: the readers it reaches had no signal, and have one now.
LEMMA FireResults ==
  ASSUME IInv, NEW p \in Nat, NEW Q, Q \subseteq 0 .. p, NEW reach \in Q,
         FireCallbackNoLock(Q, reach), UNCHANGED <<got, owed>>,
         NEW r \in SyncReaders, Results(r)
  PROVE  /\ Results(r)' \/ (r \in callback_map /\ owed[r])
         /\ r \notin callback_map => /\ UNCHANGED <<event[r], reader_quit[r]>>
                                     /\ r \notin callback_map'
<1>1. /\ TypeOK /\ NoStaleSignal /\ r \in Readers /\ reader_count[r] \in Nat
      /\ reader_quit[r] \in BOOLEAN
  BY SyncIsReader DEF IInv, TypeOK
<1>2. CASE FireQuit
  <2>1. /\ reader_quit'[r] = (reader_quit[r] \/ r \in callback_map)
        /\ Signal(callback_map)
        /\ UNCHANGED <<callback_map, count_map, temp_count>>
    BY <1>1, <1>2 DEF FireQuit, readerVars
  <2>2. r \notin callback_map => event'[r] = event[r]
    BY <1>1, <2>1, SignalFacts
  <2>3. r \notin callback_map => reader_quit'[r] = reader_quit[r]
    BY <1>1, <2>1
  <2>4. Results(r)'
    BY <2>1, <2>2, <2>3, ResultsStay
  <2> QED BY <2>1, <2>2, <2>3, <2>4
<1>3. CASE FireReached(Q, reach)
  <2> DEFINE S == {x \in callback_map : reader_count[x] <= reach}
  <2>1. /\ GetBulk(S, Q) /\ Signal(S) /\ reader_quit' = reader_quit
        /\ callback_map' = callback_map \ S
    BY <1>3 DEF FireReached
  <2>2. /\ r \in S => event'[r]
        /\ r \notin S => event'[r] = event[r]
    BY <1>1, <2>1, SignalFacts
  <2>3. CASE r \in S
    <3>1. AtLeast(Q, reader_count[r]) # {}
      BY <2>3 DEF AtLeast
    <3>2. FindBulk(Q, reader_count[r]) \in Q /\ FindBulk(Q, reader_count[r]) >= reader_count[r]
      BY <1>1, <3>1, FindBulkFacts
    <3>3. /\ count_map'[r] = FindBulk(Q, reader_count[r])
          /\ temp_count'[r] = FindBulk(Q, reader_count[r])
      BY <1>1, <2>1, <2>3 DEF GetBulk
    <3>4. Results(r)'
      BY <1>1, <2>2, <2>3, <3>2, <3>3, ResultsFetched
    <3> QED BY <2>3, <3>4
  <2>4. CASE r \notin S
    <3>1. count_map'[r] = count_map[r] /\ temp_count'[r] = temp_count[r]
      BY <1>1, <2>1, <2>4 DEF GetBulk
    <3>2. Results(r)'
      BY <2>1, <2>2, <2>4, <3>1, ResultsStay
    <3> QED BY <2>1, <2>2, <2>4, <3>2
  <2> QED BY <2>3, <2>4
<1> QED BY <1>2, <1>3 DEF FireCallbackNoLock

\* MayFireCallback, for a queue with bulks and for an empty one.
LEMMA MayFireResults ==
  ASSUME IInv, MayFireCallback, UNCHANGED <<got, owed>>, NEW r \in SyncReaders, Results(r)
  PROVE  /\ Results(r)' \/ (r \in callback_map /\ owed[r])
         /\ r \notin callback_map => /\ UNCHANGED <<event[r], reader_quit[r]>>
                                     /\ r \notin callback_map'
<1>1. count \in Nat /\ buffer_queue \subseteq 0 .. count
  BY DEF IInv, TypeOK
<1>2. CASE buffer_queue = {}
  <2>1. UNCHANGED <<count_map, temp_count, callback_map, event, reader_quit>>
    BY <1>2 DEF MayFireCallback, queueVars, readerVars
  <2>2. Results(r)'
    BY <2>1, ResultsStay
  <2> QED BY <2>1, <2>2
<1>3. CASE buffer_queue # {}
  <2>1. FireCallbackNoLock(buffer_queue, Max(buffer_queue))
    BY <1>3 DEF MayFireCallback
  <2>2. Max(buffer_queue) \in buffer_queue
    <3>1. buffer_queue \subseteq Int /\ \A c \in buffer_queue : c <= count
      BY <1>1
    <3>2. count \in Int
      BY <1>1
    <3> QED BY <1>3, <3>1, <3>2, MaxExists
  <2> QED BY <1>1, <2>1, <2>2, FireResults
<1> QED BY <1>2, <1>3

\* what the steps of others leave of a reader
LeftAlone(r) ==
  /\ UNCHANGED <<pc[r], owed[r]>>
  /\ r \notin callback_map => /\ UNCHANGED <<event[r], reader_quit[r]>>
                              /\ r \notin callback_map'

LEMMA ResultsByOwner ==
  ASSUME IInv, OwnerStep, NEW r \in SyncReaders, Results(r), r \in callback_map => ~owed[r]
  PROVE  Results(r)' /\ LeftAlone(r)
<1>1. UNCHANGED <<pc, owed, got>>
  BY DEF OwnerStep, PushBulk, RecycleOne, QuitSet, QuitFire, histVars
<1>2. CASE PushBulk
  <2>1. FireCallbackNoLock(buffer_queue \cup {count}, count)
    BY <1>2 DEF PushBulk
  <2>2. count \in Nat /\ buffer_queue \cup {count} \subseteq 0 .. count
    BY DEF IInv, TypeOK
  <2>3. count \in buffer_queue \cup {count}
    OBVIOUS
  <2> QED BY <1>1, <2>1, <2>2, <2>3, FireResults DEF LeftAlone
<1>3. CASE QuitFire
  BY <1>1, <1>3, MayFireResults DEF QuitFire, LeftAlone
<1>4. CASE RecycleOne \/ QuitSet
  <2>1. UNCHANGED <<count_map, temp_count, event, reader_quit, callback_map>>
    BY <1>4 DEF RecycleOne, QuitSet, queueVars, readerVars
  <2> QED BY <1>1, <2>1, ResultsStay DEF LeftAlone
<1> QED BY <1>2, <1>3, <1>4 DEF OwnerStep

\* A step of another reader.
LEMMA ResultsByOther ==
  ASSUME IInv, NEW x \in Readers, ReaderStep(x), NEW r \in SyncReaders, r # x,
         Results(r), r \in callback_map => ~owed[r]
  PROVE  Results(r)' /\ LeftAlone(r)
<1>1. TypeOK /\ r \in Readers
  BY SyncIsReader DEF IInv
<1>2. CASE SetReadyFire(x)
  <2>1. UNCHANGED <<pc[r], owed>> /\ MayFireCallback /\ UNCHANGED got
    BY <1>1, <1>2 DEF SetReadyFire, Goto, histVars, TypeOK
  <2> QED BY <2>1, MayFireResults DEF LeftAlone
<1>3. CASE ~SetReadyFire(x)
  <2>1. UNCHANGED <<pc[r], owed[r], got[r], event[r], reader_quit[r]>>
        /\ (r \in callback_map <=> r \in callback_map')
    BY <1>1, <1>3 DEF ReaderStep, WaitStep, RegisterReader, WaitReady, WaitNotReady, MayWait,
       SetReadyCallback, WaitReturn, CancelCallback, CallHaveData, GetResult, WaitTimeout, Skip,
       DestroyReader, DestroyCancel, UnRegisterReader, Goto, TypeOK, readerVars, histVars
  <2>2. UNCHANGED <<temp_count[r], count_map[r]>>
    <3>1. CASE WaitReady(x)
      BY <1>1, <3>1 DEF WaitReady, GetBulk, TypeOK
    <3>2. CASE ~WaitReady(x)
      BY <1>3, <3>2 DEF ReaderStep, WaitStep, RegisterReader, WaitNotReady, SetReadyCallback,
         WaitReturn, CancelCallback, CallHaveData, GetResult, WaitTimeout, Skip, DestroyReader,
         DestroyCancel, UnRegisterReader, readerVars, queueVars
    <3> QED BY <3>1, <3>2
  <2> QED BY <2>1, <2>2, ResultsStay DEF LeftAlone
<1> QED BY <1>2, <1>3

\* A step of the reader itself, between waits for many or in one.
LEMMA ResultsByOwn ==
  ASSUME IInv, NEW r \in SyncReaders, ReaderStep(r), Results(r), ~owed[r]
  PROVE  Results(r)' /\ ~owed'[r]
<1>1. /\ TypeOK /\ NoStaleSignal /\ r \in Readers /\ r \notin AsyncReaders
      /\ got[r] \in Seq(Int) /\ temp_count[r] \in Int /\ reader_count[r] \in Nat
  BY SyncIsReader, ReadersAssumption DEF IInv, TypeOK
<1>2. ~owed'[r]
  BY <1>1 DEF ReaderStep, WaitStep, RegisterReader, WaitReady, WaitNotReady, SetReadyCallback,
     SetReadyFire, WaitReturn, CancelCallback, CallHaveData, GetResult, WaitTimeout, Skip,
     DestroyReader, DestroyCancel, UnRegisterReader, TypeOK
<1>3. CASE SetReadyFire(r)
  BY <1>2, <1>3, MayFireResults DEF SetReadyFire, histVars
<1>4. CASE WaitReady(r)
  <2>1. /\ pc[r] = "idle" /\ ~reader_quit[r] /\ event' = event
        /\ AtLeast(buffer_queue, reader_count[r]) # {} /\ GetBulk({r}, buffer_queue)
        /\ got'[r] = Append(got[r], temp_count'[r])
    BY <1>1, <1>4 DEF WaitReady, MayWait, TypeOK
  <2>2. ~event'[r]
    BY <1>1, <2>1 DEF NoStaleSignal
  <2>3. count \in Nat /\ buffer_queue \subseteq 0 .. count
    BY <1>1 DEF TypeOK
  <2>4. /\ FindBulk(buffer_queue, reader_count[r]) \in buffer_queue
        /\ FindBulk(buffer_queue, reader_count[r]) >= reader_count[r]
    BY <1>1, <2>1, <2>3, FindBulkFacts
  <2>5. /\ count_map'[r] = FindBulk(buffer_queue, reader_count[r])
        /\ temp_count'[r] = FindBulk(buffer_queue, reader_count[r])
    BY <1>1, <2>1 DEF GetBulk
  <2>6. count_map'[r] \in Int /\ count_map'[r] >= reader_count[r]
    BY <2>3, <2>4, <2>5
  <2>7. \A i \in DOMAIN got[r] : got[r][i] < temp_count'[r]
    BY <1>1, <2>5, <2>6, FetchedIsFresh
  <2>8. \A i \in DOMAIN got[r] : got[r][i] <= temp_count'[r]
    <3>1. \A i \in DOMAIN got[r] : got[r][i] \in Int
      BY <1>1
    <3> QED BY <2>5, <2>6, <2>7, <3>1
  <2> QED BY <1>1, <1>2, <2>1, <2>2, <2>5, <2>6, <2>8, ResultsTaken
<1>5. CASE WaitReturn(r)
  <2>1. /\ event[r] /\ ~event'[r] /\ UNCHANGED <<temp_count, count_map, reader_quit>>
        /\ got'[r] = IF reader_quit[r] THEN got[r] ELSE Append(got[r], temp_count[r])
    BY <1>1, <1>5 DEF WaitReturn, TypeOK, queueVars, readerVars
  <2>2. CASE reader_quit[r]
    <3>1. reader_quit'[r]
      BY <2>1, <2>2
    <3>2. UNCHANGED <<temp_count[r], count_map[r], got[r]>>
      BY <2>1, <2>2
    <3> QED BY <1>2, <3>1, <3>2, ResultsStay
  <2>3. CASE ~reader_quit[r]
    <3>1. \A i \in DOMAIN got[r] : got[r][i] <= temp_count'[r]
      BY <2>1 DEF Results
    <3>2. temp_count'[r] = count_map'[r]
      BY <2>1 DEF Results
    <3> QED BY <1>1, <1>2, <2>1, <2>3, <3>1, <3>2, ResultsTaken
  <2> QED BY <2>2, <2>3
<1>6. CASE ~SetReadyFire(r) /\ ~WaitReady(r) /\ ~WaitReturn(r)
  <2>1. UNCHANGED <<temp_count, count_map, got, event, reader_quit>>
    BY <1>1, <1>6 DEF ReaderStep, WaitStep, RegisterReader, WaitNotReady, SetReadyCallback,
       CancelCallback, CallHaveData, GetResult, WaitTimeout, Skip, DestroyReader,
       DestroyCancel, UnRegisterReader, readerVars, queueVars, histVars
  <2>2. owed[r] \in BOOLEAN /\ owed'[r] \in BOOLEAN
    <3>1. IInv'
      BY <1>1, KeptByReader
    <3> QED BY <1>1, <3>1 DEF IInv, TypeOK
  <2>3. owed'[r] = owed[r]
    BY <1>2, <2>2
  <2> QED BY <2>1, <2>3, ResultsStay
<1> QED BY <1>2, <1>3, <1>4, <1>5, <1>6

\* A reader with a bulk for a later GetResult has no callback.
LEMMA OwedHasNoCallback ==
  ASSUME IInv, ManyInv, NEW r \in SyncReaders, r \in callback_map
  PROVE  ~owed[r]
<1>1. r \in Readers /\ Membership
  BY SyncIsReader DEF IInv
<1>2. ~Untouched(r)
  BY <1>1 DEF Membership, Untouched
<1>3. CASE r \notin WaitList
  BY <1>3 DEF ManyInv, ManyTypes
<1>4. CASE r \in WaitList
  <2>1. ManyLife(r) /\ many \in {"no", "front", "asleep", "back", "over"}
    BY <1>4 DEF ManyInv, ManyTypes
  <2> QED BY <1>2, <2>1 DEF ManyLife, ToCome, AtOnce, Armed, TakeBack, Done
<1> QED BY <1>3, <1>4

\* A reader that a step leaves alone is where it was.
LEMMA LifeStays ==
  ASSUME IInv, NEW r \in WaitList, ManyLife(r), LeftAlone(r), many' = many,
         (r \in todo') <=> (r \in todo),
         (r \in need_check') <=> (r \in need_check),
         (r \in finish_list') <=> (r \in finish_list)
  PROVE  ManyLife(r)'
<1>1. Untouched(r) => Untouched(r)'
  <2>1. Untouched(r) => r \notin callback_map
    BY SyncIsReader DEF Untouched, IInv, Membership
  <2> QED BY <2>1 DEF Untouched, LeftAlone
<1>2. /\ ToCome(r) => ToCome(r)'
      /\ AtOnce(r) => AtOnce(r)'
  BY <1>1 DEF ToCome, AtOnce, LeftAlone
<1>3. /\ Armed(r) => Armed(r)'
      /\ TakeBack(r) => TakeBack(r)'
  BY DEF Armed, TakeBack, LeftAlone
<1>4. Done(r) => Done(r)'
  BY DEF Done, LeftAlone
<1>5. pc'[r] = pc[r] /\ owed'[r] = owed[r]
  BY DEF LeftAlone
<1> QED BY <1>2, <1>3, <1>4, <1>5 DEF ManyLife

\* Nothing of a reader changes.
LEMMA SameAlone ==
  ASSUME NEW r, UNCHANGED <<pc[r], owed[r], event[r], reader_quit[r]>>,
         r \in callback_map' => r \in callback_map
  PROVE  LeftAlone(r)
BY DEF LeftAlone

\* The queue's owner and the readers used one by one.
LEMMA ManyBesides ==
  ASSUME IInv, ManyInv, UNCHANGED <<many, todo, manyLists>>,
         OwnerStep \/ \E x \in Readers : (x \in WaitList => many = "no") /\ ReaderStep(x)
  PROVE  ManyInv'
<1>1. ASSUME NEW r \in SyncReaders
      PROVE  Results(r) /\ (r \in callback_map => ~owed[r])
  BY OwedHasNoCallback DEF ManyInv
<1>2. CASE OwnerStep
  <2>1. \A r \in SyncReaders : Results(r)' /\ LeftAlone(r)
    BY <1>1, <1>2, ResultsByOwner
  <2>2. \A r \in WaitList : ManyLife(r)'
    BY <2>1, SyncIsReader, LifeStays DEF ManyInv, manyLists
  <2>3. ManyTypes'
    BY <2>1 DEF ManyInv, ManyTypes, manyLists, LeftAlone
  <2> QED BY <2>1, <2>2, <2>3 DEF ManyInv
<1>3. ASSUME NEW x \in Readers, x \in WaitList => many = "no", ReaderStep(x)
      PROVE  ManyInv'
  <2>1. ASSUME NEW r \in SyncReaders, r # x
        PROVE  Results(r)' /\ LeftAlone(r)
    BY <1>1, <1>3, <2>1, ResultsByOther
  <2>2. ASSUME x \in SyncReaders
        PROVE  Results(x)' /\ ~owed'[x]
    <3>1. ~owed[x]
      BY <1>3, <2>2 DEF ManyInv, ManyTypes, ManyLife
    <3> QED BY <1>1, <1>3, <2>2, <3>1, ResultsByOwn
  <2>3. \A r \in SyncReaders : Results(r)'
    BY <2>1, <2>2
  <2>4. ASSUME NEW r \in WaitList PROVE ManyLife(r)'
    <3>1. CASE r = x
      BY <1>3, <2>2, <3>1, SyncIsReader DEF ManyLife
    <3>2. CASE r # x
      BY <2>1, <3>2, SyncIsReader, LifeStays DEF ManyInv, manyLists
    <3> QED BY <3>1, <3>2
  <2>5. ManyTypes'
    BY <2>1, <2>2 DEF ManyInv, ManyTypes, manyLists, LeftAlone
  <2> QED BY <2>3, <2>4, <2>5 DEF ManyInv
<1> QED BY <1>2, <1>3

\* What the thread does between two steps of its readers.
LEMMA ManyTurns ==
  ASSUME IInv, ManyInv, StartWait \/ WaitMany \/ WakeMany \/ EndWait
  PROVE  ManyInv'
<1>1. UNCHANGED vars
  BY DEF StartWait, WaitMany, WakeMany, EndWait
<1>2. \A r \in SyncReaders : Results(r)'
  BY <1>1, ResultsStay DEF ManyInv, vars
<1>3. ManyTypes'
  BY <1>1 DEF ManyInv, ManyTypes, StartWait, WaitMany, WakeMany, EndWait, vars, manyLists
<1>4. ASSUME NEW r \in WaitList PROVE ManyLife(r)'
  <2>1. /\ ManyLife(r)
        /\ UNCHANGED <<pc, owed, event, reader_quit, callback_map>>
    BY <1>1 DEF ManyInv, vars
  <2>2. CASE StartWait
    <3>1. MayWait(r) /\ many = "no" /\ many' = "front" /\ todo' = WaitList
          /\ need_check' = {} /\ finish_list' = {}
      BY <2>2 DEF StartWait
    <3> QED BY <2>1, <3>1 DEF ManyLife, ToCome, Untouched, MayWait
  <2>3. CASE WaitMany
    <3>1. /\ many = "front" /\ todo = {} /\ pc[r] \notin {"checked", "set"}
          /\ many' = IF need_check = {} THEN "over" ELSE "asleep"
          /\ UNCHANGED <<todo, need_check, finish_list>>
      BY <2>3 DEF WaitMany, AtLoopHead, manyLists
    <3>2. AtOnce(r) \/ (Armed(r) /\ pc[r] = "waiting")
      BY <2>1, <3>1 DEF ManyLife, ToCome, Armed
    <3>3. AtOnce(r) => Done(r)'
      <4>1. ~reader_quit[r] /\ pc[r] = "idle" => ~event[r] /\ r \notin callback_map
        BY SyncIsReader DEF IInv, NoStaleSignal, Membership
      <4> QED BY <2>1, <3>1, <4>1 DEF AtOnce, Done, Untouched
    <3>4. /\ AtOnce(r) => AtOnce(r)'
          /\ Armed(r) => Armed(r)'
      BY <2>1, <3>1 DEF AtOnce, Armed, Untouched
    <3> QED BY <2>1, <3>1, <3>2, <3>3, <3>4 DEF ManyLife, Armed
  <2>4. CASE WakeMany
    <3>1. /\ many = "asleep" /\ many' = "back" /\ todo' = need_check
          /\ UNCHANGED <<need_check, finish_list>>
      BY <2>4 DEF WakeMany, manyLists
    <3>2. AtOnce(r) => Done(r)'
      <4>1. ~reader_quit[r] /\ pc[r] = "idle" => ~event[r] /\ r \notin callback_map
        BY SyncIsReader DEF IInv, NoStaleSignal, Membership
      <4> QED BY <2>1, <3>1, <4>1 DEF AtOnce, Done, Untouched
    <3>3. Armed(r) /\ pc[r] = "waiting" => TakeBack(r)'
      BY <2>1, <3>1 DEF Armed, TakeBack
    <3> QED BY <2>1, <3>1, <3>2, <3>3 DEF ManyLife
  <2>5. CASE EndWait
    <3>1. /\ many = "back" /\ todo = {} /\ many' = "over"
          /\ UNCHANGED <<todo, need_check, finish_list>>
      BY <2>5 DEF EndWait, manyLists
    <3>2. Done(r)
      BY <2>1, <3>1 DEF ManyLife, TakeBack
    <3>3. Done(r)'
      BY <2>1, <3>1, <3>2 DEF Done
    <3> QED BY <3>1, <3>3 DEF ManyLife
  <2> QED BY <2>2, <2>3, <2>4, <2>5
<1> QED BY <1>2, <1>3, <1>4 DEF ManyInv

\* The loop finds a bulk.
LEMMA ManyFrontReady ==
  ASSUME IInv, ManyInv, NEW r \in WaitList, WaitFrontReady(r)
  PROVE  IInv' /\ ManyInv'
<1>1. /\ TypeOK /\ r \in SyncReaders /\ r \in Readers /\ reader_count[r] \in Nat
      /\ owed \in [Readers -> BOOLEAN] /\ Results(r) /\ ManyLife(r)
  BY SyncIsReader DEF IInv, TypeOK, ManyInv
<1>2. /\ many = "front" /\ r \in todo
      /\ AtLeast(buffer_queue, reader_count[r]) # {} /\ GetBulk({r}, buffer_queue)
      /\ buffer_queue' = MayReleaseBuffer(buffer_queue, reader_min')
      /\ owed' = [owed EXCEPT ![r] = TRUE]
      /\ todo' = todo \ {r} /\ finish_list' = finish_list \cup {r}
      /\ UNCHANGED <<quiting, count, callback_map, registered, event, reader_quit, tasks, pc,
                     quit_pc, crashed, recycled, passed, base, got, many, need_check>>
  BY DEF WaitFrontReady, histVars
<1>3. ToCome(r)
  BY <1>1, <1>2 DEF ManyLife, AtOnce, Armed
<1>4. owed' \in [Readers -> BOOLEAN] /\ owed'[r]
  BY <1>1, <1>2
<1>5. IInv'
  BY <1>1, <1>2, <1>3, <1>4, ReadyKeeps DEF ToCome, Untouched
<1>6. Results(r)'
  <2>1. count \in Nat /\ buffer_queue \subseteq 0 .. count
    BY <1>1 DEF TypeOK
  <2>2. /\ FindBulk(buffer_queue, reader_count[r]) \in buffer_queue
        /\ FindBulk(buffer_queue, reader_count[r]) >= reader_count[r]
    BY <1>1, <1>2, <2>1, FindBulkFacts
  <2>3. /\ count_map'[r] = FindBulk(buffer_queue, reader_count[r])
        /\ temp_count'[r] = FindBulk(buffer_queue, reader_count[r])
    BY <1>1, <1>2 DEF GetBulk
  <2>4. count_map'[r] \in Int /\ count_map'[r] >= reader_count[r]
    <3>1. \A c \in buffer_queue : c \in Int
      BY <2>1
    <3> QED BY <2>2, <2>3, <3>1
  <2> QED BY <1>1, <1>2, <1>4, <2>3, <2>4, ResultsFetched
<1>7. ASSUME NEW x \in SyncReaders, x # r
      PROVE  Results(x)' /\ LeftAlone(x)
  <2>1. x \in Readers /\ Results(x)
    BY SyncIsReader DEF ManyInv
  <2>2. UNCHANGED <<temp_count[x], count_map[x]>>
    BY <1>2, <1>7, <2>1 DEF GetBulk
  <2>3. owed'[x] = owed[x]
    BY <1>1, <1>2, <1>7, <2>1
  <2> QED BY <1>2, <2>1, <2>2, <2>3, ResultsStay DEF LeftAlone
<1>8. ManyLife(r)'
  BY <1>2, <1>3, <1>4 DEF ManyLife, ToCome, AtOnce, Untouched
<1>9. ASSUME NEW x \in WaitList, x # r PROVE ManyLife(x)'
  <2>1. ManyLife(x) /\ LeftAlone(x) /\ many' = many
    BY <1>2, <1>7, <1>9, SyncIsReader DEF ManyInv
  <2>2. /\ (x \in todo') <=> (x \in todo)
        /\ (x \in need_check') <=> (x \in need_check)
        /\ (x \in finish_list') <=> (x \in finish_list)
    BY <1>2, <1>9
  <2> QED BY <2>1, <2>2, LifeStays
<1>10. ManyTypes'
  BY <1>2, <1>7 DEF ManyInv, ManyTypes, LeftAlone
<1> QED BY <1>5, <1>6, <1>7, <1>8, <1>9, <1>10 DEF ManyInv

\* The loop finds none, and arms.
LEMMA ManyFront ==
  ASSUME IInv, ManyInv, NEW r \in WaitList, WaitFront(r)
  PROVE  IInv' /\ ManyInv'
<1>1. /\ TypeOK /\ r \in SyncReaders /\ r \in Readers /\ ManyLife(r) /\ many = "front"
      /\ UNCHANGED <<many, finish_list>>
  BY SyncIsReader DEF IInv, ManyInv, WaitFront
<1>2. WaitNotReady(r) \/ SetReadyCallback(r) \/ SetReadyFire(r)
  BY DEF WaitFront
<1>3. ReaderStep(r)
  BY <1>2 DEF ReaderStep, WaitStep
<1>4. IInv'
  BY <1>1, <1>3, KeptByReader
<1>5. /\ ToCome(r) \/ Armed(r)
      /\ (r \notin todo' /\ r \in need_check')
      /\ \A x \in WaitList : x # r => /\ (x \in todo') <=> (x \in todo)
                                      /\ (x \in need_check') <=> (x \in need_check)
      /\ todo' \subseteq todo /\ need_check' \subseteq need_check \cup {r}
  <2>1. CASE r \in todo /\ WaitNotReady(r) /\ todo' = todo \ {r} /\ need_check' = need_check \cup {r}
    BY <1>1, <2>1 DEF ManyLife, AtOnce, Armed
  <2>2. CASE (SetReadyCallback(r) \/ SetReadyFire(r)) /\ UNCHANGED <<todo, need_check>>
    <3>1. pc[r] \in {"checked", "set"}
      BY <2>2 DEF SetReadyCallback, SetReadyFire
    <3>2. Armed(r)
      BY <1>1, <3>1 DEF ManyLife, ToCome, AtOnce, Untouched
    <3> QED BY <2>2, <3>2 DEF Armed
  <2> QED BY <2>1, <2>2 DEF WaitFront
<1>6. ~owed[r] /\ r \notin finish_list /\ Results(r)
  BY <1>1, <1>5 DEF ToCome, Armed, ManyInv
<1>7. Results(r)' /\ ~owed'[r]
  BY <1>1, <1>3, <1>6, ResultsByOwn
<1>8. pc'[r] \in {"checked", "set", "waiting"}
  BY <1>1, <1>2 DEF WaitNotReady, SetReadyCallback, SetReadyFire, Goto, TypeOK
<1>9. ManyLife(r)'
  BY <1>1, <1>5, <1>6, <1>7, <1>8 DEF ManyLife, Armed
<1>10. ASSUME NEW x \in SyncReaders, x # r PROVE Results(x)' /\ LeftAlone(x)
  <2>1. Results(x) /\ (x \in callback_map => ~owed[x])
    BY OwedHasNoCallback DEF ManyInv
  <2> QED BY <1>1, <1>3, <1>10, <2>1, ResultsByOther
<1>11. ASSUME NEW x \in WaitList, x # r PROVE ManyLife(x)'
  <2>1. ManyLife(x) /\ LeftAlone(x)
    BY <1>10, <1>11, SyncIsReader DEF ManyInv
  <2> QED BY <1>1, <1>5, <1>11, <2>1, LifeStays
<1>12. ManyTypes'
  BY <1>1, <1>5, <1>10 DEF ManyInv, ManyTypes, LeftAlone
<1> QED BY <1>4, <1>7, <1>9, <1>10, <1>11, <1>12 DEF ManyInv

\* A callback is taken back, or was called.
LEMMA ManyBack ==
  ASSUME IInv, ManyInv, NEW r \in WaitList, WaitBack(r)
  PROVE  IInv' /\ ManyInv'
<1>1. /\ TypeOK /\ r \in SyncReaders /\ r \in Readers /\ r \notin AsyncReaders
      /\ ManyLife(r) /\ Results(r) /\ ThreadInv(r) /\ owed \in [Readers -> BOOLEAN]
  BY SyncIsReader, ReadersAssumption, ThreadInvNow DEF IInv, ManyInv, TypeOK
<1>2. /\ many = "back" /\ r \in todo /\ todo' = todo \ {r}
      /\ callback_map' = callback_map \ {r}
      /\ event' = [event EXCEPT ![r] = FALSE] /\ pc' = [pc EXCEPT ![r] = "idle"]
      /\ owed' = [owed EXCEPT ![r] = r \notin callback_map]
      /\ finish_list' = IF r \in callback_map THEN finish_list ELSE finish_list \cup {r}
      /\ UNCHANGED <<quiting, queueVars, registered, readerVars, reader_quit, tasks, quit_pc,
                     crashed, histVars, many, need_check>>
  BY DEF WaitBack, Goto
<1>3. TakeBack(r)
  BY <1>1, <1>2 DEF ManyLife, Done
<1>4. r \in callback_map \/ event[r]
  BY <1>1, <1>3 DEF ThreadInv, TakeBack
<1>5. /\ pc'[r] = "idle" /\ ~event'[r] /\ r \notin callback_map'
      /\ owed'[r] = (r \notin callback_map)
      /\ \A x \in Readers : x # r => /\ UNCHANGED <<pc[x], event[x], owed[x]>>
                                     /\ (x \in callback_map') <=> (x \in callback_map)
  BY <1>1, <1>2 DEF TypeOK
<1>6. IInv'
  <2>1. TypeOK'
    <3>1. pc' \in [Readers -> PCs] /\ event' \in [Readers -> BOOLEAN]
      BY <1>1, <1>2 DEF TypeOK, PCs
    <3>2. owed' \in [Readers -> BOOLEAN]
      BY <1>1, <1>2, Zenon
    <3> QED BY <1>1, <1>2, <3>1, <3>2 DEF TypeOK, queueVars, readerVars, histVars
  <2>2. ThreadInv(r)'
    BY <1>1, <1>2, <1>3, <1>5 DEF ThreadInv, TakeBack, queueVars, readerVars
  <2>3. \A x \in Readers : x # r =>
           /\ pc'[x] = pc[x] /\ event'[x] = event[x] /\ tasks'[x] = tasks[x]
           /\ reader_quit'[x] = reader_quit[x]
           /\ x \in callback_map' <=> x \in callback_map
    BY <1>2, <1>5
  <2>4. UNCHANGED <<quiting, count, buffer_queue, registered, count_map, reader_min,
                    reader_max, reader_count, recycled, base>>
    BY <1>2 DEF queueVars, readerVars, histVars
  <2> QED BY <1>1, <2>1, <2>2, <2>3, <2>4, QuietStep
<1>7. UNCHANGED <<temp_count, count_map, got, reader_quit>>
  BY <1>2 DEF queueVars, readerVars, histVars
<1>8. Results(r)'
  <2>1. ~reader_quit[r] => (event[r] <=> r \notin callback_map)
    BY <1>1, <1>4 DEF ThreadInv
  <2>2. ~owed[r]
    BY <1>3 DEF TakeBack
  <2>3. ~reader_quit[r] => ((event[r] \/ owed[r]) <=> (event'[r] \/ owed'[r]))
    BY <1>5, <2>1, <2>2
  <2>4. UNCHANGED <<temp_count[r], count_map[r], got[r], reader_quit[r]>>
    BY <1>7
  <2> QED BY <1>1, <2>3, <2>4 DEF Results, Fresh, Taken
<1>9. ASSUME NEW x \in SyncReaders, x # r PROVE Results(x)' /\ LeftAlone(x)
  <2>1. x \in Readers /\ Results(x)
    BY SyncIsReader DEF ManyInv
  <2>2. UNCHANGED <<pc[x], event[x], owed[x], reader_quit[x], temp_count[x], count_map[x], got[x]>>
    BY <1>5, <1>7, <1>9, <2>1
  <2>3. (x \in callback_map') <=> (x \in callback_map)
    BY <1>5, <1>9, <2>1
  <2> QED BY <2>1, <2>2, <2>3, ResultsStay, SameAlone
<1>10. ManyLife(r)'
  <2>1. Done(r)'
    <3>1. (r \in finish_list') <=> r \notin callback_map
      BY <1>2, <1>3 DEF TakeBack
    <3> QED BY <1>2, <1>5, <3>1 DEF Done
  <2> QED BY <1>2, <2>1 DEF ManyLife
<1>11. ASSUME NEW x \in WaitList, x # r PROVE ManyLife(x)'
  <2>1. ManyLife(x) /\ LeftAlone(x) /\ many' = many
    BY <1>2, <1>9, <1>11, SyncIsReader DEF ManyInv
  <2>2. /\ (x \in todo') <=> (x \in todo)
        /\ (x \in need_check') <=> (x \in need_check)
        /\ (x \in finish_list') <=> (x \in finish_list)
    BY <1>2, <1>11
  <2> QED BY <2>1, <2>2, LifeStays
<1>12. ManyTypes'
  BY <1>2, <1>9 DEF ManyInv, ManyTypes, LeftAlone
<1> QED BY <1>6, <1>8, <1>9, <1>10, <1>11, <1>12 DEF ManyInv

\* The caller takes the results.
LEMMA ManyTaken ==
  ASSUME IInv, ManyInv, TakeResults
  PROVE  IInv' /\ ManyInv'
<1>1. /\ TypeOK /\ many = "over" /\ many' = "no" /\ need_check' = {} /\ finish_list' = {}
      /\ got' = [r \in Readers |-> IF r \in finish_list /\ ~reader_quit[r]
                                   THEN Append(got[r], temp_count[r]) ELSE got[r]]
      /\ owed' = [r \in Readers |-> owed[r] /\ r \notin finish_list]
      /\ UNCHANGED <<quiting, count, buffer_queue, count_map, reader_min, reader_max,
                     callback_map, registered, reader_count, temp_count, event, reader_quit,
                     tasks, pc, quit_pc, crashed, recycled, passed, base, todo>>
  BY DEF IInv, TakeResults, queueVars, readerVars
<1>2. IInv'
  <2>1. owed' \in [Readers -> BOOLEAN]
    BY <1>1
  <2>2. got' \in [Readers -> Seq(Int)]
    BY <1>1 DEF TypeOK
  <2>3. TypeOK'
    BY <1>1, <2>1, <2>2 DEF TypeOK
  <2>4. AsksAhead' /\ RangeIsExact' /\ NothingReleasedEarly' /\ QueueIsTail'
    BY <1>1, PositionsStay
  <2>5. Membership' /\ Wakeable' /\ NoStaleSignal'
    BY <1>1 DEF IInv, Membership, Wakeable, NoStaleSignal
  <2>6. NoMissedWakeup'
    BY <1>1 DEF IInv, NoMissedWakeup, AtLeast
  <2> QED BY <2>3, <2>4, <2>5, <2>6 DEF IInv
<1>3. ASSUME NEW r \in SyncReaders
      PROVE  Results(r)' /\ (r \in WaitList => ~owed'[r]) /\ (r \notin WaitList => ~owed'[r])
  <2>1. r \in Readers /\ Results(r) /\ got[r] \in Seq(Int) /\ temp_count[r] \in Int
    BY <1>1, SyncIsReader DEF ManyInv, TypeOK
  <2>2. r \in WaitList => Done(r)
    BY <1>1 DEF ManyInv, ManyLife
  <2>3. r \notin WaitList => ~owed[r] /\ r \notin finish_list
    BY DEF ManyInv, ManyTypes
  <2>4. ~owed'[r]
    BY <1>1, <2>1, <2>2, <2>3 DEF Done
  <2>5. UNCHANGED <<temp_count[r], count_map[r], event[r], reader_quit[r]>>
    BY <1>1
  <2>6. CASE r \in finish_list /\ ~reader_quit[r]
    <3>1. got'[r] = Append(got[r], temp_count'[r])
      BY <1>1, <2>1, <2>6
    <3>2. ~event'[r]
      BY <2>2, <2>3, <2>5, <2>6 DEF Done
    <3>3. temp_count'[r] = count_map'[r] /\ \A i \in DOMAIN got[r] : got[r][i] <= temp_count'[r]
      BY <2>1, <2>5 DEF Results
    <3>4. Results(r)'
      BY <2>1, <2>4, <2>5, <3>1, <3>2, <3>3, ResultsTaken
    <3> QED BY <2>4, <3>4
  <2>7. CASE ~(r \in finish_list /\ ~reader_quit[r])
    <3>1. got'[r] = got[r]
      BY <1>1, <2>1, <2>7
    <3>2. ~reader_quit[r] => ~owed[r]
      BY <2>2, <2>3, <2>7 DEF Done
    <3>3. Results(r)'
      BY <2>1, <2>4, <2>5, <3>1, <3>2 DEF Results, Fresh, Taken
    <3> QED BY <2>4, <3>3
  <2> QED BY <2>6, <2>7
<1>4. \A r \in WaitList : ManyLife(r)'
  BY <1>1, <1>3, SyncIsReader DEF ManyLife
<1>5. ManyTypes'
  BY <1>1, <1>3 DEF ManyInv, ManyTypes
<1> QED BY <1>2, <1>3, <1>4, <1>5 DEF ManyInv

\* Nothing happens.
LEMMA ManyStuttering ==
  ASSUME ManyInv, UNCHANGED manyVars PROVE ManyInv'
<1>1. UNCHANGED <<pc, owed, event, reader_quit, callback_map, temp_count, count_map, got,
                  many, todo, need_check, finish_list>>
  BY DEF manyVars, vars, manyLists
<1>2. \A r \in SyncReaders : Results(r)'
  BY <1>1, ResultsStay DEF ManyInv
<1>3. \A r \in WaitList : ManyLife(r)'
  BY <1>1 DEF ManyInv, ManyLife, ToCome, AtOnce, Armed, TakeBack, Done, Untouched
<1>4. ManyTypes'
  BY <1>1 DEF ManyInv, ManyTypes
<1> QED BY <1>2, <1>3, <1>4 DEF ManyInv

\* The queue's invariant holds with a thread that waits for several readers too, and
\* each of these is where the wait has left it.
THEOREM ManyInvariance == ManySpec => [](IInv /\ ManyInv)
<1>1. ManyInit => IInv /\ ManyInv
  <2> SUFFICES ASSUME ManyInit PROVE IInv /\ ManyInv
    OBVIOUS
  <2>1. Init /\ many = "no" /\ todo = {} /\ need_check = {} /\ finish_list = {}
    BY DEF ManyInit
  <2>2. \A r \in SyncReaders : Results(r)
    BY <2>1, SyncIsReader DEF Init, Results, Taken
  <2>3. \A r \in SyncReaders : ~owed[r]
    BY <2>1, SyncIsReader DEF Init
  <2>4. \A r \in WaitList : ManyLife(r)
    BY <2>1, <2>3, SyncIsReader DEF ManyLife
  <2>5. ManyTypes
    BY <2>1, <2>3 DEF ManyTypes
  <2> QED BY <2>1, <2>2, <2>4, <2>5, InitIInv DEF ManyInv
<1>2. IInv /\ ManyInv /\ [ManyNext]_manyVars => IInv' /\ ManyInv'
  <2> SUFFICES ASSUME IInv, ManyInv, [ManyNext]_manyVars PROVE IInv' /\ ManyInv'
    OBVIOUS
  <2>1. CASE UNCHANGED manyVars
    BY <2>1, ManyStuttering, KeptByStuttering DEF manyVars
  <2>2. CASE StartWait \/ WaitMany \/ WakeMany \/ EndWait
    <3>1. UNCHANGED vars
      BY <2>2 DEF StartWait, WaitMany, WakeMany, EndWait
    <3> QED BY <2>2, <3>1, ManyTurns, KeptByStuttering
  <2>3. CASE TakeResults
    BY <2>3, ManyTaken
  <2>4. ASSUME NEW r \in WaitList, WaitFrontReady(r) \/ WaitFront(r) \/ WaitBack(r)
        PROVE  IInv' /\ ManyInv'
    BY <2>4, ManyFrontReady, ManyFront, ManyBack
  <2>5. CASE /\ OwnerStep \/ \E r \in Readers : (r \in WaitList => many = "no") /\ ReaderStep(r)
             /\ UNCHANGED <<many, todo, manyLists>>
    BY <2>5, ManyBesides, KeptByOwner, KeptByReader
  <2> QED BY <2>1, <2>2, <2>3, <2>4, <2>5 DEF ManyNext
<1> QED BY <1>1, <1>2, PTL DEF ManySpec

\* Once WaitForManyReader is through it has taken back every callback and every
\* event, and the readers with a bulk nobody took are those in finish_list_.
THEOREM ManyWaitsAreClean == ManySpec => []ManyLeavesNothing
<1>1. IInv /\ ManyInv => ManyLeavesNothing
  <2> SUFFICES ASSUME IInv, ManyInv, many = "over", NEW r \in WaitList
               PROVE  /\ pc[r] = "idle" /\ ~event[r] /\ r \notin callback_map
                      /\ ~reader_quit[r] => (r \in finish_list <=>
                           temp_count[r] # Unread /\ ~Contains(got[r], temp_count[r]))
    BY DEF ManyLeavesNothing
  <2>1. Done(r) /\ Results(r) /\ got[r] \in Seq(Int) /\ temp_count[r] \in Int
    BY SyncIsReader DEF ManyInv, ManyLife, IInv, TypeOK
  <2>2. Contains(got[r], temp_count[r]) <=> \E i \in DOMAIN got[r] : got[r][i] = temp_count[r]
    BY <2>1 DEF Contains
  <2>3. CASE owed[r]
    <3>1. ~reader_quit[r] => Fresh(r)
      BY <2>1, <2>3 DEF Results
    <3>2. \A i \in DOMAIN got[r] : got[r][i] \in Int
      BY <2>1
    <3>3. Fresh(r) => temp_count[r] # Unread /\ ~Contains(got[r], temp_count[r])
      BY <2>1, <2>2, <3>2 DEF Fresh
    <3> QED BY <2>1, <2>3, <3>1, <3>3 DEF Done
  <2>4. CASE ~owed[r]
    <3>1. ~reader_quit[r] => Taken(r)
      BY <2>1, <2>4 DEF Results, Done
    <3> QED BY <2>1, <2>2, <2>4, <3>1 DEF Done, Taken
  <2> QED BY <2>3, <2>4
<1> QED BY <1>1, ManyInvariance, PTL

\* A wait for many hands bulks over as a wait for one does.
THEOREM ManyIsAStream == ManySpec => ImplementsStream
<1>1. ManyInit => Stream!SInit /\ Gone
  BY DEF ManyInit, Init, Stream!SInit, Gone
<1>2. IInv /\ ManyInv /\ Gone /\ [ManyNext]_manyVars => [Stream!SNext]_Stream!streamVars /\ Gone'
  <2> SUFFICES ASSUME IInvGone, ManyInv, [ManyNext]_manyVars PROVE StreamStep /\ Gone'
    BY DEF StreamStep, IInvGone
  <2>1. CASE UNCHANGED vars
    BY <2>1, HiddenMaps DEF vars
  <2>2. CASE OwnerStep \/ \E r \in Readers : ReaderStep(r)
    BY <2>2, StepMaps DEF Next
  <2>3. CASE TakeResults
    <3>1. UNCHANGED <<count, buffer_queue, registered, reader_count, recycled, passed, base>>
      BY <2>3 DEF TakeResults, queueVars, readerVars
    <3> QED BY <3>1, HiddenMaps
  <2>4. ASSUME NEW r \in WaitList, WaitBack(r) PROVE StreamStep /\ Gone'
    <3>1. UNCHANGED <<count, buffer_queue, registered, reader_count, recycled, passed, base>>
      BY <2>4 DEF WaitBack, queueVars, readerVars, histVars
    <3> QED BY <3>1, HiddenMaps
  <2>5. ASSUME NEW r \in WaitList, WaitFrontReady(r) PROVE StreamStep /\ Gone'
    <3>1. many = "front" /\ r \in todo /\ ManyLife(r) /\ r \in Readers
      BY <2>5, SyncIsReader DEF WaitFrontReady, ManyInv
    <3>2. pc[r] = "idle"
      BY <3>1 DEF ManyLife, ToCome, AtOnce, Armed, Untouched
    <3>3. /\ AtLeast(buffer_queue, reader_count[r]) # {} /\ GetBulk({r}, buffer_queue)
          /\ buffer_queue' = MayReleaseBuffer(buffer_queue, reader_min')
          /\ UNCHANGED <<count, registered, recycled, passed, base>>
      BY <2>5 DEF WaitFrontReady, histVars
    <3> QED BY <3>1, <3>2, <3>3, ReadyMaps
  <2>6. ASSUME NEW r \in WaitList, WaitFront(r) PROVE StreamStep /\ Gone'
    <3>1. ReaderStep(r) /\ r \in Readers
      BY <2>6, SyncIsReader DEF WaitFront, ReaderStep, WaitStep
    <3> QED BY <3>1, StepMaps DEF Next
  <2> QED BY <2>1, <2>2, <2>3, <2>4, <2>5, <2>6
      DEF ManyNext, StartWait, WaitMany, WakeMany, EndWait, manyVars
<1> QED BY <1>1, <1>2, ManyInvariance, PTL DEF ManySpec, ImplementsStream, Stream!StreamSpec
=============================================================================
