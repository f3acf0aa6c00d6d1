---------------------------- MODULE DevicesProofs ----------------------------
(***************************************************************************)
(* Theorems about Devices, for any places to plug a device in, any modes    *)
(* and any number of plugs, failures, devices and calls.                    *)
(*                                                                          *)
(* That nothing stays open is about the order of the tasks of the device    *)
(* thread: "destroy all" is queued once the finder was stopped, and nothing *)
(* that opens is behind it.  That pointers stay alive is about the life of  *)
(* the one device the program opens, in three stages: it is created, but    *)
(* the UI thread has not seen it, which it does before anybody can close    *)
(* the program; the UI thread has it and a reference to it; it is gone.     *)
(***************************************************************************)
EXTENDS Devices, TLAPS

Kinds == {"destroy all", "destroy", "delete", "state", "created", "start_destroy", "handle"}
Names == Paths \cup Ids \cup {NoDevice}
Tasks == (Kinds \X Names) \cup ({"open", "close"} \X Paths)
Queues == [Threads -> Seq(Tasks)]
Holders == {"own", "map", "task", "UI", "TASK"}
Device == [path : Paths, port : Nat, refs : SUBSET Holders, created : BOOLEAN,
           life : {"none", "live", "dying"}]
Work == [at : {"idle", "found", "open"}, found : SUBSET Paths, open : SUBSET Paths,
         close : SUBSET Paths, list : BOOLEAN, state : BOOLEAN]

DevTypes ==
  /\ mode \in Modes /\ usb \in [Paths -> Nat] /\ work \in Work
  /\ device \in [Paths -> Ids \cup {NoDevice}] /\ device_ \in Ids \cup {NoDevice}
  /\ dev \in [Ids -> Device] /\ queue \in Queues

Has(q, type) == \E i \in DOMAIN q : q[i][1] = type
\* nothing is to be opened once all are destroyed
OpenLast(q) ==
  \A i, j \in DOMAIN q : i < j /\ q[i][1] = "destroy all" => q[j][1] # "open"
NothingOpen ==
  /\ work.at = "idle" /\ ~Has(queue.DEVICE, "open")
  /\ \A p \in Paths : device[p] = NoDevice

\* The end of the program: the finder is stopped before "destroy all" is queued,
\* and until that has run nothing is promised.
EndInv ==
  /\ OpenLast(queue.DEVICE)
  /\ phase = "up" => manager /\ ~Has(queue.DEVICE, "destroy all")
  /\ phase # "up" => finder # "on" /\ (Has(queue.DEVICE, "destroy all") \/ NothingOpen)

\* the tasks that a device goes by
Ends == {"destroy", "delete"}
\* A device has one of them, while it is there, and the UI thread was never told
\* of one that is to be destroyed.
EndsOnce(q, devs) ==
  \A i \in DOMAIN q : q[i][1] \in Ends =>
    /\ q[i][2] \in Ids /\ devs[q[i][2]].life # "none" /\ ~devs[q[i][2]].created
    /\ \A j \in DOMAIN q : q[j][1] \in Ends /\ q[j][2] = q[i][2] => i = j
AllCreated(q) == \A i \in DOMAIN q : q[i][1] = "created"
NoEnd(q, ends, d) == \A i \in DOMAIN q : q[i][1] \in ends => q[i][2] # d

\* no device was opened
Stage0 ==
  /\ ~open_first /\ queue.UI = <<>> /\ queue.TASK = <<>> /\ device_ = NoDevice
  /\ ~window /\ phase = "up" /\ (\A p \in Paths : device[p] = NoDevice)
  /\ EndsOnce(queue.DEVICE, dev)
\* one was, the UI thread is to hear of it
Stage1(d) ==
  /\ queue.UI = <<<<"created", d>>>> /\ device_ = NoDevice
  /\ AllCreated(queue.TASK)
  /\ ~window /\ phase = "up" /\ dev[d].life # "none"
  /\ EndsOnce(queue.DEVICE, dev) /\ NoEnd(queue.DEVICE, Ends, d)
\* the UI thread has it
Stage2 ==
  /\ device_ # NoDevice /\ ~Has(queue.UI, "created")
  /\ dev[device_].life # "none" /\ "UI" \in dev[device_].refs
  /\ NoEnd(queue.DEVICE, {"delete"}, device_)
\* it is gone
Stage3 == device_ = NoDevice /\ ~Has(queue.UI, "created")

OneDevice ==
  IF mode.ui
  THEN /\ work.close = {} /\ (\A p, r \in work.open : p = r)
       /\ ~Has(queue.DEVICE, "open") /\ ~Has(queue.DEVICE, "close")
       /\ \/ Stage0
          \/ open_first /\ work.open = {} /\ (Stage2 \/ Stage3 \/ \E d \in Ids : Stage1(d))
  ELSE queue.UI = <<>> /\ queue.TASK = <<>> /\ device_ = NoDevice

DevicesInv == DevTypes /\ EndInv /\ OneDevice

-----------------------------------------------------------------------------
(* Queues. *)

LEMMA AppendIs ==
  ASSUME NEW q \in Seq(Tasks), NEW t \in Tasks
  PROVE  /\ Append(q, t) \in Seq(Tasks) /\ Len(q) \in Nat
         /\ DOMAIN q = 1 .. Len(q) /\ DOMAIN Append(q, t) = 1 .. Len(q) + 1
         /\ \A i \in 1 .. Len(q) : Append(q, t)[i] = q[i]
         /\ Append(q, t)[Len(q) + 1] = t
OBVIOUS

LEMMA TailIs ==
  ASSUME NEW q \in Seq(Tasks), q # <<>>
  PROVE  /\ Tail(q) \in Seq(Tasks) /\ Len(q) \in Nat \ {0}
         /\ DOMAIN q = 1 .. Len(q) /\ DOMAIN Tail(q) = 1 .. Len(q) - 1
         /\ \A i \in 1 .. Len(q) - 1 : Tail(q)[i] = q[i + 1]
         /\ Head(q) = q[1] /\ Head(q) \in Tasks
OBVIOUS

LEMMA AppendHas ==
  ASSUME NEW q \in Seq(Tasks), NEW t \in Tasks, NEW type
  PROVE  Has(Append(q, t), type) <=> Has(q, type) \/ t[1] = type
<1>. DEFINE r == Append(q, t)
            n == Len(q)
<1>1. /\ n \in Nat /\ DOMAIN q = 1 .. n /\ DOMAIN r = 1 .. n + 1
      /\ \A i \in 1 .. n : r[i] = q[i]
      /\ r[n + 1] = t
  BY AppendIs
<1>. HIDE DEF r, n
<1>2. \A i \in 1 .. n + 1 : i \in 1 .. n \/ i = n + 1
  BY <1>1
<1>3. \A i \in 1 .. n : i \in 1 .. n + 1
  BY <1>1
<1>4. n + 1 \in 1 .. n + 1
  BY <1>1
<1>5. Has(r, type) <=> Has(q, type) \/ t[1] = type
  BY <1>1, <1>2, <1>3, <1>4 DEF Has
<1>. QED  BY <1>5 DEF r

LEMMA TailHas ==
  ASSUME NEW q \in Seq(Tasks), q # <<>>, NEW type
  PROVE  /\ Has(Tail(q), type) => Has(q, type)
         /\ Has(q, type) /\ Head(q)[1] # type => Has(Tail(q), type)
<1>. DEFINE r == Tail(q)
            n == Len(q)
<1>1. /\ n \in Nat \ {0} /\ DOMAIN q = 1 .. n /\ DOMAIN r = 1 .. n - 1
      /\ \A i \in 1 .. n - 1 : r[i] = q[i + 1]
      /\ Head(q) = q[1]
  BY TailIs
<1>. HIDE DEF r, n
<1>2. ASSUME Has(r, type)  PROVE Has(q, type)
  <2>1. PICK i \in 1 .. n - 1 : r[i][1] = type
    BY <1>1, <1>2 DEF Has
  <2>2. i + 1 \in 1 .. n
    BY <1>1
  <2>. QED  BY <1>1, <2>1, <2>2 DEF Has
<1>3. ASSUME Has(q, type), Head(q)[1] # type  PROVE Has(r, type)
  <2>1. PICK i \in 1 .. n : q[i][1] = type
    BY <1>1, <1>3 DEF Has
  <2>2. i - 1 \in 1 .. n - 1 /\ (i - 1) + 1 = i
    <3>1. i # 1
      BY <1>1, <1>3, <2>1
    <3>. QED  BY <1>1, <3>1
  <2>3. r[i - 1] = q[i]
    BY <1>1, <2>2
  <2>. QED  BY <1>1, <2>1, <2>2, <2>3 DEF Has
<1>. QED  BY <1>2, <1>3 DEF r

Opening(t) == t[1] = "open"

LEMMA AppendOpenLast ==
  ASSUME NEW q \in Seq(Tasks), NEW t \in Tasks
  PROVE  OpenLast(q) /\ (Opening(t) => ~Has(q, "destroy all")) => OpenLast(Append(q, t))
<1>. DEFINE r == Append(q, t)
            n == Len(q)
<1>1. /\ n \in Nat /\ DOMAIN q = 1 .. n /\ DOMAIN r = 1 .. n + 1
      /\ \A i \in 1 .. n : r[i] = q[i]
      /\ r[n + 1] = t
  BY AppendIs
<1>. HIDE DEF r, n
<1>2. \A i, j \in 1 .. n + 1 : i < j => i \in 1 .. n /\ (j \in 1 .. n \/ j = n + 1)
  <2>1. n \in Nat
    BY <1>1
  <2>. QED  BY <2>1
<1>. SUFFICES ASSUME OpenLast(q), Opening(t) => ~Has(q, "destroy all")  PROVE OpenLast(r)
  BY DEF r
<1>3. \A i, j \in 1 .. n : i < j /\ q[i][1] = "destroy all" => q[j][1] # "open"
  BY <1>1 DEF OpenLast
<1>4. Opening(t) => \A i \in 1 .. n : q[i][1] # "destroy all"
  BY <1>1 DEF Has
<1>5. \A i, j \in 1 .. n + 1 : i < j /\ r[i][1] = "destroy all" => r[j][1] # "open"
  BY <1>1, <1>2, <1>3, <1>4 DEF Opening
<1>. QED  BY <1>1, <1>5 DEF OpenLast

LEMMA TailOpenLast ==
  ASSUME NEW q \in Seq(Tasks), q # <<>>, OpenLast(q)
  PROVE  OpenLast(Tail(q)) /\ (Head(q)[1] = "destroy all" => ~Has(Tail(q), "open"))
<1>. DEFINE r == Tail(q)
            n == Len(q)
<1>1. /\ n \in Nat \ {0} /\ DOMAIN q = 1 .. n /\ DOMAIN r = 1 .. n - 1
      /\ \A i \in 1 .. n - 1 : r[i] = q[i + 1]
      /\ Head(q) = q[1]
  BY TailIs
<1>. HIDE DEF r, n
<1>2. \A i \in 1 .. n - 1 : i + 1 \in 1 .. n /\ 1 < i + 1
  BY <1>1
<1>3. \A i, j \in 1 .. n - 1 : i < j => i + 1 < j + 1
  BY <1>1
<1>4. \A i, j \in 1 .. n : i < j /\ q[i][1] = "destroy all" => q[j][1] # "open"
  BY <1>1 DEF OpenLast
<1>5. \A i, j \in 1 .. n - 1 : i < j /\ r[i][1] = "destroy all" => r[j][1] # "open"
  BY <1>1, <1>2, <1>3, <1>4
<1>6. OpenLast(r)
  BY <1>1, <1>5 DEF OpenLast
<1>7. 1 \in 1 .. n
  BY <1>1
<1>8. Head(q)[1] = "destroy all" => \A j \in 1 .. n - 1 : r[j][1] # "open"
  BY <1>1, <1>2, <1>4, <1>7
<1>9. Head(q)[1] = "destroy all" => ~Has(r, "open")
  BY <1>1, <1>8 DEF Has
<1>. QED  BY <1>6, <1>9 DEF r

LEMMA AppendNoEnd ==
  ASSUME NEW q \in Seq(Tasks), NEW t \in Tasks, NEW ends, NEW d,
         NoEnd(q, ends, d), t[1] \in ends => t[2] # d
  PROVE  NoEnd(Append(q, t), ends, d)
<1>. DEFINE r == Append(q, t)
            n == Len(q)
<1>1. /\ n \in Nat /\ DOMAIN q = 1 .. n /\ DOMAIN r = 1 .. n + 1
      /\ \A i \in 1 .. n : r[i] = q[i]
      /\ r[n + 1] = t
  BY AppendIs
<1>. HIDE DEF r, n
<1>2. \A i \in 1 .. n + 1 : i \in 1 .. n \/ i = n + 1
  BY <1>1
<1>3. NoEnd(r, ends, d)
  BY <1>1, <1>2 DEF NoEnd
<1>. QED  BY <1>3 DEF r

LEMMA TailNoEnd ==
  ASSUME NEW q \in Seq(Tasks), q # <<>>, NEW ends, NEW d, NoEnd(q, ends, d)
  PROVE  NoEnd(Tail(q), ends, d) /\ (Head(q)[1] \in ends => Head(q)[2] # d)
<1>. DEFINE r == Tail(q)
            n == Len(q)
<1>1. /\ n \in Nat \ {0} /\ DOMAIN q = 1 .. n /\ DOMAIN r = 1 .. n - 1
      /\ \A i \in 1 .. n - 1 : r[i] = q[i + 1]
      /\ Head(q) = q[1]
  BY TailIs
<1>. HIDE DEF r, n
<1>2. \A i \in 1 .. n - 1 : i + 1 \in 1 .. n
  BY <1>1
<1>3. 1 \in 1 .. n
  BY <1>1
<1>4. NoEnd(r, ends, d) /\ (Head(q)[1] \in ends => Head(q)[2] # d)
  BY <1>1, <1>2, <1>3 DEF NoEnd
<1>. QED  BY <1>4 DEF r

LEMMA AppendEndsOnce ==
  ASSUME NEW q \in Seq(Tasks), NEW t \in Tasks, NEW devs, EndsOnce(q, devs),
         t[1] \in Ends => /\ t[2] \in Ids /\ devs[t[2]].life # "none" /\ ~devs[t[2]].created
                          /\ NoEnd(q, Ends, t[2])
  PROVE  EndsOnce(Append(q, t), devs)
<1>. DEFINE r == Append(q, t)
            n == Len(q)
<1>1. /\ n \in Nat /\ DOMAIN q = 1 .. n /\ DOMAIN r = 1 .. n + 1
      /\ \A i \in 1 .. n : r[i] = q[i]
      /\ r[n + 1] = t
  BY AppendIs
<1>. HIDE DEF r, n
<1>2. \A i \in 1 .. n + 1 : i \in 1 .. n \/ i = n + 1
  BY <1>1
<1>3. ASSUME NEW i \in 1 .. n + 1, r[i][1] \in Ends
      PROVE  /\ r[i][2] \in Ids /\ devs[r[i][2]].life # "none" /\ ~devs[r[i][2]].created
             /\ \A j \in 1 .. n + 1 : r[j][1] \in Ends /\ r[j][2] = r[i][2] => i = j
  <2>1. CASE i \in 1 .. n
    <3>1. /\ q[i][2] \in Ids /\ devs[q[i][2]].life # "none" /\ ~devs[q[i][2]].created
          /\ \A j \in 1 .. n : q[j][1] \in Ends /\ q[j][2] = q[i][2] => i = j
      BY <1>1, <1>3, <2>1 DEF EndsOnce
    <3>2. t[1] \in Ends => t[2] # q[i][2]
      BY <1>1, <1>3, <2>1 DEF NoEnd
    <3>. QED  BY <1>1, <1>2, <2>1, <3>1, <3>2
  <2>2. CASE i = n + 1
    <3>1. \A j \in 1 .. n : q[j][1] \in Ends => q[j][2] # t[2]
      BY <1>1, <1>3, <2>2 DEF NoEnd
    <3>. QED  BY <1>1, <1>2, <1>3, <2>2, <3>1
  <2>. QED  BY <1>2, <2>1, <2>2
<1>4. EndsOnce(r, devs)
  BY <1>1, <1>3 DEF EndsOnce
<1>. QED  BY <1>4 DEF r

LEMMA TailEndsOnce ==
  ASSUME NEW q \in Seq(Tasks), q # <<>>, NEW devs, EndsOnce(q, devs)
  PROVE  /\ EndsOnce(Tail(q), devs)
         /\ Head(q)[1] \in Ends =>
              /\ Head(q)[2] \in Ids /\ devs[Head(q)[2]].life # "none" /\ ~devs[Head(q)[2]].created
              /\ NoEnd(Tail(q), Ends, Head(q)[2])
<1>. DEFINE r == Tail(q)
            n == Len(q)
<1>1. /\ n \in Nat \ {0} /\ DOMAIN q = 1 .. n /\ DOMAIN r = 1 .. n - 1
      /\ \A i \in 1 .. n - 1 : r[i] = q[i + 1]
      /\ Head(q) = q[1]
  BY TailIs
<1>. HIDE DEF r, n
<1>2. \A i \in 1 .. n - 1 : i + 1 \in 1 .. n /\ i + 1 # 1
  BY <1>1
<1>3. \A i, j \in 1 .. n - 1 : i + 1 = j + 1 => i = j
  BY <1>1
<1>4. 1 \in 1 .. n
  BY <1>1
<1>5. EndsOnce(r, devs)
  <2>1. \A i \in 1 .. n : q[i][1] \in Ends =>
          /\ q[i][2] \in Ids /\ devs[q[i][2]].life # "none" /\ ~devs[q[i][2]].created
          /\ \A j \in 1 .. n : q[j][1] \in Ends /\ q[j][2] = q[i][2] => i = j
    BY <1>1 DEF EndsOnce
  <2>2. \A i \in 1 .. n - 1 : r[i][1] \in Ends =>
          /\ r[i][2] \in Ids /\ devs[r[i][2]].life # "none" /\ ~devs[r[i][2]].created
          /\ \A j \in 1 .. n - 1 : r[j][1] \in Ends /\ r[j][2] = r[i][2] => i + 1 = j + 1
    BY <1>1, <1>2, <2>1
  <2>3. \A i \in 1 .. n - 1 : r[i][1] \in Ends =>
          /\ r[i][2] \in Ids /\ devs[r[i][2]].life # "none" /\ ~devs[r[i][2]].created
          /\ \A j \in 1 .. n - 1 : r[j][1] \in Ends /\ r[j][2] = r[i][2] => i = j
    BY <1>3, <2>2
  <2>. QED  BY <1>1, <2>3 DEF EndsOnce
<1>6. ASSUME Head(q)[1] \in Ends
      PROVE  /\ Head(q)[2] \in Ids /\ devs[Head(q)[2]].life # "none" /\ ~devs[Head(q)[2]].created
             /\ NoEnd(r, Ends, Head(q)[2])
  BY <1>1, <1>2, <1>4, <1>6 DEF EndsOnce, NoEnd
<1>. QED  BY <1>5, <1>6 DEF r

\* an object that is made anew has no task yet
LEMMA FreshHasNoEnd ==
  ASSUME NEW q, NEW devs, EndsOnce(q, devs), NEW d, devs[d].life = "none"
  PROVE  NoEnd(q, Ends, d)
BY DEF EndsOnce, NoEnd

\* what has no task may change
LEMMA EndsOnceOf ==
  ASSUME NEW q, NEW devs, EndsOnce(q, devs), NEW to,
         \A e \in Ids : NoEnd(q, Ends, e)
                        \/ /\ to[e].life # "none" <=> devs[e].life # "none"
                           /\ to[e].created = devs[e].created
  PROVE  EndsOnce(q, to)
BY DEF EndsOnce, NoEnd

LEMMA EndsOnceBut ==
  ASSUME NEW q, NEW devs, EndsOnce(q, devs), NEW d, NoEnd(q, Ends, d),
         NEW to, \A e \in Ids : e # d => to[e] = devs[e]
  PROVE  EndsOnce(q, to)
BY DEF EndsOnce, NoEnd


\* what is neither a call nor the end leaves their order
Calls == {"open", "close", "destroy all"}
Quietly(q, r) ==
  /\ r \in Seq(Tasks) /\ \A type \in Calls : Has(r, type) <=> Has(q, type)
  /\ OpenLast(q) => OpenLast(r)

LEMMA AppendQuietly ==
  ASSUME NEW q \in Seq(Tasks), NEW t \in Tasks, t[1] \notin Calls
  PROVE  Quietly(q, Append(q, t))
<1>1. \A type \in Calls : Has(Append(q, t), type) <=> Has(q, type)
  BY AppendHas
<1>2. ~Opening(t)
  BY DEF Opening, Calls
<1>3. OpenLast(q) => OpenLast(Append(q, t))
  BY <1>2, AppendOpenLast
<1>. QED  BY <1>1, <1>3, AppendIs DEF Quietly

LEMMA TailQuietly ==
  ASSUME NEW q \in Seq(Tasks), q # <<>>, Head(q)[1] \notin Calls
  PROVE  Quietly(q, Tail(q))
<1>1. \A type \in Calls : Has(Tail(q), type) <=> Has(q, type)
  BY TailHas
<1>. QED  BY <1>1, TailOpenLast, TailIs DEF Quietly

LEMMA QuietlyTwice ==
  ASSUME NEW q, NEW r, NEW s, Quietly(q, r), Quietly(r, s)
  PROVE  Quietly(q, s)
BY DEF Quietly

LEMMA QuietlyStays ==
  ASSUME NEW q \in Seq(Tasks)  PROVE Quietly(q, q)
BY DEF Quietly

-----------------------------------------------------------------------------
(* The helpers. *)

LEMMA PostIs ==
  ASSUME NEW q \in Queues, NEW task \in Tasks
  PROVE  /\ LET r == Post(q, "DEVICE", task)
            IN /\ r \in Queues /\ r["DEVICE"] = Append(q["DEVICE"], task)
               /\ r["UI"] = q["UI"] /\ r["TASK"] = q["TASK"]
         /\ LET r == Post(q, "UI", task)
            IN /\ r \in Queues /\ r["UI"] = Append(q["UI"], task)
               /\ r["DEVICE"] = q["DEVICE"] /\ r["TASK"] = q["TASK"]
         /\ LET r == Post(q, "TASK", task)
            IN /\ r \in Queues /\ r["TASK"] = Append(q["TASK"], task)
               /\ r["DEVICE"] = q["DEVICE"] /\ r["UI"] = q["UI"]
<1>1. "DEVICE" \in Threads /\ "UI" \in Threads /\ "TASK" \in Threads
  BY DEF Threads
<1>2. \A t \in Threads : Append(q[t], task) \in Seq(Tasks)
  BY AppendIs DEF Queues
<1>. QED  BY <1>1, <1>2 DEF Post, Queues

LEMMA RestIs ==
  ASSUME queue \in Queues
  PROVE  /\ queue["DEVICE"] # <<>> =>
              /\ Rest("DEVICE") \in Queues /\ Rest("DEVICE")["DEVICE"] = Tail(queue["DEVICE"])
              /\ Rest("DEVICE")["UI"] = queue["UI"] /\ Rest("DEVICE")["TASK"] = queue["TASK"]
              /\ Head(queue["DEVICE"]) \in Tasks
         /\ queue["UI"] # <<>> =>
              /\ Rest("UI") \in Queues /\ Rest("UI")["UI"] = Tail(queue["UI"])
              /\ Rest("UI")["DEVICE"] = queue["DEVICE"] /\ Rest("UI")["TASK"] = queue["TASK"]
              /\ Head(queue["UI"]) \in Tasks
         /\ queue["TASK"] # <<>> =>
              /\ Rest("TASK") \in Queues /\ Rest("TASK")["TASK"] = Tail(queue["TASK"])
              /\ Rest("TASK")["DEVICE"] = queue["DEVICE"] /\ Rest("TASK")["UI"] = queue["UI"]
              /\ Head(queue["TASK"]) \in Tasks
<1>1. "DEVICE" \in Threads /\ "UI" \in Threads /\ "TASK" \in Threads
  BY DEF Threads
<1>2. \A t \in Threads : queue[t] \in Seq(Tasks)
  BY DEF Queues
<1>3. \A t \in Threads : queue[t] # <<>> => Tail(queue[t]) \in Seq(Tasks) /\ Head(queue[t]) \in Tasks
  BY <1>2, TailIs
<1>. QED  BY <1>1, <1>2, <1>3 DEF Rest, Queues

LEMMA TaskIs ==
  ASSUME NEW type \in Kinds, NEW x \in Names
  PROVE  <<type, x>> \in Tasks /\ <<type, x>>[1] = type /\ <<type, x>>[2] = x
BY DEF Tasks

LEMMA TaskParts ==
  ASSUME NEW t \in Tasks
  PROVE  /\ t[2] \in Names
         /\ t[1] \in {"open", "close"} => t[2] \in Paths
BY DEF Tasks, Names, Kinds

LEMMA NotifyObserversIs ==
  ASSUME NEW q \in Queues, NEW observed, NEW r, r = NotifyObservers(q, observed)
  PROVE  /\ r \in Queues /\ r["UI"] = q["UI"] /\ r["TASK"] = q["TASK"]
         /\ r["DEVICE"] = q["DEVICE"] \/ r["DEVICE"] = Append(q["DEVICE"], <<"state", NoDevice>>)
<1>1. <<"state", NoDevice>> \in Tasks
  BY TaskIs DEF Kinds, Names
<1>2. CASE r = q
  BY <1>2
<1>3. CASE r = Post(q, "DEVICE", <<"state", NoDevice>>)
  <2>. DEFINE s == Post(q, "DEVICE", <<"state", NoDevice>>)
  <2>1. /\ s \in Queues /\ s["DEVICE"] = Append(q["DEVICE"], <<"state", NoDevice>>)
        /\ s["UI"] = q["UI"] /\ s["TASK"] = q["TASK"]
    BY <1>1, PostIs
  <2>. QED  BY <1>3, <2>1
<1>. QED  BY <1>2, <1>3 DEF NotifyObservers

LEMMA NotifyAllIs ==
  ASSUME NEW q \in Queues, NEW type \in Kinds, NEW d \in Names
  PROVE  LET r == NotifyAll(q, type, d) IN
         /\ r \in Queues /\ r["DEVICE"] = q["DEVICE"]
         /\ mode.ui => /\ r["UI"] = Append(q["UI"], <<type, d>>)
                       /\ r["TASK"] = Append(q["TASK"], <<type, d>>)
         /\ ~mode.ui => r = q
<1>1. <<type, d>> \in Tasks
  BY TaskIs
<1>. DEFINE s == Post(q, "UI", <<type, d>>)
<1>2. /\ s \in Queues /\ s["UI"] = Append(q["UI"], <<type, d>>)
      /\ s["DEVICE"] = q["DEVICE"] /\ s["TASK"] = q["TASK"]
  BY <1>1, PostIs
<1>3. CASE mode.ui
  <2>. DEFINE r == Post(s, "TASK", <<type, d>>)
  <2>1. NotifyAll(q, type, d) = r
    BY <1>3 DEF NotifyAll
  <2>. HIDE DEF s
  <2>2. /\ r \in Queues /\ r["TASK"] = Append(s["TASK"], <<type, d>>)
        /\ r["DEVICE"] = s["DEVICE"] /\ r["UI"] = s["UI"]
    BY <1>1, <1>2, PostIs
  <2>. HIDE DEF r
  <2>. QED  BY <1>2, <1>3, <2>1, <2>2
<1>4. CASE ~mode.ui
  BY <1>4 DEF NotifyAll
<1>. QED  BY <1>3, <1>4

LEMMA ReleaseIs ==
  ASSUME NEW d \in Names, NEW holders, NEW q \in Queues, dev \in [Ids -> Device], Release(d, holders, q)
  PROVE  /\ queue' \in Queues /\ queue'["UI"] = q["UI"] /\ queue'["TASK"] = q["TASK"]
         /\ \/ queue'["DEVICE"] = q["DEVICE"]
            \/ /\ queue'["DEVICE"] = Append(q["DEVICE"], <<"delete", d>>)
               /\ dev[d].refs \ holders = {}
         /\ dev' \in [Ids -> Device]
         /\ \A e \in Ids : /\ dev'[e].life = dev[e].life /\ dev'[e].created = dev[e].created
                           /\ dev'[e].refs = IF e = d THEN dev[e].refs \ holders ELSE dev[e].refs
<1>1. <<"delete", d>> \in Tasks
  BY TaskIs DEF Kinds
<1>. DEFINE left == dev[d].refs \ holders
<1>2. dev' = [dev EXCEPT ![d].refs = left]
  BY DEF Release
<1>3. queue' = q \/ (left = {} /\ queue' = Post(q, "DEVICE", <<"delete", d>>))
  BY DEF Release
<1>4. /\ queue' \in Queues /\ queue'["UI"] = q["UI"] /\ queue'["TASK"] = q["TASK"]
      /\ \/ queue'["DEVICE"] = q["DEVICE"]
         \/ queue'["DEVICE"] = Append(q["DEVICE"], <<"delete", d>>) /\ left = {}
  <2>1. CASE queue' = q
    BY <2>1
  <2>2. CASE left = {} /\ queue' = Post(q, "DEVICE", <<"delete", d>>)
    BY <1>1, <2>2, PostIs
  <2>. QED  BY <1>3, <2>1, <2>2
<1>5. CASE d \in Ids
  <2>1. left \subseteq Holders /\ dev[d] \in Device
    <3>1. dev[d] \in Device
      BY <1>5
    <3>2. dev[d].refs \in SUBSET Holders
      BY <3>1 DEF Device
    <3>. QED  BY <3>1, <3>2
  <2>. HIDE DEF left
  <2>2. [dev[d] EXCEPT !.refs = left] \in Device
    BY <2>1 DEF Device
  <2>3. /\ [dev[d] EXCEPT !.refs = left].life = dev[d].life
        /\ [dev[d] EXCEPT !.refs = left].created = dev[d].created
        /\ [dev[d] EXCEPT !.refs = left].refs = left
    BY <2>1 DEF Device
  <2>4. dev' \in [Ids -> Device] /\ dev'[d] = [dev[d] EXCEPT !.refs = left]
        /\ \A e \in Ids : e # d => dev'[e] = dev[e]
    BY <1>2, <1>5, <2>2
  <2>5. /\ \A e \in Ids : /\ dev'[e].life = dev[e].life /\ dev'[e].created = dev[e].created
                          /\ dev'[e].refs = IF e = d THEN left ELSE dev[e].refs
    BY <2>3, <2>4
  <2>. QED  BY <1>4, <2>4, <2>5 DEF left
<1>6. CASE d \notin Ids
  <2>1. dev' = dev
    BY <1>2, <1>6
  <2>. QED  BY <1>4, <1>6, <2>1
<1>. QED  BY <1>5, <1>6


LEMMA NewDeviceIs ==
  ASSUME Free # {}
  PROVE  NewDevice \in Ids /\ dev[NewDevice].life = "none" /\ NewDevice # NoDevice
<1>1. NewDevice \in Free
  BY DEF NewDevice
<1>. QED  BY <1>1 DEF Free, Ids, NoDevice

\* the tasks that do not call, and that do not end d
LEMMA QuietTask ==
  ASSUME NEW q \in Seq(Tasks), NEW x \in Names, NEW type \in {"state", "destroy"}
  PROVE  /\ Quietly(q, Append(q, <<type, x>>)) /\ Append(q, <<type, x>>) \in Seq(Tasks)
         /\ \A d : NoEnd(q, {"delete"}, d) => NoEnd(Append(q, <<type, x>>), {"delete"}, d)
<1>1. <<type, x>> \in Tasks /\ <<type, x>>[1] = type /\ type \notin Calls /\ type \notin {"delete"}
  BY TaskIs DEF Kinds, Calls
<1>2. Quietly(q, Append(q, <<type, x>>))
  BY <1>1, AppendQuietly
<1>3. ASSUME NEW d, NoEnd(q, {"delete"}, d)
      PROVE  NoEnd(Append(q, <<type, x>>), {"delete"}, d)
  <2>. DEFINE t == <<type, x>>
  <2>1. t \in Tasks /\ t[1] \notin {"delete"}
    BY <1>1
  <2>. HIDE DEF t
  <2>2. NoEnd(Append(q, t), {"delete"}, d)
    BY <1>3, <2>1, AppendNoEnd
  <2>. QED  BY <2>2 DEF t
<1>4. Append(q, <<type, x>>) \in Seq(Tasks)
  BY <1>1, AppendIs
<1>. QED  BY <1>2, <1>3, <1>4

LEMMA CloseDeviceImplIs ==
  ASSUME DevTypes, NEW p \in Paths, NEW notify, NEW q \in Queues, CloseDeviceImpl(p, notify, q)
  PROVE  /\ queue' \in Queues /\ queue'["UI"] = q["UI"] /\ queue'["TASK"] = q["TASK"]
         /\ Quietly(q["DEVICE"], queue'["DEVICE"])
         /\ \A d : NoEnd(q["DEVICE"], {"delete"}, d) => NoEnd(queue'["DEVICE"], {"delete"}, d)
         /\ device' \in [Paths -> Ids \cup {NoDevice}] /\ dev' \in [Ids -> Device]
         /\ \A r \in Paths : device'[r] = device[r] \/ device'[r] = NoDevice
         /\ \A e \in Ids : /\ dev[e].life # "none" => dev'[e].life # "none"
                           /\ "UI" \in dev[e].refs => "UI" \in dev'[e].refs
<1>. DEFINE d == device[p]
<1>1. device \in [Paths -> Ids \cup {NoDevice}] /\ dev \in [Ids -> Device] /\ d \in Ids \cup {NoDevice}
  BY DEF DevTypes
<1>2. q["DEVICE"] \in Seq(Tasks)
  BY DEF Queues, Threads
<1>3. CASE queue' = q /\ UNCHANGED <<status, device, dev>>
  BY <1>1, <1>2, <1>3, QuietlyStays
<1>4. CASE /\ dev' = [dev EXCEPT ![d].refs = (@ \ {"map"}) \cup {"task"}, ![d].port = 0, ![d].life = "dying"]
           /\ device' = [device EXCEPT ![p] = NoDevice]
           /\ queue' = LET r == Post(q, "DEVICE", <<"destroy", d>>)
                       IN IF notify THEN NotifyObservers(r, device') ELSE r
  <2>. DEFINE r == Post(q, "DEVICE", <<"destroy", d>>)
  <2>1. d \in Names /\ NoDevice \in Names
    BY <1>1 DEF Names
  <2>2. <<"destroy", d>> \in Tasks
    BY <2>1, TaskIs DEF Kinds
  <2>3. /\ r \in Queues /\ r["UI"] = q["UI"] /\ r["TASK"] = q["TASK"]
        /\ r["DEVICE"] = Append(q["DEVICE"], <<"destroy", d>>)
    BY <2>2, PostIs
  <2>4. queue' = r \/ queue' = NotifyObservers(r, device')
    BY <1>4
  <2>. HIDE DEF r
  <2>5. /\ queue' \in Queues /\ queue'["UI"] = r["UI"] /\ queue'["TASK"] = r["TASK"]
        /\ queue'["DEVICE"] = r["DEVICE"] \/ queue'["DEVICE"] = Append(r["DEVICE"], <<"state", NoDevice>>)
    <3>1. CASE queue' = r
      BY <2>3, <3>1
    <3>2. CASE queue' = NotifyObservers(r, device')
      BY <2>3, <3>2, NotifyObserversIs
    <3>. QED  BY <2>4, <3>1, <3>2
  <2>6. /\ Quietly(q["DEVICE"], r["DEVICE"]) /\ r["DEVICE"] \in Seq(Tasks)
        /\ \A e : NoEnd(q["DEVICE"], {"delete"}, e) => NoEnd(r["DEVICE"], {"delete"}, e)
    BY <1>2, <2>1, <2>3, QuietTask
  <2>7. /\ Quietly(r["DEVICE"], queue'["DEVICE"])
        /\ \A e : NoEnd(r["DEVICE"], {"delete"}, e) => NoEnd(queue'["DEVICE"], {"delete"}, e)
    <3>1. CASE queue'["DEVICE"] = r["DEVICE"]
      BY <2>6, <3>1, QuietlyStays
    <3>2. CASE queue'["DEVICE"] = Append(r["DEVICE"], <<"state", NoDevice>>)
      BY <2>1, <2>6, <3>2, QuietTask
    <3>. QED  BY <2>5, <3>1, <3>2
  <2>8. Quietly(q["DEVICE"], queue'["DEVICE"])
    BY <2>6, <2>7, QuietlyTwice
  <2>9. device' \in [Paths -> Ids \cup {NoDevice}] /\ \A t \in Paths : device'[t] = device[t] \/ device'[t] = NoDevice
    BY <1>1, <1>4
  <2>10. /\ dev' \in [Ids -> Device]
         /\ \A e \in Ids : /\ dev[e].life # "none" => dev'[e].life # "none"
                           /\ "UI" \in dev[e].refs => "UI" \in dev'[e].refs
    <3>1. CASE d \in Ids
      <4>. DEFINE refs == (dev[d].refs \ {"map"}) \cup {"task"}
      <4>1. dev[d] \in Device
        BY <1>1, <3>1
      <4>2. dev[d].refs \in SUBSET Holders
        BY <4>1 DEF Device
      <4>3. refs \in SUBSET Holders /\ ("UI" \in dev[d].refs => "UI" \in refs)
        BY <4>2 DEF Holders
      <4>4. dev' = [dev EXCEPT ![d] = [dev[d] EXCEPT !.refs = refs, !.port = 0, !.life = "dying"]]
        BY <1>1, <1>4, <3>1
      <4>. HIDE DEF refs, d
      <4>. DEFINE to == [dev[d] EXCEPT !.refs = refs, !.port = 0, !.life = "dying"]
      <4>5. to \in Device /\ to.life = "dying" /\ to.refs = refs
        BY <4>1, <4>3 DEF Device
      <4>. HIDE DEF to
      <4>6. dev' \in [Ids -> Device] /\ dev'[d] = to /\ \A e \in Ids : e # d => dev'[e] = dev[e]
        BY <1>1, <3>1, <4>4, <4>5 DEF to
      <4>. QED  BY <4>3, <4>5, <4>6
    <3>2. CASE d \notin Ids
      <4>1. dev' = dev
        BY <1>1, <1>4, <3>2
      <4>. QED  BY <1>1, <4>1
    <3>. QED  BY <3>1, <3>2
  <2>. QED  BY <2>3, <2>5, <2>6, <2>7, <2>8, <2>9, <2>10
<1>. QED  BY <1>3, <1>4 DEF CloseDeviceImpl

LEMMA OpenFailsIs ==
  ASSUME DevTypes, NEW p \in Paths, NEW q \in Queues, OpenFails(p, q)
  PROVE  /\ Free # {} /\ UNCHANGED device
         /\ queue' \in Queues /\ queue'["UI"] = q["UI"] /\ queue'["TASK"] = q["TASK"]
         /\ queue'["DEVICE"] = Append(q["DEVICE"], <<"destroy", NewDevice>>)
         /\ dev' \in [Ids -> Device]
         /\ dev'[NewDevice].life = "dying" /\ dev'[NewDevice].created = FALSE
         /\ \A e \in Ids : e # NewDevice => dev'[e] = dev[e]
<1>1. Free # {} /\ UNCHANGED device /\ queue' = Post(q, "DEVICE", <<"destroy", NewDevice>>)
  BY DEF OpenFails
<1>2. NewDevice \in Ids
  BY <1>1, NewDeviceIs
<1>3. <<"destroy", NewDevice>> \in Tasks
  BY <1>2, TaskIs DEF Kinds, Names
<1>4. PICK left \in {0, usb[p]} :
        dev' = [dev EXCEPT ![NewDevice] = [path |-> p, port |-> left, refs |-> {"own", "task"},
                                           created |-> FALSE, life |-> "dying"]]
  BY DEF OpenFails
<1>. DEFINE to == [path |-> p, port |-> left, refs |-> {"own", "task"}, created |-> FALSE, life |-> "dying"]
<1>5. to \in Device /\ to.life = "dying" /\ to.created = FALSE
  <2>1. left \in Nat
    BY <1>4 DEF DevTypes
  <2>. QED  BY <2>1 DEF Device, Holders
<1>6. dev' = [dev EXCEPT ![NewDevice] = to]
  BY <1>4
<1>. HIDE DEF to
<1>7. /\ dev' \in [Ids -> Device] /\ dev'[NewDevice] = to
      /\ \A e \in Ids : e # NewDevice => dev'[e] = dev[e]
  BY <1>2, <1>5, <1>6 DEF DevTypes
<1>. DEFINE r == Post(q, "DEVICE", <<"destroy", NewDevice>>)
<1>8. /\ r \in Queues /\ r["UI"] = q["UI"] /\ r["TASK"] = q["TASK"]
      /\ r["DEVICE"] = Append(q["DEVICE"], <<"destroy", NewDevice>>)
  BY <1>3, PostIs
<1>. QED  BY <1>1, <1>5, <1>7, <1>8

LEMMA OpensIs ==
  ASSUME DevTypes, NEW p \in Paths, NEW notify \in BOOLEAN, NEW q \in Queues, Opens(p, notify, q)
  PROVE  /\ Free # {} /\ queue' \in Queues
         /\ Quietly(q["DEVICE"], queue'["DEVICE"])
         /\ ~notify => queue'["DEVICE"] = q["DEVICE"]
         /\ mode.ui => /\ queue'["UI"] = Append(q["UI"], <<"created", NewDevice>>)
                       /\ queue'["TASK"] = Append(q["TASK"], <<"created", NewDevice>>)
         /\ ~mode.ui => queue'["UI"] = q["UI"] /\ queue'["TASK"] = q["TASK"]
         /\ device' = [device EXCEPT ![p] = NewDevice] /\ device' \in [Paths -> Ids \cup {NoDevice}]
         /\ dev' \in [Ids -> Device] /\ dev'[NewDevice].life = "live"
         /\ \A e \in Ids : e # NewDevice => dev'[e] = dev[e]
<1>1. /\ Free # {} /\ device' = [device EXCEPT ![p] = NewDevice]
      /\ dev' = [dev EXCEPT ![NewDevice] = [path |-> p, port |-> usb[p], refs |-> {"own", "map"},
                                            created |-> TRUE, life |-> "live"]]
      /\ queue' = NotifyAll(IF notify THEN NotifyObservers(q, device') ELSE q, "created", NewDevice)
  BY DEF Opens
<1>2. NewDevice \in Ids /\ NewDevice \in Names /\ NoDevice \in Names
  BY <1>1, NewDeviceIs DEF Names
<1>3. device' \in [Paths -> Ids \cup {NoDevice}]
  BY <1>1, <1>2 DEF DevTypes
<1>. DEFINE to == [path |-> p, port |-> usb[p], refs |-> {"own", "map"}, created |-> TRUE, life |-> "live"]
<1>4. to \in Device /\ to.life = "live"
  <2>1. usb[p] \in Nat
    BY DEF DevTypes
  <2>. QED  BY <2>1 DEF Device, Holders
<1>5. dev' = [dev EXCEPT ![NewDevice] = to]
  BY <1>1
<1>. HIDE DEF to
<1>6. /\ dev' \in [Ids -> Device] /\ dev'[NewDevice] = to
      /\ \A e \in Ids : e # NewDevice => dev'[e] = dev[e]
  BY <1>2, <1>4, <1>5 DEF DevTypes
<1>. DEFINE r == IF notify THEN NotifyObservers(q, device') ELSE q
<1>7. /\ r \in Queues /\ r["UI"] = q["UI"] /\ r["TASK"] = q["TASK"] /\ (~notify => r = q)
      /\ r["DEVICE"] = q["DEVICE"] \/ r["DEVICE"] = Append(q["DEVICE"], <<"state", NoDevice>>)
  <2>1. CASE r = NotifyObservers(q, device') /\ notify
    BY <2>1, NotifyObserversIs
  <2>2. CASE r = q /\ ~notify
    BY <2>2
  <2>. QED  BY <2>1, <2>2
<1>8. queue' = NotifyAll(r, "created", NewDevice)
  BY <1>1
<1>. HIDE DEF r
<1>. DEFINE t == NotifyAll(r, "created", NewDevice)
<1>9. /\ t \in Queues /\ t["DEVICE"] = r["DEVICE"]
      /\ mode.ui => /\ t["UI"] = Append(r["UI"], <<"created", NewDevice>>)
                    /\ t["TASK"] = Append(r["TASK"], <<"created", NewDevice>>)
      /\ ~mode.ui => t = r
  <2>1. "created" \in Kinds
    BY DEF Kinds
  <2>. QED  BY <1>2, <1>7, <2>1, NotifyAllIs
<1>. HIDE DEF t
<1>10. queue' = t
  BY <1>8 DEF t
<1>11. Quietly(q["DEVICE"], r["DEVICE"])
  <2>1. q["DEVICE"] \in Seq(Tasks)
    BY DEF Queues, Threads
  <2>2. Quietly(q["DEVICE"], q["DEVICE"]) /\ Quietly(q["DEVICE"], Append(q["DEVICE"], <<"state", NoDevice>>))
    BY <1>2, <2>1, QuietlyStays, QuietTask
  <2>. QED  BY <1>7, <2>2
<1>. QED  BY <1>1, <1>3, <1>4, <1>6, <1>7, <1>9, <1>10, <1>11


-----------------------------------------------------------------------------
(* What a step keeps. *)

LEMMA EndKept ==
  ASSUME EndInv, Quietly(queue.DEVICE, queue'.DEVICE), phase' = "up" <=> phase = "up",
         phase = "up" => manager', finder' = "on" => finder = "on",
         phase # "up" /\ NothingOpen => work'.at = "idle" /\ \A p \in Paths : device'[p] = NoDevice
  PROVE  EndInv'
<1>1. /\ Has(queue'.DEVICE, "destroy all") <=> Has(queue.DEVICE, "destroy all")
      /\ Has(queue'.DEVICE, "open") <=> Has(queue.DEVICE, "open")
      /\ OpenLast(queue.DEVICE) => OpenLast(queue'.DEVICE)
  BY DEF Quietly, Calls
<1>. QED  BY <1>1 DEF EndInv, NothingOpen

\* A step of the device thread, before the UI thread has heard of a device ...
EarlyKept ==
  mode.ui /\ phase = "up" /\ EndsOnce(queue.DEVICE, dev) /\ AllCreated(queue.TASK) =>
    /\ EndsOnce(queue'.DEVICE, dev')
    /\ (\A p \in Paths : device[p] = NoDevice) => \A p \in Paths : device'[p] = NoDevice
    /\ \A d \in Ids : dev[d].life # "none" /\ NoEnd(queue.DEVICE, Ends, d)
                      => dev'[d].life # "none" /\ NoEnd(queue'.DEVICE, Ends, d)
\* ... and when it has one
HeldKept ==
  mode.ui => \A d \in Ids :
    dev[d].life # "none" /\ "UI" \in dev[d].refs /\ NoEnd(queue.DEVICE, {"delete"}, d) =>
      dev'[d].life # "none" /\ "UI" \in dev'[d].refs /\ NoEnd(queue'.DEVICE, {"delete"}, d)
WorkIsLeft ==
  mode.ui => /\ work'.close = {} /\ \A p, r \in work'.open : p = r
             /\ open_first => work'.open = {}

LEMMA OneStays ==
  ASSUME DevTypes, OneDevice, mode' = mode, device_' = device_, open_first' <=> open_first,
         window' => window, mode.ui /\ phase = "up" /\ ~window => phase' = "up",
         WorkIsLeft, EarlyKept, HeldKept,
         \A type \in {"open", "close"} : Has(queue'.DEVICE, type) => Has(queue.DEVICE, type),
         \/ /\ queue'.UI = queue.UI /\ (queue.TASK = <<>> => queue'.TASK = <<>>)
            /\ AllCreated(queue.TASK) => AllCreated(queue'.TASK)
         \/ /\ mode.ui /\ ~EndsOnce(queue.DEVICE, dev)
            /\ Has(queue'.UI, "created") => Has(queue.UI, "created")
  PROVE  OneDevice'
<1>1. CASE ~mode.ui
  BY <1>1 DEF OneDevice
<1>2. CASE mode.ui
  <2>1. /\ work'.close = {} /\ \A p, r \in work'.open : p = r
        /\ ~Has(queue'.DEVICE, "open") /\ ~Has(queue'.DEVICE, "close")
    BY <1>2 DEF OneDevice, WorkIsLeft
  <2>2. CASE Stage0
    <3>1. AllCreated(queue.TASK)
      BY <2>2 DEF Stage0, AllCreated
    <3>2. Stage0'
      BY <1>2, <2>2, <3>1 DEF Stage0, EarlyKept
    <3>. QED  BY <1>2, <2>1, <3>2 DEF OneDevice
  <2>3. CASE open_first /\ work.open = {} /\ (Stage2 \/ Stage3 \/ \E d \in Ids : Stage1(d))
    <3>1. open_first' /\ work'.open = {}
      BY <1>2, <2>3 DEF WorkIsLeft
    <3>2. ASSUME Stage2  PROVE Stage2'
      <4>1. device_ \in Ids
        BY <3>2 DEF Stage2, DevTypes
      <4>2. Has(queue'.UI, "created") => Has(queue.UI, "created")
        OBVIOUS
      <4>. QED  BY <1>2, <3>2, <4>1, <4>2 DEF Stage2, HeldKept
    <3>3. ASSUME Stage3  PROVE Stage3'
      <4>1. Has(queue'.UI, "created") => Has(queue.UI, "created")
        OBVIOUS
      <4>. QED  BY <3>3, <4>1 DEF Stage3
    <3>4. ASSUME NEW d \in Ids, Stage1(d)  PROVE Stage1(d)'
      BY <1>2, <3>4 DEF Stage1, EarlyKept
    <3>. QED  BY <1>2, <2>1, <2>3, <3>1, <3>2, <3>3, <3>4 DEF OneDevice
  <2>. QED  BY <1>2, <2>2, <2>3 DEF OneDevice
<1>. QED  BY <1>1, <1>2

LEMMA OneKept ==
  ASSUME DevTypes, OneDevice, mode' = mode, device_' = device_, open_first' <=> open_first,
         window' => window, mode.ui /\ phase = "up" /\ ~window => phase' = "up",
         WorkIsLeft, EarlyKept, HeldKept, Quietly(queue.DEVICE, queue'.DEVICE),
         \/ /\ queue'.UI = queue.UI /\ (queue.TASK = <<>> => queue'.TASK = <<>>)
            /\ AllCreated(queue.TASK) => AllCreated(queue'.TASK)
         \/ /\ mode.ui /\ ~EndsOnce(queue.DEVICE, dev)
            /\ Has(queue'.UI, "created") => Has(queue.UI, "created")
  PROVE  OneDevice'
<1>1. \A type \in {"open", "close"} : Has(queue'.DEVICE, type) => Has(queue.DEVICE, type)
  BY DEF Quietly, Calls
<1>. QED  BY <1>1, OneStays

\* the queue of the device thread, when it grows by a state or not at all
LEMMA StateGrows ==
  ASSUME queue \in Queues, UNCHANGED dev, device' = device,
         \/ queue'.DEVICE = queue.DEVICE
         \/ queue'.DEVICE = Append(queue.DEVICE, <<"state", NoDevice>>)
         \/ queue.DEVICE # <<>> /\ Head(queue.DEVICE)[1] \notin Calls \cup Ends /\ queue'.DEVICE = Tail(queue.DEVICE)
  PROVE  Quietly(queue.DEVICE, queue'.DEVICE) /\ EarlyKept /\ HeldKept
<1>. DEFINE q == queue.DEVICE
            t == <<"state", NoDevice>>
<1>1. q \in Seq(Tasks)
  BY DEF Queues, Threads
<1>2. t \in Tasks /\ t[1] \notin Calls /\ t[1] \notin Ends /\ t[1] \notin {"delete"}
  BY TaskIs DEF Kinds, Names, Calls, Ends
<1>. HIDE DEF q, t
<1>3. /\ Quietly(q, queue'.DEVICE)
      /\ EndsOnce(q, dev) => EndsOnce(queue'.DEVICE, dev)
      /\ \A d : NoEnd(q, Ends, d) => NoEnd(queue'.DEVICE, Ends, d)
      /\ \A d : NoEnd(q, {"delete"}, d) => NoEnd(queue'.DEVICE, {"delete"}, d)
  <2>1. CASE queue'.DEVICE = q
    BY <1>1, <2>1, QuietlyStays
  <2>2. CASE queue'.DEVICE = Append(q, t)
    BY <1>1, <1>2, <2>2, AppendQuietly, AppendEndsOnce, AppendNoEnd
  <2>3. CASE q # <<>> /\ Head(q)[1] \notin Calls \cup Ends /\ queue'.DEVICE = Tail(q)
    BY <1>1, <2>3, TailQuietly, TailEndsOnce, TailNoEnd
  <2>. QED  BY <2>1, <2>2, <2>3 DEF q, t
<1>. QED  BY <1>3 DEF q, EarlyKept, HeldKept


-----------------------------------------------------------------------------
(* The steps: the finder, and the bus. *)

LEMMA ModeIs ==
  ASSUME DevTypes
  PROVE  mode.ui => mode.first /\ ~mode.all /\ ~mode.close /\ ~mode.user
BY DevicesAssumption DEF DevTypes, ModeType

LEMMA IdleIs ==
  Idle \in Work /\ Idle.at = "idle" /\ Idle.open = {} /\ Idle.close = {} /\ Idle.found = {}
BY DEF Idle, Work

LEMMA SameButWork ==
  ASSUME DevicesInv, UNCHANGED <<mode, device, dev, queue, uiVars>>, open_first' <=> open_first, usb' \in [Paths -> Nat],
         work' \in Work, finder' = "on" => finder = "on",
         phase = "up" \/ work.at # "idle" \/ work'.at = "idle", WorkIsLeft
  PROVE  DevicesInv'
<1>1. DevTypes /\ EndInv /\ OneDevice
  BY DEF DevicesInv
<1>2. DevTypes'
  BY <1>1 DEF DevTypes, uiVars
<1>3. UNCHANGED <<mode, device, dev, queue, manager, device_, window, phase>> /\ queue \in Queues
  BY <1>1 DEF uiVars, DevTypes
<1>4. Quietly(queue.DEVICE, queue'.DEVICE) /\ EarlyKept /\ HeldKept
  BY <1>3, StateGrows
<1>5. EndInv'
  <2>1. phase # "up" /\ NothingOpen => work'.at = "idle" /\ \A p \in Paths : device'[p] = NoDevice
    BY <1>3 DEF NothingOpen
  <2>. QED  BY <1>1, <1>3, <1>4, <2>1, EndKept DEF EndInv
<1>6. OneDevice'
  BY <1>1, <1>3, <1>4, OneKept
<1>. QED  BY <1>2, <1>5, <1>6 DEF DevicesInv

LEMMA PlugKeepsInv ==
  ASSUME DevicesInv, NEW p \in Paths, Plug(p)
  PROVE  DevicesInv'
<1>1. usb \in [Paths -> Nat] /\ work \in Work /\ OneDevice
  BY DEF DevicesInv, DevTypes
<1>2. usb' = [usb EXCEPT ![p] = @ + 1] /\ UNCHANGED <<mode, finder, work, mgrVars, dev, queue, uiVars>>
  BY DEF Plug
<1>3. usb' \in [Paths -> Nat]
  BY <1>1, <1>2
<1>4. WorkIsLeft
  BY <1>1, <1>2 DEF WorkIsLeft, OneDevice, Stage0
<1>5. UNCHANGED <<mode, device, open_first, dev, queue, uiVars>> /\ work' \in Work /\ finder' = finder
      /\ work' = work
  BY <1>1, <1>2 DEF mgrVars
<1>. QED  BY <1>3, <1>4, <1>5, SameButWork

LEMMA FinderKeepsInv ==
  ASSUME DevicesInv, Enumerate \/ FinderEnds \/ DeviceListChanged
  PROVE  DevicesInv'
<1>1. DevTypes /\ EndInv /\ OneDevice /\ usb \in [Paths -> Nat] /\ work \in Work
  BY DEF DevicesInv, DevTypes
<1>2. /\ UNCHANGED <<mode, device, open_first, dev, queue, uiVars>> /\ usb' \in [Paths -> Nat]
      /\ finder' = "on" => finder = "on"
  BY <1>1 DEF Enumerate, FinderEnds, DeviceListChanged, usbVars, mgrVars
<1>3. CASE Enumerate
  <2>1. work' = [Idle EXCEPT !.at = "found", !.found = {p \in Paths : Plugged(p)}] /\ finder = "on"
    BY <1>3 DEF Enumerate
  <2>2. work' \in Work /\ work'.open = {} /\ work'.close = {}
    BY <2>1, IdleIs DEF Work
  <2>3. phase = "up"
    BY <1>1, <2>1 DEF EndInv
  <2>4. WorkIsLeft
    BY <2>2 DEF WorkIsLeft
  <2>. QED  BY <1>2, <2>2, <2>3, <2>4, SameButWork
<1>4. CASE FinderEnds
  <2>1. work' = Idle
    BY <1>4 DEF FinderEnds
  <2>2. WorkIsLeft
    BY <2>1, IdleIs DEF WorkIsLeft
  <2>. QED  BY <1>2, <2>1, <2>2, IdleIs, SameButWork
<1>5. CASE DeviceListChanged
  <2>. DEFINE merged == MergeDeviceList(status, work.found)
              are(s) == {p \in Paths : merged.status[p] = s}
              opened == IF mode.first /\ ~open_first THEN FirstOf(work.found)
                        ELSE IF mode.all THEN are("Exist") ELSE {}
              closed == IF mode.close THEN are("Offline") ELSE {}
  <2>1. work' = [work EXCEPT !.at = "open", !.open = opened, !.close = closed,
                   !.list = merged.list, !.state = merged.state \/ opened # {}]
    BY <1>5 DEF DeviceListChanged
  <2>2. work.found \subseteq Paths /\ merged.list \in BOOLEAN /\ (merged.state \/ opened # {}) \in BOOLEAN
    BY <1>1 DEF Work, MergeDeviceList
  <2>. HIDE DEF merged
  <2>3. opened \in SUBSET Paths /\ closed \in SUBSET Paths
    BY <2>2 DEF FirstOf
  <2>4. \A p, r \in FirstOf(work.found) : p = r
    <3>. SUFFICES ASSUME NEW p \in FirstOf(work.found), NEW r \in FirstOf(work.found)
                  PROVE  p = r
      OBVIOUS
    <3>1. p \in Paths /\ r \in Paths /\ Rank[p] <= Rank[r] /\ Rank[r] <= Rank[p]
      BY <2>2 DEF FirstOf
    <3>2. Rank[p] \in Nat /\ Rank[r] \in Nat
      BY <3>1, DevicesAssumption
    <3>. QED  BY <3>1, <3>2, DevicesAssumption
  <2>5. mode.ui => /\ closed = {} /\ (\A p, r \in opened : p = r)
                   /\ open_first => opened = {}
    BY <1>1, <2>4, ModeIs
  <2>. HIDE DEF opened, closed
  <2>6. work' \in Work /\ work'.open = opened /\ work'.close = closed
    BY <1>1, <2>1, <2>2, <2>3 DEF Work
  <2>7. WorkIsLeft
    BY <2>5, <2>6 DEF WorkIsLeft
  <2>8. work.at # "idle"
    BY <1>5 DEF DeviceListChanged
  <2>. QED  BY <1>2, <2>6, <2>7, <2>8, SameButWork
<1>. QED  BY <1>3, <1>4, <1>5


LEMMA OpenFoundKeepsInv ==
  ASSUME DevicesInv, OpenFound
  PROVE  DevicesInv'
<1>1. /\ DevTypes /\ EndInv /\ OneDevice /\ usb \in [Paths -> Nat] /\ work \in Work /\ queue \in Queues
      /\ device \in [Paths -> Ids \cup {NoDevice}] /\ dev \in [Ids -> Device] /\ queue.DEVICE \in Seq(Tasks)
  BY DEF DevicesInv, DevTypes, Queues, Threads
<1>2. PICK p \in work.open :
        /\ \/ CannotOpen(p) /\ UNCHANGED <<status, device, dev, queue>>
           \/ ~CannotOpen(p) /\ (OpenFails(p, queue) \/ Opens(p, FALSE, queue))
        /\ open_first' = (open_first \/ (mode.first /\ device'[p] # device[p]))
        /\ work' = [work EXCEPT !.open = @ \ {p}]
  BY DEF OpenFound
<1>3. p \in Paths
  BY <1>1 DEF Work
<1>4. UNCHANGED <<mode, usb, finder, uiVars>> /\ work.at = "open"
  BY DEF OpenFound
<1>5. /\ work' \in Work /\ work'.open = work.open \ {p} /\ work'.close = work.close /\ work'.at = "open"
  BY <1>1, <1>2, <1>4 DEF Work
<1>6. mode.ui => /\ ~open_first /\ Stage0 /\ work'.close = {} /\ work'.open = {}
  <2>. SUFFICES ASSUME mode.ui  PROVE ~open_first /\ Stage0 /\ work'.close = {} /\ work'.open = {}
    OBVIOUS
  <2>1. work.close = {} /\ \A r \in work.open : r = p
    BY <1>1, <1>2 DEF OneDevice
  <2>2. work.open # {}
    BY <1>2
  <2>3. Stage0
    BY <1>1, <2>2 DEF OneDevice
  <2>4. work'.open = {} /\ work'.close = {}
    BY <1>5, <2>1
  <2>5. ~open_first
    BY <2>3 DEF Stage0
  <2>. QED  BY <2>3, <2>4, <2>5
<1>7. WorkIsLeft
  BY <1>6 DEF WorkIsLeft
<1>8. CASE UNCHANGED <<status, device, dev, queue>>
  BY <1>1, <1>2, <1>4, <1>5, <1>7, <1>8, SameButWork
<1>9. CASE OpenFails(p, queue)
  <2>0. PICK n : n = NewDevice
    OBVIOUS
  <2>. DEFINE q == queue.DEVICE
              t == <<"destroy", n>>
  <2>1. /\ UNCHANGED device
        /\ queue' \in Queues /\ queue'["UI"] = queue["UI"] /\ queue'["TASK"] = queue["TASK"]
        /\ queue'["DEVICE"] = Append(queue["DEVICE"], t)
        /\ dev' \in [Ids -> Device] /\ dev'[n].life = "dying" /\ dev'[n].created = FALSE
        /\ \A e \in Ids : e # n => dev'[e] = dev[e]
        /\ n \in Ids /\ dev[n].life = "none"
    BY <1>1, <1>3, <1>9, <2>0, OpenFailsIs, NewDeviceIs
  <2>2. t \in Tasks /\ t[1] = "destroy" /\ t[2] = n /\ t[1] \notin Calls /\ t[1] \in Ends /\ t[1] \notin {"delete"}
    BY <2>1, TaskIs DEF Kinds, Names, Calls, Ends
  <2>3. queue'.DEVICE = Append(q, t) /\ queue'.UI = queue.UI /\ queue'.TASK = queue.TASK
    BY <2>1
  <2>. HIDE DEF q, t
  <2>4. q \in Seq(Tasks)
    BY <1>1 DEF q
  <2>5. Quietly(q, queue'.DEVICE)
    BY <2>2, <2>3, <2>4, AppendQuietly
  <2>6. ASSUME EndsOnce(q, dev)  PROVE NoEnd(q, Ends, n) /\ EndsOnce(Append(q, t), dev')
    <3>1. NoEnd(q, Ends, n)
      BY <2>1, <2>6, FreshHasNoEnd
    <3>2. \A e \in Ids : e # n => dev'[e] = dev[e]
      BY <2>1
    <3>3. EndsOnce(q, dev')
      BY <2>6, <3>1, <3>2, EndsOnceBut
    <3>. QED  BY <2>1, <2>2, <2>4, <3>1, <3>3, AppendEndsOnce
  <2>7. EarlyKept
    <3>1. ASSUME NEW d \in Ids, dev[d].life # "none", NoEnd(q, Ends, d)
          PROVE  dev'[d].life # "none" /\ NoEnd(Append(q, t), Ends, d)
      <4>1. d # n /\ t[2] # d
        BY <2>1, <2>2, <3>1
      <4>. QED  BY <2>1, <2>2, <2>4, <3>1, <4>1, AppendNoEnd
    <3>. QED  BY <2>1, <2>3, <2>6, <3>1 DEF EarlyKept, q
  <2>8. HeldKept
    <3>1. ASSUME NEW d \in Ids, dev[d].life # "none", NoEnd(q, {"delete"}, d)
          PROVE  dev'[d] = dev[d] /\ NoEnd(Append(q, t), {"delete"}, d)
      <4>1. d # n
        BY <2>1, <3>1
      <4>. QED  BY <2>1, <2>2, <2>4, <3>1, <4>1, AppendNoEnd
    <3>. QED  BY <2>3, <3>1 DEF HeldKept, q
  <2>9. DevTypes'
    BY <1>1, <1>4, <1>5, <2>1 DEF DevTypes, uiVars
  <2>10. EndInv'
    <3>1. /\ phase' = "up" <=> phase = "up"
          /\ phase = "up" => manager'
          /\ finder' = "on" => finder = "on"
          /\ ~NothingOpen
      BY <1>1, <1>4 DEF uiVars, EndInv, NothingOpen
    <3>. QED  BY <1>1, <2>5, <3>1, EndKept DEF q
  <2>11. OneDevice'
    <3>1. /\ mode' = mode /\ device_' = device_ /\ (open_first' <=> open_first)
          /\ window' => window
          /\ mode.ui /\ phase = "up" /\ ~window => phase' = "up"
      BY <1>2, <1>4, <2>1 DEF uiVars
    <3>2. /\ queue'.UI = queue.UI /\ (queue.TASK = <<>> => queue'.TASK = <<>>)
          /\ AllCreated(queue.TASK) => AllCreated(queue'.TASK)
      BY <2>3
    <3>3. Quietly(queue.DEVICE, queue'.DEVICE)
      BY <2>5 DEF q
    <3>4. DevTypes /\ OneDevice
      BY <1>1
    <3>. QED  BY <1>7, <2>7, <2>8, <3>1, <3>2, <3>3, <3>4, OneKept
  <2>. QED  BY <2>9, <2>10, <2>11 DEF DevicesInv
<1>10. CASE Opens(p, FALSE, queue)
  <2>0. PICK n : n = NewDevice
    OBVIOUS
  <2>. DEFINE q == queue.DEVICE
  <2>1. /\ queue' \in Queues /\ Quietly(queue["DEVICE"], queue'["DEVICE"])
        /\ queue'["DEVICE"] = queue["DEVICE"]
        /\ mode.ui => /\ queue'["UI"] = Append(queue["UI"], <<"created", n>>)
                      /\ queue'["TASK"] = Append(queue["TASK"], <<"created", n>>)
        /\ ~mode.ui => queue'["UI"] = queue["UI"] /\ queue'["TASK"] = queue["TASK"]
        /\ device' = [device EXCEPT ![p] = n] /\ device' \in [Paths -> Ids \cup {NoDevice}]
        /\ dev' \in [Ids -> Device] /\ dev'[n].life = "live"
        /\ \A e \in Ids : e # n => dev'[e] = dev[e]
        /\ n \in Ids /\ dev[n].life = "none" /\ n # NoDevice
    BY <1>1, <1>3, <1>10, <2>0, OpensIs, NewDeviceIs
  <2>2. /\ queue'.DEVICE = q
        /\ mode.ui => /\ queue'.UI = Append(queue.UI, <<"created", n>>)
                      /\ queue'.TASK = Append(queue.TASK, <<"created", n>>)
        /\ ~mode.ui => queue'.UI = queue.UI /\ queue'.TASK = queue.TASK
    BY <2>1
  <2>3. DevTypes'
    BY <1>1, <1>4, <1>5, <2>1 DEF DevTypes, uiVars
  <2>4. EndInv'
    <3>1. /\ phase' = "up" <=> phase = "up"
          /\ phase = "up" => manager'
          /\ finder' = "on" => finder = "on"
          /\ ~NothingOpen
      BY <1>1, <1>4 DEF uiVars, EndInv, NothingOpen
    <3>. QED  BY <1>1, <2>1, <3>1, EndKept
  <2>5. OneDevice'
    <3>1. CASE ~mode.ui
      BY <1>1, <1>4, <2>2, <3>1 DEF OneDevice, uiVars
    <3>2. CASE mode.ui
      <4>1. Stage0 /\ work'.close = {} /\ work'.open = {} /\ mode.first
        BY <1>1, <1>6, <3>2, ModeIs
      <4>2. open_first'
        <5>1. device[p] = NoDevice /\ device'[p] = n
          BY <1>1, <1>3, <2>1, <4>1 DEF Stage0
        <5>. QED  BY <1>2, <2>1, <4>1, <5>1
      <4>3. ~Has(queue'.DEVICE, "open") /\ ~Has(queue'.DEVICE, "close")
        BY <1>1, <2>2, <3>2 DEF OneDevice
      <4>4. Stage1(n)'
        <5>1. queue'.UI = <<<<"created", n>>>> /\ queue'.TASK = <<<<"created", n>>>>
          BY <2>2, <3>2, <4>1 DEF Stage0
        <5>2. AllCreated(queue'.TASK)
          BY <5>1 DEF AllCreated
        <5>3. EndsOnce(q, dev) /\ NoEnd(q, Ends, n)
          BY <2>1, <4>1, FreshHasNoEnd DEF Stage0
        <5>4. EndsOnce(q, dev')
          <6>1. \A e \in Ids : e # n => dev'[e] = dev[e]
            BY <2>1
          <6>. QED  BY <5>3, <6>1, EndsOnceBut
        <5>5. device_' = NoDevice /\ ~window' /\ phase' = "up"
          BY <1>4, <4>1 DEF Stage0, uiVars
        <5>6. dev'[n].life # "none"
          BY <2>1
        <5>. QED  BY <2>2, <5>1, <5>2, <5>3, <5>4, <5>5, <5>6 DEF Stage1
      <4>. QED  BY <1>4, <2>1, <3>2, <4>1, <4>2, <4>3, <4>4 DEF OneDevice, uiVars
    <3>. QED  BY <3>1, <3>2
  <2>. QED  BY <2>3, <2>4, <2>5 DEF DevicesInv
<1>. QED  BY <1>2, <1>8, <1>9, <1>10

LEMMA SameWork ==
  ASSUME OneDevice, work' = work
  PROVE  WorkIsLeft
BY DEF WorkIsLeft, OneDevice, Stage0

LEMMA EndRoundKeepsInv ==
  ASSUME DevicesInv, EndRound
  PROVE  DevicesInv'
<1>1. /\ DevTypes /\ EndInv /\ OneDevice /\ queue \in Queues /\ work.at = "open"
      /\ UNCHANGED <<mode, usb, device, open_first, dev, manager, device_, window, phase>>
      /\ work' = Idle /\ (finder' = "on" => finder = "on")
  BY DEF DevicesInv, DevTypes, EndRound, usbVars, mgrVars, uiVars
<1>2. queue' = queue \/ queue' = NotifyObservers(queue, device)
  BY DEF EndRound
<1>3. /\ queue' \in Queues /\ queue'["UI"] = queue["UI"] /\ queue'["TASK"] = queue["TASK"]
      /\ queue'["DEVICE"] = queue["DEVICE"] \/ queue'["DEVICE"] = Append(queue["DEVICE"], <<"state", NoDevice>>)
  BY <1>1, <1>2, NotifyObserversIs
<1>4. Quietly(queue.DEVICE, queue'.DEVICE) /\ EarlyKept /\ HeldKept
  BY <1>1, <1>3, StateGrows
<1>5. DevTypes'
  BY <1>1, <1>3, IdleIs DEF DevTypes
<1>6. EndInv'
  BY <1>1, <1>4, EndKept, IdleIs DEF EndInv, NothingOpen
<1>7. WorkIsLeft
  BY <1>1, IdleIs DEF WorkIsLeft
<1>8. OneDevice'
  <2>1. /\ queue'.UI = queue.UI /\ (queue.TASK = <<>> => queue'.TASK = <<>>)
        /\ AllCreated(queue.TASK) => AllCreated(queue'.TASK)
    BY <1>3
  <2>. QED  BY <1>1, <1>4, <1>7, <2>1, OneKept
<1>. QED  BY <1>5, <1>6, <1>8 DEF DevicesInv

\* the tests: the UI thread and the TASK thread have nothing to do
LEMMA NoUI ==
  ASSUME OneDevice, ~mode.ui, mode' = mode, device_' = device_,
         queue'.UI = queue.UI, queue'.TASK = queue.TASK
  PROVE  OneDevice'
BY DEF OneDevice

LEMMA CloseLostKeepsInv ==
  ASSUME DevicesInv, CloseLost
  PROVE  DevicesInv'
<1>1. /\ DevTypes /\ EndInv /\ OneDevice /\ queue \in Queues /\ work \in Work /\ work.at = "open"
      /\ UNCHANGED <<mode, usb, finder, open_first, manager, device_, window, phase>>
  BY DEF DevicesInv, DevTypes, CloseLost, usbVars, uiVars
<1>2. PICK p \in work.close : /\ CloseDeviceImpl(p, FALSE, queue)
                              /\ work' = [work EXCEPT !.close = @ \ {p}, !.list = TRUE]
  BY DEF CloseLost
<1>3. p \in Paths /\ work' \in Work
  BY <1>1, <1>2 DEF Work
<1>4. ~mode.ui
  BY <1>1, <1>2 DEF OneDevice
<1>5. /\ queue' \in Queues /\ queue'["UI"] = queue["UI"] /\ queue'["TASK"] = queue["TASK"]
      /\ Quietly(queue["DEVICE"], queue'["DEVICE"])
      /\ device' \in [Paths -> Ids \cup {NoDevice}] /\ dev' \in [Ids -> Device]
  BY <1>1, <1>2, <1>3, CloseDeviceImplIs
<1>6. DevTypes'
  BY <1>1, <1>3, <1>5 DEF DevTypes
<1>7. EndInv'
  BY <1>1, <1>5, EndKept DEF EndInv, NothingOpen
<1>8. OneDevice'
  BY <1>1, <1>4, <1>5, NoUI
<1>. QED  BY <1>6, <1>7, <1>8 DEF DevicesInv

-----------------------------------------------------------------------------
(* The steps: the tasks of the device thread. *)

LEMMA DeviceHead ==
  ASSUME DevTypes, NEW type, Head1("DEVICE", type)
  PROVE  /\ queue.DEVICE \in Seq(Tasks) /\ queue.DEVICE # <<>>
         /\ Head(queue.DEVICE)[1] = type /\ Head(queue.DEVICE)[2] \in Names
         /\ type \in {"open", "close"} => Head(queue.DEVICE)[2] \in Paths
         /\ Has(queue.DEVICE, type)
<1>1. queue.DEVICE \in Seq(Tasks) /\ queue.DEVICE # <<>> /\ Head(queue.DEVICE)[1] = type
  BY DEF DevTypes, Queues, Threads, Head1
<1>2. Head(queue.DEVICE) \in Tasks
  BY <1>1, TailIs
<1>3. Has(queue.DEVICE, type)
  <2>1. Head(queue.DEVICE) = queue.DEVICE[1] /\ 1 \in DOMAIN queue.DEVICE
    BY <1>1
  <2>. QED  BY <1>1, <2>1 DEF Has
<1>. QED  BY <1>1, <1>2, <1>3, TaskParts

\* a call that is carried out: what it does comes after the end was announced,
\* if that was
LEMMA CallKeepsInv ==
  ASSUME DevicesInv, NEW type \in {"open", "close"}, Head1("DEVICE", type),
         UNCHANGED <<mode, usb, finder, work, manager, device_, window, phase>>,
         queue' \in Queues, queue'["UI"] = queue["UI"], queue'["TASK"] = queue["TASK"],
         Quietly(Tail(queue["DEVICE"]), queue'["DEVICE"]),
         device' \in [Paths -> Ids \cup {NoDevice}], dev' \in [Ids -> Device],
         type = "close" => \A r \in Paths : device'[r] = device[r] \/ device'[r] = NoDevice
  PROVE  DevicesInv'
<1>1. DevTypes /\ EndInv /\ OneDevice
  BY DEF DevicesInv
<1>2. /\ queue.DEVICE \in Seq(Tasks) /\ queue.DEVICE # <<>> /\ Head(queue.DEVICE)[1] = type
      /\ Has(queue.DEVICE, type)
  BY <1>1, DeviceHead
<1>3. ~mode.ui
  BY <1>1, <1>2 DEF OneDevice
<1>4. OneDevice'
  BY <1>1, <1>3, NoUI
<1>5. DevTypes'
  BY <1>1 DEF DevTypes
<1>6. /\ Has(Tail(queue.DEVICE), "destroy all") <=> Has(queue.DEVICE, "destroy all")
      /\ Has(Tail(queue.DEVICE), "open") => Has(queue.DEVICE, "open")
  BY <1>2, TailHas
<1>7. /\ Has(queue'.DEVICE, "destroy all") <=> Has(queue.DEVICE, "destroy all")
      /\ Has(queue'.DEVICE, "open") => Has(queue.DEVICE, "open")
  BY <1>6 DEF Quietly, Calls
<1>8. OpenLast(queue'.DEVICE)
  BY <1>1, <1>2, TailOpenLast DEF EndInv, Quietly
<1>9. NothingOpen => NothingOpen'
  <2>1. ASSUME NothingOpen  PROVE type = "close"
    BY <1>2, <2>1 DEF NothingOpen
  <2>. QED  BY <1>7, <2>1 DEF NothingOpen
<1>10. EndInv'
  BY <1>1, <1>7, <1>8, <1>9 DEF EndInv
<1>. QED  BY <1>4, <1>5, <1>10 DEF DevicesInv

LEMMA OpenTaskKeepsInv ==
  ASSUME DevicesInv, OpenTask
  PROVE  DevicesInv'
<1>1. /\ DevTypes /\ queue \in Queues /\ queue["DEVICE"] # <<>> /\ Head1("DEVICE", "open")
      /\ device \in [Paths -> Ids \cup {NoDevice}] /\ dev \in [Ids -> Device]
      /\ UNCHANGED <<mode, usb, finder, work, manager, device_, window, phase>>
  BY DEF DevicesInv, DevTypes, OpenTask, uiVars, Head1
<1>2. Head(queue.DEVICE)[2] \in Paths
  BY <1>1, DeviceHead
<1>3. PICK p \in Paths : p = Head(queue.DEVICE)[2]
  BY <1>2
<1>4. PICK q : q = Rest("DEVICE")
  OBVIOUS
<1>5. /\ q \in Queues /\ q["DEVICE"] = Tail(queue["DEVICE"])
      /\ q["UI"] = queue["UI"] /\ q["TASK"] = queue["TASK"] /\ q["DEVICE"] \in Seq(Tasks)
  <2>1. q \in Queues /\ q["DEVICE"] = Tail(queue["DEVICE"])
        /\ q["UI"] = queue["UI"] /\ q["TASK"] = queue["TASK"]
    BY <1>1, <1>4, RestIs
  <2>. QED  BY <2>1 DEF Queues, Threads
<1>6. \/ queue' = q /\ UNCHANGED <<status, device, dev>>
      \/ OpenFails(p, q) \/ Opens(p, TRUE, q)
  BY <1>3, <1>4 DEF OpenTask
<1>7. CASE queue' = q /\ UNCHANGED <<status, device, dev>>
  <2>1. Quietly(q["DEVICE"], queue'["DEVICE"])
    BY <1>5, <1>7, QuietlyStays
  <2>. QED  BY <1>1, <1>5, <1>7, <2>1, CallKeepsInv
<1>8. CASE OpenFails(p, q)
  <2>1. PICK n : n = NewDevice
    OBVIOUS
  <2>2. /\ UNCHANGED device /\ n \in Ids
        /\ queue' \in Queues /\ queue'["UI"] = q["UI"] /\ queue'["TASK"] = q["TASK"]
        /\ queue'["DEVICE"] = Append(q["DEVICE"], <<"destroy", n>>)
        /\ dev' \in [Ids -> Device]
    BY <1>1, <1>5, <1>8, <2>1, OpenFailsIs, NewDeviceIs
  <2>3. Quietly(q["DEVICE"], queue'["DEVICE"])
    <3>1. n \in Names
      BY <2>2 DEF Names
    <3>. QED  BY <1>5, <2>2, <3>1, QuietTask
  <2>. QED  BY <1>1, <1>5, <2>2, <2>3, CallKeepsInv
<1>9. CASE Opens(p, TRUE, q)
  <2>1. ~mode.ui
    BY <1>1, DeviceHead DEF DevicesInv, OneDevice
  <2>2. /\ queue' \in Queues /\ queue'["UI"] = q["UI"] /\ queue'["TASK"] = q["TASK"]
        /\ Quietly(q["DEVICE"], queue'["DEVICE"])
        /\ device' \in [Paths -> Ids \cup {NoDevice}] /\ dev' \in [Ids -> Device]
    BY <1>1, <1>5, <1>9, <2>1, OpensIs
  <2>. QED  BY <1>1, <1>5, <2>2, CallKeepsInv
<1>. QED  BY <1>6, <1>7, <1>8, <1>9

LEMMA CloseTaskKeepsInv ==
  ASSUME DevicesInv, CloseTask
  PROVE  DevicesInv'
<1>1. /\ DevTypes /\ queue \in Queues /\ queue["DEVICE"] # <<>> /\ Head1("DEVICE", "close")
      /\ UNCHANGED <<mode, usb, finder, work, manager, device_, window, phase>>
  BY DEF DevicesInv, DevTypes, CloseTask, usbVars, uiVars, Head1
<1>2. Head(queue.DEVICE)[2] \in Paths
  BY <1>1, DeviceHead
<1>3. PICK p \in Paths : p = Head(queue.DEVICE)[2]
  BY <1>2
<1>4. PICK q : q = Rest("DEVICE")
  OBVIOUS
<1>5. /\ q \in Queues /\ q["DEVICE"] = Tail(queue["DEVICE"])
      /\ q["UI"] = queue["UI"] /\ q["TASK"] = queue["TASK"]
  BY <1>1, <1>4, RestIs
<1>6. CloseDeviceImpl(p, TRUE, q)
  BY <1>3, <1>4 DEF CloseTask
<1>7. /\ queue' \in Queues /\ queue'["UI"] = q["UI"] /\ queue'["TASK"] = q["TASK"]
      /\ Quietly(q["DEVICE"], queue'["DEVICE"])
      /\ device' \in [Paths -> Ids \cup {NoDevice}] /\ dev' \in [Ids -> Device]
      /\ \A r \in Paths : device'[r] = device[r] \/ device'[r] = NoDevice
  BY <1>1, <1>5, <1>6, CloseDeviceImplIs
<1>. QED  BY <1>1, <1>5, <1>7, CallKeepsInv

LEMMA DestroyDevicesKeepsInv ==
  ASSUME DevicesInv, DestroyDevices
  PROVE  DevicesInv'
<1>1. /\ DevTypes /\ EndInv /\ OneDevice /\ queue \in Queues /\ queue["DEVICE"] # <<>>
      /\ Head1("DEVICE", "destroy all") /\ work.at = "idle"
      /\ device \in [Paths -> Ids \cup {NoDevice}] /\ dev \in [Ids -> Device]
      /\ UNCHANGED <<mode, usb, finder, work, open_first, manager, device_, window, phase>>
  BY DEF DevicesInv, DevTypes, DestroyDevices, usbVars, uiVars, Head1, OnDevice
<1>2. /\ queue.DEVICE \in Seq(Tasks) /\ queue.DEVICE # <<>> /\ Head(queue.DEVICE)[1] = "destroy all"
      /\ Has(queue.DEVICE, "destroy all")
  BY <1>1, DeviceHead
<1>3. phase # "up" /\ phase' # "up" /\ finder' # "on"
  BY <1>1, <1>2 DEF EndInv
<1>4. WorkIsLeft /\ EarlyKept
  BY <1>1, <1>3, SameWork DEF EarlyKept
<1>5. CASE (\A p \in Paths : device[p] = NoDevice) /\ queue' = Rest("DEVICE") /\ UNCHANGED <<status, device, dev>>
  <2>1. /\ queue' \in Queues /\ queue'["DEVICE"] = Tail(queue["DEVICE"])
        /\ queue'["UI"] = queue["UI"] /\ queue'["TASK"] = queue["TASK"]
    BY <1>1, <1>5, RestIs
  <2>2. OpenLast(queue'.DEVICE) /\ ~Has(queue'.DEVICE, "open")
    BY <1>1, <1>2, <2>1, TailOpenLast DEF EndInv
  <2>3. EndInv'
    <3>1. NothingOpen'
      BY <1>1, <1>5, <2>2 DEF NothingOpen
    <3>. QED  BY <1>3, <2>2, <3>1 DEF EndInv
  <2>4. HeldKept
    <3>1. ASSUME NEW d \in Ids, NoEnd(queue.DEVICE, {"delete"}, d)
          PROVE  NoEnd(queue'.DEVICE, {"delete"}, d)
      <4>. DEFINE q == queue.DEVICE
      <4>1. q \in Seq(Tasks) /\ q # <<>> /\ NoEnd(q, {"delete"}, d)
        BY <1>2, <3>1
      <4>. HIDE DEF q
      <4>2. NoEnd(Tail(q), {"delete"}, d)
        BY <4>1, TailNoEnd
      <4>. QED  BY <2>1, <4>2 DEF q
    <3>. QED  BY <1>5, <3>1 DEF HeldKept
  <2>5. OneDevice'
    <3>1. \A type \in {"open", "close"} : Has(queue'.DEVICE, type) => Has(queue.DEVICE, type)
      BY <1>2, <2>1, TailHas
    <3>2. /\ queue'.UI = queue.UI /\ (queue.TASK = <<>> => queue'.TASK = <<>>)
          /\ AllCreated(queue.TASK) => AllCreated(queue'.TASK)
      BY <2>1
    <3>. QED  BY <1>1, <1>3, <1>4, <2>4, <3>1, <3>2, OneStays
  <2>6. DevTypes'
    BY <1>1, <1>5, <2>1 DEF DevTypes
  <2>. QED  BY <2>3, <2>5, <2>6 DEF DevicesInv
<1>6. CASE \E p \in Paths : CloseDeviceImpl(p, FALSE, queue)
  <2>1. PICK p \in Paths : CloseDeviceImpl(p, FALSE, queue)
    BY <1>6
  <2>2. /\ queue' \in Queues /\ queue'["UI"] = queue["UI"] /\ queue'["TASK"] = queue["TASK"]
        /\ Quietly(queue["DEVICE"], queue'["DEVICE"])
        /\ \A d : NoEnd(queue["DEVICE"], {"delete"}, d) => NoEnd(queue'["DEVICE"], {"delete"}, d)
        /\ device' \in [Paths -> Ids \cup {NoDevice}] /\ dev' \in [Ids -> Device]
        /\ \A r \in Paths : device'[r] = device[r] \/ device'[r] = NoDevice
        /\ \A e \in Ids : /\ dev[e].life # "none" => dev'[e].life # "none"
                          /\ "UI" \in dev[e].refs => "UI" \in dev'[e].refs
    BY <1>1, <2>1, CloseDeviceImplIs
  <2>3. EndInv'
    <3>1. phase # "up" /\ NothingOpen => work'.at = "idle" /\ \A r \in Paths : device'[r] = NoDevice
      BY <1>1, <2>2 DEF NothingOpen
    <3>2. (phase' = "up" <=> phase = "up") /\ (phase = "up" => manager') /\ (finder' = "on" => finder = "on")
      BY <1>1, <1>3
    <3>. QED  BY <1>1, <2>2, <3>1, <3>2, EndKept
  <2>4. HeldKept
    BY <2>2 DEF HeldKept
  <2>5. OneDevice'
    <3>1. /\ queue'.UI = queue.UI /\ (queue.TASK = <<>> => queue'.TASK = <<>>)
          /\ AllCreated(queue.TASK) => AllCreated(queue'.TASK)
      BY <2>2
    <3>. QED  BY <1>1, <1>3, <1>4, <2>2, <2>4, <3>1, OneKept
  <2>6. DevTypes'
    BY <1>1, <2>2 DEF DevTypes
  <2>. QED  BY <2>3, <2>5, <2>6 DEF DevicesInv
<1>. QED  BY <1>5, <1>6 DEF DestroyDevices

LEMMA StateChangedKeepsInv ==
  ASSUME DevicesInv, StateChanged
  PROVE  DevicesInv'
<1>1. /\ DevTypes /\ EndInv /\ OneDevice /\ queue \in Queues /\ queue["DEVICE"] # <<>>
      /\ Head1("DEVICE", "state") /\ queue' = Rest("DEVICE")
      /\ UNCHANGED <<mode, usb, finder, work, device, dev, open_first, manager, device_, window>>
      /\ phase' = IF ~manager /\ \E p \in Paths : device[p] # NoDevice THEN "crashed" ELSE phase
  BY DEF DevicesInv, DevTypes, StateChanged, usbVars, mgrVars, Head1
<1>2. /\ queue' \in Queues /\ queue'["DEVICE"] = Tail(queue["DEVICE"])
      /\ queue'["UI"] = queue["UI"] /\ queue'["TASK"] = queue["TASK"]
  BY <1>1, RestIs
<1>3. phase' = "up" <=> phase = "up"
  BY <1>1 DEF EndInv
<1>4. Quietly(queue.DEVICE, queue'.DEVICE) /\ EarlyKept /\ HeldKept
  <2>1. Head(queue.DEVICE)[1] \notin Calls \cup Ends
    <3>1. Head(queue.DEVICE)[1] = "state"
      BY <1>1, DeviceHead
    <3>. QED  BY <3>1 DEF Calls, Ends
  <2>. QED  BY <1>1, <1>2, <2>1, StateGrows
<1>5. EndInv'
  <2>1. /\ phase = "up" => manager'
        /\ phase # "up" /\ NothingOpen => work'.at = "idle" /\ \A r \in Paths : device'[r] = NoDevice
    BY <1>1 DEF NothingOpen, EndInv
  <2>. QED  BY <1>1, <1>3, <1>4, <2>1, EndKept
<1>6. OneDevice'
  <2>1. /\ queue'.UI = queue.UI /\ (queue.TASK = <<>> => queue'.TASK = <<>>)
        /\ AllCreated(queue.TASK) => AllCreated(queue'.TASK)
    BY <1>2
  <2>2. WorkIsLeft
    BY <1>1, SameWork
  <2>. QED  BY <1>1, <1>3, <1>4, <2>1, <2>2, OneKept
<1>7. DevTypes'
  BY <1>1, <1>2 DEF DevTypes
<1>. QED  BY <1>5, <1>6, <1>7 DEF DevicesInv

\* a reference goes: the device stays while the UI thread has one
LEMMA DeleteTask ==
  ASSUME NEW q \in Seq(Tasks), NEW d \in Names
  PROVE  /\ Quietly(q, Append(q, <<"delete", d>>))
         /\ \A e, ends : e # d /\ NoEnd(q, ends, e) => NoEnd(Append(q, <<"delete", d>>), ends, e)
<1>. DEFINE t == <<"delete", d>>
<1>1. t \in Tasks /\ t[1] \notin Calls /\ t[2] = d
  BY TaskIs DEF Kinds, Calls
<1>. HIDE DEF t
<1>2. Quietly(q, Append(q, t))
  BY <1>1, AppendQuietly
<1>3. ASSUME NEW e, NEW ends, e # d, NoEnd(q, ends, e)
      PROVE  NoEnd(Append(q, t), ends, e)
  <2>1. t[1] \in ends => t[2] # e
    BY <1>1, <1>3
  <2>. QED  BY <1>1, <1>3, <2>1, AppendNoEnd
<1>. QED  BY <1>2, <1>3 DEF t

LEMMA DestroyPosKeepsInv ==
  ASSUME DevicesInv, DestroyPos
  PROVE  DevicesInv'
<1>1. /\ DevTypes /\ EndInv /\ OneDevice /\ queue \in Queues /\ queue["DEVICE"] # <<>>
      /\ Head1("DEVICE", "destroy") /\ dev \in [Ids -> Device]
      /\ UNCHANGED <<mode, usb, finder, work, device, open_first, manager, device_, window, phase>>
  BY DEF DevicesInv, DevTypes, DestroyPos, usbVars, mgrVars, uiVars, Head1
<1>2. PICK d : d = Head(queue.DEVICE)[2]
  OBVIOUS
<1>3. /\ queue.DEVICE \in Seq(Tasks) /\ queue.DEVICE # <<>>
      /\ Head(queue.DEVICE)[1] = "destroy" /\ d \in Names
  BY <1>1, <1>2, DeviceHead
<1>4. PICK rest : rest = Rest("DEVICE")
  OBVIOUS
<1>5. /\ rest \in Queues /\ rest["DEVICE"] = Tail(queue["DEVICE"])
      /\ rest["UI"] = queue["UI"] /\ rest["TASK"] = queue["TASK"]
  BY <1>1, <1>4, RestIs
<1>6. PICK q : q = IF dev[d].created THEN NotifyAll(rest, "start_destroy", d) ELSE rest
  OBVIOUS
<1>7. Release(d, {"own", "task"}, q)
  BY <1>2, <1>4, <1>6 DEF DestroyPos
<1>8. /\ q \in Queues /\ q["DEVICE"] = Tail(queue["DEVICE"])
      /\ q = rest \/ (mode.ui /\ dev[d].created /\ q["UI"] = Append(queue["UI"], <<"start_destroy", d>>))
  <2>1. CASE q = rest
    BY <1>5, <2>1
  <2>2. CASE q = NotifyAll(rest, "start_destroy", d) /\ dev[d].created
    <3>1. "start_destroy" \in Kinds
      BY DEF Kinds
    <3>. DEFINE r == NotifyAll(rest, "start_destroy", d)
    <3>2. /\ r \in Queues /\ r["DEVICE"] = rest["DEVICE"]
          /\ mode.ui => r["UI"] = Append(rest["UI"], <<"start_destroy", d>>)
          /\ ~mode.ui => r = rest
      BY <1>3, <1>5, <3>1, NotifyAllIs
    <3>. HIDE DEF r
    <3>3. q = r
      BY <2>2 DEF r
    <3>. QED  BY <1>5, <2>2, <3>2, <3>3
  <2>. QED  BY <1>6, <2>1, <2>2
<1>9. /\ queue' \in Queues /\ queue'["UI"] = q["UI"] /\ queue'["TASK"] = q["TASK"]
      /\ \/ queue'["DEVICE"] = q["DEVICE"]
         \/ /\ queue'["DEVICE"] = Append(q["DEVICE"], <<"delete", d>>)
            /\ dev[d].refs \ {"own", "task"} = {}
      /\ dev' \in [Ids -> Device]
      /\ \A e \in Ids : /\ dev'[e].life = dev[e].life /\ dev'[e].created = dev[e].created
                        /\ dev'[e].refs = IF e = d THEN dev[e].refs \ {"own", "task"} ELSE dev[e].refs
  BY <1>1, <1>3, <1>7, <1>8, ReleaseIs
<1>10. PICK s : s = Tail(queue.DEVICE)
  OBVIOUS
<1>11. s \in Seq(Tasks) /\ Quietly(queue.DEVICE, s)
  BY <1>3, <1>10, TailIs, TailQuietly DEF Calls
<1>12. queue'.DEVICE = s \/ (queue'.DEVICE = Append(s, <<"delete", d>>) /\ dev[d].refs \ {"own", "task"} = {})
  BY <1>8, <1>9, <1>10
<1>13. Quietly(s, queue'.DEVICE)
  BY <1>3, <1>11, <1>12, QuietlyStays, DeleteTask
<1>14. Quietly(queue.DEVICE, queue'.DEVICE)
  BY <1>11, <1>13, QuietlyTwice
<1>15. ASSUME EndsOnce(queue.DEVICE, dev)
       PROVE  /\ EndsOnce(queue'.DEVICE, dev') /\ q = rest
              /\ \A e \in Ids : NoEnd(queue.DEVICE, Ends, e) => NoEnd(queue'.DEVICE, Ends, e)
  <2>1. /\ EndsOnce(s, dev) /\ NoEnd(s, Ends, d) /\ d \in Ids /\ dev[d].life # "none" /\ ~dev[d].created
    BY <1>2, <1>3, <1>10, <1>15, TailEndsOnce DEF Ends
  <2>2. \A e \in Ids : (dev'[e].life # "none" <=> dev[e].life # "none") /\ dev'[e].created = dev[e].created
    BY <1>9
  <2>3. EndsOnce(s, dev')
    BY <2>1, <2>2, EndsOnceOf
  <2>4. EndsOnce(Append(s, <<"delete", d>>), dev')
    <3>. DEFINE t == <<"delete", d>>
    <3>1. t \in Tasks /\ t[2] = d
      BY <1>3, TaskIs DEF Kinds
    <3>2. t[2] \in Ids /\ dev'[t[2]].life # "none" /\ ~dev'[t[2]].created /\ NoEnd(s, Ends, t[2])
      BY <2>1, <2>2, <3>1
    <3>. HIDE DEF t
    <3>3. EndsOnce(Append(s, t), dev')
      BY <1>11, <2>3, <3>1, <3>2, AppendEndsOnce
    <3>. QED  BY <3>3 DEF t
  <2>5. ASSUME NEW e \in Ids, NoEnd(queue.DEVICE, Ends, e)
        PROVE  NoEnd(queue'.DEVICE, Ends, e)
    <3>1. NoEnd(s, Ends, e) /\ e # d
      BY <1>2, <1>3, <1>10, <2>5, TailNoEnd DEF Ends
    <3>. QED  BY <1>3, <1>11, <1>12, <3>1, DeleteTask
  <2>. QED  BY <1>8, <1>12, <2>1, <2>3, <2>4, <2>5
<1>16. EarlyKept
  BY <1>1, <1>9, <1>15 DEF EarlyKept
<1>17. HeldKept
  <2>1. ASSUME NEW e \in Ids, "UI" \in dev[e].refs, NoEnd(queue.DEVICE, {"delete"}, e)
        PROVE  "UI" \in dev'[e].refs /\ NoEnd(queue'.DEVICE, {"delete"}, e)
    <3>1. NoEnd(s, {"delete"}, e)
      BY <1>3, <1>10, <2>1, TailNoEnd
    <3>2. "UI" \in dev'[e].refs
      BY <1>9, <2>1
    <3>3. dev[d].refs \ {"own", "task"} = {} => e # d
      BY <2>1
    <3>4. NoEnd(queue'.DEVICE, {"delete"}, e)
      BY <1>3, <1>11, <1>12, <3>1, <3>3, DeleteTask
    <3>. QED  BY <3>2, <3>4
  <2>. QED  BY <1>9, <2>1 DEF HeldKept
<1>18. EndInv'
  <2>1. /\ phase' = "up" <=> phase = "up"
        /\ phase = "up" => manager'
        /\ phase # "up" /\ NothingOpen => work'.at = "idle" /\ \A r \in Paths : device'[r] = NoDevice
    BY <1>1 DEF NothingOpen, EndInv
  <2>. QED  BY <1>1, <1>14, <2>1, EndKept
<1>19. OneDevice'
  <2>1. WorkIsLeft
    BY <1>1, SameWork
  <2>2. CASE q = rest
    <3>1. /\ queue'.UI = queue.UI /\ (queue.TASK = <<>> => queue'.TASK = <<>>)
          /\ AllCreated(queue.TASK) => AllCreated(queue'.TASK)
      BY <1>5, <1>9, <2>2
    <3>. QED  BY <1>1, <1>14, <1>16, <1>17, <2>1, <3>1, OneKept
  <2>3. CASE q # rest
    <3>1. mode.ui /\ ~EndsOnce(queue.DEVICE, dev)
      BY <1>8, <1>15, <2>3
    <3>2. Has(queue'.UI, "created") => Has(queue.UI, "created")
      <4>. DEFINE t == <<"start_destroy", d>>
      <4>1. queue.UI \in Seq(Tasks) /\ t \in Tasks /\ t[1] # "created"
        BY <1>1, <1>3, TaskIs DEF Queues, Threads, Kinds
      <4>2. queue'.UI = Append(queue.UI, t)
        BY <1>8, <1>9, <2>3
      <4>. HIDE DEF t
      <4>3. Has(Append(queue.UI, t), "created") <=> Has(queue.UI, "created") \/ t[1] = "created"
        BY <4>1, AppendHas
      <4>. QED  BY <4>1, <4>2, <4>3
    <3>. QED  BY <1>1, <1>14, <1>16, <1>17, <2>1, <3>1, <3>2, OneKept
  <2>. QED  BY <2>2, <2>3
<1>20. DevTypes'
  BY <1>1, <1>9 DEF DevTypes
<1>. QED  BY <1>18, <1>19, <1>20 DEF DevicesInv

LEMMA DeleteDeviceImplKeepsInv ==
  ASSUME DevicesInv, DeleteDeviceImpl
  PROVE  DevicesInv'
<1>1. /\ DevTypes /\ EndInv /\ OneDevice /\ queue \in Queues /\ queue["DEVICE"] # <<>>
      /\ Head1("DEVICE", "delete") /\ dev \in [Ids -> Device] /\ queue' = Rest("DEVICE")
      /\ UNCHANGED <<mode, usb, finder, work, device, open_first, manager, device_, window, phase>>
  BY DEF DevicesInv, DevTypes, DeleteDeviceImpl, usbVars, mgrVars, uiVars, Head1
<1>2. PICK d : d = Head(queue.DEVICE)[2]
  OBVIOUS
<1>3. PICK q : q = queue.DEVICE
  OBVIOUS
<1>4. q \in Seq(Tasks) /\ q # <<>> /\ Head(q)[1] = "delete" /\ Head(q)[2] = d
  BY <1>1, <1>2, <1>3, DeviceHead
<1>5. /\ queue' \in Queues /\ queue'["DEVICE"] = Tail(q)
      /\ queue'["UI"] = queue["UI"] /\ queue'["TASK"] = queue["TASK"]
  BY <1>1, <1>3, RestIs
<1>6. NoDev \in Device
  BY DevicesAssumption DEF NoDev, Device
<1>7. dev' \in [Ids -> Device] /\ \A e \in Ids : e # d => dev'[e] = dev[e]
  <2>1. dev' = [dev EXCEPT ![d] = NoDev]
    BY <1>2 DEF DeleteDeviceImpl
  <2>. QED  BY <1>1, <1>6, <2>1
<1>8. Quietly(queue.DEVICE, queue'.DEVICE)
  <2>1. Quietly(q, Tail(q))
    BY <1>4, TailQuietly DEF Calls
  <2>. QED  BY <1>3, <1>5, <2>1
<1>9. ASSUME NEW ends, "delete" \in ends, NEW e \in Ids, NoEnd(q, ends, e)
      PROVE  e # d /\ NoEnd(Tail(q), ends, e)
  BY <1>4, <1>9, TailNoEnd
<1>10. EarlyKept
  <2>1. ASSUME EndsOnce(q, dev)  PROVE EndsOnce(Tail(q), dev')
    <3>1. EndsOnce(Tail(q), dev) /\ NoEnd(Tail(q), Ends, d)
      BY <1>4, <2>1, TailEndsOnce DEF Ends
    <3>. QED  BY <1>7, <3>1, EndsOnceBut
  <2>2. "delete" \in Ends
    BY DEF Ends
  <2>3. ASSUME NEW e \in Ids, dev[e].life # "none", NoEnd(q, Ends, e)
        PROVE  dev'[e].life # "none" /\ NoEnd(Tail(q), Ends, e)
    BY <1>7, <1>9, <2>2, <2>3
  <2>. QED  BY <1>1, <1>3, <1>5, <2>1, <2>3 DEF EarlyKept
<1>11. HeldKept
  <2>1. ASSUME NEW e \in Ids, NoEnd(q, {"delete"}, e)
        PROVE  dev'[e] = dev[e] /\ NoEnd(Tail(q), {"delete"}, e)
    BY <1>7, <1>9, <2>1
  <2>. QED  BY <1>3, <1>5, <2>1 DEF HeldKept
<1>12. EndInv'
  <2>1. /\ phase' = "up" <=> phase = "up"
        /\ phase = "up" => manager'
        /\ phase # "up" /\ NothingOpen => work'.at = "idle" /\ \A r \in Paths : device'[r] = NoDevice
    BY <1>1 DEF NothingOpen, EndInv
  <2>. QED  BY <1>1, <1>8, <2>1, EndKept
<1>13. OneDevice'
  <2>1. WorkIsLeft
    BY <1>1, SameWork
  <2>2. /\ queue'.UI = queue.UI /\ (queue.TASK = <<>> => queue'.TASK = <<>>)
        /\ AllCreated(queue.TASK) => AllCreated(queue'.TASK)
    BY <1>5
  <2>. QED  BY <1>1, <1>8, <1>10, <1>11, <2>1, <2>2, OneKept
<1>14. DevTypes'
  BY <1>1, <1>5, <1>7 DEF DevTypes
<1>. QED  BY <1>12, <1>13, <1>14 DEF DevicesInv

-----------------------------------------------------------------------------
(* The steps: the UI thread and the TASK thread. *)

\* what holds while a thread takes a task that the device thread has no part in
LEMMA EndStays ==
  ASSUME EndInv, UNCHANGED <<finder, work, device, manager, phase>>, queue'.DEVICE = queue.DEVICE
  PROVE  EndInv'
BY DEF EndInv, NothingOpen

LEMMA CreatedKeepsInv ==
  ASSUME DevicesInv, Created
  PROVE  DevicesInv'
<1>1. /\ DevTypes /\ EndInv /\ OneDevice /\ queue \in Queues /\ queue["UI"] # <<>>
      /\ Head(queue.UI)[1] = "created" /\ dev \in [Ids -> Device]
      /\ UNCHANGED <<mode, usb, finder, work, device, open_first, manager, phase>>
  BY DEF DevicesInv, DevTypes, Created, usbVars, mgrVars, Head1
<1>2. queue.UI \in Seq(Tasks) /\ Has(queue.UI, "created")
  <2>1. queue.UI \in Seq(Tasks)
    BY <1>1 DEF Queues, Threads
  <2>2. Head(queue.UI) = queue.UI[1] /\ 1 \in DOMAIN queue.UI
    BY <1>1, <2>1
  <2>. QED  BY <1>1, <2>1, <2>2 DEF Has
<1>3. mode.ui
  BY <1>1 DEF OneDevice
<1>4. open_first /\ work.open = {} /\ \E d \in Ids : Stage1(d)
  BY <1>1, <1>2, <1>3 DEF OneDevice, Stage0, Stage2, Stage3
<1>5. PICK d \in Ids : Stage1(d)
  BY <1>4
<1>6. Head(queue.UI)[2] = d /\ Tail(queue.UI) = <<>> /\ device_ = NoDevice
  BY <1>5 DEF Stage1
<1>7. /\ device_' = d /\ dev' = [dev EXCEPT ![d].refs = @ \cup {"UI"}]
      /\ queue' = Post(Rest("UI"), "TASK", <<"handle", d>>)
  BY <1>6 DEF Created
<1>8. queue' \in Queues /\ queue'["DEVICE"] = queue["DEVICE"] /\ queue'["UI"] = <<>>
  <2>1. <<"handle", d>> \in Tasks
    BY TaskIs DEF Kinds, Names
  <2>2. PICK rest : rest = Rest("UI")
    OBVIOUS
  <2>3. rest \in Queues /\ rest["DEVICE"] = queue["DEVICE"] /\ rest["UI"] = <<>>
    BY <1>1, <1>6, <2>2, RestIs
  <2>. DEFINE r == Post(rest, "TASK", <<"handle", d>>)
  <2>4. r \in Queues /\ r["DEVICE"] = rest["DEVICE"] /\ r["UI"] = rest["UI"]
    BY <2>1, <2>3, PostIs
  <2>. QED  BY <1>7, <2>2, <2>3, <2>4
<1>9. dev' \in [Ids -> Device] /\ dev'[d].life = dev[d].life /\ "UI" \in dev'[d].refs
  <2>1. dev[d] \in Device
    BY <1>1
  <2>. DEFINE to == [dev[d] EXCEPT !.refs = @ \cup {"UI"}]
  <2>2. to \in Device /\ to.life = dev[d].life /\ "UI" \in to.refs
    BY <2>1 DEF Device, Holders
  <2>3. dev' = [dev EXCEPT ![d] = to]
    BY <1>1, <1>7
  <2>. HIDE DEF to
  <2>. QED  BY <1>1, <2>2, <2>3
<1>10. Stage2'
  <2>1. ~Has(queue'.UI, "created")
    BY <1>8 DEF Has
  <2>2. NoEnd(queue'.DEVICE, {"delete"}, d)
    BY <1>5, <1>8 DEF Stage1, NoEnd, Ends
  <2>3. dev[d].life # "none" /\ d # NoDevice
    BY <1>5 DEF Stage1, Ids, NoDevice
  <2>. QED  BY <1>7, <1>9, <2>1, <2>2, <2>3 DEF Stage2
<1>11. OneDevice'
  <2>1. /\ work'.close = {} /\ work'.open = {} /\ open_first'
        /\ ~Has(queue'.DEVICE, "open") /\ ~Has(queue'.DEVICE, "close")
    BY <1>1, <1>3, <1>4, <1>8 DEF OneDevice
  <2>. QED  BY <1>1, <1>3, <1>10, <2>1 DEF OneDevice
<1>12. EndInv'
  BY <1>1, <1>8, EndStays
<1>13. DevTypes'
  BY <1>1, <1>7, <1>8, <1>9 DEF DevTypes
<1>. QED  BY <1>11, <1>12, <1>13 DEF DevicesInv

LEMMA StartDestroyKeepsInv ==
  ASSUME DevicesInv, StartDestroy
  PROVE  DevicesInv'
<1>1. /\ DevTypes /\ EndInv /\ OneDevice /\ queue \in Queues /\ queue["UI"] # <<>>
      /\ Head(queue.UI)[1] = "start_destroy" /\ dev \in [Ids -> Device]
      /\ Release(Head(queue.UI)[2], {"UI"}, Rest("UI")) /\ device_' = NoDevice
      /\ UNCHANGED <<mode, usb, finder, work, device, open_first, manager, window>>
      /\ phase' = "up" <=> phase = "up"
  BY DEF DevicesInv, DevTypes, StartDestroy, usbVars, mgrVars, Head1
<1>2. queue.UI \in Seq(Tasks) /\ queue.DEVICE \in Seq(Tasks)
  BY <1>1 DEF Queues, Threads
<1>3. mode.ui
  BY <1>1 DEF OneDevice
<1>4. open_first /\ work.open = {} /\ ~Has(queue.UI, "created")
  <2>1. ~Stage0 /\ \A d \in Ids : ~Stage1(d)
    BY <1>1 DEF Stage0, Stage1
  <2>. QED  BY <1>1, <1>3, <2>1 DEF OneDevice, Stage2, Stage3
<1>5. PICK d : d = Head(queue.UI)[2]
  OBVIOUS
<1>6. PICK rest : rest = Rest("UI")
  OBVIOUS
<1>7. /\ rest \in Queues /\ rest["DEVICE"] = queue["DEVICE"] /\ rest["UI"] = Tail(queue["UI"])
      /\ d \in Names
  BY <1>1, <1>2, <1>5, <1>6, RestIs, TaskParts
<1>8. Release(d, {"UI"}, rest)
  BY <1>1, <1>5, <1>6
<1>9. /\ queue' \in Queues /\ queue'["UI"] = rest["UI"] /\ dev' \in [Ids -> Device]
      /\ queue'["DEVICE"] = rest["DEVICE"] \/ queue'["DEVICE"] = Append(rest["DEVICE"], <<"delete", d>>)
  BY <1>1, <1>7, <1>8, ReleaseIs
<1>10. Quietly(queue.DEVICE, queue'.DEVICE)
  BY <1>2, <1>7, <1>9, QuietlyStays, DeleteTask
<1>11. ~Has(queue'.UI, "created")
  BY <1>1, <1>2, <1>4, <1>7, <1>9, TailHas
<1>12. OneDevice'
  <2>1. Stage3'
    BY <1>1, <1>11 DEF Stage3
  <2>2. /\ work'.close = {} /\ work'.open = {} /\ open_first'
        /\ ~Has(queue'.DEVICE, "open") /\ ~Has(queue'.DEVICE, "close")
    BY <1>1, <1>3, <1>4, <1>10 DEF OneDevice, Quietly, Calls
  <2>. QED  BY <1>1, <1>3, <2>1, <2>2 DEF OneDevice
<1>13. EndInv'
  <2>1. /\ phase = "up" => manager'
        /\ phase # "up" /\ NothingOpen => work'.at = "idle" /\ \A r \in Paths : device'[r] = NoDevice
    BY <1>1 DEF NothingOpen, EndInv
  <2>. QED  BY <1>1, <1>10, <2>1, EndKept
<1>14. DevTypes'
  BY <1>1, <1>9 DEF DevTypes
<1>. QED  BY <1>12, <1>13, <1>14 DEF DevicesInv

LEMMA TaskStepKeepsInv ==
  ASSUME DevicesInv, TaskStep
  PROVE  DevicesInv'
<1>1. /\ DevTypes /\ EndInv /\ OneDevice /\ queue \in Queues /\ queue["TASK"] # <<>>
      /\ dev \in [Ids -> Device]
      /\ UNCHANGED <<mode, usb, finder, work, device, open_first, manager, device_, window, phase>>
  BY DEF DevicesInv, DevTypes, TaskStep, usbVars, mgrVars, uiVars
<1>2. PICK q : q = queue.TASK
  OBVIOUS
<1>3. PICK d : d = Head(q)[2]
  OBVIOUS
<1>4. PICK rest : rest = Rest("TASK")
  OBVIOUS
<1>5. /\ q \in Seq(Tasks) /\ q # <<>> /\ queue.DEVICE \in Seq(Tasks)
  BY <1>1, <1>2 DEF Queues, Threads
<1>6. /\ rest \in Queues /\ rest["DEVICE"] = queue["DEVICE"] /\ rest["UI"] = queue["UI"]
      /\ rest["TASK"] = Tail(q) /\ d \in Names
  BY <1>1, <1>2, <1>3, <1>4, <1>5, RestIs, TaskParts
<1>7. AllCreated(q) => Head(q)[1] = "created" /\ AllCreated(Tail(q))
  <2>1. /\ Len(q) \in Nat \ {0} /\ DOMAIN q = 1 .. Len(q) /\ DOMAIN Tail(q) = 1 .. Len(q) - 1
        /\ \A i \in 1 .. Len(q) - 1 : Tail(q)[i] = q[i + 1]
        /\ Head(q) = q[1]
    BY <1>5, TailIs
  <2>2. 1 \in 1 .. Len(q) /\ \A i \in 1 .. Len(q) - 1 : i + 1 \in 1 .. Len(q)
    BY <2>1
  <2>. QED  BY <2>1, <2>2 DEF AllCreated
\* the tasks that give and take a reference come after the one of creation
<1>8. /\ queue' \in Queues /\ dev' \in [Ids -> Device]
      /\ queue'["UI"] = queue["UI"] /\ queue'["TASK"] = Tail(q)
      /\ Quietly(queue.DEVICE, queue'.DEVICE)
      /\ Head(q)[1] = "created" => UNCHANGED dev /\ queue'["DEVICE"] = queue["DEVICE"]
      /\ \A e \in Ids : /\ dev'[e].life = dev[e].life
                        /\ "UI" \in dev[e].refs => "UI" \in dev'[e].refs
                        /\ "UI" \in dev[e].refs /\ NoEnd(queue.DEVICE, {"delete"}, e)
                             => NoEnd(queue'.DEVICE, {"delete"}, e)
  <2>1. CASE /\ Head(q)[1] = "handle" /\ queue' = rest
             /\ dev' = [dev EXCEPT ![d].refs = @ \cup {"TASK"}]
    <3>1. Quietly(queue.DEVICE, queue'.DEVICE)
      BY <1>5, <1>6, <2>1, QuietlyStays
    <3>2. dev' \in [Ids -> Device] /\ \A e \in Ids : /\ dev'[e].life = dev[e].life
                                                     /\ dev[e].refs \subseteq dev'[e].refs
      <4>1. CASE d \in Ids
        <5>1. dev[d] \in Device
          BY <1>1, <4>1
        <5>. DEFINE to == [dev[d] EXCEPT !.refs = @ \cup {"TASK"}]
        <5>2. to \in Device /\ to.life = dev[d].life /\ dev[d].refs \subseteq to.refs
          BY <5>1 DEF Device, Holders
        <5>3. dev' = [dev EXCEPT ![d] = to]
          BY <1>1, <2>1, <4>1
        <5>. HIDE DEF to
        <5>. QED  BY <1>1, <4>1, <5>2, <5>3
      <4>2. CASE d \notin Ids
        <5>1. dev' = dev
          BY <1>1, <2>1, <4>2
        <5>. QED  BY <1>1, <5>1
      <4>. QED  BY <4>1, <4>2
    <3>. QED  BY <1>6, <2>1, <3>1, <3>2
  <2>2. CASE Head(q)[1] = "start_destroy" /\ Release(d, {"TASK"}, rest)
    <3>1. /\ queue' \in Queues /\ queue'["UI"] = rest["UI"] /\ queue'["TASK"] = rest["TASK"]
          /\ \/ queue'["DEVICE"] = rest["DEVICE"]
             \/ /\ queue'["DEVICE"] = Append(rest["DEVICE"], <<"delete", d>>)
                /\ dev[d].refs \ {"TASK"} = {}
          /\ dev' \in [Ids -> Device]
          /\ \A e \in Ids : /\ dev'[e].life = dev[e].life /\ dev'[e].created = dev[e].created
                            /\ dev'[e].refs = IF e = d THEN dev[e].refs \ {"TASK"} ELSE dev[e].refs
      <4>1. PICK holders : holders = {"TASK"}
        OBVIOUS
      <4>2. Release(d, holders, rest)
        BY <2>2, <4>1
      <4>3. /\ queue' \in Queues /\ queue'["UI"] = rest["UI"] /\ queue'["TASK"] = rest["TASK"]
            /\ \/ queue'["DEVICE"] = rest["DEVICE"]
               \/ /\ queue'["DEVICE"] = Append(rest["DEVICE"], <<"delete", d>>)
                  /\ dev[d].refs \ holders = {}
            /\ dev' \in [Ids -> Device]
            /\ \A e \in Ids : /\ dev'[e].life = dev[e].life /\ dev'[e].created = dev[e].created
                              /\ dev'[e].refs = IF e = d THEN dev[e].refs \ holders ELSE dev[e].refs
        <5>1. d \in Names /\ rest \in Queues /\ dev \in [Ids -> Device]
          BY <1>1, <1>6
        <5>. QED  BY <4>2, <5>1, ReleaseIs
      <4>. QED  BY <4>1, <4>3
    <3>2. Quietly(queue.DEVICE, queue'.DEVICE)
      BY <1>5, <1>6, <3>1, QuietlyStays, DeleteTask
    <3>3. ASSUME NEW e \in Ids, "UI" \in dev[e].refs, NoEnd(queue.DEVICE, {"delete"}, e)
          PROVE  NoEnd(queue'.DEVICE, {"delete"}, e)
      <4>1. dev[d].refs \ {"TASK"} = {} => e # d
        BY <3>3
      <4>2. ASSUME e # d  PROVE NoEnd(Append(queue.DEVICE, <<"delete", d>>), {"delete"}, e)
        BY <1>5, <1>6, <3>3, <4>2, DeleteTask
      <4>3. \/ queue'.DEVICE = queue.DEVICE
            \/ queue'.DEVICE = Append(queue.DEVICE, <<"delete", d>>) /\ e # d
        BY <1>6, <3>1, <4>1
      <4>. QED  BY <3>3, <4>2, <4>3
    <3>4. \A e \in Ids : "UI" \in dev[e].refs => "UI" \in dev'[e].refs
      BY <3>1
    <3>. QED  BY <1>6, <2>2, <3>1, <3>2, <3>3, <3>4
  <2>3. CASE Head(q)[1] = "created" /\ queue' = rest /\ UNCHANGED dev
    BY <1>1, <1>5, <1>6, <2>3, QuietlyStays
  <2>. QED  BY <1>2, <1>3, <1>4, <2>1, <2>2, <2>3 DEF TaskStep
<1>9. EarlyKept
  <2>1. ASSUME AllCreated(queue.TASK)  PROVE dev' = dev /\ queue'.DEVICE = queue.DEVICE
    BY <1>2, <1>7, <1>8, <2>1
  <2>. QED  BY <1>1, <2>1 DEF EarlyKept
<1>10. HeldKept
  BY <1>8 DEF HeldKept
<1>11. OneDevice'
  <2>1. WorkIsLeft
    BY <1>1, SameWork
  <2>2. /\ queue'.UI = queue.UI /\ (queue.TASK = <<>> => queue'.TASK = <<>>)
        /\ AllCreated(queue.TASK) => AllCreated(queue'.TASK)
    BY <1>1, <1>2, <1>7, <1>8
  <2>. QED  BY <1>1, <1>8, <1>9, <1>10, <2>1, <2>2, OneKept
<1>12. EndInv'
  <2>1. /\ phase' = "up" <=> phase = "up"
        /\ phase = "up" => manager'
        /\ phase # "up" /\ NothingOpen => work'.at = "idle" /\ \A r \in Paths : device'[r] = NoDevice
    BY <1>1 DEF NothingOpen, EndInv
  <2>. QED  BY <1>1, <1>8, <2>1, EndKept
<1>13. DevTypes'
  BY <1>1, <1>8 DEF DevTypes
<1>. QED  BY <1>11, <1>12, <1>13 DEF DevicesInv

LEMMA CloseKeepsInv ==
  ASSUME DevicesInv, Close
  PROVE  DevicesInv'
<1>1. /\ DevTypes /\ EndInv /\ OneDevice /\ queue \in Queues /\ phase = "up" /\ (mode.ui => window)
      /\ UNCHANGED <<mode, usb, work, device, open_first, dev, manager, device_>>
      /\ window' = FALSE /\ phase' = "closing" /\ finder' # "on"
      /\ queue' = Post(queue, "DEVICE", <<"destroy all", NoDevice>>)
  BY DEF DevicesInv, DevTypes, Close, usbVars, mgrVars
<1>2. PICK t : t = <<"destroy all", NoDevice>>
  OBVIOUS
<1>3. t \in Tasks /\ t[1] = "destroy all"
  BY <1>2, TaskIs DEF Kinds, Names
<1>4. PICK q : q = queue.DEVICE
  OBVIOUS
<1>5. /\ queue' \in Queues /\ queue'["DEVICE"] = Append(q, t) /\ q \in Seq(Tasks)
      /\ queue'["UI"] = queue["UI"] /\ queue'["TASK"] = queue["TASK"]
  BY <1>1, <1>2, <1>3, <1>4, PostIs DEF Queues, Threads
<1>6. \A type : Has(Append(q, t), type) <=> Has(q, type) \/ t[1] = type
  BY <1>3, <1>5, AppendHas
<1>7. OpenLast(Append(q, t))
  <2>1. OpenLast(q) /\ ~Opening(t)
    BY <1>1, <1>3, <1>4 DEF EndInv, Opening
  <2>. QED  BY <1>3, <1>5, <2>1, AppendOpenLast
<1>8. EndInv'
  BY <1>1, <1>3, <1>5, <1>6, <1>7 DEF EndInv
<1>9. ASSUME NEW ends, "destroy all" \notin ends, NEW d, NoEnd(q, ends, d)
      PROVE  NoEnd(Append(q, t), ends, d)
  BY <1>3, <1>5, <1>9, AppendNoEnd
<1>10. EndsOnce(q, dev) => EndsOnce(Append(q, t), dev)
  <2>1. t[1] \notin Ends
    BY <1>3 DEF Ends
  <2>. QED  BY <1>3, <1>5, <2>1, AppendEndsOnce
<1>11. EarlyKept
  <2>1. \A d : NoEnd(q, Ends, d) => NoEnd(Append(q, t), Ends, d)
    BY <1>9 DEF Ends
  <2>. QED  BY <1>1, <1>4, <1>5, <1>10, <2>1 DEF EarlyKept
<1>12. HeldKept
  <2>1. \A d : NoEnd(q, {"delete"}, d) => NoEnd(Append(q, t), {"delete"}, d)
    BY <1>9
  <2>. QED  BY <1>1, <1>4, <1>5, <2>1 DEF HeldKept
<1>13. OneDevice'
  <2>1. WorkIsLeft
    BY <1>1, SameWork
  <2>2. /\ queue'.UI = queue.UI /\ (queue.TASK = <<>> => queue'.TASK = <<>>)
        /\ AllCreated(queue.TASK) => AllCreated(queue'.TASK)
    BY <1>5
  <2>3. \A type \in {"open", "close"} : Has(queue'.DEVICE, type) => Has(queue.DEVICE, type)
    BY <1>3, <1>4, <1>5, <1>6
  <2>. QED  BY <1>1, <1>11, <1>12, <2>1, <2>2, <2>3, OneStays
<1>14. DevTypes'
  BY <1>1, <1>5 DEF DevTypes
<1>. QED  BY <1>8, <1>13, <1>14 DEF DevicesInv

LEMMA PhaseKeepsInv ==
  ASSUME DevicesInv, DestroyManager \/ JoinDevice \/ JoinTask
  PROVE  DevicesInv'
<1>1. /\ DevTypes /\ EndInv /\ OneDevice /\ queue \in Queues
      /\ UNCHANGED <<mode, usb, work, device, open_first, dev, queue, device_, window>>
      /\ phase # "up" /\ phase' # "up" /\ (finder' = "on" => finder = "on")
  BY DEF DevicesInv, DevTypes, DestroyManager, JoinDevice, JoinTask, usbVars, mgrVars
<1>2. Quietly(queue.DEVICE, queue'.DEVICE) /\ EarlyKept /\ HeldKept
  BY <1>1, StateGrows
<1>3. EndInv'
  BY <1>1 DEF EndInv, NothingOpen
<1>4. WorkIsLeft
  BY <1>1, SameWork
<1>5. OneDevice'
  BY <1>1, <1>2, <1>4, OneKept
<1>6. DevTypes'
  BY <1>1 DEF DevTypes
<1>. QED  BY <1>3, <1>5, <1>6 DEF DevicesInv

LEMMA RequestKeepsInv ==
  ASSUME DevicesInv, Request
  PROVE  DevicesInv'
<1>1. /\ DevTypes /\ EndInv /\ OneDevice /\ queue \in Queues /\ phase = "up" /\ ~mode.ui
      /\ UNCHANGED <<mode, usb, finder, work, device, open_first, dev, manager, device_, window, phase>>
  BY ModeIs DEF DevicesInv, DevTypes, Request, mgrVars, uiVars
<1>2. PICK type \in {"open", "close"}, p \in Paths : queue' = Post(queue, "DEVICE", <<type, p>>)
  BY DEF Request
<1>3. PICK t : t = <<type, p>>
  OBVIOUS
<1>4. t \in Tasks /\ t[1] # "destroy all"
  BY <1>2, <1>3 DEF Tasks
<1>5. PICK q : q = queue.DEVICE
  OBVIOUS
<1>6. /\ queue' \in Queues /\ queue'["DEVICE"] = Append(q, t) /\ q \in Seq(Tasks)
      /\ queue'["UI"] = queue["UI"] /\ queue'["TASK"] = queue["TASK"]
  BY <1>1, <1>2, <1>3, <1>4, <1>5, PostIs DEF Queues, Threads
<1>7. ~Has(Append(q, t), "destroy all") /\ OpenLast(Append(q, t))
  <2>1. OpenLast(q) /\ ~Has(q, "destroy all")
    BY <1>1, <1>5 DEF EndInv
  <2>. QED  BY <1>4, <1>6, <2>1, AppendHas, AppendOpenLast
<1>8. EndInv'
  BY <1>1, <1>6, <1>7 DEF EndInv
<1>9. OneDevice'
  BY <1>1, <1>6, NoUI
<1>10. DevTypes'
  BY <1>1, <1>6 DEF DevTypes
<1>. QED  BY <1>8, <1>9, <1>10 DEF DevicesInv

LEMMA StutterKeepsInv ==
  ASSUME DevicesInv, UNCHANGED devVars
  PROVE  DevicesInv'
BY DEF DevicesInv, DevTypes, EndInv, OneDevice, NothingOpen, Stage0, Stage1, Stage2, Stage3, devVars, usbVars, mgrVars, uiVars

LEMMA InitIsInv ==
  ASSUME DevicesInit
  PROVE  DevicesInv
<1>1. NoDev \in Device
  BY DevicesAssumption DEF NoDev, Device
<1>2. /\ usb = [p \in Paths |-> 0] /\ work = Idle /\ device = [p \in Paths |-> NoDevice]
      /\ dev = [d \in Ids |-> NoDev] /\ queue = [t \in Threads |-> <<>>]
      /\ mode \in Modes /\ device_ = NoDevice /\ ~window /\ phase = "up" /\ ~open_first /\ manager
  BY DEF DevicesInit
<1>3. queue \in Queues /\ queue.DEVICE = <<>> /\ queue.UI = <<>> /\ queue.TASK = <<>>
  BY <1>2 DEF Queues, Threads
<1>4. DevTypes
  BY <1>1, <1>2, <1>3, IdleIs DEF DevTypes
<1>5. \A type : ~Has(queue.DEVICE, type)
  BY <1>3 DEF Has
<1>6. EndInv
  <2>1. DOMAIN queue.DEVICE = {}
    BY <1>3
  <2>2. OpenLast(queue.DEVICE)
    BY <2>1 DEF OpenLast
  <2>. QED  BY <1>2, <1>5, <2>2 DEF EndInv
<1>7. \A p \in Paths : device[p] = NoDevice
  BY <1>2
<1>8. Stage0
  BY <1>2, <1>3, <1>7 DEF Stage0, EndsOnce
<1>9. OneDevice
  BY <1>2, <1>3, <1>5, <1>8, IdleIs DEF OneDevice
<1>. QED  BY <1>4, <1>6, <1>9 DEF DevicesInv

-----------------------------------------------------------------------------
(* The theorems. *)

\* From plug to unplug and to the end of the program, the tasks of the three
\* threads are in the order that the order of the calls implies, whichever devices
\* come, go and fail to open: the life of the device that the program opens has
\* its stages, and nothing that opens follows the task of DestroyDevices.
THEOREM DevicesInStep == DevicesSpec => []DevicesInv
<1>1. DevicesInit => DevicesInv
  BY InitIsInv
<1>2. DevicesInv /\ [DevicesNext]_devVars => DevicesInv'
  <2>. SUFFICES ASSUME DevicesInv, [DevicesNext]_devVars  PROVE DevicesInv'
    OBVIOUS
  <2>1. CASE FinderRound
    BY <2>1, FinderKeepsInv, OpenFoundKeepsInv, CloseLostKeepsInv, EndRoundKeepsInv DEF FinderRound
  <2>2. CASE DeviceTask
    BY <2>2, OpenTaskKeepsInv, CloseTaskKeepsInv, DestroyDevicesKeepsInv, StateChangedKeepsInv,
       DestroyPosKeepsInv, DeleteDeviceImplKeepsInv DEF DeviceTask
  <2>3. CASE UIStep
    BY <2>3, CreatedKeepsInv, StartDestroyKeepsInv, PhaseKeepsInv DEF UIStep
  <2>4. CASE TaskStep
    BY <2>4, TaskStepKeepsInv
  <2>5. CASE Request
    BY <2>5, RequestKeepsInv
  <2>6. CASE Close
    BY <2>6, CloseKeepsInv
  <2>7. CASE \E p \in Paths : Plug(p)
    BY <2>7, PlugKeepsInv
  <2>8. CASE UNCHANGED devVars
    BY <2>8, StutterKeepsInv
  <2>. QED  BY <2>1, <2>2, <2>3, <2>4, <2>5, <2>6, <2>7, <2>8 DEF DevicesNext
<1>. QED  BY <1>1, <1>2, PTL DEF DevicesSpec

\* CANScopeProcess::device_ and the pointer in the UI thread's task of creation
\* never dangle: no device is deleted before the UI thread has seen START_DESTROY.
THEOREM DevicesOutlivePointers == DevicesSpec => []PointersAlive
<1>1. DevicesInv => PointersAlive
  <2>. SUFFICES ASSUME DevicesInv  PROVE PointersAlive
    OBVIOUS
  <2>1. OneDevice /\ DOMAIN queue.UI = 1 .. Len(queue.UI)
    BY DEF DevicesInv, DevTypes, Queues, Threads
  <2>2. CASE ~mode.ui
    BY <2>1, <2>2 DEF PointersAlive, OneDevice
  <2>3. CASE mode.ui
    <3>1. ASSUME ~Has(queue.UI, "created"), device_ # NoDevice => dev[device_].life # "none"
          PROVE  PointersAlive
      BY <2>1, <3>1 DEF PointersAlive, Has
    <3>2. CASE Stage0
      <4>1. ~Has(queue.UI, "created")
        BY <3>2 DEF Stage0, Has
      <4>. QED  BY <3>1, <3>2, <4>1 DEF Stage0
    <3>3. CASE Stage2 \/ Stage3
      BY <3>1, <3>3 DEF Stage2, Stage3
    <3>4. CASE \E d \in Ids : Stage1(d)
      <4>1. PICK d \in Ids : Stage1(d)
        BY <3>4
      <4>2. queue.UI = <<<<"created", d>>>> /\ device_ = NoDevice /\ dev[d].life # "none"
        BY <4>1 DEF Stage1
      <4>3. \A i \in 1 .. Len(queue.UI) : queue.UI[i][2] = d
        BY <4>2
      <4>. QED  BY <4>2, <4>3 DEF PointersAlive
    <3>. QED  BY <2>1, <2>3, <3>2, <3>3, <3>4 DEF OneDevice
  <2>. QED  BY <2>2, <2>3
<1>. QED  BY <1>1, DevicesInStep, PTL

\* Once the task of DestroyDevices has run no device is open and none is opened
\* again: the rounds of the finder are over, and so are the calls.
THEOREM ClosedStaysClosed == DevicesSpec => []NothingOpenAtEnd
<1>1. DevicesInv => EndInv /\ DOMAIN queue.DEVICE = 1 .. Len(queue.DEVICE)
  <2>1. DevicesInv => queue.DEVICE \in Seq(Tasks)
    BY DEF DevicesInv, DevTypes, Queues, Threads
  <2>. QED  BY <2>1 DEF DevicesInv
<1>2. DevicesInv => NothingOpenAtEnd
  <2>. SUFFICES ASSUME DevicesInv, phase # "up", ~Has(queue.DEVICE, "destroy all")
                PROVE  \A p \in Paths : device[p] = NoDevice
    BY <1>1 DEF NothingOpenAtEnd, Has
  <2>. QED  BY <1>1 DEF EndInv, NothingOpen
<1>. QED  BY <1>2, DevicesInStep, PTL
=============================================================================
