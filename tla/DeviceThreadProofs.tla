----------------------- MODULE DeviceThreadProofs ------------------------
(***************************************************************************)
(* Proofs about what the device thread does: write the settings             *)
(* (OscRegisters and Settings, for any handles, any of them batching, any   *)
(* properties set and any number of changes), and collect frames            *)
(* (FrameCollecter, the UsbPort below it and the ThreadedLoop around it).   *)
(*                                                                          *)
(* The frames: as long as no transfer has failed, a call finds empty pipes  *)
(* and leaves empty pipes, so that what it reads is its own (InStep).  Then *)
(* the frames the device has sent are those cleaned, those pushed and those *)
(* of the read under way (Stock), and what is left of whole frames is one   *)
(* of whole frames again (Whole).  That units come in order holds of failed *)
(* transfers as well: whatever is left in a pipe is older than what follows *)
(* (InOrder).                                                               *)
(***************************************************************************)
EXTENDS Settings, FrameCollecter, ThreadedLoopProofs, SequenceTheorems

---------------------------------------------------------------------------
(* The handlers. *)

\* The cases of Handler: the kinds of properties.
LEMMA PropKinds ==
  ASSUME NEW p \in Props
  PROVE  \/ p[1] \in {"range", "offset"} /\ p[2] \in Analog
         \/ p[1] \in {"range", "offset"} /\ p[2] = "CAN_DIFF"
         \/ p[1] = "coupling" /\ p[2] \in Analog
         \/ p[1] = "diff_ctrl" /\ p[2] = "all"
         \/ p[1] \in Times /\ p[2] = "all"
         \/ p[1] \in Triggers /\ p[2] = "all"
BY DEF Props, Chnls

\* What each of them computes and writes.
LEMMA HandlerOfAnalog ==
  ASSUME NEW p, NEW v, p[1] \in {"range", "offset"}, p[2] \in Analog
  PROVE  Handler(p, v) =
           [computes |-> {<<"analog_ctrl", p[2]>>, <<"analog_switch", p[2]>>}
                         \cup SetSoftDiff(p[2]) \cup SetTrigger2(v),
            writes |-> <<"analog_ctrl", "analog_switch", "soft_diff", "trigger2">>]
BY DEF Handler, Analog, Times
LEMMA HandlerOfDiff ==
  ASSUME NEW p, NEW v, p[1] \in {"range", "offset"}, p[2] = "CAN_DIFF"
  PROVE  Handler(p, v) = [computes |-> SetSoftDiff(p[2]) \cup SetTrigger2(v),
                          writes |-> <<"soft_diff", "trigger2">>]
BY DEF Handler, Analog, Times
LEMMA HandlerOfCoupling ==
  ASSUME NEW p, NEW v, p[1] = "coupling"
  PROVE  Handler(p, v) = [computes |-> {<<"analog_switch", p[2]>>},
                          writes |-> <<"analog_switch">>]
BY DEF Handler, Times
LEMMA HandlerOfDiffCtrl ==
  ASSUME NEW p, NEW v, p[1] = "diff_ctrl"
  PROVE  Handler(p, v) = [computes |-> SetSoftDiff("CAN_DIFF"), writes |-> <<"soft_diff">>]
BY DEF Handler, Times
LEMMA HandlerOfTime ==
  ASSUME NEW p, NEW v, p[1] \in Times
  PROVE  Handler(p, v) = [computes |-> {<<"trigger1", "all">>}, writes |-> <<"trigger1">>]
BY DEF Handler, Times
LEMMA HandlerOfTrigger ==
  ASSUME NEW p, NEW v, p[1] \in Triggers
  PROVE  Handler(p, v) = [computes |-> SetTrigger2(v), writes |-> <<"trigger2">>]
BY DEF Handler, Times, Triggers

\* What a handler computes is in the registers it writes.
LEMMA ComputedAreWritten ==
  ASSUME NEW p \in Props, NEW v, NEW f \in Handler(p, v).computes
  PROVE  f[1] \in ToSet(Handler(p, v).writes)
<1>1. ToSet(<<"analog_ctrl", "analog_switch", "soft_diff", "trigger2">>)
        = {"analog_ctrl", "analog_switch", "soft_diff", "trigger2"}
  BY DEF ToSet
<1>2. ToSet(<<"soft_diff", "trigger2">>) = {"soft_diff", "trigger2"}
  BY DEF ToSet
<1>3. /\ ToSet(<<"analog_switch">>) = {"analog_switch"}
      /\ ToSet(<<"soft_diff">>) = {"soft_diff"}
      /\ ToSet(<<"trigger1">>) = {"trigger1"}
      /\ ToSet(<<"trigger2">>) = {"trigger2"}
  BY DEF ToSet
<1>4. \A g \in SetTrigger2(v) : g[1] = "trigger2"
  BY DEF SetTrigger2
<1>5. \A d : \A g \in SetSoftDiff(d) : g[1] = "soft_diff"
  BY DEF SetSoftDiff
<1>6. CASE p[1] \in {"range", "offset"} /\ p[2] \in Analog
  BY <1>1, <1>4, <1>5, <1>6, HandlerOfAnalog
<1>7. CASE p[1] \in {"range", "offset"} /\ p[2] = "CAN_DIFF"
  BY <1>2, <1>4, <1>5, <1>7, HandlerOfDiff
<1>8. CASE p[1] = "coupling"
  BY <1>3, <1>8, HandlerOfCoupling
<1>9. CASE p[1] = "diff_ctrl"
  BY <1>3, <1>5, <1>9, HandlerOfDiffCtrl
<1>10. CASE p[1] \in Times
  BY <1>3, <1>10, HandlerOfTime
<1>11. CASE p[1] \in Triggers
  BY <1>3, <1>4, <1>11, HandlerOfTrigger
<1> QED BY <1>6, <1>7, <1>8, <1>9, <1>10, <1>11, PropKinds

\* What a field of each kind is computed from.
LEMMA ImageOfAnalogCtrl ==
  ASSUME NEW c, NEW v
  PROVE  Image(<<"analog_ctrl", c>>, v) = <<v[VoltRange(c)], v[Offset(c)]>>
BY DEF Image
LEMMA ImageOfAnalogSwitch ==
  ASSUME NEW c, NEW v
  PROVE  Image(<<"analog_switch", c>>, v) = <<v[Coupling(c)], v[VoltRange(c)]>>
BY DEF Image
LEMMA ImageOfSoftDiff ==
  ASSUME NEW c \in Chnls, NEW v
  PROVE  Image(<<"soft_diff", c>>, v) = <<v[VoltRange(c)], v[Offset(c)]>>
BY DEF Image, Chnls, Analog
LEMMA ImageOfDiffCtrl ==
  ASSUME NEW v
  PROVE  Image(<<"soft_diff", "diff_ctrl">>, v) = <<v[One("diff_ctrl")]>>
BY DEF Image, Chnls, Analog
LEMMA ImageOfTrigger1 ==
  ASSUME NEW v
  PROVE  Image(<<"trigger1", "all">>, v) =
           <<v[One("time_base")], v[One("time_offset")], v[One("auto_time")]>>
BY DEF Image
LEMMA ImageOfTrigger2 ==
  ASSUME NEW v
  PROVE  Image(<<"trigger2", "all">>, v) =
           <<v[One("trigger_source")], v[One("trigger_type")], v[One("trigger_mode")],
             v[One("compare")], v[One("time_param")]>>
BY DEF Image
LEMMA ImageOfLevels ==
  ASSUME NEW v, IsTriggerSourceChnl(v)
  PROVE  Image(<<"trigger2", "cmp">>, v) =
           LET c == v[One("trigger_source")] IN
           <<c, v[VoltRange(c)], v[Offset(c)], v[One("trigger_volt")], v[One("trigger_sens")]>>
BY DEF Image

\* Each handler knows every field that depends on its property: one that it does
\* not compute is as it was.
LEMMA OthersUnchanged ==
  ASSUME NEW u, NEW v, NEW p \in Props, \A q \in Props : q # p => v[q] = u[q],
         NEW f \in Fields, f \notin Handler(p, v).computes,
         f = <<"trigger2", "cmp">> => IsTriggerSourceChnl(v)
  PROVE  /\ Image(f, v) = Image(f, u)
         /\ f = <<"trigger2", "cmp">> => IsTriggerSourceChnl(u)
<1>1. \A q \in Props : q # p => v[q] = u[q]
  OBVIOUS
<1>2. \A c \in Chnls : VoltRange(c) \in Props /\ Offset(c) \in Props
  BY DEF Props, VoltRange, Offset
<1>3. \A c \in Analog : Coupling(c) \in Props
  BY DEF Props, Coupling
<1>4. \A n \in Times \cup Triggers \cup {"diff_ctrl"} : One(n) \in Props
  BY DEF Props, One
<1>5. ASSUME NEW n \in Times \cup Triggers \cup {"diff_ctrl"}, p[1] # n
      PROVE  v[One(n)] = u[One(n)]
  <2>1. One(n) # p
    BY <1>5 DEF One
  <2> QED BY <1>1, <1>4, <2>1
<1>6. ASSUME p[1] \in {"range", "offset"}, p[2] \in Chnls
      PROVE  SetSoftDiff(p[2]) \cup SetTrigger2(v) \subseteq Handler(p, v).computes
  BY <1>6, HandlerOfAnalog, HandlerOfDiff DEF Chnls
<1>7. CASE f = <<"trigger2", "cmp">>
  <2>1. IsTriggerSourceChnl(v) /\ f \in SetTrigger2(v)
    BY <1>7 DEF SetTrigger2
  <2>2. ~(p[1] \in {"range", "offset"} /\ p[2] \in Chnls) /\ p[1] \notin Triggers
    <3>1. CASE p[1] \in {"range", "offset"} /\ p[2] \in Chnls
      BY <1>6, <2>1, <3>1
    <3>2. CASE p[1] \in Triggers
      <4>1. SetTrigger2(v) = Handler(p, v).computes
        BY <3>2, HandlerOfTrigger
      <4> QED BY <2>1, <4>1
    <3> QED BY <3>1, <3>2
  <2>3. ASSUME NEW c \in Chnls
        PROVE  v[VoltRange(c)] = u[VoltRange(c)] /\ v[Offset(c)] = u[Offset(c)]
    <3>1. VoltRange(c) # p /\ Offset(c) # p
      BY <2>2 DEF VoltRange, Offset
    <3> QED BY <1>1, <1>2, <3>1
  <2>4. \A n \in Triggers : v[One(n)] = u[One(n)]
    BY <1>5, <2>2
  <2>5. v[One("trigger_source")] = u[One("trigger_source")]
        /\ v[One("trigger_volt")] = u[One("trigger_volt")]
        /\ v[One("trigger_sens")] = u[One("trigger_sens")]
    BY <2>4 DEF Triggers
  <2>6. IsTriggerSourceChnl(u) /\ v[One("trigger_source")] \in Chnls
    BY <2>1, <2>5 DEF IsTriggerSourceChnl
  <2> QED BY <1>7, <2>1, <2>3, <2>5, <2>6, ImageOfLevels
<1>8. ASSUME NEW c \in Analog, f = <<"analog_ctrl", c>>
      PROVE  Image(f, v) = Image(f, u)
  <2>1. ~(p[1] \in {"range", "offset"} /\ p[2] = c)
    BY <1>8, HandlerOfAnalog
  <2>2. v[VoltRange(c)] = u[VoltRange(c)] /\ v[Offset(c)] = u[Offset(c)]
    BY <1>1, <1>2, <1>8, <2>1 DEF VoltRange, Offset, Chnls
  <2> QED BY <1>8, <2>2, ImageOfAnalogCtrl
<1>9. ASSUME NEW c \in Analog, f = <<"analog_switch", c>>
      PROVE  Image(f, v) = Image(f, u)
  <2>1. ~(p[1] \in {"range", "offset"} /\ p[2] = c)
    BY <1>9, HandlerOfAnalog
  <2>2. ~(p[1] = "coupling" /\ p[2] = c)
    BY <1>9, HandlerOfCoupling
  <2>3. v[VoltRange(c)] = u[VoltRange(c)] /\ v[Coupling(c)] = u[Coupling(c)]
    BY <1>1, <1>2, <1>3, <1>9, <2>1, <2>2 DEF VoltRange, Coupling, Chnls
  <2> QED BY <1>9, <2>3, ImageOfAnalogSwitch
<1>10. ASSUME NEW c \in Chnls, f = <<"soft_diff", c>>
      PROVE  Image(f, v) = Image(f, u)
  <2>1. ~(p[1] \in {"range", "offset"} /\ p[2] = c)
    BY <1>6, <1>10 DEF SetSoftDiff
  <2>2. v[VoltRange(c)] = u[VoltRange(c)] /\ v[Offset(c)] = u[Offset(c)]
    BY <1>1, <1>2, <1>10, <2>1 DEF VoltRange, Offset
  <2> QED BY <1>10, <2>2, ImageOfSoftDiff
<1>11. CASE f = <<"soft_diff", "diff_ctrl">>
  <2>1. p[1] # "diff_ctrl"
    BY <1>11, HandlerOfDiffCtrl DEF SetSoftDiff
  <2>2. v[One("diff_ctrl")] = u[One("diff_ctrl")]
    BY <1>5, <2>1
  <2> QED BY <1>11, <2>2, ImageOfDiffCtrl
<1>12. CASE f = <<"trigger1", "all">>
  <2>1. p[1] \notin Times
    BY <1>12, HandlerOfTime
  <2>2. \A n \in Times : v[One(n)] = u[One(n)]
    BY <1>5, <2>1
  <2> QED BY <1>12, <2>2, ImageOfTrigger1 DEF Times
<1>13. CASE f = <<"trigger2", "all">>
  <2>1. p[1] \notin Triggers
    BY <1>13, HandlerOfTrigger DEF SetTrigger2
  <2>2. \A n \in Triggers : v[One(n)] = u[One(n)]
    BY <1>5, <2>1
  <2> QED BY <1>13, <2>2, ImageOfTrigger2 DEF Triggers
<1>14. \/ \E c \in Analog : f = <<"analog_ctrl", c>> \/ f = <<"analog_switch", c>>
       \/ \E c \in Chnls : f = <<"soft_diff", c>>
       \/ f = <<"soft_diff", "diff_ctrl">>
       \/ f \in {<<"trigger1", "all">>, <<"trigger2", "all">>, <<"trigger2", "cmp">>}
  BY DEF Fields
<1>15. CASE f # <<"trigger2", "cmp">>
  BY <1>8, <1>9, <1>10, <1>11, <1>12, <1>13, <1>14, <1>15
<1> QED BY <1>7, <1>15
---------------------------------------------------------------------------
(* The registers. *)

\* The fields that are not in C are as they were when the properties become v.
Knows(C, v) ==
  \A f \in Fields \ C :
    (f = <<"trigger2", "cmp">> => IsTriggerSourceChnl(v))
      => /\ Image(f, v) = Image(f, props)
         /\ f = <<"trigger2", "cmp">> => IsTriggerSourceChnl(props)

\* A handler that writes what it computes, and computes what changed, keeps the
\* images and the device in step, whichever of its writes fails.
LEMMA RunKeepsRegInv ==
  ASSUME NEW handler, NEW v, RegInv, Run(handler, v),
         \A f \in handler.computes : f[1] \in ToSet(handler.writes),
         Knows(handler.computes, v)
  PROVE  RegInv'
<1> DEFINE W(n) == ToSet(SubSeq(handler.writes, 1, n))
<1>1. PICK n \in 0 .. Len(handler.writes) :
        /\ fpga' = [f \in Fields |-> IF f[1] \in W(n) THEN memory'[f] ELSE fpga[f]]
        /\ missed' = (missed \ W(n)) \cup (ToSet(handler.writes) \ W(n))
  BY DEF Run
<1> HIDE DEF W
<1>2. \A f \in Fields : memory'[f] = IF f \in handler.computes THEN Image(f, v) ELSE memory[f]
  BY DEF Run
<1>3. props' = v /\ stale' = stale \ handler.computes
  BY DEF Run
<1>4. ASSUME NEW f \in Fields, f[1] \notin missed'
      PROVE  fpga'[f] = memory'[f]
  <2>1. CASE f[1] \in W(n)
    BY <1>1, <2>1
  <2>2. CASE f[1] \notin W(n)
    <3>1. f[1] \notin missed /\ f \notin handler.computes
      BY <1>1, <1>4, <2>2
    <3>2. fpga'[f] = fpga[f] /\ memory'[f] = memory[f]
      BY <1>1, <1>2, <2>2, <3>1
    <3> QED BY <3>1, <3>2 DEF RegInv, HasImage
  <2> QED BY <2>1, <2>2
<1>5. ASSUME NEW f \in Fields, f \notin stale',
             f = <<"trigger2", "cmp">> => IsTriggerSourceChnl(v)
      PROVE  memory'[f] = Image(f, v)
  <2>1. CASE f \in handler.computes
    BY <1>2, <2>1
  <2>2. CASE f \notin handler.computes
    <3>1. f \notin stale /\ memory'[f] = memory[f]
      BY <1>2, <1>3, <1>5, <2>2
    <3>2. /\ Image(f, v) = Image(f, props)
          /\ f = <<"trigger2", "cmp">> => IsTriggerSourceChnl(props)
      BY <1>5, <2>2 DEF Knows
    <3> QED BY <3>1, <3>2 DEF RegInv, ImageFollows
  <2> QED BY <2>1, <2>2
<1>6. HasImage'
  BY <1>4 DEF HasImage
<1>7. ImageFollows'
  BY <1>3, <1>5 DEF ImageFollows, IsTriggerSourceChnl
<1> QED BY <1>6, <1>7 DEF RegInv

\* A property is set.
LEMMA SetKeepsRegInv ==
  ASSUME NEW S, props \in [Props -> S], RegInv, NEW p \in Props, NEW x,
         NEW v, v = [props EXCEPT ![p] = x], Run(Handler(p, v), v)
  PROVE  RegInv'
<1>1. \A f \in Handler(p, v).computes : f[1] \in ToSet(Handler(p, v).writes)
  BY ComputedAreWritten
<1>2. \A q \in Props : q # p => v[q] = props[q]
  OBVIOUS
<1>3. Knows(Handler(p, v).computes, v)
  BY <1>2, OthersUnchanged DEF Knows
<1> QED BY <1>1, <1>3, RunKeepsRegInv

\* The registers that SetAll writes are those that there are.
LEMMA AllAreWritten ==
  \A f \in Fields : f[1] \in ToSet(AllRegisters)
<1>1. ToSet(AllRegisters) =
        {"analog_ctrl", "soft_diff", "analog_switch", "trigger1", "trigger2"}
  BY DEF ToSet, AllRegisters
<1> QED BY <1>1 DEF Fields

\* Everything is set.
LEMMA SetAllKeepsRegInv ==
  ASSUME NEW v, RegInv, Run(SetAll(v), v)
  PROVE  RegInv'
<1>1. \A f \in SetAll(v).computes : f[1] \in ToSet(SetAll(v).writes)
  BY AllAreWritten DEF SetAll
<1>2. Knows(SetAll(v).computes, v)
  BY DEF SetAll, SetTrigger2, Knows
<1> QED BY <1>1, <1>2, RunKeepsRegInv

\* The properties change and no handler runs: what they concern is stale.
LEMMA NoHandlerKeepsRegInv ==
  ASSUME NEW v, RegInv, NoHandler(v)
  PROVE  RegInv'
<1>1. ASSUME NEW f \in Fields, f \notin stale',
             f = <<"trigger2", "cmp">> => IsTriggerSourceChnl(v)
      PROVE  memory[f] = Image(f, v)
  <2>1. f \notin stale /\ Image(f, v) = Image(f, props)
    BY <1>1 DEF NoHandler
  <2>2. CASE f # <<"trigger2", "cmp">>
    BY <2>1, <2>2 DEF RegInv, ImageFollows
  <2>3. CASE f = <<"trigger2", "cmp">>
    <3>1. ASSUME ~IsTriggerSourceChnl(props)
          PROVE  FALSE
      <4>1. Image(f, props) = <<>>
        BY <2>3, <3>1 DEF Image
      <4>2. Image(f, v) # <<>>
        BY <1>1, <2>3, ImageOfLevels
      <4> QED BY <2>1, <4>1, <4>2
    <3> QED BY <2>1, <3>1 DEF RegInv, ImageFollows
  <2> QED BY <2>2, <2>3
<1> QED BY <1>1 DEF NoHandler, RegInv, HasImage, ImageFollows, IsTriggerSourceChnl

\* The device is opened.
LEMMA RegInitHasRegInv ==
  ASSUME RegInit
  PROVE  RegInv
<1>1. PICK n \in InitWrites :
        /\ fpga = [f \in Fields |-> IF f[1] \in ToSet(SubSeq(AllRegisters, 1, n))
                                     THEN memory[f] ELSE <<>>]
        /\ missed = ToSet(AllRegisters) \ ToSet(SubSeq(AllRegisters, 1, n))
  BY DEF RegInit
<1>2. HasImage
  BY <1>1, AllAreWritten DEF HasImage
<1>3. ImageFollows
  BY DEF RegInit, ImageFollows
<1> QED BY <1>2, <1>3 DEF RegInv

\* What the registers are for.
LEMMA RegInvFollows ==
  ASSUME RegInv
  PROVE  RegistersFollow
BY DEF RegInv, HasImage, ImageFollows, RegistersFollow
---------------------------------------------------------------------------
(* The tasks, the configs and the handles. *)

\* What the invariant says of the handles and the configs.
Ids == SettingsTypeOK /\ ReadsOwnWrite /\ StoreIsConfig

\* A step that leaves the registers alone keeps what is known of them.
LEMMA RegInvStays ==
  ASSUME RegInv, UNCHANGED regVars
  PROVE  RegInv'
BY DEF RegInv, HasImage, ImageFollows, IsTriggerSourceChnl, regVars

\* The ids of the configs are numbers.
LEMMA LastIdInNat ==
  ASSUME SettingsTypeOK
  PROVE  LastId \in Nat
BY DEF SettingsTypeOK, LastId

\* A new config takes the next id and leaves those before it as they were.
LEMMA UpdateFacts ==
  ASSUME SettingsTypeOK, UpdateConfig, props' \in Configs
  PROVE  /\ config_history' \in Seq(Configs) /\ config_history' # <<>>
         /\ LastId' = LastId + 1
         /\ \A n \in 0 .. LastId : config_history'[n + 1] = config_history[n + 1]
BY DEF SettingsTypeOK, UpdateConfig, LastId

\* A handle that fetches has the last config, and its store is that config.
LEMMA FetchFacts ==
  ASSUME Ids, NEW h \in Handles, FetchNewPref(h), UNCHANGED config_history
  PROVE  /\ store' \in [Handles -> Configs] /\ local' \subseteq Handles
         /\ current_pref' = [current_pref EXCEPT ![h] = LastId]
         /\ StoreIsConfig'
<1>1. LastId \in Nat /\ LastId + 1 \in 1 .. Len(config_history)
  BY LastIdInNat DEF Ids, SettingsTypeOK, LastId
<1>2. current_pref' = [current_pref EXCEPT ![h] = LastId]
  BY DEF FetchNewPref
<1>3. CASE current_pref[h] = LastId
  <2>1. UNCHANGED <<store, local>> /\ current_pref' = current_pref
    BY <1>2, <1>3 DEF FetchNewPref, Ids, SettingsTypeOK
  <2> QED BY <1>2, <2>1 DEF Ids, SettingsTypeOK, StoreIsConfig
<1>4. CASE current_pref[h] # LastId
  <2>1. /\ store' = [store EXCEPT ![h] = config_history[LastId + 1]]
        /\ local' = local \ {h}
    BY <1>4 DEF FetchNewPref
  <2>2. config_history[LastId + 1] \in Configs
    BY <1>1 DEF Ids, SettingsTypeOK
  <2>3. store' \in [Handles -> Configs] /\ local' \subseteq Handles
    BY <2>1, <2>2 DEF Ids, SettingsTypeOK
  <2>4. ASSUME NEW g \in Handles, g \notin local'
        PROVE  store'[g] = config_history'[current_pref'[g] + 1]
    <3>1. CASE g = h
      BY <1>2, <2>1, <3>1 DEF Ids, SettingsTypeOK
    <3>2. CASE g # h
      BY <1>2, <2>1, <2>4, <3>2 DEF Ids, SettingsTypeOK, StoreIsConfig
    <3> QED BY <3>1, <3>2
  <2> QED BY <1>2, <2>3, <2>4 DEF StoreIsConfig
<1> QED BY <1>3, <1>4

\* The two kinds of tasks, told apart by their types.
LEMMA TaskKinds ==
  ASSUME NEW t \in Tasks
  PROVE  /\ t.handle \in Handles
         /\ t.type \in {"set", "set async"} => t.prop \in Props /\ t.value \in Values
         /\ t.type \in {"commit", "commit async"} => t.values \in Configs
BY DEF Tasks

\* The task at the head of the queue is a task, and so are those behind it.
LEMMA HeadIsTask ==
  ASSUME SettingsTypeOK, queue # <<>>
  PROVE  Head(queue) \in Tasks /\ Tail(queue) \in Seq(Tasks)
BY DEF SettingsTypeOK

\* A property set is a config.
LEMMA SetIsConfig ==
  ASSUME NEW c \in Configs, NEW p, NEW x \in Values
  PROVE  [c EXCEPT ![p] = x] \in Configs
BY DEF Configs

\* A new config keeps the handles as they were, whoever is waiting for it.
LEMMA UpdateKeepsIds ==
  ASSUME Ids, UpdateConfig, props' \in Configs, queue' \in Seq(Tasks),
         UNCHANGED <<store, current_pref, local>>,
         own' \in [Handles -> 0 .. LastId'],
         waiting' \in [Handles -> {"no", "device", "signalled"}],
         \A h \in Handles : waiting'[h] = "no" => waiting[h] = "no" /\ own'[h] = own[h]
  PROVE  Ids'
<1>1. LastId \in Nat
  BY LastIdInNat DEF Ids
<1>2. /\ config_history' \in Seq(Configs) /\ config_history' # <<>>
      /\ LastId' = LastId + 1
      /\ \A n \in 0 .. LastId : config_history'[n + 1] = config_history[n + 1]
  BY UpdateFacts DEF Ids
<1>3. current_pref \in [Handles -> 0 .. LastId]
  BY DEF Ids, SettingsTypeOK
<1>4. 0 .. LastId \subseteq 0 .. LastId'
  BY <1>1, <1>2
<1>5. SettingsTypeOK'
  BY <1>2, <1>3, <1>4 DEF Ids, SettingsTypeOK
<1>6. ReadsOwnWrite'
  BY DEF Ids, ReadsOwnWrite
<1>7. StoreIsConfig'
  BY <1>2, <1>3 DEF Ids, StoreIsConfig
<1> QED BY <1>5, <1>6, <1>7 DEF Ids
---------------------------------------------------------------------------
(* The steps. *)

\* An event of the device: it signals the thread that sent the task, which has
\* now made the config, or concerns none.
LEMMA SignalKeepsIds ==
  ASSUME Ids, UpdateConfig, props' \in Configs, queue' \in Seq(Tasks),
         UNCHANGED <<store, current_pref, local>>,
         NEW h \in Handles,
         waiting' = [waiting EXCEPT ![h] = "signalled"],
         own' = [own EXCEPT ![h] = LastId + 1]
  PROVE  Ids'
<1>1. LastId \in Nat /\ LastId' = LastId + 1
  BY LastIdInNat, UpdateFacts DEF Ids
<1>2. own' \in [Handles -> 0 .. LastId']
  BY <1>1 DEF Ids, SettingsTypeOK
<1>3. waiting' \in [Handles -> {"no", "device", "signalled"}]
  BY DEF Ids, SettingsTypeOK
<1>4. \A g \in Handles : waiting'[g] = "no" => waiting[g] = "no" /\ own'[g] = own[g]
  BY DEF Ids, SettingsTypeOK
<1> QED BY <1>2, <1>3, <1>4, UpdateKeepsIds

\* The same, with nobody signalled.
LEMMA SilentKeepsIds ==
  ASSUME Ids, UpdateConfig, props' \in Configs, queue' \in Seq(Tasks),
         UNCHANGED <<store, current_pref, local, waiting, own>>
  PROVE  Ids'
<1>1. LastId \in Nat /\ LastId' = LastId + 1
  BY LastIdInNat, UpdateFacts DEF Ids
<1>2. 0 .. LastId \subseteq 0 .. LastId'
  BY <1>1
<1>3. own' \in [Handles -> 0 .. LastId']
  BY <1>2 DEF Ids, SettingsTypeOK
<1>4. waiting' \in [Handles -> {"no", "device", "signalled"}]
  BY DEF Ids, SettingsTypeOK
<1> QED BY <1>3, <1>4, UpdateKeepsIds

\* A step of the queue alone: the task sent or dropped makes no config.
LEMMA QueueKeepsIds ==
  ASSUME Ids, queue' \in Seq(Tasks),
         UNCHANGED <<props, config_history, store, current_pref, local, own>>,
         waiting' \in [Handles -> {"no", "device", "signalled"}],
         \A h \in Handles : waiting'[h] = "no" => waiting[h] = "no"
  PROVE  Ids'
<1>1. SettingsTypeOK' /\ ReadsOwnWrite'
  BY DEF Ids, SettingsTypeOK, ReadsOwnWrite, LastId
<1>2. StoreIsConfig'
  BY DEF Ids, StoreIsConfig
<1> QED BY <1>1, <1>2 DEF Ids

\* Sending appends one task.
LEMMA SendFacts ==
  ASSUME SettingsTypeOK, NEW h, NEW task \in Tasks, Send(h, task)
  PROVE  queue' \in Seq(Tasks)
BY DEF SettingsTypeOK, Send

\* Property::set_value and its asynchronous form, up to the wait
LEMMA SetValueKeeps ==
  ASSUME SettingsInv, SettingsAssumption, NEW h \in Handles, SetValue(h) \/ SetValueAsync(h)
  PROVE  SettingsInv'
<1>0. ASSUME NEW p \in Settable, NEW x \in ValuesOf(p)
      PROVE  x \in Values
  BY DEF SettingsAssumption, Values
<1>1. PICK p \in Settable, x \in Values, type \in {"set", "set async"} :
        Send(h, [type |-> type, handle |-> h, prop |-> p, value |-> x])
  BY <1>0 DEF SetValue, SetValueAsync
<1>2. /\ UNCHANGED <<regVars, config_history, store, current_pref, local, own>>
      /\ waiting' = waiting \/ waiting' = [waiting EXCEPT ![h] = "device"]
  BY DEF SetValue, SetValueAsync
<1>3. p \in Props /\ x \in Values
  BY DEF SettingsAssumption
<1>4. [type |-> type, handle |-> h, prop |-> p, value |-> x] \in Tasks
  BY <1>3 DEF Tasks
<1>5. queue' \in Seq(Tasks)
  BY <1>1, <1>4, SendFacts DEF SettingsInv
<1>6. /\ waiting' \in [Handles -> {"no", "device", "signalled"}]
      /\ \A g \in Handles : waiting'[g] = "no" => waiting[g] = "no"
  BY <1>2 DEF SettingsInv, SettingsTypeOK
<1>7. Ids'
  BY <1>2, <1>5, <1>6, QueueKeepsIds DEF SettingsInv, Ids, regVars
<1> QED BY <1>2, <1>7, RegInvStays DEF SettingsInv, Ids

\* ScopedDevicePropertyCommit, up to the wait
LEMMA CommitKeeps ==
  ASSUME SettingsInv, SettingsAssumption, NEW h \in Handles,
         NEW type \in {"commit", "commit async"}, Commit(h, type)
  PROVE  SettingsInv'
<1>0. ASSUME NEW p \in Settable, NEW x \in ValuesOf(p)
      PROVE  x \in Values
  BY DEF SettingsAssumption, Values
<1>1. PICK p \in Settable, x \in Values, waits \in BOOLEAN :
        /\ store' = [store EXCEPT ![h][p] = x]
        /\ Send(h, [type |-> type, handle |-> h, values |-> store'[h], call |-> waits])
  BY <1>0 DEF Commit
<1>2. /\ local' = local \cup {h}
      /\ waiting' = [waiting EXCEPT ![h] = IF type = "commit" THEN "device" ELSE @]
      /\ UNCHANGED <<regVars, config_history, current_pref, own>>
  BY DEF Commit
<1>3. store[h] \in Configs
  BY DEF SettingsInv, SettingsTypeOK
<1>4. store'[h] \in Configs /\ store' \in [Handles -> Configs]
      /\ \A g \in Handles : g # h => store'[g] = store[g]
  <2>1. [store[h] EXCEPT ![p] = x] \in Configs
    BY <1>3, SetIsConfig
  <2> QED BY <1>1, <2>1 DEF SettingsInv, SettingsTypeOK
<1>5. [type |-> type, handle |-> h, values |-> store'[h], call |-> waits] \in Tasks
  BY <1>4 DEF Tasks
<1>6. queue' \in Seq(Tasks)
  BY <1>1, <1>5, SendFacts DEF SettingsInv
<1>7. SettingsTypeOK'
  BY <1>2, <1>4, <1>6 DEF SettingsInv, SettingsTypeOK, LastId, regVars
<1>8. ReadsOwnWrite'
  BY <1>2 DEF SettingsInv, SettingsTypeOK, ReadsOwnWrite
<1>9. StoreIsConfig'
  BY <1>2, <1>4 DEF SettingsInv, StoreIsConfig
<1>10. RegInv'
  BY <1>2, RegInvStays DEF SettingsInv
<1> QED BY <1>7, <1>8, <1>9, <1>10 DEF SettingsInv

LEMMA CommitValuesFacts ==
  ASSUME RegInv, NEW t, CommitValues(t)
  PROVE  RegInv' /\ UpdateConfig /\ props' = t.values
BY SetAllKeepsRegInv, NoHandlerKeepsRegInv DEF CommitValues, NoHandler, Run

\* Property::SetValueImplSync
LEMMA SetValueImplSyncKeeps ==
  ASSUME SettingsInv, SetValueImplSync
  PROVE  SettingsInv'
<1> DEFINE t == Head(queue)
           v == [props EXCEPT ![t.prop] = t.value]
<1>1. t \in Tasks /\ t.type = "set" /\ queue' \in Seq(Tasks)
  BY HeadIsTask DEF SettingsInv, SetValueImplSync
<1>2. t.handle \in Handles /\ t.prop \in Props /\ t.value \in Values
  BY <1>1, TaskKinds
<1>3. /\ Run(Handler(t.prop, v), v) /\ UpdateConfig
      /\ waiting' = [waiting EXCEPT ![t.handle] = "signalled"]
      /\ own' = [own EXCEPT ![t.handle] = LastId + 1]
      /\ UNCHANGED <<store, current_pref, local>>
  BY DEF SetValueImplSync
<1>4. props \in Configs /\ RegInv /\ Ids
  BY DEF SettingsInv, SettingsTypeOK, Ids
<1> HIDE DEF t
<1>5. v \in Configs
  BY <1>2, <1>4, SetIsConfig
<1>6. RegInv'
  BY <1>2, <1>3, <1>4, SetKeepsRegInv DEF Configs
<1>7. props' \in Configs
  BY <1>3, <1>5 DEF Run
<1>8. Ids'
  BY <1>1, <1>2, <1>3, <1>4, <1>7, SignalKeepsIds
<1> QED BY <1>6, <1>8 DEF Ids, SettingsInv

\* Property::SetValueAsyncImpl
LEMMA SetValueAsyncImplKeeps ==
  ASSUME SettingsInv, SetValueAsyncImpl
  PROVE  SettingsInv'
<1> DEFINE t == Head(queue)
           v == [props EXCEPT ![t.prop] = t.value]
<1>1. t \in Tasks /\ t.type = "set async" /\ queue' \in Seq(Tasks)
  BY HeadIsTask DEF SettingsInv, SetValueAsyncImpl
<1>2. t.handle \in Handles /\ t.prop \in Props /\ t.value \in Values
  BY <1>1, TaskKinds
<1>3. UNCHANGED <<store, current_pref, waiting, own, local>>
  BY DEF SetValueAsyncImpl
<1>4. props \in Configs /\ RegInv /\ Ids
  BY DEF SettingsInv, SettingsTypeOK, Ids
<1>5. CASE UNCHANGED <<regVars, config_history>>
  <2>1. Ids'
    BY <1>1, <1>3, <1>4, <1>5, QueueKeepsIds DEF regVars, Ids, SettingsTypeOK
  <2> QED BY <1>4, <1>5, <2>1, RegInvStays DEF Ids, SettingsInv
<1>6. CASE Run(Handler(t.prop, v), v) /\ UpdateConfig
  <2> HIDE DEF t
  <2>1. v \in Configs
    BY <1>2, <1>4, SetIsConfig
  <2>2. RegInv'
    BY <1>2, <1>4, <1>6, SetKeepsRegInv DEF Configs
  <2>3. props' \in Configs
    BY <1>6, <2>1 DEF Run
  <2>4. Ids'
    BY <1>1, <1>3, <1>4, <1>6, <2>3, SilentKeepsIds
  <2> QED BY <2>2, <2>4 DEF Ids, SettingsInv
<1> QED BY <1>5, <1>6 DEF SetValueAsyncImpl

\* ScopedDevicePropertyCommit::CommitSyncImpl
LEMMA CommitSyncImplKeeps ==
  ASSUME SettingsInv, CommitSyncImpl
  PROVE  SettingsInv'
<1> DEFINE t == Head(queue)
<1>1. t \in Tasks /\ t.type = "commit" /\ queue' \in Seq(Tasks)
  BY HeadIsTask DEF SettingsInv, CommitSyncImpl
<1>2. t.handle \in Handles /\ t.values \in Configs
  BY <1>1, TaskKinds
<1>3. /\ CommitValues(t)
      /\ waiting' = [waiting EXCEPT ![t.handle] = "signalled"]
      /\ own' = [own EXCEPT ![t.handle] = LastId + 1]
      /\ UNCHANGED <<store, current_pref, local>>
  BY DEF CommitSyncImpl
<1> HIDE DEF t
<1>4. RegInv' /\ UpdateConfig /\ props' \in Configs
  BY <1>2, <1>3, CommitValuesFacts DEF SettingsInv
<1>5. Ids'
  BY <1>1, <1>2, <1>3, <1>4, SignalKeepsIds DEF Ids, SettingsInv
<1> QED BY <1>4, <1>5 DEF Ids, SettingsInv

\* ScopedDevicePropertyCommit::CommitAsyncImpl
LEMMA CommitAsyncImplKeeps ==
  ASSUME SettingsInv, CommitAsyncImpl
  PROVE  SettingsInv'
<1> DEFINE t == Head(queue)
<1>1. t \in Tasks /\ t.type = "commit async" /\ queue' \in Seq(Tasks)
  BY HeadIsTask DEF SettingsInv, CommitAsyncImpl
<1>2. t.values \in Configs
  BY <1>1, TaskKinds
<1>3. UNCHANGED <<store, current_pref, waiting, own, local>>
  BY DEF CommitAsyncImpl, handleVars
<1>4. RegInv /\ Ids
  BY DEF SettingsInv, Ids
<1>5. CASE UNCHANGED <<regVars, config_history>>
  <2>1. Ids'
    BY <1>1, <1>3, <1>4, <1>5, QueueKeepsIds DEF regVars, Ids, SettingsTypeOK
  <2> QED BY <1>4, <1>5, <2>1, RegInvStays DEF Ids, SettingsInv
<1>6. CASE CommitValues(t)
  <2> HIDE DEF t
  <2>1. RegInv' /\ UpdateConfig /\ props' \in Configs
    BY <1>2, <1>4, <1>6, CommitValuesFacts
  <2>2. Ids'
    BY <1>1, <1>3, <1>4, <2>1, SilentKeepsIds
  <2> QED BY <2>1, <2>2 DEF Ids, SettingsInv
<1> QED BY <1>5, <1>6 DEF CommitAsyncImpl
\* The end of set_value and of CommitSync, and the tasks that Observe runs
LEMMA HandleStepKeeps ==
  ASSUME SettingsInv, NEW h \in Handles, HandleStep(h)
  PROVE  SettingsInv'
<1>1. /\ FetchNewPref(h)
      /\ UNCHANGED <<regVars, queue, config_history, own>>
      /\ waiting' = waiting \/ waiting' = [waiting EXCEPT ![h] = "no"]
  BY DEF HandleStep, Return, Observe
<1>2. LastId \in Nat /\ LastId' = LastId
  BY <1>1, LastIdInNat DEF SettingsInv, LastId
<1>3. /\ store' \in [Handles -> Configs] /\ local' \subseteq Handles
      /\ current_pref' = [current_pref EXCEPT ![h] = LastId]
      /\ StoreIsConfig'
  BY <1>1, FetchFacts DEF SettingsInv, Ids
<1>4. current_pref' \in [Handles -> 0 .. LastId']
  BY <1>2, <1>3 DEF SettingsInv, SettingsTypeOK
<1>5. SettingsTypeOK'
  BY <1>1, <1>2, <1>3, <1>4 DEF SettingsInv, SettingsTypeOK, regVars
<1>6. ASSUME NEW g \in Handles, waiting'[g] = "no"
      PROVE  current_pref'[g] >= own'[g]
  <2>1. CASE g = h
    BY <1>1, <1>2, <1>3, <2>1 DEF SettingsInv, SettingsTypeOK
  <2>2. CASE g # h
    BY <1>1, <1>3, <1>6, <2>2 DEF SettingsInv, SettingsTypeOK, ReadsOwnWrite
  <2> QED BY <2>1, <2>2
<1>7. RegInv'
  BY <1>1, RegInvStays DEF SettingsInv
<1> QED BY <1>3, <1>5, <1>6, <1>7 DEF SettingsInv, ReadsOwnWrite

\* The properties that the device starts with are a config.
LEMMA DefaultIsConfig ==
  Default \in Configs
<1>1. ASSUME NEW p \in Props
      PROVE  Default[p] \in ValuesOf(p)
  BY DEF Default, ValuesOf
<1>2. \A p \in Props : Default[p] \in Values
  BY <1>1 DEF Values
<1> QED BY <1>2 DEF Default, Configs

\* The initial states have the invariant.
LEMMA SettingsInitHasInv ==
  ASSUME SettingsInit
  PROVE  SettingsInv
<1>1. RegInv /\ props = Default
  BY RegInitHasRegInv DEF SettingsInit, RegInit
<1>2. LastId = 0 /\ config_history \in Seq(Configs) /\ config_history # <<>>
      /\ config_history[1] = Default
  BY DefaultIsConfig DEF SettingsInit, LastId
<1>3. SettingsTypeOK
  BY <1>1, <1>2, DefaultIsConfig DEF SettingsInit, SettingsTypeOK
<1>4. ReadsOwnWrite /\ StoreIsConfig
  BY <1>2 DEF SettingsInit, ReadsOwnWrite, StoreIsConfig
<1> QED BY <1>1, <1>3, <1>4 DEF SettingsInv

\* Every step keeps it.
LEMMA SettingsStepKeepsInv ==
  ASSUME SettingsInv, SettingsAssumption, [SettingsNext]_settingsVars
  PROVE  SettingsInv'
<1>1. CASE DeviceStep
  BY <1>1, SetValueImplSyncKeeps, SetValueAsyncImplKeeps, CommitSyncImplKeeps,
     CommitAsyncImplKeeps DEF DeviceStep
<1>2. ASSUME NEW h \in Handles, HandleStep(h)
      PROVE  SettingsInv'
  BY <1>2, HandleStepKeeps
<1>3. ASSUME NEW h \in Handles, UserStep(h)
      PROVE  SettingsInv'
  BY <1>3, SetValueKeeps, CommitKeeps DEF UserStep
<1>4. CASE UNCHANGED settingsVars
  <2>1. RegInv'
    BY <1>4, RegInvStays DEF settingsVars, SettingsInv
  <2>2. SettingsTypeOK' /\ ReadsOwnWrite' /\ StoreIsConfig'
    BY <1>4 DEF settingsVars, regVars, SettingsInv, SettingsTypeOK, ReadsOwnWrite,
                StoreIsConfig, LastId
  <2> QED BY <2>1, <2>2 DEF SettingsInv
<1> QED BY <1>1, <1>2, <1>3, <1>4 DEF SettingsNext

---------------------------------------------------------------------------
(* The theorems. *)

\* The invariant: the domains, the registers, and what the handles show.
THEOREM SettingsInvariance == SettingsSpec => []SettingsInv
<1>1. SettingsInit => SettingsInv
  BY SettingsInitHasInv
<1>2. SettingsInv /\ [SettingsNext]_settingsVars => SettingsInv'
  BY SettingsAssumption, SettingsStepKeepsInv
<1> QED BY <1>1, <1>2, PTL DEF SettingsSpec

\* A register whose writes did not fail has what the properties say, whichever
\* properties are set and in whichever order (OscDevice's handlers).
THEOREM RegistersAlwaysFollow == SettingsSpec => []RegistersFollow
<1>1. SettingsInv => RegistersFollow
  BY RegInvFollows DEF SettingsInv
<1> QED BY <1>1, SettingsInvariance, PTL

\* A thread whose set_value or CommitSync has returned sees that config or a
\* later one, however many handles there are and whatever they send.
THEOREM CallerReadsItsWrite == SettingsSpec => []ReadsOwnWrite
<1>1. SettingsInv => ReadsOwnWrite
  BY DEF SettingsInv
<1> QED BY <1>1, SettingsInvariance, PTL

\* The store of a handle is a config that the device had, never a mix of two.
THEOREM StoreIsAConfig == SettingsSpec => []StoreIsConfig
<1>1. SettingsInv => StoreIsConfig
  BY DEF SettingsInv
<1> QED BY <1>1, SettingsInvariance, PTL

\* The domains of the variables.
THEOREM SettingsTypeCorrect == SettingsSpec => []SettingsTypeOK
<1>1. SettingsInv => SettingsTypeOK
  BY DEF SettingsInv
<1> QED BY <1>1, SettingsInvariance, PTL

-----------------------------------------------------------------------------
(* The frames: what is in the pipes and in the machine. *)

Command ==
  {c \in [id : {"RDEP1", "WREP1", "RDEP3"}, addr : {"frame_num", "register", "frames", "scope"},
          size : Nat \ {0}] :
     /\ c.id = "RDEP3" <=> c.addr \in {"frames", "scope"}
     /\ c.addr = "frame_num" => c.id = "RDEP1"
     /\ c.addr = "scope" => c.size = 1}
Sent == [cmd : Command, old : BOOLEAN]
Answer == [cmd : Command, old : BOOLEAN, value : Nat]
Unit == [unit : Nat, old : BOOLEAN]
Calls == [at : {"none", "answer", "data", "ok", "failed"}, who : {"frame", "other"},
          cmd : Command, got : Seq(Nat), alone : BOOLEAN, fresh : BOOLEAN]

\* The domain of the variables.
UsbTypes ==
  /\ opened \in BOOLEAN /\ broken \in BOOLEAN /\ faults \in Nat
  /\ commands \in Seq(Sent) /\ answers \in Seq(Answer) /\ stream \in Seq(Unit)
  /\ call \in Calls /\ stored \in Nat /\ taken \in Nat /\ taken <= stored

MachineTypes ==
  /\ next_state \in {"CLEAN_LEFTOVER", "CHECK_COLLECT", "WAIT_FULL", "COLLECT", "NONE"}
  /\ step \in {"call", "num", "data"} /\ clean_leftover \in BOOLEAN
  /\ pushed \in Seq(Nat) /\ cut \in BOOLEAN /\ cleaned \in Nat

\* A call has read all it asked for when it succeeds.
CallLife ==
  /\ call.at = "data" => call.cmd.id = "RDEP3" /\ Len(call.got) < call.cmd.size
  /\ call.at = "ok" => Len(call.got) = CASE call.cmd.id = "RDEP1" -> 1
                                         [] call.cmd.id = "RDEP3" -> call.cmd.size
                                         [] OTHER -> 0
  /\ ~opened => call.at \in {"none", "failed"} /\ commands = <<>> /\ answers = <<>> /\ stream = <<>>

\* Who calls: the machine within its job, the others while the loop is idle.
CallerLife ==
  /\ step # "call" => body = "body" /\ call.who = "frame" /\ call.at # "none"
  /\ step = "num" => call.cmd.addr = "frame_num"
  /\ step = "data" => call.cmd.addr = "frames"
  /\ step = "call" /\ call.at # "none" =>
       body = "idle" /\ call.who = "other" /\ call.cmd.addr \in {"register", "scope"}
  /\ step # "call" /\ next_state = "CLEAN_LEFTOVER" => clean_leftover

Asked == call.at = "answer" /\ commands = <<[cmd |-> call.cmd, old |-> FALSE]>>
Answered == call.at = "answer" /\ Len(answers) = 1

\* Until a transfer fails, what is in the pipes is the answer to the call.
InStep ==
  /\ call.alone /\ call.fresh /\ \A i \in DOMAIN stream : ~stream[i].old
  /\ call.at = "failed" => ~opened
  /\ call.at \in {"none", "ok", "failed"} => commands = <<>> /\ answers = <<>> /\ stream = <<>>
  /\ call.at = "answer" =>
       \/ Asked /\ answers = <<>> /\ stream = <<>>
       \/ /\ commands = <<>> /\ Answered /\ answers[1].cmd = call.cmd /\ ~answers[1].old
          /\ Len(stream) = IF call.cmd.id = "RDEP3" THEN call.cmd.size ELSE 0
  /\ call.at = "data" =>
       commands = <<>> /\ answers = <<>> /\ Len(call.got) + Len(stream) = call.cmd.size

\* the units of the read under way that the device has sent
Owed == IF step = "data" /\ (Answered \/ call.at \in {"data", "ok"}) THEN call.cmd.size ELSE 0

\* Until a transfer fails, what was sent was thrown away, pushed, or is on its way.
Stock ==
  /\ taken = cleaned + Len(pushed) + Owed
  /\ \A i \in 1 .. Len(pushed) : pushed[i] = cleaned + i
  /\ opened /\ next_state = "CLEAN_LEFTOVER" => pushed = <<>>
  /\ step = "data" /\ Asked => call.cmd.size <= stored - taken
  /\ step = "data" /\ call.at \in {"data", "ok"} =>
       \A i \in 1 .. Len(call.got) : call.got[i] = taken - Owed + i
  /\ step = "data" /\ call.at \in {"answer", "data"} =>
       \A i \in 1 .. Len(stream) :
         stream[i].unit = taken - Owed + (IF call.at = "data" THEN Len(call.got) ELSE 0) + i

IsWhole(n) == n % FrameSize = 0

\* ... and the number of units that is given is that of those left.
Number ==
  /\ step = "num" /\ Answered => answers[1].value <= stored - taken /\ IsWhole(answers[1].value + taken)
  /\ step = "num" /\ call.at = "ok" => call.got[1] <= stored - taken /\ IsWhole(call.got[1] + taken)

\* ... and, until a bulk is cut, what collecting takes is whole frames.
Whole ==
  /\ next_state # "NONE"
  /\ next_state # "CLEAN_LEFTOVER" \/ ~clean_leftover => IsWhole(taken - Owed)
  /\ next_state = "COLLECT" /\ step = "data" =>
       IsWhole(call.cmd.size) \/ call.cmd.size = BufferMax

\* the units that the call has read
InHand == IF call.cmd.id = "RDEP3" /\ call.at \in {"data", "ok"} THEN call.got ELSE <<>>
Before(s, t) == \A i \in DOMAIN s, j \in DOMAIN t : s[i] # Sample /\ t[j] # Sample => s[i] < t[j]
Ascending(s) == \A i, j \in DOMAIN s : i < j /\ s[i] # Sample /\ s[j] # Sample => s[i] < s[j]
UpTo(s, n) == \A i \in DOMAIN s : s[i] <= n
Units == [i \in DOMAIN stream |-> stream[i].unit]

\* Whatever failed, what was pushed, read and is to be read was stored in this order.
InOrder ==
  /\ Ascending(pushed) /\ Ascending(InHand) /\ Ascending(Units)
  /\ Before(pushed, InHand) /\ Before(pushed, Units) /\ Before(InHand, Units)
  /\ UpTo(pushed, taken) /\ UpTo(InHand, taken) /\ UpTo(Units, taken)

FrameInv ==
  /\ UsbTypes /\ MachineTypes /\ CallLife /\ CallerLife /\ InOrder /\ IsWhole(stored)
  /\ ~broken => InStep /\ Stock /\ Number
  /\ ~broken /\ ~cut => Whole

-----------------------------------------------------------------------------
(* Whole frames. *)

LEMMA WholeMeans ==
  ASSUME NEW n \in Nat
  PROVE  IsWhole(n) <=> \E q \in Nat : n = q * FrameSize
<1>1. FrameSize \in Nat /\ FrameSize > 0
  BY UsbAssumption
<1>2. n = FrameSize * (n \div FrameSize) + (n % FrameSize) /\ n \div FrameSize \in Nat
  <2>. DEFINE d == n \div FrameSize
              r == n % FrameSize
  <2>1. d \in Int /\ r \in 0 .. FrameSize - 1 /\ n = FrameSize * d + r
    BY <1>1
  <2>. HIDE DEF d, r
  <2>2. ASSUME d < 0  PROVE FALSE
    <3>1. (0 - d) * FrameSize >= 1 * FrameSize
      BY <1>1, <2>1, <2>2
    <3>. QED  BY <1>1, <2>1, <3>1
  <2>3. d \in Nat /\ n = FrameSize * d + r
    BY <2>1, <2>2
  <2>. QED  BY <2>3 DEF d, r
<1>3. ASSUME IsWhole(n)  PROVE \E q \in Nat : n = q * FrameSize
  <2>1. n = (n \div FrameSize) * FrameSize
    BY <1>1, <1>2, <1>3 DEF IsWhole
  <2>. QED  BY <1>2, <2>1
<1>4. ASSUME NEW q \in Nat, n = q * FrameSize  PROVE IsWhole(n)
  <2>. DEFINE d == n \div FrameSize
              r == n % FrameSize
  <2>1. d \in Nat /\ r \in Nat /\ r < FrameSize /\ n = FrameSize * d + r
    BY <1>1, <1>2
  <2>. HIDE DEF d, r
  <2>2. r = (q - d) * FrameSize
    BY <1>1, <1>4, <2>1
  <2>3. ASSUME q > d  PROVE FALSE
    <3>1. (q - d) * FrameSize >= 1 * FrameSize
      BY <1>1, <2>1, <2>3
    <3>. QED  BY <1>1, <2>1, <2>2, <3>1
  <2>4. ASSUME q < d  PROVE FALSE
    <3>1. (d - q) * FrameSize >= 1 * FrameSize
      BY <1>1, <2>1, <2>4
    <3>2. r = 0 - (d - q) * FrameSize
      BY <1>1, <2>1, <2>2
    <3>. QED  BY <1>1, <2>1, <3>1, <3>2
  <2>5. r = 0
    BY <1>1, <2>1, <2>2, <2>3, <2>4
  <2>. QED  BY <2>5 DEF r, IsWhole
<1>. QED  BY <1>3, <1>4

LEMMA WholeSum ==
  ASSUME NEW a \in Nat, NEW b \in Nat, IsWhole(a)
  PROVE  IsWhole(b) <=> IsWhole(a + b)
<1>1. FrameSize \in Nat /\ FrameSize > 0
  BY UsbAssumption
<1>2. PICK p \in Nat : a = p * FrameSize
  BY WholeMeans
<1>3. ASSUME IsWhole(b)  PROVE IsWhole(a + b)
  <2>1. PICK q \in Nat : b = q * FrameSize
    BY <1>3, WholeMeans
  <2>2. a + b = (p + q) * FrameSize
    BY <1>1, <1>2, <2>1
  <2>. QED  BY <2>2, WholeMeans
<1>4. ASSUME IsWhole(a + b)  PROVE IsWhole(b)
  <2>1. PICK q \in Nat : a + b = q * FrameSize
    BY <1>4, WholeMeans
  <2>2. b = (q - p) * FrameSize
    BY <1>1, <1>2, <2>1
  <2>3. q >= p
    <3>. SUFFICES ASSUME q < p  PROVE FALSE
      OBVIOUS
    <3>1. p - q \in Nat /\ p - q >= 1
      OBVIOUS
    <3>2. (p - q) * FrameSize >= FrameSize
      BY <1>1, <3>1
    <3>3. b = 0 - (p - q) * FrameSize
      BY <1>1, <2>2
    <3>. QED  BY <1>1, <3>2, <3>3
  <2>4. q - p \in Nat
    BY <2>3
  <2>. QED  BY <2>2, <2>4, WholeMeans
<1>. QED  BY <1>3, <1>4

LEMMA WholeFrame == IsWhole(FrameSize) /\ IsWhole(0)
<1>1. FrameSize \in Nat /\ FrameSize = 1 * FrameSize /\ 0 = 0 * FrameSize
  BY UsbAssumption
<1>. QED  BY <1>1, WholeMeans

-----------------------------------------------------------------------------
(* The port. *)

LEMMA NoCallIsCall == NoCall \in Calls /\ NoCall.at = "none" /\ NoCall.who = "other"
                        /\ NoCall.alone /\ NoCall.fresh
BY DEF NoCall, Calls, FrameNum, Command

LEMMA OutdatedKeeps ==
  ASSUME NEW T, NEW pipe \in Seq(T), \A x \in T : [x EXCEPT !.old = TRUE] \in T
  PROVE  /\ Outdated(pipe) \in Seq(T) /\ Len(Outdated(pipe)) = Len(pipe)
         /\ \A i \in 1 .. Len(pipe) : Outdated(pipe)[i] = [pipe[i] EXCEPT !.old = TRUE]
         /\ pipe = <<>> => Outdated(pipe) = <<>>
BY DEF Outdated

\* What SendCmd does to the port: it begins a call, or fails at once, and what was
\* left in the pipes is older than it.
Begun(who, cmd) ==
  /\ call'.at \in {"answer", "failed"} /\ call'.who = who /\ call'.cmd = cmd /\ call'.got = <<>>
  /\ call'.fresh /\ UNCHANGED <<opened, stored, taken>>
  /\ Units' = Units
  /\ ~broken' => /\ ~broken /\ (call'.at = "answer" <=> opened)
                 /\ commands = <<>> /\ answers = <<>> /\ stream = <<>> =>
                      /\ call'.alone /\ answers' = <<>> /\ stream' = <<>>
                      /\ commands' = IF opened THEN <<[cmd |-> cmd, old |-> FALSE]>> ELSE <<>>

LEMMA SendCmdBegins ==
  ASSUME UsbTypes, CallLife, NEW who \in {"frame", "other"}, NEW cmd \in Command, SendCmd(who, cmd),
         opened \/ (commands = <<>> /\ answers = <<>> /\ stream = <<>>)
  PROVE  UsbTypes' /\ CallLife' /\ Begun(who, cmd)
<1>. DEFINE empty == commands = <<>> /\ answers = <<>> /\ stream = <<>>
            at(s) == [NoCall EXCEPT !.at = s, !.who = who, !.cmd = cmd, !.alone = empty]
            sent == Append(Outdated(commands), [cmd |-> cmd, old |-> FALSE])
<1>1. ASSUME NEW s \in {"answer", "failed"}
      PROVE  at(s) \in Calls /\ at(s).at = s /\ at(s).who = who /\ at(s).cmd = cmd
             /\ at(s).got = <<>> /\ at(s).fresh /\ at(s).alone = empty
  BY NoCallIsCall DEF NoCall, Calls
<1>2. /\ Outdated(commands) \in Seq(Sent) /\ (commands = <<>> => Outdated(commands) = <<>>)
  <2>1. \A x \in Sent : [x EXCEPT !.old = TRUE] \in Sent
    BY DEF Sent
  <2>2. commands \in Seq(Sent)
    BY DEF UsbTypes
  <2>. QED  BY <2>1, <2>2, OutdatedKeeps
<1>3. /\ Outdated(answers) \in Seq(Answer) /\ (answers = <<>> => Outdated(answers) = <<>>)
  <2>1. \A x \in Answer : [x EXCEPT !.old = TRUE] \in Answer
    BY DEF Answer
  <2>2. answers \in Seq(Answer)
    BY DEF UsbTypes
  <2>. QED  BY <2>1, <2>2, OutdatedKeeps
<1>4. /\ Outdated(stream) \in Seq(Unit) /\ Len(Outdated(stream)) = Len(stream)
      /\ \A i \in 1 .. Len(stream) : Outdated(stream)[i] = [stream[i] EXCEPT !.old = TRUE]
      /\ stream = <<>> => Outdated(stream) = <<>>
  <2>1. \A x \in Unit : [x EXCEPT !.old = TRUE] \in Unit
    BY DEF Unit
  <2>2. stream \in Seq(Unit)
    BY DEF UsbTypes
  <2>. QED  BY <2>1, <2>2, OutdatedKeeps
<1>5. sent \in Seq(Sent) /\ (commands = <<>> => sent = <<[cmd |-> cmd, old |-> FALSE]>>)
  <2>1. [cmd |-> cmd, old |-> FALSE] \in Sent
    BY DEF Sent
  <2>2. sent \in Seq(Sent)
    BY <1>2, <2>1
  <2>3. Append(<<>>, [cmd |-> cmd, old |-> FALSE]) = <<[cmd |-> cmd, old |-> FALSE]>>
    OBVIOUS
  <2>. QED  BY <1>2, <2>2, <2>3
<1>6. /\ answers' = Outdated(answers) /\ stream' = Outdated(stream)
      /\ UNCHANGED <<opened, stored, taken>>
      /\ \/ opened /\ call' = at("answer") /\ commands' = sent /\ UNCHANGED <<faults, broken>>
         \/ ~opened /\ call' = at("failed") /\ UNCHANGED <<commands, faults, broken>>
         \/ /\ opened /\ faults' = faults + 1 /\ broken' = TRUE
            /\ call' = at("failed") /\ commands' \in {Outdated(commands), sent}
  BY DEF SendCmd, deviceVars
<1>. HIDE DEF at, sent
<1>7. UsbTypes'
  <2>1. call' \in Calls /\ commands' \in Seq(Sent)
    BY <1>1, <1>2, <1>5, <1>6 DEF UsbTypes
  <2>3. broken' \in BOOLEAN
    BY <1>6 DEF UsbTypes
  <2>4. faults' \in Nat
    BY <1>6 DEF UsbTypes
  <2>2. answers' \in Seq(Answer) /\ stream' \in Seq(Unit)
    BY <1>3, <1>4, <1>6
  <2>. QED  BY <1>6, <2>1, <2>2, <2>3, <2>4 DEF UsbTypes
<1>8. CallLife'
  <2>1. call'.at \in {"answer", "failed"} /\ (opened' \/ call'.at = "failed") /\ opened' = opened
    BY <1>1, <1>6
  <2>2. ~opened => commands' = <<>> /\ answers' = <<>> /\ stream' = <<>>
    BY <1>3, <1>4, <1>6
  <2>. QED  BY <2>1, <2>2 DEF CallLife
<1>9. Units' = Units
  <2>1. \A i \in 1 .. Len(stream) : Outdated(stream)[i].unit = stream[i].unit
    <3>. SUFFICES ASSUME NEW i \in 1 .. Len(stream)  PROVE Outdated(stream)[i].unit = stream[i].unit
      OBVIOUS
    <3>1. stream[i] \in Unit
      BY DEF UsbTypes
    <3>2. [stream[i] EXCEPT !.old = TRUE].unit = stream[i].unit
      BY <3>1 DEF Unit
    <3>. QED  BY <1>4, <3>2
  <2>2. DOMAIN stream' = DOMAIN stream /\ DOMAIN stream = 1 .. Len(stream)
    BY <1>4, <1>6 DEF UsbTypes
  <2>. QED  BY <1>6, <2>1, <2>2 DEF Units
<1>10. CASE opened /\ call' = at("answer") /\ commands' = sent /\ UNCHANGED <<faults, broken>>
  BY <1>1, <1>3, <1>4, <1>5, <1>6, <1>7, <1>8, <1>9, <1>10 DEF Begun, UsbTypes
<1>11. CASE ~opened /\ call' = at("failed") /\ UNCHANGED <<commands, faults, broken>>
  BY <1>1, <1>3, <1>4, <1>5, <1>6, <1>7, <1>8, <1>9, <1>11 DEF Begun, UsbTypes
<1>12. CASE broken' = TRUE /\ call' = at("failed")
  BY <1>1, <1>6, <1>7, <1>8, <1>9, <1>12 DEF Begun, UsbTypes
<1>. QED  BY <1>6, <1>10, <1>11, <1>12

-----------------------------------------------------------------------------
(* Order. *)

LEMMA UnitsFacts ==
  ASSUME stream \in Seq(Unit)
  PROVE  /\ Units \in Seq(Nat) /\ Len(Units) = Len(stream)
         /\ \A i \in 1 .. Len(stream) : Units[i] = stream[i].unit
<1>1. DOMAIN stream = 1 .. Len(stream) /\ \A i \in 1 .. Len(stream) : stream[i].unit \in Nat
  <2>1. \A i \in 1 .. Len(stream) : stream[i] \in Unit
    OBVIOUS
  <2>. QED  BY <2>1 DEF Unit
<1>2. Units = [i \in 1 .. Len(stream) |-> stream[i].unit] /\ Len(stream) \in Nat
  BY <1>1 DEF Units
<1>. QED  BY <1>1, <1>2

LEMMA EmptyOrder ==
  ASSUME NEW s \in Seq(Nat), NEW n \in Nat
  PROVE  Ascending(<<>>) /\ Before(s, <<>>) /\ Before(<<>>, s) /\ UpTo(<<>>, n)
BY DEF Ascending, Before, UpTo

LEMMA JoinOrder ==
  ASSUME NEW s \in Seq(Nat), NEW t \in Seq(Nat), Ascending(s), Ascending(t), Before(s, t)
  PROVE  Ascending(s \o t)
<1>. SUFFICES ASSUME NEW i \in 1 .. Len(s) + Len(t), NEW j \in 1 .. Len(s) + Len(t), i < j,
                     (s \o t)[i] # Sample, (s \o t)[j] # Sample
              PROVE  (s \o t)[i] < (s \o t)[j]
  BY DEF Ascending
<1>1. CASE j <= Len(s)
  BY <1>1 DEF Ascending
<1>2. CASE i <= Len(s) /\ j > Len(s)
  <2>1. j - Len(s) \in DOMAIN t /\ i \in DOMAIN s
    BY <1>2
  <2>2. (s \o t)[i] = s[i] /\ (s \o t)[j] = t[j - Len(s)]
    BY <1>2
  <2>. QED  BY <2>1, <2>2 DEF Before
<1>3. CASE i > Len(s)
  <2>1. i - Len(s) \in DOMAIN t /\ j - Len(s) \in DOMAIN t /\ i - Len(s) < j - Len(s)
    BY <1>3
  <2>2. (s \o t)[i] = t[i - Len(s)] /\ (s \o t)[j] = t[j - Len(s)]
    BY <1>3
  <2>. QED  BY <2>1, <2>2 DEF Ascending
<1>. QED  BY <1>1, <1>2, <1>3

LEMMA JoinIs ==
  ASSUME NEW s \in Seq(Nat), NEW t \in Seq(Nat)
  PROVE  /\ s \o t \in Seq(Nat) /\ Len(s \o t) = Len(s) + Len(t)
         /\ \A i \in 1 .. Len(s) + Len(t) :
              (s \o t)[i] = IF i <= Len(s) THEN s[i] ELSE t[i - Len(s)]
OBVIOUS

LEMMA JoinBefore ==
  ASSUME NEW s \in Seq(Nat), NEW t \in Seq(Nat), NEW u \in Seq(Nat)
  PROVE  /\ Before(s, u) /\ Before(t, u) => Before(s \o t, u)
         /\ Before(u, s) /\ Before(u, t) => Before(u, s \o t)
         /\ \A n \in Nat : UpTo(s, n) /\ UpTo(t, n) => UpTo(s \o t, n)
<1>1. \A i \in DOMAIN (s \o t) : \/ i \in DOMAIN s /\ (s \o t)[i] = s[i]
                                 \/ i - Len(s) \in DOMAIN t /\ (s \o t)[i] = t[i - Len(s)]
  OBVIOUS
<1>. QED  BY <1>1 DEF Before, UpTo

LEMMA TailOrder ==
  ASSUME NEW s \in Seq(Nat), s # <<>>
  PROVE  /\ Ascending(s) => Ascending(Tail(s)) /\ Before(<<Head(s)>>, Tail(s))
         /\ \A t \in Seq(Nat) : Before(t, s) => Before(t, Tail(s)) /\ Before(t, <<Head(s)>>)
         /\ \A n \in Nat : UpTo(s, n) => UpTo(Tail(s), n) /\ Head(s) <= n
<1>1. /\ \A i \in DOMAIN Tail(s) : i \in Nat /\ i >= 1 /\ i + 1 \in DOMAIN s /\ Tail(s)[i] = s[i + 1]
      /\ 1 \in DOMAIN s /\ Head(s) = s[1]
  OBVIOUS
<1>2. DOMAIN <<Head(s)>> = {1} /\ <<Head(s)>>[1] = s[1]
  BY <1>1
<1>3. Ascending(s) => Ascending(Tail(s))
  BY <1>1 DEF Ascending
<1>4. Ascending(s) => Before(<<Head(s)>>, Tail(s))
  BY <1>1, <1>2 DEF Ascending, Before
<1>5. \A t \in Seq(Nat) : Before(t, s) => Before(t, Tail(s)) /\ Before(t, <<Head(s)>>)
  BY <1>1, <1>2 DEF Before
<1>6. \A n \in Nat : UpTo(s, n) => UpTo(Tail(s), n) /\ Head(s) <= n
  BY <1>1 DEF UpTo
<1>. QED  BY <1>3, <1>4, <1>5, <1>6

LEMMA NewOrder ==
  ASSUME NEW s \in Seq(Nat), NEW n \in Nat, UpTo(s, n), NEW m \in Nat
  PROVE  LET new == [i \in 1 .. m |-> n + i] IN
         new \in Seq(Nat) /\ Ascending(new) /\ Before(s, new) /\ UpTo(new, n + m) /\ UpTo(s, n + m)
<1>. DEFINE new == [i \in 1 .. m |-> n + i]
<1>1. new \in Seq(Nat) /\ DOMAIN new = 1 .. m /\ \A i \in 1 .. m : new[i] = n + i
  OBVIOUS
<1>2. DOMAIN s = 1 .. Len(s) /\ \A i \in DOMAIN s : s[i] \in Nat
  OBVIOUS
<1>. HIDE DEF new
<1>3. Ascending(new) /\ UpTo(new, n + m)
  BY <1>1 DEF Ascending, UpTo
<1>4. Before(s, new)
  BY <1>1, <1>2 DEF Before, UpTo
<1>5. UpTo(s, n + m)
  BY <1>2 DEF UpTo
<1>. QED  BY <1>1, <1>3, <1>4, <1>5 DEF new

LEMMA SampleOrder ==
  ASSUME NEW s \in Seq(Nat), NEW n \in Nat
  PROVE  <<Sample>> \in Seq(Nat) /\ Ascending(<<Sample>>) /\ Before(s, <<Sample>>) /\ UpTo(<<Sample>>, n)
<1>1. Sample = 0 /\ <<Sample>> \in Seq(Nat) /\ DOMAIN <<Sample>> = {1} /\ <<Sample>>[1] = Sample
  BY DEF Sample
<1>. QED  BY <1>1 DEF Ascending, Before, UpTo

-----------------------------------------------------------------------------
(* Steps of the port and the device. *)

\* What the steps of the port leave alone.
PortOnly == UNCHANGED <<body, machineVars>>

LEMMA ReadResponseKeeps ==
  ASSUME FrameInv, ReadResponse, PortOnly
  PROVE  FrameInv'
<1>1. UsbTypes /\ MachineTypes /\ CallLife /\ CallerLife /\ InOrder /\ IsWhole(stored)
      /\ (~broken => InStep /\ Stock /\ Number) /\ (~broken /\ ~cut => Whole)
  BY DEF FrameInv
<1>2. /\ call.at = "answer" /\ UNCHANGED <<opened, commands, stream, stored, taken>>
      /\ UNCHANGED <<body, next_state, step, clean_leftover, pushed, cut, cleaned>>
  BY DEF ReadResponse, deviceVars, PortOnly, machineVars, queueVars
<1>3. MachineTypes' /\ IsWhole(stored)'
  BY <1>1, <1>2 DEF MachineTypes
<1>4. Units' = Units
  BY <1>2 DEF Units
<1>5. opened
  BY <1>1, <1>2 DEF CallLife
<1>6. CASE /\ answers # <<>> /\ answers' = Tail(answers)
           /\ LET a == Head(answers) IN
              call' = [call EXCEPT
                !.at = IF a.cmd.id # call.cmd.id THEN "failed"
                       ELSE IF a.cmd.id = "RDEP3" THEN "data" ELSE "ok",
                !.got = IF a.cmd.id = "RDEP1" THEN <<a.value>> ELSE <<>>,
                !.fresh = @ /\ ~a.old]
           /\ UNCHANGED <<faults, broken>>
  <2>. DEFINE a == Head(answers)
  <2>1. a \in Answer /\ a = answers[1] /\ Tail(answers) \in Seq(Answer)
    BY <1>1, <1>6 DEF UsbTypes
  <2>2. call'.at \in {"failed", "data", "ok"} /\ call'.cmd = call.cmd /\ call'.who = call.who
        /\ call'.alone = call.alone /\ call'.fresh = (call.fresh /\ ~a.old)
        /\ call'.got = (IF a.cmd.id = "RDEP1" THEN <<a.value>> ELSE <<>>)
        /\ call'.at = (IF a.cmd.id # call.cmd.id THEN "failed"
                       ELSE IF a.cmd.id = "RDEP3" THEN "data" ELSE "ok")
    BY <1>1, <1>6 DEF UsbTypes, Calls
  <2>3. call' \in Calls
    <3>1. call'.got \in Seq(Nat) /\ call'.fresh \in BOOLEAN
      BY <1>1, <2>1, <2>2 DEF Answer, UsbTypes, Calls
    <3>2. call' = [at |-> call'.at, who |-> call.who, cmd |-> call.cmd, got |-> call'.got,
                   alone |-> call.alone, fresh |-> call'.fresh]
      BY <1>1, <1>6 DEF UsbTypes, Calls
    <3>. QED  BY <1>1, <2>2, <3>1, <3>2 DEF UsbTypes, Calls
  <2>. HIDE DEF a
  <2>4. UsbTypes'
    BY <1>1, <1>2, <1>6, <2>1, <2>3 DEF UsbTypes
  <2>5. CallLife'
    <3>1. call.cmd \in Command /\ Len(<<>>) = 0 /\ Len(<<a.value>>) = 1
      BY <1>1 DEF UsbTypes, Calls
    <3>. QED  BY <1>2, <1>5, <2>2, <3>1 DEF CallLife, Command
  <2>6. CallerLife'
    BY <1>1, <1>2, <2>2 DEF CallerLife
  <2>7. InHand = <<>> /\ InHand' = <<>>
    BY <1>2, <2>2 DEF InHand
  <2>8. InOrder'
    BY <1>1, <1>2, <1>4, <2>7 DEF InOrder
  <2>9. ASSUME ~broken  PROVE InStep' /\ Stock' /\ Number' /\ (~cut => Whole')
    <3>1. /\ InStep /\ Stock /\ Number /\ commands = <<>> /\ Answered /\ a.cmd = call.cmd /\ ~a.old
          /\ Len(stream) = IF call.cmd.id = "RDEP3" THEN call.cmd.size ELSE 0
          /\ answers' = <<>>
      BY <1>1, <1>2, <1>6, <2>1, <2>9 DEF InStep, Answered, UsbTypes
    <3>2. call'.at = (IF call.cmd.id = "RDEP3" THEN "data" ELSE "ok") /\ call'.fresh
      BY <2>2, <3>1 DEF InStep
    <3>3. Len(call'.got) = 0 \/ call.cmd.id # "RDEP3"
      BY <2>2, <3>1
    <3>4. Len(stream) = 0 => stream = <<>>
      BY <1>1 DEF UsbTypes
    <3>5. call.cmd \in Command
      BY <1>1 DEF UsbTypes, Calls
    <3>6. InStep'
      BY <1>2, <1>5, <2>2, <3>1, <3>2, <3>3, <3>4, <3>5 DEF InStep, Command
    <3>7. Owed' = Owed
      BY <1>1, <1>2, <2>2, <3>1, <3>2 DEF Owed, Answered, CallerLife, Command
    <3>8. Stock'
      <4>1. step = "data" => call.cmd.id = "RDEP3"
        BY <1>1, <3>5 DEF CallerLife, Command
      <4>2. step = "data" => Len(call'.got) = 0 /\ call'.at = "data"
        BY <3>2, <3>3, <4>1
      <4>3. ~Asked'
        BY <3>2 DEF Asked
      <4>. QED  BY <1>2, <2>4, <3>1, <3>2, <3>7, <4>2, <4>3 DEF Stock, UsbTypes
    <3>9. Number'
      <4>1. ~Answered'
        BY <3>2 DEF Answered
      <4>2. step = "num" => call'.got[1] = a.value
        BY <1>1, <2>2, <3>1, <3>5 DEF CallerLife, Command
      <4>. QED  BY <1>2, <2>1, <3>1, <4>1, <4>2 DEF Number
    <3>10. ~cut => Whole'
      BY <1>1, <1>2, <2>2, <2>9, <3>7 DEF Whole
    <3>. QED  BY <3>6, <3>8, <3>9, <3>10
  <2>. QED  BY <1>2, <1>3, <1>6, <2>4, <2>5, <2>6, <2>8, <2>9 DEF FrameInv
<1>7. CASE MayFail(answers) /\ call' = [call EXCEPT !.at = "failed"] /\ UNCHANGED answers
  <2>1. broken' /\ faults' \in Nat
    BY <1>1, <1>7 DEF MayFail, UsbTypes
  <2>2. call' \in Calls /\ call'.at = "failed" /\ call'.cmd = call.cmd /\ call'.who = call.who
    BY <1>1, <1>7 DEF UsbTypes, Calls
  <2>3. UsbTypes'
    BY <1>1, <1>2, <1>7, <2>1, <2>2 DEF UsbTypes, MayFail
  <2>4. CallLife' /\ CallerLife'
    BY <1>1, <1>2, <1>5, <2>2 DEF CallLife, CallerLife
  <2>5. InOrder'
    <3>1. InHand = <<>> /\ InHand' = <<>>
      BY <1>2, <2>2 DEF InHand
    <3>. QED  BY <1>1, <1>2, <1>4, <3>1 DEF InOrder
  <2>. QED  BY <1>3, <2>1, <2>3, <2>4, <2>5 DEF FrameInv
<1>. QED  BY <1>6, <1>7 DEF ReadResponse

LEMMA ReadEP3Keeps ==
  ASSUME FrameInv, ReadEP3, PortOnly
  PROVE  FrameInv'
<1>1. UsbTypes /\ MachineTypes /\ CallLife /\ CallerLife /\ InOrder /\ IsWhole(stored)
      /\ (~broken => InStep /\ Stock /\ Number) /\ (~broken /\ ~cut => Whole)
  BY DEF FrameInv
<1>2. /\ call.at = "data" /\ UNCHANGED <<opened, commands, answers, stored, taken>>
      /\ UNCHANGED <<body, next_state, step, clean_leftover, pushed, cut, cleaned>>
  BY DEF ReadEP3, deviceVars, PortOnly, machineVars, queueVars
<1>3. MachineTypes' /\ IsWhole(stored)'
  BY <1>1, <1>2 DEF MachineTypes
<1>4. opened /\ call.cmd.id = "RDEP3" /\ Len(call.got) < call.cmd.size
  BY <1>1, <1>2 DEF CallLife
<1>5. /\ call \in Calls /\ call.got \in Seq(Nat) /\ call.cmd \in Command /\ call.fresh \in BOOLEAN /\ call.alone \in BOOLEAN
      /\ stream \in Seq(Unit) /\ pushed \in Seq(Nat) /\ taken \in Nat
  BY <1>1 DEF UsbTypes, MachineTypes, Calls
<1>6. InHand = call.got
  BY <1>2, <1>4 DEF InHand
<1>7. Units \in Seq(Nat) /\ Len(Units) = Len(stream)
      /\ \A i \in 1 .. Len(stream) : Units[i] = stream[i].unit
  BY <1>5, UnitsFacts
<1>8. ASSUME stream # <<>>, stream' = Tail(stream)
      PROVE  stream' \in Seq(Unit) /\ Units' = Tail(Units) /\ Units # <<>>
             /\ Head(stream) \in Unit /\ Head(stream) = stream[1] /\ Head(Units) = Head(stream).unit
             /\ Len(stream') = Len(stream) - 1 /\ \A i \in 1 .. Len(stream') : stream'[i] = stream[i + 1]
  <2>1. /\ stream' \in Seq(Unit) /\ Len(stream') = Len(stream) - 1 /\ Len(stream) > 0
        /\ \A i \in 1 .. Len(stream') : stream'[i] = stream[i + 1] /\ i + 1 \in 1 .. Len(stream)
        /\ Head(stream) \in Unit /\ Head(stream) = stream[1]
    BY <1>5, <1>8
  <2>2. /\ Units' \in Seq(Nat) /\ Len(Units') = Len(stream')
        /\ \A i \in 1 .. Len(stream') : Units'[i] = stream'[i].unit
    <3>1. DOMAIN stream' = 1 .. Len(stream')
          /\ \A i \in 1 .. Len(stream') : stream'[i].unit \in Nat
      <4>1. \A i \in 1 .. Len(stream') : stream'[i] \in Unit
        BY <2>1
      <4>. QED  BY <2>1, <4>1 DEF Unit
    <3>2. Units' = [i \in 1 .. Len(stream') |-> stream'[i].unit]
      BY <3>1 DEF Units
    <3>. QED  BY <2>1, <3>1, <3>2
  <2>3. Units # <<>> /\ Head(Units) = Units[1]
    BY <1>7, <2>1
  <2>4. /\ Tail(Units) \in Seq(Nat) /\ Len(Tail(Units)) = Len(Units) - 1
        /\ \A i \in 1 .. Len(Tail(Units)) : Tail(Units)[i] = Units[i + 1]
    BY <1>7, <2>3
  <2>5. Units' = Tail(Units)
    <3>1. Len(Units') = Len(Tail(Units))
      BY <1>7, <2>1, <2>2, <2>4
    <3>2. \A i \in 1 .. Len(Units') : Units'[i] = Tail(Units)[i]
      BY <1>7, <2>1, <2>2, <2>4, <3>1
    <3>. QED  BY <2>2, <2>4, <3>1, <3>2, SeqEqual
  <2>. QED  BY <1>7, <2>1, <2>3, <2>5
<1>9. CASE /\ stream # <<>> /\ stream' = Tail(stream)
           /\ call' = [call EXCEPT
                !.at = IF Len(call.got) + 1 = call.cmd.size THEN "ok" ELSE "data",
                !.got = Append(@, Head(stream).unit),
                !.fresh = @ /\ ~Head(stream).old]
           /\ UNCHANGED <<faults, broken>>
  <2>. DEFINE u == Head(stream)
              got == Append(call.got, u.unit)
  <2>1. /\ stream' \in Seq(Unit) /\ Units' = Tail(Units) /\ Units # <<>>
        /\ u \in Unit /\ u = stream[1] /\ Head(Units) = u.unit /\ u.unit \in Nat /\ u.old \in BOOLEAN
        /\ Len(stream') = Len(stream) - 1 /\ \A i \in 1 .. Len(stream') : stream'[i] = stream[i + 1]
    BY <1>8, <1>9 DEF Unit
  <2>2. call'.at \in {"data", "ok"} /\ call'.cmd = call.cmd /\ call'.who = call.who
        /\ call'.alone = call.alone /\ call'.fresh = (call.fresh /\ ~u.old) /\ call'.got = got
        /\ call'.at = (IF Len(call.got) + 1 = call.cmd.size THEN "ok" ELSE "data")
    BY <1>5, <1>9 DEF Calls
  <2>3. /\ got \in Seq(Nat) /\ Len(got) = Len(call.got) + 1 /\ got = call.got \o <<u.unit>>
        /\ \A i \in 1 .. Len(call.got) : got[i] = call.got[i]
        /\ got[Len(call.got) + 1] = u.unit
    <3>. HIDE DEF u
    <3>1. u.unit \in Nat
      BY <2>1
    <3>2. got = call.got \o <<u.unit>>
      BY <1>5, <3>1, AppendIsConcat
    <3>. QED  BY <1>5, <3>1, <3>2
  <2>4. call' \in Calls
    <3>1. call'.fresh \in BOOLEAN
      BY <1>5, <2>1, <2>2
    <3>2. call' = [at |-> call'.at, who |-> call.who, cmd |-> call.cmd, got |-> call'.got,
                   alone |-> call.alone, fresh |-> call'.fresh]
      BY <1>5, <1>9 DEF Calls
    <3>. QED  BY <1>5, <2>2, <2>3, <3>1, <3>2 DEF Calls
  <2>. HIDE DEF u, got
  <2>5. UsbTypes'
    BY <1>1, <1>2, <1>9, <2>1, <2>4 DEF UsbTypes
  <2>6. CallLife'
    BY <1>2, <1>4, <1>5, <2>2, <2>3 DEF CallLife, Command
  <2>7. CallerLife'
    BY <1>1, <1>2, <2>2 DEF CallerLife
  <2>8. InHand' = got /\ <<u.unit>> \in Seq(Nat)
    BY <1>4, <2>1, <2>2 DEF InHand
  <2>9. InOrder'
    <3>1. /\ Ascending(Tail(Units)) /\ Before(<<u.unit>>, Tail(Units))
          /\ Before(pushed, Tail(Units)) /\ Before(pushed, <<u.unit>>)
          /\ Before(call.got, Tail(Units)) /\ Before(call.got, <<u.unit>>)
          /\ UpTo(Tail(Units), taken) /\ u.unit <= taken
      BY <1>1, <1>5, <1>6, <1>7, <2>1, TailOrder DEF InOrder
    <3>2. Ascending(<<u.unit>>) /\ UpTo(<<u.unit>>, taken)
      BY <3>1 DEF Ascending, UpTo
    <3>3. Tail(Units) \in Seq(Nat)
      BY <1>7, <2>1
    <3>4. Ascending(got)
      BY <1>1, <1>5, <1>6, <2>3, <2>8, <3>1, <3>2, JoinOrder DEF InOrder
    <3>5. Before(pushed, got) /\ Before(got, Tail(Units)) /\ UpTo(got, taken)
      BY <1>1, <1>5, <1>6, <2>3, <2>8, <3>1, <3>2, <3>3, JoinBefore DEF InOrder
    <3>. QED  BY <1>1, <1>2, <2>1, <2>8, <3>1, <3>4, <3>5 DEF InOrder
  <2>10. ASSUME ~broken  PROVE InStep' /\ Stock' /\ Number' /\ (~cut => Whole')
    <3>1. InStep /\ Stock /\ Number /\ call.fresh /\ ~u.old /\ commands = <<>> /\ answers = <<>>
          /\ Len(call.got) + Len(stream) = call.cmd.size
      <4>1. InStep /\ Stock /\ Number
        BY <1>1, <2>10
      <4>2. 1 \in DOMAIN stream
        BY <1>5, <1>9
      <4>. QED  BY <1>2, <2>1, <4>1, <4>2 DEF InStep
    <3>2. Len(call'.got) + Len(stream') = call.cmd.size
      BY <1>5, <2>1, <2>2, <2>3, <3>1
    <3>3. call'.at = "ok" => stream' = <<>>
      BY <1>5, <2>1, <2>2, <2>3, <3>2
    <3>4. \A i \in DOMAIN stream' : ~stream'[i].old
      <4>1. DOMAIN stream' = 1 .. Len(stream') /\ DOMAIN stream = 1 .. Len(stream)
        BY <1>5, <2>1
      <4>2. \A i \in 1 .. Len(stream') : i + 1 \in DOMAIN stream
        BY <1>5, <2>1, <4>1
      <4>. QED  BY <2>1, <3>1, <4>1, <4>2 DEF InStep
    <3>5. InStep'
      BY <1>2, <2>2, <3>1, <3>2, <3>3, <3>4 DEF InStep
    <3>6. Owed' = Owed
      BY <1>2, <2>2 DEF Owed, Answered
    <3>7. Stock'
      <4>1. step = "data" => /\ \A i \in 1 .. Len(call.got) : call.got[i] = taken - Owed + i
                             /\ \A i \in 1 .. Len(stream) :
                                  stream[i].unit = taken - Owed + Len(call.got) + i
        BY <1>2, <3>1 DEF Stock
      <4>2. Owed \in Nat
        BY <1>5 DEF Owed, Command
      <4>3. step = "data" => \A i \in 1 .. Len(got) : got[i] = taken - Owed + i
        <5>. SUFFICES ASSUME step = "data", NEW i \in 1 .. Len(got)
                      PROVE  got[i] = taken - Owed + i
          OBVIOUS
        <5>1. CASE i \in 1 .. Len(call.got)
          BY <2>3, <4>1, <5>1
        <5>2. CASE i = Len(call.got) + 1
          <6>1. 1 \in 1 .. Len(stream) /\ Len(call.got) \in Nat
            BY <1>5, <1>9
          <6>2. stream[1].unit = taken - Owed + Len(call.got) + 1
            BY <4>1, <6>1
          <6>3. got[i] = stream[1].unit
            BY <2>1, <2>3, <5>2
          <6>. QED  BY <1>5, <4>2, <5>2, <6>1, <6>2, <6>3
        <5>. QED  BY <1>5, <2>3, <5>1, <5>2
      <4>4. step = "data" => \A i \in 1 .. Len(stream') :
                               stream'[i].unit = taken - Owed + Len(got) + i
        <5>. SUFFICES ASSUME step = "data", NEW i \in 1 .. Len(stream')
                      PROVE  stream'[i].unit = taken - Owed + Len(got) + i
          OBVIOUS
        <5>1. i + 1 \in 1 .. Len(stream) /\ stream'[i] = stream[i + 1] /\ Len(call.got) \in Nat
          BY <1>5, <2>1
        <5>2. stream[i + 1].unit = taken - Owed + Len(call.got) + (i + 1)
          BY <4>1, <5>1
        <5>3. Len(got) = Len(call.got) + 1 /\ taken \in Nat /\ i \in Nat
          BY <1>5, <2>3
        <5>4. \A l \in Nat : taken - Owed + l + (i + 1) = taken - Owed + (l + 1) + i
          BY <4>2, <5>3
        <5>5. stream'[i].unit = taken - Owed + Len(call.got) + (i + 1)
          BY <5>1, <5>2
        <5>6. taken - Owed + Len(got) + i = taken - Owed + (Len(call.got) + 1) + i
          BY <5>3
        <5>. QED  BY <5>1, <5>4, <5>5, <5>6
      <4>5. ~Asked'
        BY <2>2 DEF Asked
      <4>. QED  BY <1>2, <2>2, <3>1, <3>6, <4>3, <4>4, <4>5 DEF Stock
    <3>8. Number'
      <4>1. step # "num"
        BY <1>1, <1>4, <1>5 DEF CallerLife, Command
      <4>. QED  BY <1>2, <4>1 DEF Number
    <3>9. ~cut => Whole'
      BY <1>1, <1>2, <2>2, <2>10, <3>6 DEF Whole
    <3>. QED  BY <3>5, <3>7, <3>8, <3>9
  <2>. QED  BY <1>2, <1>3, <1>9, <2>5, <2>6, <2>7, <2>9, <2>10 DEF FrameInv
<1>10. CASE /\ MayFail(stream) /\ call' = [call EXCEPT !.at = "failed"]
            /\ stream' \in {stream} \cup (IF stream = <<>> THEN {} ELSE {Tail(stream)})
  <2>1. broken' /\ faults' \in Nat
    BY <1>1, <1>10 DEF MayFail, UsbTypes
  <2>2. call' \in Calls /\ call'.at = "failed" /\ call'.cmd = call.cmd /\ call'.who = call.who
    BY <1>5, <1>10 DEF Calls
  <2>3. stream' \in Seq(Unit)
    <3>1. stream # <<>> => Tail(stream) \in Seq(Unit)
      BY <1>5
    <3>. QED  BY <1>5, <1>10, <3>1
  <2>4. UsbTypes'
    BY <1>1, <1>2, <1>10, <2>1, <2>2, <2>3 DEF UsbTypes, MayFail
  <2>5. CallLife' /\ CallerLife'
    BY <1>1, <1>2, <1>4, <2>2 DEF CallLife, CallerLife
  <2>6. InOrder'
    <3>1. InHand' = <<>>
      BY <2>2 DEF InHand
    <3>2. Ascending(Units') /\ Before(pushed, Units') /\ UpTo(Units', taken) /\ Units' \in Seq(Nat)
      <4>1. CASE stream' = stream
        <5>1. Units' = Units
          BY <4>1 DEF Units
        <5>. QED  BY <1>1, <1>7, <5>1 DEF InOrder
      <4>2. CASE stream # <<>> /\ stream' = Tail(stream)
        <5>1. Units' = Tail(Units) /\ Units # <<>>
          BY <1>8, <4>2
        <5>2. Ascending(Tail(Units)) /\ Before(pushed, Tail(Units)) /\ UpTo(Tail(Units), taken)
          BY <1>1, <1>5, <1>7, <5>1, TailOrder DEF InOrder
        <5>. QED  BY <1>7, <5>1, <5>2
      <4>. QED  BY <1>10, <4>1, <4>2
    <3>. QED  BY <1>1, <1>2, <1>5, <3>1, <3>2, EmptyOrder DEF InOrder
  <2>. QED  BY <1>3, <2>1, <2>4, <2>5, <2>6 DEF FrameInv
<1>. QED  BY <1>9, <1>10 DEF ReadEP3

LEMMA StoreFrameKeeps ==
  ASSUME FrameInv, StoreFrame, PortOnly
  PROVE  FrameInv'
<1>1. /\ stored' = stored + FrameSize /\ UNCHANGED <<opened, commands, answers, stream, call, taken>>
      /\ UNCHANGED <<faults, broken, body, next_state, step, clean_leftover, pushed, cut, cleaned>>
  BY DEF StoreFrame, pipeVars, PortOnly, machineVars, queueVars
<1>2. stored' \in Nat /\ stored' >= stored /\ taken \in Nat /\ taken <= stored'
  BY <1>1, UsbAssumption DEF FrameInv, UsbTypes
<1>3. IsWhole(stored')
  BY <1>1, UsbAssumption, WholeFrame, WholeSum DEF FrameInv, UsbTypes
<1>4. UsbTypes' /\ MachineTypes' /\ CallLife' /\ CallerLife'
  BY <1>1, <1>2 DEF FrameInv, UsbTypes, MachineTypes, CallLife, CallerLife
<1>5. Units' = Units /\ InHand' = InHand /\ Owed' = Owed /\ Asked' = Asked /\ Answered' = Answered
  BY <1>1 DEF Units, InHand, Owed, Asked, Answered
<1>6. InOrder'
  BY <1>1, <1>5 DEF FrameInv, InOrder
<1>7. ASSUME ~broken  PROVE InStep' /\ Stock' /\ Number' /\ (~cut => Whole')
  <2>1. InStep /\ Stock /\ Number /\ (~cut => Whole)
    BY <1>7 DEF FrameInv
  <2>2. InStep' /\ (~cut => Whole')
    BY <1>1, <1>5, <2>1 DEF InStep, Whole
  <2>3. Stock'
    <3>1. call.cmd.size \in Nat /\ stored \in Nat
      BY DEF FrameInv, UsbTypes, Calls, Command
    <3>2. call.cmd.size <= stored - taken => call.cmd.size <= stored' - taken
      BY <1>2, <3>1
    <3>. QED  BY <1>1, <1>5, <2>1, <3>2 DEF Stock
  <2>4. Number'
    <3>0. stored \in Nat
      BY DEF FrameInv, UsbTypes
    <3>1. ASSUME NEW n \in Nat, n <= stored - taken  PROVE n <= stored' - taken
      <4>1. \A s, t, k \in Nat : s <= t /\ n <= s - k => n <= t - k
        OBVIOUS
      <4>. QED  BY <1>2, <3>0, <3>1, <4>1
    <3>2. Answered => answers[1].value \in Nat
      <4>1. answers \in Seq(Answer)
        BY DEF FrameInv, UsbTypes
      <4>2. Len(answers) = 1 => answers[1] \in Answer
        BY <4>1
      <4>. QED  BY <4>2 DEF Answered, Answer
    <3>3. call.at = "ok" /\ step = "num" => call.got[1] \in Nat
      BY DEF FrameInv, UsbTypes, CallLife, CallerLife, Calls, Command
    <3>. QED  BY <1>1, <1>5, <2>1, <3>1, <3>2, <3>3 DEF Number
  <2>. QED  BY <2>1, <2>2, <2>3, <2>4
<1>. QED  BY <1>1, <1>3, <1>4, <1>6, <1>7 DEF FrameInv

\* The device handles a command: the frames it sends follow all those sent before.
LEMMA HandleCommandKeeps ==
  ASSUME FrameInv, HandleCommand, PortOnly
  PROVE  FrameInv'
<1>. DEFINE c == Head(commands)
            n == IF c.cmd.addr # "frames" THEN 0
                 ELSE IF c.cmd.size < stored - taken THEN c.cmd.size ELSE stored - taken
            unit(u) == [unit |-> u, old |-> c.old]
            answer == [cmd |-> c.cmd, old |-> c.old,
                       value |-> IF c.cmd.addr = "frame_num" THEN stored - taken ELSE 0]
            new == IF c.cmd.addr = "scope" THEN <<unit(Sample)>> ELSE [i \in 1 .. n |-> unit(taken + i)]
            news == IF c.cmd.addr = "scope" THEN <<Sample>> ELSE [i \in 1 .. n |-> taken + i]
<1>1. /\ opened /\ commands # <<>> /\ commands' = Tail(commands)
      /\ answers' = Append(answers, answer) /\ stream' = stream \o new /\ taken' = taken + n
      /\ UNCHANGED <<opened, call, stored, faults, broken>>
      /\ UNCHANGED <<body, next_state, step, clean_leftover, pushed, cut, cleaned>>
  BY DEF HandleCommand, PortOnly, machineVars, queueVars
<1>2. UsbTypes /\ MachineTypes /\ CallLife /\ CallerLife /\ InOrder /\ IsWhole(stored)
      /\ (~broken => InStep /\ Stock /\ Number) /\ (~broken /\ ~cut => Whole)
  BY DEF FrameInv
<1>3. /\ commands \in Seq(Sent) /\ answers \in Seq(Answer) /\ stream \in Seq(Unit) /\ call \in Calls
      /\ stored \in Nat /\ taken \in Nat /\ taken <= stored /\ pushed \in Seq(Nat)
      /\ call.got \in Seq(Nat) /\ call.cmd \in Command
  BY <1>2 DEF UsbTypes, MachineTypes, Calls
<1>4. /\ c \in Sent /\ c = commands[1] /\ Tail(commands) \in Seq(Sent)
      /\ Len(Tail(commands)) = Len(commands) - 1
  BY <1>1, <1>3
<1>5. c.cmd \in Command /\ c.old \in BOOLEAN /\ c.cmd.size \in Nat \ {0}
      /\ (c.cmd.addr = "scope" => c.cmd.size = 1)
  BY <1>4 DEF Sent, Command
<1>6. n \in Nat /\ taken + n <= stored /\ stored - taken \in Nat
  BY <1>3, <1>5
<1>7. answer \in Answer /\ answer.cmd = c.cmd /\ answer.old = c.old
      /\ (c.cmd.addr = "frame_num" => answer.value = stored - taken)
  BY <1>5, <1>6 DEF Answer
<1>8. /\ new \in Seq(Unit) /\ news \in Seq(Nat) /\ Len(news) = Len(new)
      /\ Len(new) = IF c.cmd.addr = "scope" THEN 1 ELSE n
      /\ \A i \in 1 .. Len(new) : new[i].old = c.old /\ new[i].unit = news[i]
      /\ c.cmd.addr # "scope" => \A i \in 1 .. n : news[i] = taken + i
  <2>1. \A u \in Nat : unit(u) \in Unit /\ unit(u).old = c.old /\ unit(u).unit = u
    BY <1>5 DEF Unit
  <2>. HIDE DEF c, n, unit
  <2>2. CASE c.cmd.addr = "scope"
    <3>1. Sample \in Nat
      BY DEF Sample
    <3>. QED  BY <2>1, <2>2, <3>1
  <2>3. CASE c.cmd.addr # "scope"
    <3>1. \A i \in 1 .. n : taken + i \in Nat
      BY <1>3, <1>6
    <3>. QED  BY <1>6, <2>1, <2>3, <3>1
  <2>. QED  BY <2>2, <2>3
<1>9. Ascending(news) /\ UpTo(news, taken + n)
      /\ \A s \in Seq(Nat) : UpTo(s, taken) => Before(s, news) /\ UpTo(s, taken + n)
  <2>. HIDE DEF c, n, news
  <2>1. CASE c.cmd.addr = "scope"
    <3>1. taken + n \in Nat
      BY <1>3, <1>6
    <3>2. \A s \in Seq(Nat) : UpTo(s, taken) => UpTo(s, taken + n)
      BY <1>3, <1>6 DEF UpTo
    <3>3. news = <<Sample>>
      BY <2>1 DEF news
    <3>4. Ascending(<<Sample>>) /\ UpTo(<<Sample>>, taken + n) /\ \A s \in Seq(Nat) : Before(s, <<Sample>>)
      BY <3>1, SampleOrder, EmptySeq
    <3>. QED  BY <3>2, <3>3, <3>4
  <2>2. CASE c.cmd.addr # "scope"
    <3>1. \A s \in Seq(Nat) : UpTo(s, taken) =>
            Ascending(news) /\ Before(s, news) /\ UpTo(news, taken + n) /\ UpTo(s, taken + n)
      <4>1. news = [i \in 1 .. n |-> taken + i]
        BY <2>2 DEF news
      <4>. QED  BY <1>3, <1>6, <4>1, NewOrder
    <3>2. <<>> \in Seq(Nat) /\ UpTo(<<>>, taken)
      BY DEF UpTo
    <3>. QED  BY <3>1, <3>2
  <2>. QED  BY <2>1, <2>2
<1>. HIDE DEF c, n, answer, new, news
<1>10. UsbTypes'
  BY <1>1, <1>2, <1>4, <1>6, <1>7, <1>8 DEF UsbTypes
<1>11. MachineTypes' /\ CallerLife' /\ CallLife' /\ IsWhole(stored)'
  BY <1>1, <1>2 DEF MachineTypes, CallerLife, CallLife
<1>12. /\ stream' \in Seq(Unit) /\ Len(stream') = Len(stream) + Len(new)
       /\ \A i \in 1 .. Len(stream) : stream'[i] = stream[i]
       /\ \A i \in 1 .. Len(new) : stream'[Len(stream) + i] = new[i]
       /\ Len(stream) \in Nat /\ Len(new) \in Nat
  <2>1. Len(stream) \in Nat /\ Len(new) \in Nat
    BY <1>3, <1>8
  <2>2. /\ stream \o new \in Seq(Unit) /\ Len(stream \o new) = Len(stream) + Len(new)
        /\ \A i \in 1 .. Len(stream) + Len(new) :
             (stream \o new)[i] = IF i <= Len(stream) THEN stream[i] ELSE new[i - Len(stream)]
    BY <1>3, <1>8, ConcatProperties
  <2>3. ASSUME NEW i \in 1 .. Len(new)  PROVE (stream \o new)[Len(stream) + i] = new[i]
    <3>1. /\ Len(stream) + i \in 1 .. Len(stream) + Len(new) /\ ~(Len(stream) + i <= Len(stream))
          /\ (Len(stream) + i) - Len(stream) = i
      BY <2>1
    <3>. QED  BY <2>2, <3>1
  <2>4. \A i \in 1 .. Len(stream) : (stream \o new)[i] = stream[i]
    BY <2>1, <2>2
  <2>. QED  BY <1>1, <2>1, <2>2, <2>3, <2>4
<1>13. Units' = Units \o news
  <2>1. /\ Units \in Seq(Nat) /\ Len(Units) = Len(stream)
        /\ \A i \in 1 .. Len(stream) : Units[i] = stream[i].unit
    BY <1>3, UnitsFacts
  <2>2. \A i \in 1 .. Len(stream') : stream'[i] \in Unit
    BY <1>12
  <2>3. Units' = [i \in 1 .. Len(stream') |-> stream'[i].unit]
    BY <1>12 DEF Units
  <2>4. Units' \in Seq(Nat) /\ Len(Units') = Len(stream')
        /\ \A i \in 1 .. Len(stream') : Units'[i] = stream'[i].unit
    <3>1. \A i \in 1 .. Len(stream') : stream'[i].unit \in Nat
      BY <2>2 DEF Unit
    <3>. QED  BY <1>12, <2>3, <3>1
  <2>5. /\ Units \o news \in Seq(Nat) /\ Len(Units \o news) = Len(stream')
        /\ \A i \in 1 .. Len(stream') :
             (Units \o news)[i] = IF i <= Len(stream) THEN Units[i] ELSE news[i - Len(stream)]
    <3>1. news \in Seq(Nat) /\ Len(news) = Len(new)
      BY <1>8
    <3>2. /\ Units \o news \in Seq(Nat) /\ Len(Units \o news) = Len(Units) + Len(news)
          /\ \A i \in 1 .. Len(Units) + Len(news) :
               (Units \o news)[i] = IF i <= Len(Units) THEN Units[i] ELSE news[i - Len(Units)]
      BY <2>1, <3>1, JoinIs
    <3>3. Len(Units) = Len(stream) /\ Len(Units) + Len(news) = Len(stream')
      BY <1>12, <2>1, <3>1
    <3>. QED  BY <3>2, <3>3
  <2>6. ASSUME NEW i \in 1 .. Len(stream')  PROVE Units'[i] = (Units \o news)[i]
    <3>1. CASE i <= Len(stream)
      <4>1. i \in 1 .. Len(stream)
        BY <1>12, <3>1
      <4>2. Units'[i] = stream'[i].unit /\ (Units \o news)[i] = Units[i]
        BY <2>4, <2>5, <3>1
      <4>. QED  BY <1>12, <2>1, <4>1, <4>2
    <3>2. CASE i > Len(stream)
      <4>1. i - Len(stream) \in 1 .. Len(new) /\ i = Len(stream) + (i - Len(stream))
        BY <1>12, <3>2
      <4>2. stream'[i] = new[i - Len(stream)]
        BY <1>12, <4>1
      <4>3. Units'[i] = stream'[i].unit /\ (Units \o news)[i] = news[i - Len(stream)]
        BY <1>12, <2>4, <2>5, <3>2
      <4>. QED  BY <1>8, <4>1, <4>2, <4>3
    <3>3. i <= Len(stream) \/ i > Len(stream)
      BY <1>12
    <3>. QED  BY <3>1, <3>2, <3>3
  <2>. QED  BY <2>4, <2>5, <2>6, SeqEqual
<1>14. InHand' = InHand /\ InHand \in Seq(Nat)
  BY <1>1, <1>3 DEF InHand
<1>15. InOrder'
  <2>1. Units \in Seq(Nat)
    BY <1>3, UnitsFacts
  <2>2. /\ Ascending(pushed) /\ Ascending(InHand) /\ Ascending(Units)
        /\ Before(pushed, InHand) /\ Before(pushed, Units) /\ Before(InHand, Units)
        /\ UpTo(pushed, taken) /\ UpTo(InHand, taken) /\ UpTo(Units, taken)
    BY <1>2 DEF InOrder
  <2>3. Before(pushed, news) /\ Before(InHand, news) /\ Before(Units, news)
        /\ UpTo(pushed, taken + n) /\ UpTo(InHand, taken + n) /\ UpTo(Units, taken + n)
    BY <1>3, <1>9, <1>14, <2>1, <2>2
  <2>4. Ascending(Units \o news)
    BY <1>8, <1>9, <2>1, <2>2, <2>3, JoinOrder
  <2>5. Before(pushed, Units \o news) /\ Before(InHand, Units \o news) /\ UpTo(Units \o news, taken + n)
    <3>1. taken + n \in Nat
      BY <1>3, <1>6
    <3>. QED  BY <1>3, <1>8, <1>9, <1>14, <2>1, <2>2, <2>3, <3>1, JoinBefore
  <2>. QED  BY <1>1, <1>13, <1>14, <2>2, <2>3, <2>4, <2>5 DEF InOrder
<1>16. ASSUME ~broken  PROVE InStep' /\ Stock' /\ Number' /\ (~cut => Whole')
  <2>1. /\ InStep /\ Stock /\ Number /\ call.at = "answer" /\ Asked /\ answers = <<>> /\ stream = <<>>
        /\ call.fresh
    BY <1>1, <1>2, <1>16 DEF InStep, Calls, UsbTypes
  <2>2. c = [cmd |-> call.cmd, old |-> FALSE] /\ commands' = <<>>
    <3>1. commands = <<[cmd |-> call.cmd, old |-> FALSE]>>
      BY <2>1 DEF Asked
    <3>2. Len(commands) = 1 /\ commands[1] = [cmd |-> call.cmd, old |-> FALSE]
      BY <3>1
    <3>3. Len(commands') = 0 /\ commands' \in Seq(Sent)
      BY <1>1, <1>4, <3>2
    <3>. QED  BY <1>4, <3>2, <3>3
  <2>3. c.cmd = call.cmd /\ ~c.old
    BY <2>2
  <2>4. answers' \in Seq(Answer) /\ Len(answers') = 1 /\ answers'[1] = answer
    BY <1>1, <1>3, <1>7, <2>1
  <2>5. step = "data" => call.cmd.addr = "frames" /\ n = call.cmd.size /\ Len(new) = n
    <3>1. step = "data" => call.cmd.addr = "frames" /\ call.cmd.size <= stored - taken
      BY <1>2, <2>1 DEF CallerLife, Stock
    <3>. QED  BY <1>3, <1>5, <1>6, <1>8, <2>3, <3>1 DEF n
  <2>6. step = "call" => call.cmd.addr \in {"register", "scope"}
    BY <1>2, <2>1 DEF CallerLife
  <2>7. step = "num" => call.cmd.addr = "frame_num"
    BY <1>2 DEF CallerLife
  <2>8. step \in {"call", "num", "data"}
    BY <1>2 DEF MachineTypes
  <2>9. Len(stream') = IF call.cmd.id = "RDEP3" THEN call.cmd.size ELSE 0
    <3>1. call.cmd.addr # "frames" => n = 0
      BY <2>3 DEF n
    <3>2. Len(stream') = Len(new)
      BY <1>8, <1>12, <2>1
    <3>. QED  BY <1>3, <1>5, <1>8, <2>3, <2>5, <2>6, <2>7, <2>8, <3>1, <3>2 DEF Command
  <2>10. DOMAIN stream' = 1 .. Len(new) /\ \A i \in 1 .. Len(new) : stream'[i] = new[i]
    <3>1. Len(stream) = 0
      BY <2>1
    <3>2. Len(stream') = Len(new) /\ DOMAIN stream' = 1 .. Len(stream')
      BY <1>12, <3>1
    <3>3. \A i \in 1 .. Len(new) : stream'[0 + i] = new[i] /\ 0 + i = i
      BY <1>12, <3>1
    <3>. QED  BY <3>2, <3>3
  <2>11. InStep'
    <3>1. \A i \in DOMAIN stream' : ~stream'[i].old
      BY <1>8, <2>3, <2>10
    <3>. QED  BY <1>1, <1>7, <2>1, <2>2, <2>3, <2>4, <2>9, <3>1 DEF InStep, Answered
  <2>12. Owed = 0 /\ Owed' = IF step = "data" THEN n ELSE 0
    <3>1. ~Answered
      BY <2>1 DEF Answered
    <3>2. Answered'
      BY <1>1, <2>1, <2>4 DEF Answered
    <3>. QED  BY <1>1, <2>1, <2>5, <3>1, <3>2 DEF Owed
  <2>13. taken' = taken + Owed' /\ (taken' - Owed') = taken - Owed
    <3>1. step # "data" => n = 0
      BY <2>3, <2>6, <2>7, <2>8 DEF n
    <3>. QED  BY <1>1, <1>3, <1>6, <2>12, <3>1
  <2>14. Stock'
    <3>1. /\ taken = cleaned + Len(pushed) /\ \A i \in 1 .. Len(pushed) : pushed[i] = cleaned + i
          /\ opened /\ next_state = "CLEAN_LEFTOVER" => pushed = <<>>
      BY <1>2, <1>3, <2>1, <2>12 DEF Stock, MachineTypes
    <3>2. ~Asked'
      BY <2>2, <1>1 DEF Asked
    <3>3. step = "data" => \A i \in 1 .. Len(stream') : stream'[i].unit = taken + i
      BY <1>8, <2>3, <2>5, <2>10
    <3>4. taken' = cleaned + Len(pushed) + Owed' /\ taken' - Owed' = taken
      BY <1>2, <1>3, <1>6, <2>12, <2>13, <3>1 DEF MachineTypes
    <3>. QED  BY <1>1, <1>3, <2>1, <3>1, <3>2, <3>3, <3>4 DEF Stock
  <2>15. Number'
    <3>. SUFFICES ASSUME step = "num"
                  PROVE  answer.value <= stored - taken' /\ IsWhole(answer.value + taken')
      BY <1>1, <2>1, <2>4 DEF Number
    <3>1. answer.value = stored - taken /\ taken' = taken
      BY <1>1, <1>3, <1>7, <2>3, <2>7 DEF n
    <3>2. stored - taken + taken = stored
      BY <1>3
    <3>. QED  BY <1>2, <1>3, <3>1, <3>2
  <2>16. ~cut => Whole'
    BY <1>1, <1>2, <1>16, <2>13 DEF Whole
  <2>. QED  BY <2>11, <2>14, <2>15, <2>16
<1>. QED  BY <1>1, <1>10, <1>11, <1>15, <1>16 DEF FrameInv

-----------------------------------------------------------------------------
(* Steps of the machine, and of the others on the device thread. *)

\* What the invariant asks of the machine when no call is under way.
Resting(state, units, clean) ==
  /\ ~broken => /\ taken = clean + Len(units)
                /\ \A i \in 1 .. Len(units) : units[i] = clean + i
                /\ opened /\ state = "CLEAN_LEFTOVER" => units = <<>>

States == {"CLEAN_LEFTOVER", "CHECK_COLLECT", "WAIT_FULL", "COLLECT", "NONE"}

\* The end of a call, of the machine's or another's.
LEMMA RestKeeps ==
  ASSUME FrameInv, call.at \in {"none", "ok", "failed"},
         step' = "call", call' = NoCall, UNCHANGED <<opened, pipeVars, deviceVars, faults, broken>>,
         UNCHANGED <<clean_leftover, cleaned>>, next_state' \in States,
         pushed' \in Seq(Nat), Ascending(pushed'), Before(pushed', Units), UpTo(pushed', taken),
         cut' \in BOOLEAN, Resting(next_state', pushed', cleaned),
         ~broken /\ ~cut' =>
           /\ next_state' # "NONE"
           /\ next_state' # "CLEAN_LEFTOVER" \/ ~clean_leftover => IsWhole(taken)
  PROVE  FrameInv'
<1>1. /\ UNCHANGED <<opened, commands, answers, stream, stored, taken, faults, broken>>
      /\ NoCall \in Calls /\ call'.at = "none" /\ call'.alone /\ call'.fresh
  BY NoCallIsCall DEF pipeVars, deviceVars
<1>2. UsbTypes' /\ MachineTypes' /\ IsWhole(stored)'
  BY <1>1 DEF FrameInv, UsbTypes, MachineTypes, States
<1>3. CallLife' /\ CallerLife'
  BY <1>1 DEF FrameInv, CallLife, CallerLife
<1>4. InOrder'
  <2>1. Units' = Units /\ InHand' = <<>>
    BY <1>1 DEF Units, InHand
  <2>2. Units \in Seq(Nat) /\ taken \in Nat
    BY UnitsFacts DEF FrameInv, UsbTypes
  <2>3. Ascending(<<>>) /\ Before(pushed', <<>>) /\ Before(<<>>, Units) /\ UpTo(<<>>, taken)
    BY <2>2, EmptyOrder
  <2>. QED  BY <1>1, <2>1, <2>3 DEF FrameInv, InOrder
<1>5. Owed' = 0 /\ ~Asked' /\ ~Answered'
  BY <1>1 DEF Owed, Asked, Answered
<1>6. ASSUME ~broken  PROVE InStep' /\ Stock' /\ Number' /\ (~cut' => Whole')
  <2>1. InStep' /\ Number'
    BY <1>1, <1>5, <1>6 DEF FrameInv, InStep, Number
  <2>2. Stock'
    <3>1. taken' = cleaned' + Len(pushed') + Owed'
      BY <1>1, <1>2, <1>5, <1>6 DEF Resting, MachineTypes, UsbTypes
    <3>. QED  BY <1>1, <1>5, <1>6, <3>1 DEF Stock, Resting
  <2>3. ~cut' => Whole'
    <3>1. taken' - Owed' = taken
      BY <1>1, <1>2, <1>5 DEF UsbTypes
    <3>. QED  BY <1>1, <1>6, <3>1 DEF Whole
  <2>. QED  BY <2>1, <2>2, <2>3
<1>. QED  BY <1>1, <1>2, <1>3, <1>4, <1>6 DEF FrameInv

\* A call is made.
LEMMA AskKeeps ==
  ASSUME FrameInv, NEW who \in {"frame", "other"}, NEW cmd \in Command, SendCmd(who, cmd),
         call.at \in {"none", "ok"}, step' \in {"call", "num", "data"}, cleaned' \in Nat,
         UNCHANGED <<body, next_state, clean_leftover, pushed, cut>>,
         IF step' = "call" THEN body = "idle" /\ who = "other" /\ cmd.addr \in {"register", "scope"}
         ELSE body = "body" /\ who = "frame",
         step' = "num" => cmd.addr = "frame_num", step' = "data" => cmd.addr = "frames",
         step' # "call" /\ next_state = "CLEAN_LEFTOVER" => clean_leftover,
         Resting(next_state, pushed, cleaned'),
         ~broken /\ step' = "data" => cmd.size <= stored - taken,
         ~broken /\ ~cut =>
           /\ next_state # "NONE"
           /\ next_state # "CLEAN_LEFTOVER" \/ ~clean_leftover => IsWhole(taken)
           /\ next_state = "COLLECT" /\ step' = "data" => IsWhole(cmd.size) \/ cmd.size = BufferMax
  PROVE  FrameInv'
<1>1. UsbTypes' /\ CallLife' /\ Begun(who, cmd)
  <2>1. UsbTypes /\ CallLife
    BY DEF FrameInv
  <2>2. opened \/ (commands = <<>> /\ answers = <<>> /\ stream = <<>>)
    BY <2>1 DEF CallLife
  <2>. QED  BY <2>1, <2>2, SendCmdBegins
<1>2. /\ call'.at \in {"answer", "failed"} /\ call'.who = who /\ call'.cmd = cmd /\ call'.got = <<>>
      /\ call'.fresh /\ UNCHANGED <<opened, stored, taken>> /\ Units' = Units
  BY <1>1 DEF Begun
<1>3. MachineTypes' /\ CallerLife' /\ IsWhole(stored)'
  BY <1>2 DEF FrameInv, MachineTypes, CallerLife
<1>4. InOrder'
  <2>1. InHand' = <<>>
    BY <1>2 DEF InHand
  <2>2. Units \in Seq(Nat) /\ taken \in Nat /\ pushed \in Seq(Nat)
    BY UnitsFacts DEF FrameInv, UsbTypes, MachineTypes
  <2>3. Ascending(<<>>) /\ Before(pushed, <<>>) /\ Before(<<>>, Units) /\ UpTo(<<>>, taken)
    BY <2>2, EmptyOrder
  <2>. QED  BY <1>2, <2>1, <2>3 DEF FrameInv, InOrder
<1>5. ASSUME ~broken'  PROVE InStep' /\ Stock' /\ Number' /\ (~cut => Whole')
  <2>1. ~broken /\ (call'.at = "answer" <=> opened) /\ commands = <<>> /\ answers = <<>> /\ stream = <<>>
    BY <1>1, <1>5 DEF Begun, FrameInv, InStep
  <2>2. /\ call'.alone /\ answers' = <<>> /\ stream' = <<>>
        /\ commands' = IF opened THEN <<[cmd |-> cmd, old |-> FALSE]>> ELSE <<>>
    BY <1>1, <1>5, <2>1 DEF Begun
  <2>3. ~Answered' /\ Owed' = 0 /\ Len(stream') = 0 /\ DOMAIN stream' = {}
    BY <1>2, <2>2 DEF Answered, Owed
  <2>4. InStep'
    BY <1>2, <2>1, <2>2, <2>3 DEF InStep, Asked
  <2>5. Stock'
    <3>1. taken' = cleaned' + Len(pushed') + Owed'
      BY <1>1, <1>2, <1>3, <2>1, <2>3 DEF Resting, MachineTypes, UsbTypes
    <3>2. \A i \in 1 .. Len(stream') : FALSE
      BY <2>3
    <3>. QED  BY <1>2, <2>1, <2>3, <3>1, <3>2 DEF Stock, Resting
  <2>6. Number'
    BY <1>2, <2>3 DEF Number
  <2>7. ~cut => Whole'
    <3>1. taken' - Owed' = taken
      BY <1>1, <1>2, <2>3 DEF UsbTypes
    <3>. QED  BY <1>2, <2>1, <3>1 DEF Whole
  <2>. QED  BY <2>4, <2>5, <2>6, <2>7
<1>. QED  BY <1>1, <1>2, <1>3, <1>4, <1>5 DEF FrameInv

\* What the invariant says before the machine's next call, and of an answer it got.
LEMMA MachineFacts ==
  ASSUME FrameInv, body = "body"
  PROVE  /\ next_state \in States /\ step \in {"call", "num", "data"} /\ clean_leftover \in BOOLEAN
         /\ pushed \in Seq(Nat) /\ cut \in BOOLEAN /\ cleaned \in Nat
         /\ stored \in Nat /\ taken \in Nat /\ broken \in BOOLEAN /\ call.got \in Seq(Nat)
         /\ Ascending(pushed) /\ Before(pushed, Units) /\ UpTo(pushed, taken)
         /\ step = "call" => call.at = "none"
         /\ step # "data" \/ call.at = "failed" => Owed = 0 /\ taken - Owed = taken
         /\ step = "num" /\ Ok => /\ frame_num \in Nat
                                  /\ ~broken => frame_num <= stored - taken /\ IsWhole(frame_num + taken)
         /\ step # "call" /\ next_state = "CLEAN_LEFTOVER" => clean_leftover
         /\ ~broken /\ Owed = 0 => Resting(next_state, pushed, cleaned)
         /\ ~broken /\ ~cut =>
              /\ next_state # "NONE"
              /\ next_state # "CLEAN_LEFTOVER" \/ ~clean_leftover => IsWhole(taken - Owed)
<1>1. UsbTypes /\ MachineTypes /\ CallLife /\ CallerLife /\ InOrder
      /\ (~broken => InStep /\ Stock /\ Number) /\ (~broken /\ ~cut => Whole)
  BY DEF FrameInv
<1>2. /\ next_state \in States /\ step \in {"call", "num", "data"} /\ clean_leftover \in BOOLEAN
      /\ pushed \in Seq(Nat) /\ cut \in BOOLEAN /\ cleaned \in Nat
      /\ stored \in Nat /\ taken \in Nat /\ broken \in BOOLEAN /\ call.got \in Seq(Nat) /\ call.cmd \in Command
  BY <1>1 DEF UsbTypes, MachineTypes, Calls, States
<1>3. Ascending(pushed) /\ Before(pushed, Units) /\ UpTo(pushed, taken)
  BY <1>1 DEF InOrder
<1>4. /\ step = "call" => call.at = "none"
      /\ step # "call" /\ next_state = "CLEAN_LEFTOVER" => clean_leftover
  BY <1>1 DEF CallerLife
<1>5. step # "data" \/ call.at = "failed" => Owed = 0 /\ taken - Owed = taken
  BY <1>2 DEF Owed, Answered
<1>6. step = "num" /\ Ok => /\ frame_num \in Nat
                            /\ ~broken => frame_num <= stored - taken /\ IsWhole(frame_num + taken)
  <2>. SUFFICES ASSUME step = "num", Ok
                PROVE  frame_num \in Nat /\ (~broken => frame_num <= stored - taken /\ IsWhole(frame_num + taken))
    OBVIOUS
  <2>1. call.at = "ok" /\ frame_num = call.got[1]
    BY DEF Ok, frame_num
  <2>2. call.cmd.id = "RDEP1"
    BY <1>1, <1>2 DEF CallerLife, Command
  <2>3. Len(call.got) = 1
    BY <1>1, <2>1, <2>2 DEF CallLife
  <2>4. frame_num \in Nat
    BY <1>2, <2>1, <2>3
  <2>. QED  BY <1>1, <2>1, <2>4 DEF Number
<1>7. ~broken /\ Owed = 0 => Resting(next_state, pushed, cleaned)
  BY <1>1, <1>2 DEF Stock, Resting
<1>8. ~broken /\ ~cut =>
        /\ next_state # "NONE"
        /\ next_state # "CLEAN_LEFTOVER" \/ ~clean_leftover => IsWhole(taken - Owed)
  BY <1>1 DEF Whole
<1>. QED  BY <1>2, <1>3, <1>4, <1>5, <1>6, <1>7, <1>8

LEMMA CommandsAre ==
  /\ FrameNum \in Command /\ FrameNum.addr = "frame_num"
  /\ \A n \in Nat \ {0} : FrameData(n) \in Command /\ FrameData(n).addr = "frames" /\ FrameData(n).size = n
  /\ \A id \in {"RDEP1", "WREP1"} : Register(id) \in Command /\ Register(id).addr = "register"
  /\ ScopeData \in Command /\ ScopeData.addr = "scope"
BY DEF FrameNum, FrameData, Register, ScopeData, Command

LEMMA ReadSizeIs ==
  ASSUME frame_num \in Nat, frame_num > 0
  PROVE  ReadSize \in Nat \ {0} /\ ReadSize <= frame_num /\ (ReadSize = frame_num \/ ReadSize = BufferMax)
BY BufferAssumption DEF ReadSize

LEMMA AskFrameNumKeeps ==
  ASSUME FrameInv, AskFrameNum
  PROVE  FrameInv'
<1>1. /\ body = "body" /\ step = "call" /\ SendCmd("frame", FrameNum) /\ step' = "num"
      /\ next_state \in {"CHECK_COLLECT", "COLLECT"} \/ (next_state = "CLEAN_LEFTOVER" /\ clean_leftover)
      /\ UNCHANGED <<body, next_state, clean_leftover, pushed, cut, cleaned>>
  BY DEF AskFrameNum, In, Ask, loopVars, queueVars
<1>2. /\ call.at = "none" /\ Owed = 0 /\ taken - Owed = taken /\ cleaned \in Nat
      /\ Resting(next_state, pushed, cleaned) /\ broken \in BOOLEAN /\ clean_leftover \in BOOLEAN
      /\ ~broken /\ ~cut =>
              /\ next_state # "NONE"
              /\ next_state # "CLEAN_LEFTOVER" \/ ~clean_leftover => IsWhole(taken)
  BY <1>1, MachineFacts DEF Resting
<1>. QED  BY <1>1, <1>2, CommandsAre, AskKeeps

\* A read of no more frames than there are.
LEMMA ReadKeeps ==
  ASSUME FrameInv, Ok, step = "num", body = "body", frame_num > 0, Ask(FrameData(ReadSize), "data"),
         next_state = "COLLECT" => ~Misaligned
  PROVE  FrameInv'
<1>1. /\ SendCmd("frame", FrameData(ReadSize)) /\ step' = "data" /\ call.at = "ok"
      /\ UNCHANGED <<body, next_state, clean_leftover, pushed, cut, cleaned>>
  BY DEF Ask, Ok, loopVars, queueVars
<1>2. /\ Owed = 0 /\ taken - Owed = taken /\ cleaned \in Nat /\ frame_num \in Nat
      /\ taken \in Nat /\ stored \in Nat
      /\ Resting(next_state, pushed, cleaned) /\ (~broken => frame_num <= stored - taken)
      /\ next_state = "CLEAN_LEFTOVER" => clean_leftover
      /\ ~broken /\ ~cut =>
              /\ next_state # "NONE"
              /\ next_state # "CLEAN_LEFTOVER" \/ ~clean_leftover => IsWhole(taken)
  BY <1>1, MachineFacts DEF Resting
<1>3. /\ ReadSize \in Nat \ {0} /\ ReadSize <= frame_num
      /\ next_state = "COLLECT" => IsWhole(ReadSize) \/ ReadSize = BufferMax
  BY <1>2, ReadSizeIs DEF Misaligned, IsWhole
<1>4. ~broken => ReadSize <= stored - taken
  BY <1>2, <1>3
<1>. QED  BY <1>1, <1>2, <1>3, <1>4, CommandsAre, AskKeeps

\* A state that leaves the queue alone goes on to another.
LEMMA GoKeeps ==
  ASSUME FrameInv, body = "body", NEW state \in States, NEW loop_state, Go(state, loop_state),
         UNCHANGED <<clean_leftover, queueVars, cleaned>>,
         step = "call" \/ (step = "num" /\ Ok) \/ call.at = "failed",
         ~broken /\ opened => state # "CLEAN_LEFTOVER",
         ~broken /\ ~cut =>
           /\ state # "NONE"
           /\ state # "CLEAN_LEFTOVER" \/ ~clean_leftover => IsWhole(taken)
  PROVE  FrameInv'
<1>1. /\ step' = "call" /\ call' = NoCall /\ next_state' = state
      /\ UNCHANGED <<opened, pipeVars, deviceVars, faults, broken>>
      /\ UNCHANGED <<clean_leftover, cleaned>> /\ pushed' = pushed /\ cut' = cut
  BY DEF Go, queueVars
<1>2. /\ call.at \in {"none", "ok", "failed"} /\ pushed \in Seq(Nat) /\ cut \in BOOLEAN
      /\ Ascending(pushed) /\ Before(pushed, Units) /\ UpTo(pushed, taken)
      /\ Resting(next_state, pushed, cleaned)
  BY MachineFacts DEF Ok, Resting
<1>3. Resting(state, pushed, cleaned)
  BY <1>2 DEF Resting
<1>. QED  BY <1>1, <1>2, <1>3, RestKeeps

LEMMA DoCleanLeftoverKeeps ==
  ASSUME FrameInv, DoCleanLeftover
  PROVE  FrameInv'
<1>1. CASE /\ \/ In("CLEAN_LEFTOVER", "call") /\ ~clean_leftover
              \/ In("CLEAN_LEFTOVER", "num") /\ Ok /\ frame_num = 0
           /\ Go("CHECK_COLLECT", "IMMEDIATE")
           /\ UNCHANGED <<clean_leftover, queueVars, cleaned>>
  <2>1. body = "body" /\ (step = "call" \/ (step = "num" /\ Ok)) /\ "CHECK_COLLECT" \in States
    BY <1>1 DEF In, States
  <2>2. ~broken /\ ~cut => IsWhole(taken)
    <3>1. CASE In("CLEAN_LEFTOVER", "call") /\ ~clean_leftover
      BY <2>1, <3>1, MachineFacts DEF In
    <3>2. CASE In("CLEAN_LEFTOVER", "num") /\ Ok /\ frame_num = 0
      <4>1. taken \in Nat /\ (~broken => IsWhole(0 + taken))
        BY <2>1, <3>2, MachineFacts DEF In
      <4>. QED  BY <4>1
    <3>. QED  BY <1>1, <3>1, <3>2
  <2>. QED  BY <1>1, <2>1, <2>2, GoKeeps
<1>2. CASE In("CLEAN_LEFTOVER", "num") /\ Ok /\ frame_num > 0 /\ Ask(FrameData(ReadSize), "data")
  BY <1>2, ReadKeeps DEF In
<1>3. CASE /\ In("CLEAN_LEFTOVER", "data") /\ Ok
           /\ SendCmd("frame", FrameNum) /\ step' = "num"
           /\ cleaned' = cleaned + Len(call.got)
           /\ UNCHANGED <<loopVars, next_state, clean_leftover, queueVars>>
  <2>1. /\ body = "body" /\ step = "data" /\ next_state = "CLEAN_LEFTOVER" /\ call.at = "ok"
        /\ UNCHANGED <<body, next_state, clean_leftover, pushed, cut>>
    BY <1>3 DEF In, Ok, loopVars, queueVars
  <2>2. UsbTypes /\ MachineTypes /\ CallLife /\ CallerLife /\ (~broken => Stock)
    BY DEF FrameInv
  <2>3. /\ Len(call.got) = call.cmd.size /\ Owed = call.cmd.size /\ opened /\ clean_leftover
        /\ call.got \in Seq(Nat) /\ cleaned \in Nat /\ pushed \in Seq(Nat)
    BY <2>1, <2>2 DEF UsbTypes, MachineTypes, CallLife, CallerLife, Calls, Command, Owed
  <2>4. cleaned' \in Nat
    BY <1>3, <2>3
  <2>5. Resting(next_state, pushed, cleaned')
    <3>. SUFFICES ASSUME ~broken
                  PROVE  taken = cleaned' + Len(pushed) /\ pushed = <<>>
      BY DEF Resting
    <3>1. taken = cleaned + Len(pushed) + Len(call.got) /\ pushed = <<>>
      BY <2>1, <2>2, <2>3 DEF Stock
    <3>2. Len(pushed) \in Nat /\ Len(call.got) \in Nat
      BY <2>3
    <3>. QED  BY <1>3, <2>3, <3>1, <3>2
  <2>. QED  BY <1>3, <2>1, <2>3, <2>4, <2>5, CommandsAre, AskKeeps
<1>. QED  BY <1>1, <1>2, <1>3 DEF DoCleanLeftover

\* Of whole frames, whole frames are left.
LEMMA NoAlignedKeeps ==
  ASSUME FrameInv, NoAligned
  PROVE  FrameInv'
<1>1. /\ body = "body" /\ step = "num" /\ Ok /\ Misaligned /\ next_state \in {"CHECK_COLLECT", "COLLECT"}
      /\ Go("NONE", "STOP") /\ UNCHANGED <<clean_leftover, queueVars, cleaned>> /\ "NONE" \in States
  BY DEF NoAligned, In, States
<1>2. ASSUME ~broken, ~cut  PROVE FALSE
  <2>1. frame_num \in Nat /\ taken \in Nat /\ IsWhole(frame_num + taken) /\ IsWhole(taken)
    BY <1>1, <1>2, MachineFacts
  <2>2. taken + frame_num = frame_num + taken
    BY <2>1
  <2>3. IsWhole(frame_num)
    BY <2>1, <2>2, WholeSum
  <2>. QED  BY <1>1, <2>3 DEF Misaligned, IsWhole
<1>. QED  BY <1>1, <1>2, GoKeeps

LEMMA DoCheckCollectKeeps ==
  ASSUME FrameInv, DoCheckCollect
  PROVE  FrameInv'
<1>1. body = "body" /\ step = "num" /\ Ok /\ next_state = "CHECK_COLLECT"
      /\ UNCHANGED <<clean_leftover, queueVars, cleaned>> /\ {"WAIT_FULL", "COLLECT"} \subseteq States
      /\ (Go("WAIT_FULL", "NEXT_LOOP") \/ Go("COLLECT", "IMMEDIATE"))
  BY DEF DoCheckCollect, In, States
<1>2. ~broken /\ ~cut => IsWhole(taken)
  BY <1>1, MachineFacts
<1>. QED  BY <1>1, <1>2, GoKeeps

LEMMA DoWaitFullKeeps ==
  ASSUME FrameInv, DoWaitFull
  PROVE  FrameInv'
<1>1. body = "body" /\ step = "call" /\ next_state = "WAIT_FULL"
      /\ UNCHANGED <<clean_leftover, queueVars, cleaned>> /\ "COLLECT" \in States
      /\ Go("COLLECT", "IMMEDIATE")
  BY DEF DoWaitFull, In, States
<1>2. ~broken /\ ~cut => IsWhole(taken)
  BY <1>1, MachineFacts
<1>. QED  BY <1>1, <1>2, GoKeeps

LEMMA DeviceOffineKeeps ==
  ASSUME FrameInv, DeviceOffine
  PROVE  FrameInv'
<1>1. body = "body" /\ call.at = "failed" /\ "CLEAN_LEFTOVER" \in States
      /\ Go("CLEAN_LEFTOVER", "STOP") /\ UNCHANGED <<clean_leftover, queueVars, cleaned>>
  BY DEF DeviceOffine, States
<1>2. ~broken /\ ~cut => (~clean_leftover => IsWhole(taken))
  BY <1>1, MachineFacts
<1>3. ~broken => ~opened
  BY <1>1 DEF FrameInv, InStep
<1>. QED  BY <1>1, <1>2, <1>3, GoKeeps

LEMMA PushBulkKeeps ==
  ASSUME FrameInv, PushBulk
  PROVE  FrameInv'
<1>1. /\ body = "body" /\ step = "data" /\ next_state = "COLLECT" /\ call.at = "ok"
      /\ pushed' = pushed \o call.got /\ cut' = (cut \/ Len(call.got) = BufferMax)
      /\ step' = "call" /\ call' = NoCall /\ next_state' = "CHECK_COLLECT"
      /\ UNCHANGED <<opened, pipeVars, deviceVars, faults, broken>> /\ UNCHANGED <<clean_leftover, cleaned>>
  BY DEF PushBulk, In, Ok, Go
<1>2. UsbTypes /\ MachineTypes /\ CallLife /\ CallerLife /\ InOrder
      /\ (~broken => Stock) /\ (~broken /\ ~cut => Whole)
  BY DEF FrameInv
<1>3. /\ call.got \in Seq(Nat) /\ cleaned \in Nat /\ pushed \in Seq(Nat) /\ cut \in BOOLEAN
      /\ taken \in Nat /\ call.cmd \in Command /\ Units \in Seq(Nat)
  BY <1>2, UnitsFacts DEF UsbTypes, MachineTypes, Calls
<1>4. /\ call.cmd.id = "RDEP3" /\ Len(call.got) = call.cmd.size /\ Owed = call.cmd.size
      /\ InHand = call.got
  BY <1>1, <1>2, <1>3 DEF CallLife, CallerLife, Command, Owed, InHand
<1>5. pushed' \in Seq(Nat) /\ Ascending(pushed') /\ Before(pushed', Units) /\ UpTo(pushed', taken)
  <2>1. /\ Ascending(pushed) /\ Ascending(call.got) /\ Before(pushed, call.got)
        /\ Before(pushed, Units) /\ Before(call.got, Units) /\ UpTo(pushed, taken) /\ UpTo(call.got, taken)
    BY <1>2, <1>4 DEF InOrder
  <2>2. pushed' \in Seq(Nat) /\ Ascending(pushed')
    BY <1>1, <1>3, <2>1, JoinOrder, JoinIs
  <2>3. Before(pushed', Units) /\ UpTo(pushed', taken)
    BY <1>1, <1>3, <2>1, JoinBefore
  <2>. QED  BY <2>2, <2>3
<1>6. Resting(next_state', pushed', cleaned)
  <2>. SUFFICES ASSUME ~broken
                PROVE  /\ taken = cleaned + Len(pushed')
                       /\ \A i \in 1 .. Len(pushed') : pushed'[i] = cleaned + i
    BY <1>1 DEF Resting
  <2>1. /\ taken = cleaned + Len(pushed) + Len(call.got)
        /\ \A i \in 1 .. Len(pushed) : pushed[i] = cleaned + i
        /\ \A i \in 1 .. Len(call.got) : call.got[i] = taken - Len(call.got) + i
    BY <1>1, <1>2, <1>4 DEF Stock
  <2>2. /\ Len(pushed') = Len(pushed) + Len(call.got) /\ Len(pushed) \in Nat /\ Len(call.got) \in Nat
        /\ \A i \in 1 .. Len(pushed) + Len(call.got) :
             pushed'[i] = IF i <= Len(pushed) THEN pushed[i] ELSE call.got[i - Len(pushed)]
    BY <1>1, <1>3, JoinIs
  <2>3. ASSUME NEW i \in 1 .. Len(pushed) + Len(call.got)  PROVE pushed'[i] = cleaned + i
    <3>1. CASE i <= Len(pushed)
      BY <2>1, <2>2, <3>1
    <3>2. CASE i > Len(pushed)
      <4>1. i - Len(pushed) \in 1 .. Len(call.got)
        BY <2>2, <3>2
      <4>2. pushed'[i] = taken - Len(call.got) + (i - Len(pushed))
        BY <2>1, <2>2, <3>2, <4>1
      <4>3. taken - Len(call.got) + (i - Len(pushed)) = cleaned + i
        BY <1>3, <2>1, <2>2
      <4>. QED  BY <4>2, <4>3
    <3>. QED  BY <2>2, <3>1, <3>2
  <2>4. taken = cleaned + Len(pushed')
    <3>1. \A a, b, c \in Nat : a + b + c = a + (b + c)
      OBVIOUS
    <3>2. cleaned \in Nat /\ Len(pushed) \in Nat /\ Len(call.got) \in Nat
      BY <1>3
    <3>3. taken = cleaned + Len(pushed) + Len(call.got)
      BY <2>1
    <3>4. Len(pushed') = Len(pushed) + Len(call.got)
      BY <2>2
    <3>5. taken = cleaned + (Len(pushed) + Len(call.got))
      BY <3>1, <3>2, <3>3
    <3>. QED  BY <3>4, <3>5
  <2>5. \A i \in 1 .. Len(pushed') : pushed'[i] = cleaned + i
    BY <2>2, <2>3
  <2>. QED  BY <2>4, <2>5
<1>7. ASSUME ~broken, ~cut'  PROVE IsWhole(taken)
  <2>1. ~cut /\ call.cmd.size # BufferMax
    BY <1>1, <1>4, <1>7
  <2>2. IsWhole(taken - call.cmd.size) /\ IsWhole(call.cmd.size)
    BY <1>1, <1>2, <1>4, <1>7, <2>1 DEF Whole
  <2>3. taken = cleaned + Len(pushed) + call.cmd.size /\ call.cmd.size \in Nat /\ Len(pushed) \in Nat
    BY <1>2, <1>3, <1>4, <1>7 DEF Stock, Command
  <2>4. taken - call.cmd.size \in Nat /\ call.cmd.size + (taken - call.cmd.size) = taken
    BY <1>3, <2>3
  <2>5. \A a, b \in Nat : IsWhole(a) /\ IsWhole(b) => IsWhole(a + b)
    BY WholeSum
  <2>. QED  BY <2>2, <2>3, <2>4, <2>5
<1>8. cut' \in BOOLEAN /\ next_state' \in States
  BY <1>1, <1>3 DEF States
<1>. QED  BY <1>1, <1>5, <1>6, <1>7, <1>8, RestKeeps

LEMMA DoCollectKeeps ==
  ASSUME FrameInv, DoCollect
  PROVE  FrameInv'
<1>1. CASE StillNoData
  <2>1. body = "body" /\ step = "num" /\ Ok /\ next_state = "COLLECT"
        /\ UNCHANGED <<clean_leftover, queueVars, cleaned>> /\ "CHECK_COLLECT" \in States
        /\ Go("CHECK_COLLECT", "NEXT_LOOP")
    BY <1>1 DEF StillNoData, In, States
  <2>2. ~broken /\ ~cut => IsWhole(taken)
    BY <2>1, MachineFacts
  <2>. QED  BY <2>1, <2>2, GoKeeps
<1>2. CASE ReadFrameData
  BY <1>2, ReadKeeps DEF ReadFrameData, In
<1>. QED  BY <1>1, <1>2, PushBulkKeeps DEF DoCollect

LEMMA OtherCallKeeps ==
  ASSUME FrameInv, OtherCall
  PROVE  FrameInv'
<1>1. PICK cmd \in {Register("RDEP1"), Register("WREP1"), ScopeData} : SendCmd("other", cmd)
  BY DEF OtherCall
<1>2. cmd \in Command /\ cmd.addr \in {"register", "scope"}
  BY CommandsAre
<1>3. /\ body = "idle" /\ call.at = "none" /\ UNCHANGED <<body, next_state, step, clean_leftover, pushed, cut, cleaned>>
  BY DEF OtherCall, loopVars, machineVars, queueVars
<1>4. UsbTypes /\ MachineTypes /\ CallerLife /\ (~broken => Stock) /\ (~broken /\ ~cut => Whole)
  BY DEF FrameInv
<1>5. step = "call" /\ cleaned \in Nat /\ taken \in Nat /\ pushed \in Seq(Nat)
  BY <1>3, <1>4 DEF CallerLife, MachineTypes, UsbTypes
<1>6. Owed = 0 /\ taken - Owed = taken
  BY <1>5 DEF Owed
<1>7. Resting(next_state, pushed, cleaned)
  BY <1>4, <1>5, <1>6 DEF Stock, Resting
<1>8. ~broken /\ ~cut =>
        /\ next_state # "NONE"
        /\ next_state # "CLEAN_LEFTOVER" \/ ~clean_leftover => IsWhole(taken)
  BY <1>4, <1>6 DEF Whole
<1>. QED  BY <1>1, <1>2, <1>3, <1>5, <1>7, <1>8, AskKeeps

LEMMA OtherReturnKeeps ==
  ASSUME FrameInv, OtherReturn
  PROVE  FrameInv'
<1>1. /\ call.at \in {"ok", "failed"} /\ call.who = "other" /\ call' = NoCall
      /\ UNCHANGED <<opened, pipeVars, deviceVars, faults, broken>>
      /\ UNCHANGED <<next_state, step, clean_leftover, pushed, cut, cleaned>>
  BY DEF OtherReturn, machineVars, queueVars
<1>2. UsbTypes /\ MachineTypes /\ CallerLife /\ InOrder /\ (~broken => Stock) /\ (~broken /\ ~cut => Whole)
  BY DEF FrameInv
<1>3. /\ step = "call" /\ cleaned \in Nat /\ taken \in Nat /\ pushed \in Seq(Nat) /\ cut \in BOOLEAN
      /\ next_state \in States
  BY <1>1, <1>2 DEF CallerLife, MachineTypes, UsbTypes, States
<1>4. Owed = 0 /\ taken - Owed = taken
  BY <1>3 DEF Owed
<1>5. Resting(next_state, pushed, cleaned)
  BY <1>2, <1>3, <1>4 DEF Stock, Resting
<1>6. ~broken /\ ~cut =>
        /\ next_state # "NONE"
        /\ next_state # "CLEAN_LEFTOVER" \/ ~clean_leftover => IsWhole(taken)
  BY <1>2, <1>4 DEF Whole
<1>7. Ascending(pushed) /\ Before(pushed, Units) /\ UpTo(pushed, taken)
  BY <1>2 DEF InOrder
<1>. QED  BY <1>1, <1>3, <1>5, <1>6, <1>7, RestKeeps

LEMMA CloseKeeps ==
  ASSUME FrameInv, Close
  PROVE  FrameInv'
<1>1. /\ call.at = "none" /\ body = "idle" /\ ~opened' /\ commands' = <<>> /\ answers' = <<>> /\ stream' = <<>>
      /\ UNCHANGED <<call, stored, taken, faults, broken, body, next_state, step, clean_leftover>>
      /\ UNCHANGED <<pushed, cut, cleaned>> /\ opened' \in BOOLEAN
  BY DEF Close, CloseDevice, deviceVars, machineVars, queueVars
<1>2. UsbTypes /\ MachineTypes /\ CallLife /\ CallerLife /\ InOrder /\ IsWhole(stored)
      /\ (~broken => InStep /\ Stock /\ Number) /\ (~broken /\ ~cut => Whole)
  BY DEF FrameInv
<1>3. UsbTypes' /\ MachineTypes' /\ CallLife' /\ CallerLife' /\ IsWhole(stored)'
  BY <1>1, <1>2 DEF UsbTypes, MachineTypes, CallLife, CallerLife
<1>4. step = "call" /\ Owed = 0 /\ Owed' = 0 /\ ~Asked' /\ ~Answered'
  BY <1>1, <1>2 DEF CallerLife, Owed, Asked, Answered
<1>5. InOrder'
  <2>1. Units' = <<>> /\ InHand' = InHand /\ InHand = <<>>
    <3>1. DOMAIN stream' = {}
      BY <1>1
    <3>2. Units' = [i \in {} |-> stream'[i].unit] /\ <<>> = [i \in {} |-> stream'[i].unit]
      BY <3>1 DEF Units
    <3>. QED  BY <1>1, <3>2 DEF InHand
  <2>2. taken \in Nat /\ pushed \in Seq(Nat) /\ <<>> \in Seq(Nat)
    BY <1>2 DEF UsbTypes, MachineTypes
  <2>3. /\ Ascending(<<>>) /\ Before(pushed, <<>>) /\ Before(<<>>, <<>>) /\ UpTo(<<>>, taken)
        /\ Ascending(pushed) /\ UpTo(pushed, taken)
    BY <1>2, <2>2, EmptyOrder DEF InOrder
  <2>. QED  BY <1>1, <2>1, <2>3 DEF InOrder
<1>6. ASSUME ~broken  PROVE InStep' /\ Stock' /\ Number' /\ (~cut => Whole')
  <2>1. InStep'
    BY <1>1, <1>2, <1>6 DEF InStep
  <2>2. Stock' /\ Number'
    BY <1>1, <1>2, <1>4, <1>6 DEF Stock, Number
  <2>3. ~cut => Whole'
    BY <1>1, <1>2, <1>4, <1>6 DEF Whole
  <2>. QED  BY <2>1, <2>2, <2>3
<1>. QED  BY <1>1, <1>3, <1>5, <1>6 DEF FrameInv

\* Steps that leave the port and the machine alone.
LEMMA LoopKeeps ==
  ASSUME FrameInv, UNCHANGED <<usbVars, machineVars>>,
         body' = body \/ (call.at = "none" /\ body # "body")
  PROVE  FrameInv'
<1>1. /\ UNCHANGED <<opened, commands, answers, stream, call, stored, taken, faults, broken>>
      /\ UNCHANGED <<next_state, step, clean_leftover, pushed, cut, cleaned>>
  BY DEF usbVars, pipeVars, deviceVars, machineVars, queueVars
<1>2. CallerLife'
  BY <1>1 DEF FrameInv, CallerLife
<1>3. Units' = Units /\ InHand' = InHand /\ Owed' = Owed /\ Asked' = Asked /\ Answered' = Answered
  BY <1>1 DEF Units, InHand, Owed, Asked, Answered
<1>4. UsbTypes' /\ MachineTypes' /\ CallLife' /\ InOrder' /\ IsWhole(stored)'
  BY <1>1, <1>3 DEF FrameInv, UsbTypes, MachineTypes, CallLife, InOrder
<1>5. ASSUME ~broken  PROVE InStep' /\ Stock' /\ Number' /\ (~cut => Whole')
  BY <1>1, <1>3, <1>5 DEF FrameInv, InStep, Stock, Number, Whole
<1>. QED  BY <1>1, <1>2, <1>4, <1>5 DEF FrameInv

LEMMA LoopStepKeepsFrames ==
  ASSUME FrameInv, LoopStep
  PROVE  FrameInv'
<1>1. body' = body \/ (call.at = "none" /\ body # "body")
  BY DEF LoopStep, LoopFrame, Request, Start, Single, Stop, Post, Accept, Enter, OnStateChanged, Leave, Repost
<1>. QED  BY <1>1, LoopKeeps DEF LoopStep

-----------------------------------------------------------------------------

LEMMA FrameInit_Inv ==
  ASSUME FrameInit
  PROVE  FrameInv
<1>1. /\ opened = TRUE /\ commands = <<>> /\ answers = <<>> /\ stream = <<>>
      /\ call = NoCall /\ faults = 0 /\ broken = FALSE /\ taken = 0
      /\ next_state = "CLEAN_LEFTOVER" /\ step = "call" /\ body = "idle"
      /\ clean_leftover \in BOOLEAN /\ cleaned = 0 /\ pushed = <<>> /\ cut = FALSE
  BY DEF FrameInit, UsbInit, LoopInit
<1>2. stored \in Nat /\ IsWhole(stored) /\ IsWhole(0)
  BY UsbAssumption, WholeFrame DEF FrameInit, UsbInit, IsWhole
<1>3. NoCall \in Calls /\ call.at = "none" /\ call.alone /\ call.fresh
  BY <1>1, NoCallIsCall
<1>4. UsbTypes /\ MachineTypes /\ CallLife /\ CallerLife
  <2>1. commands \in Seq(Sent) /\ answers \in Seq(Answer) /\ stream \in Seq(Unit) /\ pushed \in Seq(Nat)
    BY <1>1
  <2>2. opened \in BOOLEAN /\ broken \in BOOLEAN /\ call \in Calls
    BY <1>1, <1>3
  <2>3. faults \in Nat /\ taken \in Nat /\ taken <= stored
    BY <1>1, <1>2
  <2>4. UsbTypes
    BY <1>2, <2>1, <2>2, <2>3 DEF UsbTypes
  <2>5. MachineTypes
    BY <1>1, <2>1 DEF MachineTypes
  <2>. QED  BY <1>1, <1>3, <2>4, <2>5 DEF CallLife, CallerLife
<1>5. Owed = 0 /\ ~Asked /\ ~Answered /\ InHand = <<>>
  BY <1>1, <1>3 DEF Owed, Asked, Answered, InHand
<1>6. InOrder
  <2>1. Units \in Seq(Nat) /\ Len(Units) = 0
    BY <1>1, UnitsFacts, EmptySeq DEF UsbTypes
  <2>2. Units = <<>>
    BY <2>1
  <2>3. <<>> \in Seq(Nat) /\ 0 \in Nat
    OBVIOUS
  <2>4. Ascending(<<>>) /\ Before(<<>>, <<>>) /\ UpTo(<<>>, 0)
    BY <2>3, EmptyOrder
  <2>. QED  BY <1>1, <1>5, <2>2, <2>4 DEF InOrder
<1>7. InStep /\ Stock /\ Number /\ Whole
  BY <1>1, <1>2, <1>3, <1>5 DEF InStep, Stock, Number, Whole
<1>. QED  BY <1>2, <1>4, <1>6, <1>7 DEF FrameInv

\* The invariant: until a transfer fails, calls and answers are in step, and what
\* was sent was cleaned, pushed, or is on its way; whatever fails, units come in order.
THEOREM FramesInStep == FrameSpec => []FrameInv
<1>1. FrameInit => FrameInv
  BY FrameInit_Inv
<1>2. FrameInv /\ [FrameNext]_frameVars => FrameInv'
  <2>. SUFFICES ASSUME FrameInv, [FrameNext]_frameVars  PROVE FrameInv'
    OBVIOUS
  <2>1. CASE LoopStep
    BY <2>1, LoopStepKeepsFrames
  <2>2. CASE OnLoopRun
    BY <2>2, AskFrameNumKeeps, DoCleanLeftoverKeeps, NoAlignedKeeps, DoCheckCollectKeeps, DoWaitFullKeeps,
       DoCollectKeeps, DeviceOffineKeeps DEF OnLoopRun
  <2>3. CASE PortStep
    <3>1. PortOnly
      BY <2>3 DEF PortStep, PortOnly, loopVars
    <3>. QED  BY <2>3, <3>1, HandleCommandKeeps, StoreFrameKeeps, ReadResponseKeeps, ReadEP3Keeps DEF PortStep
  <2>4. CASE OtherCall \/ OtherReturn \/ Close
    BY <2>4, OtherCallKeeps, OtherReturnKeeps, CloseKeeps
  <2>5. CASE UNCHANGED frameVars
    BY <2>5, LoopKeeps DEF frameVars, loopVars
  <2>. QED  BY <2>1, <2>2, <2>3, <2>4, <2>5 DEF FrameNext
<1>. QED  BY <1>1, <1>2, PTL DEF FrameSpec

\* Nothing in the pipe is of an earlier call.
None(pipe) == \A i \in DOMAIN pipe : ~pipe[i].old

\* Whatever failed before, a call that began with empty pipes reads what is its own.
OwnPipes ==
  call.alone /\ call.at \in {"answer", "data", "ok"} =>
    call.fresh /\ None(commands) /\ None(answers) /\ None(stream)

\* All of an earlier call is taken from the front, and what is added is not.
LEMMA TailIsOwn ==
  ASSUME NEW T, NEW pipe \in Seq(T), pipe # <<>>, None(pipe)
  PROVE  None(Tail(pipe)) /\ ~Head(pipe).old
<1>1. /\ Len(pipe) > 0 /\ DOMAIN pipe = 1 .. Len(pipe) /\ Head(pipe) = pipe[1]
      /\ DOMAIN Tail(pipe) = 1 .. Len(pipe) - 1
      /\ \A i \in 1 .. Len(pipe) - 1 : Tail(pipe)[i] = pipe[i + 1] /\ i + 1 \in 1 .. Len(pipe)
  OBVIOUS
<1>. QED  BY <1>1 DEF None

LEMMA JoinIsOwn ==
  ASSUME NEW T, NEW s \in Seq(T), NEW t \in Seq(T), None(s), None(t)
  PROVE  None(s \o t)
<1>1. /\ DOMAIN s = 1 .. Len(s) /\ DOMAIN t = 1 .. Len(t)
      /\ DOMAIN (s \o t) = 1 .. Len(s) + Len(t)
      /\ \A i \in 1 .. Len(s) : (s \o t)[i] = s[i]
      /\ \A i \in Len(s) + 1 .. Len(s) + Len(t) : (s \o t)[i] = t[i - Len(s)]
  OBVIOUS
<1>2. \A i \in Len(s) + 1 .. Len(s) + Len(t) : i - Len(s) \in 1 .. Len(t)
  OBVIOUS
<1>3. \A i \in 1 .. Len(s) + Len(t) : i \in 1 .. Len(s) \/ i \in Len(s) + 1 .. Len(s) + Len(t)
  OBVIOUS
<1>. QED  BY <1>1, <1>2, <1>3 DEF None

LEMMA SendCmdOwns ==
  ASSUME UsbTypes, NEW who \in {"frame", "other"}, NEW cmd \in Command, SendCmd(who, cmd)
  PROVE  OwnPipes'
<1>. DEFINE empty == commands = <<>> /\ answers = <<>> /\ stream = <<>>
            at(s) == [NoCall EXCEPT !.at = s, !.who = who, !.cmd = cmd, !.alone = empty]
            mine == [cmd |-> cmd, old |-> FALSE]
<1>1. /\ answers' = Outdated(answers) /\ stream' = Outdated(stream)
      /\ \/ call' = at("answer") /\ commands' = Append(Outdated(commands), mine)
         \/ call' = at("failed")
  BY DEF SendCmd
<1>2. ASSUME NEW s \in {"answer", "failed"}
      PROVE  at(s).at = s /\ at(s).fresh /\ at(s).alone = empty
  BY NoCallIsCall DEF NoCall, Calls
<1>. HIDE DEF at
<1>3. CASE call' = at("failed")
  BY <1>2, <1>3 DEF OwnPipes
<1>4. CASE call' = at("answer") /\ commands' = Append(Outdated(commands), mine)
  <2>1. SUFFICES ASSUME empty  PROVE call'.fresh /\ None(commands') /\ None(answers') /\ None(stream')
    BY <1>2, <1>4 DEF OwnPipes
  <2>2. Outdated(<<>>) = <<>>
    BY DEF Outdated
  <2>3. commands' = <<mine>> /\ answers' = <<>> /\ stream' = <<>>
    <3>1. Append(<<>>, mine) = <<mine>>
      OBVIOUS
    <3>2. Outdated(commands) = <<>> /\ Outdated(answers) = <<>> /\ Outdated(stream) = <<>>
      BY <2>1, <2>2
    <3>. HIDE DEF mine
    <3>. QED  BY <1>1, <1>4, <3>1, <3>2
  <2>4. None(<<mine>>) /\ None(<<>>)
    BY DEF None
  <2>. QED  BY <1>2, <1>4, <2>3, <2>4
<1>. QED  BY <1>1, <1>3, <1>4

LEMMA ReadOwns ==
  ASSUME UsbTypes, OwnPipes, ReadResponse \/ ReadEP3
  PROVE  OwnPipes'
<1>1. answers \in Seq(Answer) /\ stream \in Seq(Unit) /\ call \in Calls
  BY DEF UsbTypes
<1>2. call.at \in {"answer", "data"} /\ commands' = commands
  BY DEF ReadResponse, ReadEP3
<1>3. CASE call'.at = "failed"
  BY <1>3 DEF OwnPipes
<1>4. CASE call'.at # "failed" /\ ReadResponse
  <2>1. /\ answers # <<>> /\ answers' = Tail(answers) /\ stream' = stream
        /\ call'.alone = call.alone /\ call'.fresh = (call.fresh /\ ~Head(answers).old)
    BY <1>1, <1>4 DEF ReadResponse, Calls
  <2>. QED  BY <1>1, <1>2, <2>1, TailIsOwn DEF OwnPipes
<1>5. CASE call'.at # "failed" /\ ReadEP3
  <2>1. /\ stream # <<>> /\ stream' = Tail(stream) /\ answers' = answers
        /\ call'.alone = call.alone /\ call'.fresh = (call.fresh /\ ~Head(stream).old)
    BY <1>1, <1>5 DEF ReadEP3, Calls
  <2>. QED  BY <1>1, <1>2, <2>1, TailIsOwn DEF OwnPipes
<1>. QED  BY <1>3, <1>4, <1>5

LEMMA HandleCommandOwns ==
  ASSUME UsbTypes, OwnPipes, HandleCommand
  PROVE  OwnPipes'
<1>. DEFINE c == Head(commands)
            n == IF c.cmd.addr # "frames" THEN 0
                 ELSE IF c.cmd.size < stored - taken THEN c.cmd.size ELSE stored - taken
            unit(u) == [unit |-> u, old |-> c.old]
            a == [cmd |-> c.cmd, old |-> c.old,
                  value |-> IF c.cmd.addr = "frame_num" THEN stored - taken ELSE 0]
            sent == IF c.cmd.addr = "scope" THEN <<unit(Sample)>> ELSE [i \in 1 .. n |-> unit(taken + i)]
<1>1. /\ commands # <<>> /\ commands' = Tail(commands) /\ answers' = Append(answers, a)
      /\ stream' = stream \o sent /\ call' = call
  BY DEF HandleCommand
<1>2. /\ commands \in Seq(Sent) /\ answers \in Seq(Answer) /\ stream \in Seq(Unit)
      /\ stored \in Nat /\ taken \in Nat /\ taken <= stored
  BY DEF UsbTypes
<1>3. c \in Sent /\ c.cmd \in Command /\ c.old \in BOOLEAN
  <2>1. c \in Sent
    BY <1>1, <1>2
  <2>. QED  BY <2>1 DEF Sent
<1>4. n \in Nat
  BY <1>2, <1>3 DEF Command
<1>5. a \in Answer
  BY <1>2, <1>3 DEF Answer
<1>. HIDE DEF c, n
<1>6. sent \in Seq(Unit)
  <2>1. \A u \in Nat : unit(u) \in Unit
    BY <1>3 DEF Unit
  <2>2. Sample \in Nat /\ \A i \in 1 .. n : taken + i \in Nat
    BY <1>2, <1>4 DEF Sample
  <2>. HIDE DEF unit
  <2>. QED  BY <1>4, <2>1, <2>2
<1>7. ASSUME ~c.old  PROVE None(<<a>>) /\ None(sent)
  <2>1. \A i \in DOMAIN sent : sent[i].old = c.old
    <3>1. \A u : unit(u).old = c.old
      OBVIOUS
    <3>2. CASE c.cmd.addr = "scope"
      <4>1. sent = <<unit(Sample)>>
        BY <3>2
      <4>2. DOMAIN sent = {1} /\ sent[1] = unit(Sample)
        BY <4>1
      <4>. QED  BY <3>1, <4>2
    <3>3. CASE c.cmd.addr # "scope"
      <4>1. sent = [i \in 1 .. n |-> unit(taken + i)]
        BY <3>3
      <4>2. \A i \in DOMAIN sent : sent[i] = unit(taken + i)
        BY <4>1
      <4>. QED  BY <3>1, <4>2
    <3>. QED  BY <3>2, <3>3
  <2>2. a.old = c.old /\ DOMAIN <<a>> = {1} /\ <<a>>[1] = a
    OBVIOUS
  <2>. QED  BY <1>7, <2>1, <2>2 DEF None
<1>. HIDE DEF a, sent
<1>8. answers' = answers \o <<a>> /\ <<a>> \in Seq(Answer)
  BY <1>1, <1>2, <1>5, AppendIsConcat
<1>9. ASSUME call.alone, call.at \in {"answer", "data", "ok"}
      PROVE  call.fresh /\ None(commands') /\ None(answers') /\ None(stream')
  <2>1. call.fresh /\ None(commands) /\ None(answers) /\ None(stream)
    BY <1>9 DEF OwnPipes
  <2>2. None(commands') /\ ~c.old
    BY <1>1, <1>2, <2>1, TailIsOwn DEF c
  <2>3. None(answers') /\ None(stream')
    BY <1>1, <1>2, <1>6, <1>7, <1>8, <2>1, <2>2, JoinIsOwn
  <2>. QED  BY <2>1, <2>2, <2>3
<1>. QED  BY <1>1, <1>9 DEF OwnPipes

\* Steps that begin no call.
LEMMA RestOwns ==
  ASSUME OwnPipes, call' = NoCall \/ call'.at = "none" \/ UNCHANGED <<call, pipeVars>>
  PROVE  OwnPipes'
<1>1. CASE UNCHANGED <<call, pipeVars>>
  BY <1>1 DEF OwnPipes, pipeVars
<1>2. CASE call'.at = "none" \/ call' = NoCall
  BY <1>2, NoCallIsCall DEF OwnPipes
<1>. QED  BY <1>1, <1>2

LEMMA OnLoopRunOwns ==
  ASSUME FrameInv, OwnPipes, OnLoopRun
  PROVE  OwnPipes'
<1>1. UsbTypes /\ UsbTypes'
  BY AskFrameNumKeeps, DoCleanLeftoverKeeps, NoAlignedKeeps, DoCheckCollectKeeps, DoWaitFullKeeps,
     DoCollectKeeps, DeviceOffineKeeps DEF OnLoopRun, FrameInv
<1>2. CASE call' = NoCall
  BY <1>2, RestOwns
<1>3. CASE \E cmd \in Command : SendCmd("frame", cmd)
  BY <1>1, <1>3, SendCmdOwns
<1>4. ASSUME NEW cmd, NEW s, Ask(cmd, s)  PROVE SendCmd("frame", cmd)
  BY <1>4 DEF Ask
<1>5. ASSUME NEW state, NEW loop_state, Go(state, loop_state)  PROVE call' = NoCall
  BY <1>5 DEF Go
<1>6. FrameNum \in Command
  BY CommandsAre
<1>7. ASSUME frame_num \in Nat, frame_num > 0  PROVE FrameData(ReadSize) \in Command
  BY <1>7, BufferAssumption DEF FrameData, ReadSize, Command
<1>8. ASSUME Ok, step = "num"  PROVE frame_num \in Nat
  BY <1>8 DEF FrameInv, CallerLife, CallLife, UsbTypes, Calls, Command, Ok, frame_num
<1>9. CASE AskFrameNum
  BY <1>3, <1>4, <1>6, <1>9 DEF AskFrameNum
<1>10. CASE DoCleanLeftover
  BY <1>2, <1>3, <1>4, <1>5, <1>6, <1>7, <1>8, <1>10 DEF DoCleanLeftover, In
<1>11. CASE NoAligned \/ DoCheckCollect \/ DoWaitFull \/ DeviceOffine
  BY <1>2, <1>5, <1>11 DEF NoAligned, DoCheckCollect, DoWaitFull, DeviceOffine
<1>12. CASE DoCollect
  BY <1>2, <1>3, <1>4, <1>5, <1>7, <1>8, <1>12 DEF DoCollect, StillNoData, ReadFrameData, PushBulk, In
<1>. QED  BY <1>9, <1>10, <1>11, <1>12 DEF OnLoopRun

\* Whatever transfers failed before, a call that succeeds got its own answer and
\* its own data if it began with empty pipes, whoever of the device thread called;
\* until a transfer fails every call does (UsbPort::SendCmd, ReadEP3).
THEOREM CallsGetTheirOwn == FrameSpec => []OwnAnswer
<1>1. FrameInit => OwnPipes
  BY FrameInit_Inv, NoCallIsCall DEF FrameInit, UsbInit, OwnPipes
<1>2. FrameInv /\ OwnPipes /\ [FrameNext]_frameVars => OwnPipes'
  <2>. SUFFICES ASSUME FrameInv, OwnPipes, [FrameNext]_frameVars  PROVE OwnPipes'
    OBVIOUS
  <2>1. UsbTypes
    BY DEF FrameInv
  <2>2. CASE LoopStep \/ UNCHANGED frameVars
    BY <2>2, RestOwns DEF LoopStep, frameVars, usbVars
  <2>3. CASE OnLoopRun
    BY <2>3, OnLoopRunOwns
  <2>4. CASE PortStep
    <3>1. CASE StoreFrame
      BY <3>1, RestOwns DEF StoreFrame
    <3>. QED  BY <2>1, <2>4, <3>1, HandleCommandOwns, ReadOwns DEF PortStep
  <2>5. CASE OtherCall
    <3>1. PICK cmd \in {Register("RDEP1"), Register("WREP1"), ScopeData} : SendCmd("other", cmd)
      BY <2>5 DEF OtherCall
    <3>. QED  BY <2>1, <3>1, CommandsAre, SendCmdOwns
  <2>6. CASE OtherReturn \/ Close
    BY <2>6, RestOwns DEF OtherReturn, Close, CloseDevice
  <2>. QED  BY <2>2, <2>3, <2>4, <2>5, <2>6 DEF FrameNext
<1>3. FrameInv /\ OwnPipes => OwnAnswer
  BY DEF FrameInv, InStep, OwnPipes, OwnAnswer
<1>. QED  BY <1>1, <1>2, <1>3, FramesInStep, PTL DEF FrameSpec

\* The frames pushed are those stored after the ones cleaned, in order, each
\* once, and none is lost as long as no transfer failed (DoCollect).
THEOREM FramesComeInOrder == FrameSpec => []FramesInOrder
<1>1. ASSUME FrameInv  PROVE FramesInOrder
  <2>1. pushed \in Seq(Nat) /\ Ascending(pushed) /\ taken \in Nat /\ cleaned \in Nat
    BY <1>1 DEF FrameInv, MachineTypes, UsbTypes, InOrder
  <2>2. \A i, j \in 1 .. Len(pushed) :
          i < j /\ pushed[i] # Sample /\ pushed[j] # Sample => pushed[i] < pushed[j]
    BY <2>1 DEF Ascending
  <2>3. ASSUME ~broken, step # "data"
        PROVE  pushed = [i \in 1 .. taken - cleaned |-> cleaned + i]
    <3>1. Owed = 0
      BY <2>3 DEF Owed
    <3>2. taken = cleaned + Len(pushed) /\ \A i \in 1 .. Len(pushed) : pushed[i] = cleaned + i
      BY <1>1, <2>1, <2>3, <3>1 DEF FrameInv, Stock
    <3>3. taken - cleaned = Len(pushed) /\ DOMAIN pushed = 1 .. Len(pushed)
      BY <2>1, <3>2
    <3>. QED  BY <2>1, <3>2, <3>3
  <2>. QED  BY <2>2, <2>3 DEF FramesInOrder
<1>. QED  BY <1>1, FramesInStep, PTL

\* A run ends for a number of units that is not one of whole frames only after a
\* bulk was cut at the size of the buffer, or a transfer failed (CHECK_ALIGNED).
THEOREM RunsEndCutOnly == FrameSpec => []AlignedUnlessCut
<1>1. FrameInv => AlignedUnlessCut
  BY DEF FrameInv, MachineTypes, UsbTypes, Whole, AlignedUnlessCut
<1>. QED  BY <1>1, FramesInStep, PTL

-----------------------------------------------------------------------------
(* The frame collecter is the job of a loop. *)

\* CloseDevice stops the loop from the device thread itself: a client more.
CloseThread == CHOOSE c : c \notin Clients
Loop == INSTANCE ThreadedLoop WITH Others <- Others \cup {CloseThread}

\* no set has everything
LEMMA CloseThreadIs == CloseThread \notin Clients
<1>. DEFINE Odd == {x \in Clients : x \notin x}
<1>1. Odd \notin Clients
  OBVIOUS
<1>2. \E c : c \notin Clients
  BY <1>1
<1>. QED  BY <1>2 DEF CloseThread

\* A step of the state machine is one of the job, or none that the loop can see.
LEMMA MachineSteps ==
  ASSUME OnLoopRun
  PROVE  LoopRunImp \/ UNCHANGED loopVars
<1>. USE DEF loopVars, LoopRest, flags
<1>1. ASSUME NEW s, NEW l, body = "body", Go(s, l)
      PROVE  LoopRunImp \/ UNCHANGED loopVars
  BY <1>1 DEF Go, LoopRunImp
<1>2. ASSUME NEW cmd, NEW s, Ask(cmd, s)
      PROVE  UNCHANGED loopVars
  BY <1>2 DEF Ask
<1>3. CASE AskFrameNum
  BY <1>2, <1>3 DEF AskFrameNum
<1>4. CASE DoCleanLeftover
  BY <1>1, <1>2, <1>4 DEF DoCleanLeftover, In
<1>5. CASE NoAligned
  BY <1>1, <1>5 DEF NoAligned, In
<1>6. CASE DoCheckCollect
  BY <1>1, <1>6 DEF DoCheckCollect, In
<1>7. CASE DoWaitFull
  BY <1>1, <1>7 DEF DoWaitFull, In
<1>8. CASE DoCollect
  BY <1>1, <1>2, <1>8 DEF DoCollect, StillNoData, ReadFrameData, PushBulk, In
<1>9. CASE DeviceOffine
  BY <1>1, <1>9 DEF DeviceOffine
<1>. QED  BY <1>3, <1>4, <1>5, <1>6, <1>7, <1>8, <1>9 DEF OnLoopRun

\* CloseDevice stops the loop, or does nothing to one that is stopped or ending.
CloseStops ==
  /\ start \/ single
  /\ ~stop /\ stop' = TRUE
  /\ UNCHANGED <<start, single, running, posting, loop_tasks, body, viewVars, runs>>

LEMMA CloseIs ==
  ASSUME LoopInv, Close
  PROVE  CloseStops \/ UNCHANGED loopVars
<1>1. stop \in BOOLEAN /\ start \in BOOLEAN /\ single \in BOOLEAN /\ (stop => start \/ single)
  BY DEF LoopInv, LoopTypeOK, StopHasTarget
<1>2. /\ stop' = (stop \/ start \/ single)
      /\ UNCHANGED <<start, single, running, posting, loop_tasks, body, viewVars, runs>>
  BY DEF Close
<1>3. CASE ~stop /\ (start \/ single)
  <2>1. stop' = TRUE
    BY <1>1, <1>2, <1>3
  <2>. QED  BY <1>2, <1>3, <2>1 DEF CloseStops
<1>4. CASE stop \/ ~(start \/ single)
  <2>1. stop' = stop
    BY <1>1, <1>2, <1>4
  <2>. QED  BY <1>2, <2>1 DEF loopVars, flags
<1>. QED  BY <1>3, <1>4

\* What a step of the collecter is to the loop.
LEMMA FrameStepIs ==
  ASSUME LoopInv, [FrameNext]_frameVars
  PROVE  [LoopNext]_loopVars \/ CloseStops
<1>1. CASE LoopStep
  BY <1>1 DEF LoopStep, LoopNext
<1>2. CASE OnLoopRun
  BY <1>2, MachineSteps DEF LoopNext
<1>3. CASE PortStep \/ OtherCall \/ OtherReturn
  BY <1>3 DEF PortStep, OtherCall, OtherReturn
<1>4. CASE Close
  BY <1>4, CloseIs
<1>5. CASE UNCHANGED frameVars
  BY <1>5 DEF frameVars
<1>. QED  BY <1>1, <1>2, <1>3, <1>4, <1>5 DEF FrameNext

LEMMA CloseKeepsLoop ==
  ASSUME LoopInv, CloseStops
  PROVE  LoopInv'
<1>. USE DEF LoopInv, CloseStops
<1>1. LoopTypeOK' /\ StopHasTarget'
  BY DEF LoopTypeOK, StopHasTarget, viewVars
<1>2. OneLoop' /\ RunningInRun' /\ SeenIsCurrent'
  BY DEF OneLoop, Live, RunningInRun, SeenIsCurrent, Current, viewVars
<1>. QED  BY <1>1, <1>2

\* The flags of the loop, its tasks and what views know agree for the frame
\* collecter too, which CloseDevice may stop at any moment.
THEOREM FrameLoopInStep == FrameSpec => []LoopInv
<1>1. FrameInit => LoopInv
  BY LoopInit_Inv DEF FrameInit
<1>2. LoopInv /\ [FrameNext]_frameVars => LoopInv'
  BY FrameStepIs, LoopStepKeeps, CloseKeepsLoop
<1>. QED  BY <1>1, <1>2, PTL DEF FrameSpec

\* One LoopRun of the frame collecter is under way as long as it is wanted, and
\* none otherwise, however it is started, stopped and closed.
THEOREM FrameLoopIsUnique == FrameSpec => []OneLoop
<1>1. LoopInv => OneLoop
  BY DEF LoopInv
<1>. QED  BY <1>1, FrameLoopInStep, PTL

\* What a client does is what it does among one client more; CloseThread never
\* posts, and its Stop is CloseDevice's.
LEMMA LoopOfMore ==
  ASSUME LoopInv, [LoopNext]_loopVars \/ CloseStops
  PROVE  [Loop!LoopNext]_Loop!loopVars
<1>1. Clients \subseteq Loop!Clients /\ CloseThread \in Loop!Clients
  BY DEF Clients, Loop!Clients
<1>2. CloseThread \notin Views /\ CloseThread \notin posting
  BY CloseThreadIs DEF Clients, LoopInv, LoopTypeOK
<1>3. CASE CloseStops
  <2>1. Loop!Stop(CloseThread)
    BY <1>2, <1>3 DEF CloseStops, viewVars, Loop!Stop, Loop!MayAskToStop, Loop!viewVars
  <2>. QED  BY <1>1, <2>1 DEF Loop!LoopNext, Loop!Request
<1>4. ASSUME NEW c \in Clients, Request(c) \/ Post(c)
      PROVE  Loop!Request(c) \/ Loop!Post(c)
  <2>1. CASE Start(c)
    BY <2>1 DEF Start, Accept, MayAskToRun, viewVars, Loop!viewVars, Loop!Request, Loop!Start, Loop!Accept, Loop!MayAskToRun
  <2>2. CASE Single(c)
    BY <2>2 DEF Single, Accept, viewVars, Loop!viewVars, Loop!Request, Loop!Single, Loop!Accept
  <2>3. CASE Stop(c)
    BY <2>3 DEF Stop, MayAskToStop, viewVars, Loop!viewVars, Loop!Request, Loop!Stop, Loop!MayAskToStop
  <2>4. CASE Post(c)
    BY <2>4 DEF Post, flags, viewVars, Loop!viewVars, Loop!Post, Loop!flags
  <2>. QED  BY <1>4, <2>1, <2>2, <2>3, <2>4 DEF Request
<1>5. LoopFrame => Loop!LoopFrame
  BY DEF LoopFrame, Enter, EnterStop, EnterRun, Reset, OnStateChanged, Leave, Repost, flags, viewVars,
     Loop!LoopFrame, Loop!Enter, Loop!EnterStop, Loop!EnterRun, Loop!Reset, Loop!OnStateChanged,
     Loop!Leave, Loop!Repost, Loop!flags, Loop!viewVars
<1>6. LoopRunImp => Loop!LoopRunImp
  BY DEF LoopRunImp, flags, viewVars, Loop!LoopRunImp, Loop!flags, Loop!viewVars
<1>7. ASSUME NEW v \in Views, ViewStep(v)
      PROVE  Loop!ViewStep(v)
  BY <1>7 DEF ViewStep, UpdateButton, AddObserver, StateChanged, RemoveObserver, flags,
     Loop!ViewStep, Loop!UpdateButton, Loop!AddObserver, Loop!StateChanged, Loop!RemoveObserver,
     Loop!flags
<1>8. CASE UNCHANGED loopVars
  BY <1>8 DEF loopVars, flags, viewVars, Loop!loopVars, Loop!flags, Loop!viewVars
<1>9. CASE LoopNext
  BY <1>1, <1>4, <1>5, <1>6, <1>7, <1>9 DEF LoopNext, Loop!LoopNext
<1>. QED  BY <1>3, <1>8, <1>9

\* The frame collecter, its port, the others on the device thread and CloseDevice
\* do to the loop what clients of it may do, and LoopRun what it does: each step
\* is one of ThreadedLoop with one client more, or none that the loop can see.
THEOREM FramesAreALoop == FrameSpec => Loop!LoopSpec
<1>1. FrameInit => Loop!LoopInit
  BY DEF FrameInit, LoopInit, Loop!LoopInit
<1>2. LoopInv /\ [FrameNext]_frameVars => [Loop!LoopNext]_Loop!loopVars
  BY FrameStepIs, LoopOfMore
<1>. QED  BY <1>1, <1>2, FrameLoopInStep, PTL DEF FrameSpec, Loop!LoopSpec
=============================================================================
