---------------------------- MODULE OscRegisters ----------------------------
(***************************************************************************)
(* OscDevice (canscope/device/osc_device/osc_device.cc): the properties of  *)
(* the oscilloscope, the register images computed from them, and what of    *)
(* the images has reached the device.  A handler recomputes the fields it   *)
(* knows of and writes a few registers, one after the other, and gives up   *)
(* at the first write that fails.                                           *)
(*                                                                          *)
(* A field stands for the values it is computed from: the arithmetic of     *)
(* gains, offsets and times is left out.                                    *)
(***************************************************************************)
EXTENDS Naturals, Sequences, FiniteSets, SequencesExt

Analog == {"CAN_H", "CAN_L"}
Chnls == Analog \cup {"CAN_DIFF"}

\* the properties of OscDeviceProperty; "all": not of one channel
One(name) == <<name, "all">>
VoltRange(c) == <<"range", c>>
Offset(c) == <<"offset", c>>
Coupling(c) == <<"coupling", c>>
Times == {"time_base", "time_offset", "auto_time"}
Triggers == {"trigger_source", "trigger_type", "trigger_mode", "trigger_sens",
             "compare", "trigger_volt", "time_param"}
Props == ({"range", "offset"} \X Chnls) \cup ({"coupling"} \X Analog)
         \cup (Times \cup Triggers \cup {"diff_ctrl"}) \X {"all"}

\* what a property is set to here; "CAN" is a trigger source that is no channel
ValuesOf(p) == IF p = One("trigger_source") THEN {"CAN_H", "CAN_DIFF", "CAN"}
               ELSE {"low", "high"}
Default == [p \in Props |-> IF p = One("trigger_source") THEN "CAN_H" ELSE "low"]

\* the fields of the registers; trigger2 but for its two levels is one field
Fields == ({"analog_ctrl", "analog_switch"} \X Analog)
          \cup ({"soft_diff"} \X (Chnls \cup {"diff_ctrl"}))
          \cup {<<"trigger1", "all">>, <<"trigger2", "all">>, <<"trigger2", "cmp">>}

\* the registers that SetAll writes, in its order
AllRegisters == <<"analog_ctrl", "soft_diff", "analog_switch", "trigger1", "trigger2">>

CONSTANT
  InitWrites  \* bound: how many writes of the opening may have succeeded
ASSUME InitWritesAssumption == InitWrites \subseteq 0 .. Len(AllRegisters)

VARIABLES
  props,   \* the properties of the device
  memory,  \* the RegisterMemory images
  fpga,    \* what the device has; <<>>: never written
  missed,  \* history: registers whose last write, if it was due, failed
  stale    \* history: fields whose properties changed with no handler run

regVars == <<props, memory, fpga, missed, stale>>

IsTriggerSourceChnl(v) == v[One("trigger_source")] \in Chnls

\* what a field is computed from
Image(f, v) ==
  CASE f[1] = "analog_ctrl" -> <<v[VoltRange(f[2])], v[Offset(f[2])]>>
    [] f[1] = "analog_switch" -> <<v[Coupling(f[2])], v[VoltRange(f[2])]>>
    [] f[1] = "soft_diff" /\ f[2] \in Chnls -> <<v[VoltRange(f[2])], v[Offset(f[2])]>>
    [] f = <<"soft_diff", "diff_ctrl">> -> <<v[One("diff_ctrl")]>>
    [] f = <<"trigger1", "all">> ->
         <<v[One("time_base")], v[One("time_offset")], v[One("auto_time")]>>
    [] f = <<"trigger2", "all">> ->
         <<v[One("trigger_source")], v[One("trigger_type")], v[One("trigger_mode")],
           v[One("compare")], v[One("time_param")]>>
    [] f = <<"trigger2", "cmp">> /\ IsTriggerSourceChnl(v) ->
         LET c == v[One("trigger_source")] IN
         <<c, v[VoltRange(c)], v[Offset(c)], v[One("trigger_volt")], v[One("trigger_sens")]>>
    [] OTHER -> <<>>

\* SetTrigger2 returns before the levels when the source is not a channel
SetTrigger2(v) ==
  {<<"trigger2", "all">>} \cup (IF IsTriggerSourceChnl(v) THEN {<<"trigger2", "cmp">>} ELSE {})

SetSoftDiff(c) == {<<"soft_diff", c>>, <<"soft_diff", "diff_ctrl">>}

\* (slip) the levels of the trigger are left to the handlers of the trigger
HandlerNoTrigger(p, v) ==
  LET c == p[2] IN
  CASE p[1] \in {"range", "offset"} /\ c \in Analog ->
         [computes |-> {<<"analog_ctrl", c>>, <<"analog_switch", c>>} \cup SetSoftDiff(c),
          writes |-> <<"analog_ctrl", "analog_switch", "soft_diff">>]
    [] p[1] \in {"range", "offset"} /\ c = "CAN_DIFF" ->
         [computes |-> SetSoftDiff(c), writes |-> <<"soft_diff">>]
    [] p[1] = "coupling" ->
         [computes |-> {<<"analog_switch", c>>}, writes |-> <<"analog_switch">>]
    [] p[1] = "diff_ctrl" ->
         [computes |-> SetSoftDiff("CAN_DIFF"), writes |-> <<"soft_diff">>]
    [] p[1] \in Times ->
         [computes |-> {<<"trigger1", "all">>}, writes |-> <<"trigger1">>]
    [] OTHER ->
         [computes |-> SetTrigger2(v), writes |-> <<"trigger2">>]

\* The handler of a property: the fields it computes and the registers it
\* writes, in order.
Handler(p, v) ==
  LET c == p[2] IN
  CASE p[1] \in {"range", "offset"} /\ c \in Analog ->
         [computes |-> {<<"analog_ctrl", c>>, <<"analog_switch", c>>}
                       \cup SetSoftDiff(c) \cup SetTrigger2(v),
          writes |-> <<"analog_ctrl", "analog_switch", "soft_diff", "trigger2">>]
    [] p[1] \in {"range", "offset"} /\ c = "CAN_DIFF" ->
         [computes |-> SetSoftDiff(c) \cup SetTrigger2(v),
          writes |-> <<"soft_diff", "trigger2">>]
    [] p[1] = "coupling" ->
         [computes |-> {<<"analog_switch", c>>}, writes |-> <<"analog_switch">>]
    [] p[1] = "diff_ctrl" ->
         [computes |-> SetSoftDiff("CAN_DIFF"), writes |-> <<"soft_diff">>]
    [] p[1] \in Times ->
         [computes |-> {<<"trigger1", "all">>}, writes |-> <<"trigger1">>]
    [] OTHER ->
         [computes |-> SetTrigger2(v), writes |-> <<"trigger2">>]

SetAll(v) ==
  [computes |-> Fields \ ({<<"trigger2", "cmp">>} \ SetTrigger2(v)),
   writes |-> AllRegisters]

\* A handler runs after the properties became v: any of its writes may fail.
Run(handler, v) ==
  /\ props' = v
  /\ memory' = [f \in Fields |-> IF f \in handler.computes THEN Image(f, v) ELSE memory[f]]
  /\ stale' = stale \ handler.computes
  /\ \E n \in 0 .. Len(handler.writes) :
       LET written == ToSet(SubSeq(handler.writes, 1, n)) IN
       /\ fpga' = [f \in Fields |-> IF f[1] \in written THEN memory'[f] ELSE fpga[f]]
       /\ missed' = (missed \ written) \cup (ToSet(handler.writes) \ written)

\* The properties became v and no handler runs.
NoHandler(v) ==
  /\ props' = v
  /\ stale' = stale \cup {f \in Fields : Image(f, v) # Image(f, props)}
  /\ UNCHANGED <<memory, fpga, missed>>

\* the device is opened: InitFromConfig, then SetAll, any of whose writes may
\* fail and end it, which nobody looks at
RegInit ==
  /\ props = Default
  /\ memory = [f \in Fields |-> Image(f, Default)] /\ stale = {}
  /\ \E n \in InitWrites :
       LET written == ToSet(SubSeq(AllRegisters, 1, n)) IN
       /\ fpga = [f \in Fields |-> IF f[1] \in written THEN memory[f] ELSE <<>>]
       /\ missed = ToSet(AllRegisters) \ written

\* A register whose writes did not fail has what the properties say, whichever
\* handlers ran in whichever order and however they failed: each handler knows
\* every field that depends on its property, the trigger levels among them.
RegistersFollow ==
  \A f \in Fields :
    f \notin stale /\ f[1] \notin missed /\ (f = <<"trigger2", "cmp">> => IsTriggerSourceChnl(props))
      => fpga[f] = Image(f, props)

\* Why: a register that is not missed has its image, and the image of a field
\* follows the properties, so that a handler may write what others computed.
HasImage == \A f \in Fields : f[1] \notin missed => fpga[f] = memory[f]
ImageFollows ==
  \A f \in Fields :
    f \notin stale /\ (f = <<"trigger2", "cmp">> => IsTriggerSourceChnl(props))
      => memory[f] = Image(f, props)
RegInv == HasImage /\ ImageFollows
=============================================================================
