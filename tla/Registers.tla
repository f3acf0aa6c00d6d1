------------------------------ MODULE Registers ------------------------------
(***************************************************************************)
(* The registers of the device, bit by bit: where the binds of              *)
(* canscope/device/register place a field, what OscDevice and FrameDevice   *)
(* put there, which parts they write, and what the device reads out of them *)
(* again (canscope/device_simulate).  The two devices share one             *)
(* SoftDiffRegister, and each writes parts of it.                           *)
(*                                                                          *)
(* Voltages are in mV, times in units of 10 ns.  Calibrated offsets are     *)
(* left out.                                                                *)
(***************************************************************************)
EXTENDS Simulator

CONSTANTS
  DeviceKs,      \* what DeviceK is of the devices that are opened
  FrameConfigs,  \* the configs of the frame device
  Ranges, Offsets, TimeBases, TimeOffsets, Levels,  \* what users choose from
  MaxCalls       \* bound: how many properties are set

\* The longer time bases overflow the 32 bits of SetTrigger1, and a trigger
\* outside of the screen makes it cast a negative double to unsigned.
ASSUME RegistersAssumption ==
  /\ DeviceKs \subseteq {2, 8} /\ Ranges \subseteq 0 .. 5 /\ TimeBases \subseteq 0 .. 15
  /\ MaxCalls \in Nat
  /\ \A b \in TimeBases, k \in DeviceKs :
       LET half == BaseOf[b + 1] * 5 * k IN TimeOffsets \subseteq -half .. half

VARIABLES
  frame,    \* the config of FrameDevice, and k, DeviceK; k = 0: not open
  props,    \* the properties of OscDevice
  memory,   \* the RegisterMemory images
  device,   \* the registers of the device
  missed,   \* history: bits whose last write, if it was due, failed
  calls

vars == <<frame, props, memory, device, missed, calls>>

Analog == {"CAN_H", "CAN_L"}
Chnls == Analog \cup {"CAN_DIFF"}

---------------------------------------------------------------------------
(* What is computed from the properties v: pairs of a field and its value.  *)

kSensCoeff == <<4, 8, 16, 32, 80, 200>>
Gain == <<\hD164, \h92CD, \h5436, \hE58B, \h92CD, \h4010>>
kCOE == <<0, 1, 4, 9, 19, 49, 99, 199, 499, 999, 1999, 4999, 9999, 19999, 49999, 99999>>

\* a double becomes an integer towards zero, and wraps when that is narrow
Trunc(a, b) == IF a >= 0 THEN a \div b ELSE -((-a) \div b)
Code(range, mv) == Trunc(mv * 250 + 127000 * Volt(range), 1000 * Volt(range))
CH_ZERO(range, offset) == Code(range, offset) % 65536
CMP_LOW(range, volt, offset) == Code(range, volt + offset) % 256

SetSoftDiff(c, v) ==
  << <<SoftDiff.ch_sens[c], kSensCoeff[v.range[c] + 1]>>,
     <<SoftDiff.ch_zero[c], CH_ZERO(v.range[c], v.offset[c])>>,
     Bool(SoftDiff.diff_ctrl, v.diff_ctrl = 1) >>
SetAnalogCtrl(c, v) == << <<AnalogCtrl.gain[c], Gain[v.range[c] + 1]>> >>
SetAnalogSwitch(c, v) ==
  << Bool(AnalogSwitch.coupling[c], v.coupling[c] = 1),
     Bool(AnalogSwitch.attenuation[c], v.range[c] >= 3) >>

\* (slip) the points after the trigger are those before it
PointsSame(v, k, sign) ==
  LET base == BaseOf[v.time_base + 1] * 5 * k
      points == (2 * (base + v.time_offset)) \div (kCOE[v.time_base + 1] + 1)
  IN 4 * (points \div 4)
\* points before (sign = 1) or after the trigger; a multiple of four
Points(v, k, sign) ==
  LET base == BaseOf[v.time_base + 1] * 5 * k
      points == (2 * (base + sign * v.time_offset)) \div (kCOE[v.time_base + 1] + 1)
  IN 4 * ((IF sign = 1 THEN points ELSE Max({8, points})) \div 4)

SetTrigger1(v, k) ==
  << <<Trigger1.div_coe, kCOE[v.time_base + 1]>>,
     <<Trigger1.trig_pre, Points(v, k, 1)>>, <<Trigger1.trig_post, Points(v, k, -1)>>,
     <<Trigger1.auto_time, v.auto_time * 100000>> >>

\* TriggerSource2Chnl; what is not in its domain is no channel
SourceChnl == [i \in 0 .. 2 |-> <<"CAN_H", "CAN_L", "CAN_DIFF">>[i + 1]]

\* TriggerVolt: <<cmp_low, cmp_high>>, bytes that are clipped after they wrapped
TriggerVolt(v) ==
  LET c == SourceChnl[v.trigger_source]
      low == CMP_LOW(v.range[c], v.trigger_volt, v.offset[c])
      high == (low + (IF v.trigger_sens = 0 THEN 3 ELSE 15)) % 256
  IN <<IF low > 250 THEN 247 ELSE low, Min({high, 250})>>

SetTrigger2(v) ==
  << <<Trigger2.trig_source, v.trigger_source>>, <<Trigger2.trig_type, v.trigger_type>>,
     <<Trigger2.trig_mode, v.trigger_mode>>, <<Trigger2.compare, v.compare>>,
     <<Trigger2.trig_time, ((v.time_param \div 10) - 1) % 2^30>> >>
  \o IF v.trigger_source \notin DOMAIN SourceChnl THEN <<>>
     ELSE << <<Trigger2.cmp_low, TriggerVolt(v)[1]>>, <<Trigger2.cmp_high, TriggerVolt(v)[2]>> >>

OscFields(v, k) ==
  SetAnalogCtrl("CAN_H", v) \o SetAnalogCtrl("CAN_L", v)
  \o SetSoftDiff("CAN_H", v) \o SetSoftDiff("CAN_L", v) \o SetSoftDiff("CAN_DIFF", v)
  \o SetAnalogSwitch("CAN_H", v) \o SetAnalogSwitch("CAN_L", v)
  \o SetTrigger1(v, k) \o SetTrigger2(v)

SJABtrToBaudRate(btr) ==
  16000000 \div (2 * ((btr % 64) + 1) * (((btr \div 256) % 16) + ((btr \div 4096) % 8) + 3))
BaudRateToFilDiv(rate) == ((100000000 \div rate) \div 16) - 1
\* of 512 MiB
GetFrameStorageSize(f) == (f.percent * 5368709) + ((f.percent * 12) \div 100)

KValidSampleRates ==
  <<100000000, 50000000, 20000000, 10000000, 5000000, 2000000, 1000000, 500000, 200000,
    100000, 50000, 20000, 10000, 5000, 2000, 1000, 500, 200, 100, 50, 20, 10, 5, 2, 1>>
\* a * b in 32 bits with a sign, for b below 2^15
Product(a, b) ==
  LET low == (a % 65536) * b
      high == ((a \div 65536) * b + (low \div 65536)) % 65536
  IN (IF high >= 32768 THEN high - 65536 ELSE high) * 65536 + (low % 65536)
\* the first of the rates that is nearest
FrameSampleRate(baud_rate, bit_sample_rate) ==
  LET frame_rate == Product(baud_rate, bit_sample_rate)
      Distance(rate) == Max({rate - frame_rate, frame_rate - rate})
  IN FoldLeft(LAMBDA best, rate : IF Distance(rate) < Distance(best) THEN rate ELSE best,
              KValidSampleRates[1], KValidSampleRates)

Aligned(n) == 8 * (n \div 8)
\* (2^32 - n) % m, for m below 46341
NegativeModulo(n, m) == (((65536 % m) * (65536 % m)) - (n % m)) % m

SetWaveStorage(f) ==
  LET baud_rate == SJABtrToBaudRate(f.sja_btr)
      rate == FrameSampleRate(baud_rate, f.bit_sample_rate)
      bits == f.frame_bit * 2
      frame_len == Aligned(bits * (rate \div baud_rate) + ((bits * (rate % baud_rate)) \div baud_rate))
      start == Aligned(GetFrameStorageSize(f))
      size == 33554432
      \* start is beyond the memory from 7 % on, and the difference wraps
      wave_end == size - IF start > size THEN NegativeModulo(start - size, frame_len)
                                         ELSE (size - start) % frame_len
  IN << <<WaveStorage.frame_len, frame_len>>, <<WaveStorage.wave_start, start>>,
        <<WaveStorage.wave_end, wave_end>>, <<WaveStorage.div_coe, (100000000 \div rate) - 1>> >>

FrameSystem(f) ==
  << <<SoftDiff.sja_btr, f.sja_btr>>, Bool(SoftDiff.sys_cfg, f.device_enable) >>
\* of each config
FrameFields == [f \in FrameConfigs |->
  << Bool(SJA1000.slient, ~f.ack_enable), <<SJA1000.sja_btr, f.sja_btr>>,
     <<FrameStorage.frame_depth, (GetFrameStorageSize(f) \div 48) * 48>>,
     <<SoftDiff.fil_div, BaudRateToFilDiv(SJABtrToBaudRate(f.sja_btr))>> >>
  \o SetWaveStorage(f) \o FrameSystem(f)]

PutAll(image, fields) == FoldLeft(LAMBDA i, p : Put(i, p[1], p[2]), image, fields)

---------------------------------------------------------------------------
(* The handlers, which give up at the first write that fails.               *)

\* n of the writes succeed
Write(writes, n, from, to) ==
  LET sent == UNION ToSet(SubSeq(writes, 1, n)) IN (to \ sent) \cup (from \cap sent)
Missed(writes, n, m) ==
  LET sent == UNION ToSet(SubSeq(writes, 1, n)) IN (m \cup UNION ToSet(writes)) \ sent

Call(v, fields, writes) ==
  /\ frame.k # 0 /\ calls < MaxCalls /\ calls' = calls + 1
  /\ props' = v
  /\ memory' = PutAll(memory, fields)
  /\ \E n \in 0 .. Len(writes) :
       /\ device' = Write(writes, n, memory', device)
       /\ missed' = Missed(writes, n, missed)
  /\ UNCHANGED frame

\* SetVoltRange and SetVoltOffset of a channel
SetVolt(c, v) ==
  IF c \in Analog
  THEN Call(v, SetAnalogCtrl(c, v) \o SetAnalogSwitch(c, v) \o SetSoftDiff(c, v) \o SetTrigger2(v),
            <<AnalogCtrlAll, AnalogSwitchAll, SoftDiffChnl, Trigger2All>>)
  ELSE Call(v, SetSoftDiff(c, v) \o SetTrigger2(v), <<SoftDiffChnl, Trigger2All>>)

SetVoltRange == \E c \in Chnls, r \in Ranges : SetVolt(c, [props EXCEPT !.range[c] = r])
SetVoltOffset == \E c \in Chnls, o \in Offsets : SetVolt(c, [props EXCEPT !.offset[c] = o])

SetCoupling ==
  \E c \in Analog, x \in 0 .. 1 :
    LET v == [props EXCEPT !.coupling[c] = x] IN
    Call(v, SetAnalogSwitch(c, v), <<AnalogSwitchAll>>)

SetDiffCtrl ==
  \E x \in 0 .. 1 :
    LET v == [props EXCEPT !.diff_ctrl = x] IN
    Call(v, SetSoftDiff("CAN_DIFF", v), <<SoftDiffChnl>>)

\* SetTimeBase, SetTimeOffset and SetAutoTime
SetTime ==
  \E v \in {[props EXCEPT !.time_base = x] : x \in TimeBases}
           \cup {[props EXCEPT !.time_offset = x] : x \in TimeOffsets}
           \cup {[props EXCEPT !.auto_time = x] : x \in {100, 1000}} :
    Call(v, SetTrigger1(v, frame.k), <<Trigger1All>>)

\* SetTriggerSource and the handlers that are the same
SetTrigger ==
  \E v \in {[props EXCEPT !.trigger_source = x] : x \in 0 .. 3}
           \cup {[props EXCEPT !.trigger_volt = x] : x \in Levels}
           \cup {[props EXCEPT !.trigger_sens = x] : x \in 0 .. 1}
           \cup {[props EXCEPT !.trigger_type = 5], [props EXCEPT !.trigger_mode = 1],
                 [props EXCEPT !.compare = 2], [props EXCEPT !.time_param = 100]} :
    Call(v, SetTrigger2(v), <<Trigger2All>>)

OscWrites == <<AnalogCtrlAll, SoftDiffChnl, AnalogSwitchAll, Trigger1All, Trigger2All>>

\* "set sys final after config all."
FrameWrites == <<SJA1000Sys, FrameStorageAll, WaveStorageAll, SoftDiffFilDiv, SoftDiffSys>>

DefaultProps ==
  [range |-> [c \in Chnls |-> 3], offset |-> [c \in Chnls |-> 0],
   coupling |-> [c \in Analog |-> 1], diff_ctrl |-> 0,
   time_base |-> 4, time_offset |-> 0, auto_time |-> 100,
   trigger_source |-> 2, trigger_type |-> 0, trigger_mode |-> 0, trigger_sens |-> 0,
   compare |-> 0, trigger_volt |-> 0, time_param |-> 1]

\* the registers, each holding what was computed
Configured(v, f, k) == PutAll(PutAll({}, OscFields(v, k)), FrameFields[f])

\* The device is off until now, or on since it was opened before.
Init ==
  /\ frame = [k |-> 0] /\ props = DefaultProps
  /\ memory = {} /\ missed = {} /\ calls = 0
  /\ device \in {{}} \cup {Configured(props, f, k) : f \in FrameConfigs, k \in DeviceKs}

\* CANScopeDevice::Init and SetAll: the frame device's part is written however
\* that of the oscilloscope ended
Open ==
  /\ frame.k = 0
  /\ \E f \in FrameConfigs, k \in DeviceKs : frame' = [config |-> f, k |-> k]
  /\ LET osc == PutAll({}, OscFields(props, frame'.k)) IN
     /\ memory' = PutAll(osc, FrameFields[frame'.config])
     /\ \E n \in 0 .. Len(OscWrites), m \in 0 .. Len(FrameWrites) :
          /\ device' = Write(FrameWrites, m, memory', Write(OscWrites, n, osc, device))
          /\ missed' = Missed(FrameWrites, m, Missed(OscWrites, n, {}))
  /\ UNCHANGED <<props, calls>>

Next ==
  \/ Open
  \/ SetVoltRange \/ SetVoltOffset \/ SetCoupling \/ SetDiffCtrl \/ SetTime \/ SetTrigger

Spec == Init /\ [][Next]_vars

---------------------------------------------------------------------------
(* What the device makes of its registers.                                  *)

Reached(part) == part \cap missed = {}

\* one step of the converter, and what is less than that below v
Step(c) == 4 * Volt(props.range[c])
Shows(v, shown, c) == v - shown \in 0 .. Step(c) - 1

\* every field is the one its properties stand for
FieldsArrive ==
  \A p \in ToSet(OscFields(props, frame.k) \o FrameFields[frame.config]) :
    Reached(ToSet(p[1])) => Raw(device, p[1]) = BitsOf(p[2]) \cap MaxValue(p[1])

\* the wave is drawn where it was moved to, unless that is below the screen
OffsetsShown ==
  Reached(SoftDiffChnl) =>
    \A c \in Analog :
      /\ ShownRange(device, c) = props.range[c]
      /\ Code(props.range[c], props.offset[c]) >= 0 => Shows(props.offset[c], ShownOffset(device, c), c)

\* the time axis is the one that was set, to what four points are wide, unless
\* the time before the trigger leaves 32 bits or the trigger is right of the
\* middle
TimesShown ==
  Reached(Trigger1All) =>
    /\ ShownTimeBase(device) = props.time_base
    /\ FitsTrigger(device) /\ props.time_offset >= 0 =>
         props.time_offset - ShownTimeOffset(device, frame.k) \in 0 .. 2 * SAMET(device)

\* the points before and after the trigger fill what the collecter reads
PointsFill ==
  Reached(Trigger1All) =>
    Get(device, Trigger1.trig_pre) + Get(device, Trigger1.trig_post)
      \in frame.k * 2000 - 4 .. frame.k * 2000

\* the trigger has a level with some way to go, unless that is off the screen
\* or less than 15 steps below its top
LevelShown ==
  Reached(Trigger2All) /\ props.trigger_source \in DOMAIN SourceChnl =>
    LET c == SourceChnl[props.trigger_source]
        low == Get(device, Trigger2.cmp_low)
        level == props.trigger_volt + props.offset[c]
    IN Code(props.range[c], level) \in 0 .. 235 =>
         /\ Shows(level, (low - 127) * Step(c), c)
         /\ low < Get(device, Trigger2.cmp_high)

\* Whatever was set, failed and opened again: what the device was sent without
\* failure it has, in the registers that are shared too, and it means what the
\* properties say.
DeviceUnderstands ==
  frame.k # 0 => FieldsArrive /\ OffsetsShown /\ TimesShown /\ PointsFill /\ LevelShown
==============================================================================
