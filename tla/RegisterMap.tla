----------------------------- MODULE RegisterMap -----------------------------
(***************************************************************************)
(* Where things are in the device: the binds of device/, the layout of the  *)
(* registers (canscope/device/register) and the memory they are images of.  *)
(*                                                                          *)
(* An image is the set of the bits that are one, numbered from kBaseAddr.   *)
(* A field is the sequence of its bits, the lowest first.  What needs all   *)
(* 32 bits of a word is the set of its bits, as TLC's integers have 31.     *)
(***************************************************************************)
EXTENDS Integers, Sequences, SequencesExt, FiniteSetsExt

PowersOfTwo == [i \in 0 .. 30 |-> 2^i]
BitsOf(v) == {i \in 0 .. 30 : (v \div PowersOfTwo[i]) % 2 = 1}
\* high * 2^16 + low
Word(high, low) == BitsOf(low) \cup {i + 16 : i \in BitsOf(high)}

---------------------------------------------------------------------------
(* The binds.                                                               *)

\* SimpleTypeBind and OneByteTypeBind of n bytes, little or big endian
Bytes(at, n) == [i \in 1 .. 8 * n |-> 8 * at + i - 1]
BigBytes(at, n) == [i \in 1 .. 8 * n |-> (8 * (at + n - 1 - ((i - 1) \div 8))) + ((i - 1) % 8)]

\* Uint32SubBind, whose indices come in any order
Sub(at, start, end) ==
  SubSeq(Bytes(at, 4), Min({start, end}) + 1, Max({start, end}) + 1)
\* MaxValue, in bits, and the CHECK of set_value
MaxValue(field) == 0 .. Len(field) - 1
Fits(field, v) == BitsOf(v) \subseteq MaxValue(field)

\* Uint16SplitBind
Split(at, index_0, index_1) == Bytes(at + index_0, 1) \o Bytes(at + index_1, 1)
BigSplit(at, index_0, index_1) == Split(at, index_1, index_0)

\* value and set_value
Raw(image, field) == {i - 1 : i \in {j \in 1 .. Len(field) : field[j] \in image}}
Get(image, field) == MapThenSumSet(LAMBDA i : PowersOfTwo[i], Raw(image, field))
PutRaw(image, field, bits) ==
  (image \ ToSet(field)) \cup {field[i + 1] : i \in {b \in bits : b < Len(field)}}
Put(image, field, v) == PutRaw(image, field, BitsOf(v))

\* BoolBind: value, set_value as a field and its value, Toggle
BoolBind(at, index, no_invert) ==
  [field |-> <<8 * at + index>>, no_invert |-> no_invert]
IsTrue(image, bind) == (Get(image, bind.field) = 1) = bind.no_invert
Bool(bind, value) == <<bind.field, IF value = bind.no_invert THEN 1 ELSE 0>>
SetBool(image, bind, value) == Put(image, Bool(bind, value)[1], Bool(bind, value)[2])
Toggle(image, bind) == Put(image, bind.field, 1 - Get(image, bind.field))

---------------------------------------------------------------------------
(* RegisterMemory and MemoryContent.                                        *)

RegisterMemory(start_addr, length) ==
  [start_addr |-> start_addr, size |-> length, image |-> {}]
\* DCHECKs: the place is in the memory
PtrByRelative(memory, offset) == CHOOSE i \in 0 .. memory.size - 1 : i = offset
PtrByAbsoulute(memory, addr) == PtrByRelative(memory, addr - memory.start_addr)

\* a copy of the memory, what is in it, and the way back
MemoryContent(memory) == [size |-> memory.size, image |-> memory.image]
HasContent(content) == content.size # 0
SetContent(content, image) == [content EXCEPT !.image = image]
SetMemory(content, memory) == [memory EXCEPT !.image = content.image]

\* n bytes from an address
Part(at, n) == 8 * at .. 8 * (at + n) - 1
\* the image of bytes in a row, as memcpy leaves it
Load(at, bytes) ==
  UNION {{8 * (at + i - 1) + b : b \in BitsOf(bytes[i])} : i \in 1 .. Len(bytes)}

---------------------------------------------------------------------------
(* The registers: their range and their fields.                             *)

SJA1000All == Part(\h0, \h18)
SJA1000Sys == Part(\h0, 4)
SJA1000 ==
  [sja_btr |-> Bytes(\h0, 2), slient |-> BoolBind(\h2, 0, TRUE), frame_data |-> Bytes(\h4, 13),
   send_state |-> Bytes(\h14, 4), s_alc |-> Bytes(\h14, 1), s_ecc |-> Bytes(\h15, 1),
   int_send |-> BoolBind(\h16, 1, TRUE), int_alc |-> BoolBind(\h16, 6, TRUE),
   int_bus |-> BoolBind(\h16, 7, TRUE), cfg |-> BoolBind(\h17, 6, FALSE),
   sending |-> BoolBind(\h17, 7, TRUE)]

WaveStorageAll == Part(\h80, \h18)
WaveStorage ==
  [frame_len |-> Bytes(\h84, 4), wave_start |-> Bytes(\h88, 4), wave_end |-> Bytes(\h8C, 4),
   div_coe |-> Bytes(\h90, 4), wave_lost |-> Bytes(\h94, 4)]

SoftDiffAll == Part(\hC0, \h1C)
SoftDiffSys == Part(\hC0, 4)
SoftDiffFilDiv == Part(\hD4, 4)
\* kChnlOffset and kChnlSize: from the sensitivities on, fil_div among them
SoftDiffChnl == Part(\hC8, \h14)
SoftDiff ==
  [sja_btr |-> Bytes(\hC0, 2), sys_cfg |-> BoolBind(\hC3, 7, TRUE),
   ch_sens |-> [CAN_H |-> Bytes(\hC8, 1), CAN_L |-> Bytes(\hC9, 1), CAN_DIFF |-> Bytes(\hCA, 1)],
   ch_zero |-> [CAN_H |-> Split(\hC0, \hC, \h18), CAN_L |-> Split(\hC0, \hD, \h19),
                CAN_DIFF |-> Split(\hC0, \hE, \h1A)],
   diff_ctrl |-> BoolBind(\hD0, 0, TRUE), fil_div |-> Bytes(\hD4, 2)]

FrameStorageAll == Part(\h100, \hC)
FrameStorage ==
  [frame_depth |-> Bytes(\h100, 4), frame_num |-> Bytes(\h104, 4),
   overflow |-> BoolBind(\h108, 0, TRUE)]

WaveReadCtrlAll == Part(\h110, \hC)
WaveReadCtrl ==
  [read_start |-> Bytes(\h110, 4), section_start |-> Bytes(\h114, 4), section_end |-> Bytes(\h118, 4)]

AnalogCtrlAll == Part(\h140, \h18)
AnalogCtrl ==
  [gain |-> [CAN_L |-> Bytes(\h148, 4), CAN_H |-> Bytes(\h150, 4)],
   offset |-> [CAN_L |-> Bytes(\h14C, 4), CAN_H |-> Bytes(\h154, 4)]]

AnalogSwitchAll == Part(\h160, 4)
AnalogSwitch ==
  [coupling |-> [CAN_L |-> BoolBind(\h160, 0, TRUE), CAN_H |-> BoolBind(\h160, 1, TRUE)],
   attenuation |-> [CAN_L |-> BoolBind(\h160, 2, TRUE), CAN_H |-> BoolBind(\h160, 3, TRUE)]]

Trigger1All == Part(\h180, \h10)
Trigger1 ==
  [trig_pre |-> Bytes(\h180, 4), trig_post |-> Bytes(\h184, 4),
   auto_time |-> Bytes(\h188, 4), div_coe |-> Bytes(\h18C, 4)]

TriggerStateAll == Part(\h190, \h10)
TriggerState ==
  [clet_bit |-> BoolBind(\h190, 0, TRUE), trig_bit |-> BoolBind(\h190, 1, TRUE),
   pre_bit |-> BoolBind(\h190, 2, TRUE)]

Trigger2All == Part(\h1A0, \h10)
Trigger2 ==
  [trig_source |-> Sub(\h1A0, 0, 2), cmp_low |-> Bytes(\h1A4, 1), cmp_high |-> Bytes(\h1A5, 1),
   trig_type |-> Sub(\h1A8, 0, 2), trig_mode |-> Sub(\h1A8, 31, 31),
   trig_time |-> Sub(\h1AC, 0, 29), compare |-> Sub(\h1AC, 30, 31)]

ScopeCtrlAll == Part(\h1B0, 4)
ScopeCtrl == [scope_ctrl |-> BoolBind(\h1B0, 0, TRUE)]

FpgaSendAll == Part(\h1380, \h3C)
FpgaSendSend == Part(\h1380, \h18)
FpgaSendState == Part(\h139C, 4)
FpgaSend ==
  [btr_div |-> Bytes(\h1380, 2), bit_num |-> Bytes(\h1382, 1), send_num |-> Bytes(\h1383, 1),
   frame_data |-> Bytes(\h1384, 20), ack_bit |-> Bytes(\h1398, 1), ack |-> BoolBind(\h1399, 0, TRUE),
   start_send |-> BoolBind(\h139C, 0, TRUE), send_state |-> BoolBind(\h139C, 0, FALSE),
   set_ack |-> BoolBind(\h139C, 1, TRUE), ack_state |-> BoolBind(\h139C, 1, FALSE),
   dstb_start |-> Bytes(\h13A0, 2), dstb_end |-> Bytes(\h13A2, 2),
   dstb_data |-> Bytes(\h13A4, 20), dstb |-> BoolBind(\h13B8, 0, TRUE)]

\* the device information is a memory of its own
DeviceInfoSize == \h40
DeviceInfo ==
  [id |-> Bytes(\h0, 2), loader_version |-> Bytes(\h4, 4), device_type |-> Bytes(\h8, 4),
   firmware_version |-> Bytes(\hC, 4), fpage_version |-> Bytes(\h10, 4),
   device_serial_num |-> Bytes(\h14, 4), produce_data |-> Bytes(\h18, 4),
   usb_speed |-> Bytes(\h1C, 2), firmware_update_flag |-> Bytes(\h1E, 2),
   voltage_12 |-> Bytes(\h20, 2), voltage_1p2 |-> Bytes(\h22, 2), voltage_3p3 |-> Bytes(\h24, 2),
   voltage_2p5 |-> Bytes(\h26, 2), voltage_5 |-> Bytes(\h28, 2),
   fpga_core_temp |-> Bytes(\h2A, 2), env_temp |-> Bytes(\h2C, 2)]

\* NOTREACHED, and the first of them, for another number
GetDeviceType(info) ==
  LET dt == Get(info, DeviceInfo.device_type) - \h1201
  IN IF dt \in 0 .. 2 THEN <<"DT_CS1201", "DT_CS1202", "DT_CS1203">>[dt + 1] ELSE "DT_CS1201"
IsProVersion(info) == GetDeviceType(info) = "DT_CS1203"
DeviceK(device_type) == IF device_type = "DT_CS1203" THEN 8 ELSE 2
==============================================================================
