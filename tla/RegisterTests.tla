---------------------------- MODULE RegisterTests ----------------------------
(***************************************************************************)
(* The unit tests of the binds, the memory and the registers, as formulas   *)
(* about RegisterMap: that what the tests say of the code is true of the    *)
(* model.  A run that extends this module evaluates them.                   *)
(***************************************************************************)
EXTENDS RegisterMap

\* the images after each of a row of set_values, from an image on
Written(image, sets) ==
  [n \in 1 .. Len(sets) |->
     FoldLeft(LAMBDA i, s : Put(i, s[1], s[2]), image, SubSeq(sets, 1, n))]

---------------------------------------------------------------------------
(* device/bool_bind_unittest.cc                                             *)

\* TestBoolBind0, TestBoolBind7 and their inverted twins: false, set, reset
OneBoolBind(index, no_invert) ==
  LET bind == BoolBind(0, index, no_invert)
      first == SetBool({}, bind, no_invert)
  IN /\ IsTrue({}, bind) = ~no_invert
     /\ IsTrue(first, bind) = no_invert /\ first = {index}
     /\ IsTrue(SetBool(first, bind, ~no_invert), bind) = ~no_invert
     /\ SetBool(first, bind, ~no_invert) = {}

TestToggle ==
  LET bind0 == BoolBind(0, 0, TRUE)
      set == SetBool({}, bind0, TRUE)
  IN set = Load(0, <<\h1>>) /\ Toggle(set, bind0) = {} /\ ~IsTrue(Toggle(set, bind0), bind0)

\* three binds of one byte are set and reset one after the other
TestBindTwo ==
  LET bind == [i \in {0, 5, 7} |-> BoolBind(0, i, TRUE)]
      sets == <<Bool(bind[0], TRUE), Bool(bind[5], TRUE), Bool(bind[7], TRUE),
                Bool(bind[0], FALSE), Bool(bind[5], FALSE), Bool(bind[7], FALSE)>>
      bytes == <<\h1, \h21, \hA1, \hA0, \h80, \h0>>
  IN \A n \in 1 .. 6 :
       /\ Written({}, sets)[n] = Load(0, <<bytes[n]>>)
       /\ \A i \in {0, 5, 7} : IsTrue(Written({}, sets)[n], bind[i]) = (i \in BitsOf(bytes[n]))

BoolBindTest ==
  /\ \A index \in {0, 7}, no_invert \in BOOLEAN : OneBoolBind(index, no_invert)
  /\ TestToggle /\ TestBindTwo

---------------------------------------------------------------------------
(* device/uint32_sub_bind_unittest.cc                                       *)

\* OneBitRead, TwoBitRead, AllBitRead, BigIndexFirst
SubBindReads ==
  LET reads == <<<<0, 0, 1>>, <<1, 1, 0>>, <<8, 8, 1>>>>
      two == <<<<0, 1, 3>>, <<5, 6, 0>>, <<10, 11, 3>>>>
      all == Word(\hEFAB, \hDC0F)
  IN \A n \in 1 .. 3 :
       /\ Get(BitsOf(\h101), Sub(0, reads[n][1], reads[n][2])) = reads[n][3]
       /\ Get(BitsOf(\hC0F), Sub(0, two[n][1], two[n][2])) = two[n][3]
       /\ Raw(all, Sub(0, 0, 31)) = all /\ Raw(all, Sub(0, 31, 0)) = all

SubBindMaxValue ==
  LET max == <<<<10, 10, \h1>>, <<2, 3, \h3>>, <<4, 6, \h7>>, <<12, 15, \hF>>, <<0, 9, \h3FF>>>>
  IN /\ \A n \in 1 .. 5 : MaxValue(Sub(0, max[n][1], max[n][2])) = BitsOf(max[n][3])
     /\ MaxValue(Sub(0, 0, 31)) = Word(\hFFFF, \hFFFF)

\* OneBitWrite, TwoBitWrite, and OutRange, which dies
SubBindWrites ==
  LET sets == <<<<Sub(0, 4, 5), 3>>, <<Sub(0, 8, 9), 2>>, <<Sub(0, 8, 9), 0>>>>
  IN /\ Put(BitsOf(\h101), Sub(0, 4, 4), 1) = BitsOf(\h111)
     /\ Written(BitsOf(\h101), sets) = <<BitsOf(\h131), BitsOf(\h231), BitsOf(\h31)>>
     /\ ~Fits(Sub(0, 4, 5), 4)

Uint32SubBindTest == SubBindReads /\ SubBindMaxValue /\ SubBindWrites

---------------------------------------------------------------------------
(* uint16_split_bind_unittest.cc, simple_type_bind_unittest.cc,             *)
(* uint8_bind_unittest.cc                                                   *)

\* LittleEndian, BigEndian and both with indices
Uint16SplitBindTest ==
  LET little == Load(0, <<2, 1>>)   \* 0x0102
      big == Load(0, <<1, 2>>)      \* 0x0201
      word == Load(0, <<4, 3, 2, 1>>)
      bytes == Load(0, <<1, 2, 3, 4>>)
  IN /\ Get(little, Split(0, 0, 1)) = \h102
     /\ Put(little, Split(0, 0, 1), \h304) = Load(0, <<4, 3>>)
     /\ Get(big, BigSplit(0, 0, 1)) = \h102
     /\ Put(big, BigSplit(0, 0, 1), \h304) = Load(0, <<3, 4>>)
     /\ Get(word, Split(0, 0, 2)) = \h204 /\ Get(word, Split(0, 1, 3)) = \h103
     /\ Put(Put(word, Split(0, 0, 2), \h608), Split(0, 1, 3), \h507) = Load(0, <<8, 7, 6, 5>>)
     /\ Get(bytes, BigSplit(0, 0, 2)) = \h103 /\ Get(bytes, BigSplit(0, 1, 3)) = \h204
     /\ Put(Put(bytes, BigSplit(0, 0, 2), \h507), BigSplit(0, 1, 3), \h608)
          = Load(0, <<5, 6, 7, 8>>)

\* Uint16BindTest, Uint32BindTest: what one byte order writes, the other reads
SimpleTypeBindTest ==
  LET content == Load(0, <<1, 2, 3, 4>>)
      short == Put(content, Bytes(0, 2), \h304)
      bigShort == Put(short, BigBytes(0, 2), \h506)
      long == Put(content, Bytes(0, 4), \h05060708)
      bigLong == Put(long, BigBytes(0, 4), \h090A0B0C)
  IN /\ Get(content, Bytes(0, 2)) = \h201 /\ Get(content, BigBytes(0, 2)) = \h102
     /\ short = Load(0, <<4, 3, 3, 4>>) /\ Get(short, BigBytes(0, 2)) = \h403
     /\ bigShort = Load(0, <<5, 6, 3, 4>>)
     /\ Get(bigShort, BigBytes(0, 2)) = \h506 /\ Get(bigShort, Bytes(0, 2)) = \h605
     /\ Get(content, Bytes(0, 4)) = \h04030201 /\ Get(content, BigBytes(0, 4)) = \h01020304
     /\ long = Load(0, <<8, 7, 6, 5>>) /\ Get(long, BigBytes(0, 4)) = \h08070605
     /\ bigLong = Load(0, <<9, 10, 11, 12>>)
     /\ Get(bigLong, BigBytes(0, 4)) = \h090A0B0C /\ Get(bigLong, Bytes(0, 4)) = \h0C0B0A09

\* ten bytes, read and written one by one
Uint8BindTest ==
  LET bytes == Load(0, [i \in 1 .. 10 |-> i - 1])
  IN /\ \A i \in 0 .. 9 : Get(bytes, Bytes(i, 1)) = i
     /\ Written({}, [i \in 1 .. 10 |-> <<Bytes(i - 1, 1), i - 1>>])[10] = bytes

---------------------------------------------------------------------------
(* device/register_memory_unittest.cc                                       *)

\* RegisterMemoryTest and MemoryContentTest: 100 bytes, each its own offset; a
\* copy keeps what is overwritten in the memory
RegisterMemoryTest ==
  LET memory == [RegisterMemory(\h900010, 100) EXCEPT !.image = Load(0, [i \in 1 .. 100 |-> i - 1])]
      content == MemoryContent(memory)
      changed == [memory EXCEPT
                    !.image = Written(@, [n \in 1 .. 3 |-> <<Bytes(<<80, 16, 0>>[n], 1), 100>>])[3]]
      At(m, offset) == Get(m.image, Bytes(PtrByRelative(m, offset), 1))
  IN /\ HasContent(content) /\ content.size = 100
     /\ \A i \in {0, 16, 80} :
          /\ At(memory, i) = i
          /\ Get(memory.image, Bytes(PtrByAbsoulute(memory, \h900010 + i), 1)) = i
          /\ At(changed, i) = 100 /\ Get(content.image, Bytes(i, 1)) = i
          /\ At(SetMemory(content, changed), i) = i

---------------------------------------------------------------------------
(* canscope/device/register: SetContentAndCheckProperty of each             *)

AnalogCtrlTest ==
  LET image == Load(\h140, [i \in 1 .. 8 |-> i - 1] \o [i \in 1 .. 16 |-> i])
  IN /\ Get(image, AnalogCtrl.gain.CAN_L) = \h04030201
     /\ Get(image, AnalogCtrl.offset.CAN_L) = \h08070605
     /\ Get(image, AnalogCtrl.gain.CAN_H) = \h0C0B0A09
     /\ Get(image, AnalogCtrl.offset.CAN_H) = \h100F0E0D

AnalogSwitchTest ==
  LET image == Load(\h160, <<\hA, 1, 2, 3>>)
  IN /\ ~IsTrue(image, AnalogSwitch.coupling.CAN_L) /\ IsTrue(image, AnalogSwitch.coupling.CAN_H)
     /\ ~IsTrue(image, AnalogSwitch.attenuation.CAN_L)
     /\ IsTrue(image, AnalogSwitch.attenuation.CAN_H)

\* n bytes in a row, from a first one
Row(first, n) == [i \in 1 .. n |-> first + i - 1]
ReadsRow(image, field, first) ==
  \A i \in 0 .. (Len(field) \div 8) - 1 :
    Get(image, SubSeq(field, 8 * i + 1, 8 * i + 8)) = first + i

FpgaSendTest ==
  LET image == Load(\h1380, <<1, 2, 7, 8>> \o Row(\h10, 20) \o <<\h33, 1, 0, 0, 3, 0, 0, 0>>
                            \o Row(\h41, 4) \o Row(\h50, 20) \o <<1, 0, 0, 0>>)
  IN /\ Get(image, FpgaSend.btr_div) = \h201 /\ Get(image, FpgaSend.bit_num) = 7
     /\ Get(image, FpgaSend.send_num) = 8 /\ ReadsRow(image, FpgaSend.frame_data, \h10)
     /\ Get(image, FpgaSend.ack_bit) = \h33 /\ IsTrue(image, FpgaSend.ack)
     /\ Get(image, FpgaSend.dstb_start) = \h4241 /\ Get(image, FpgaSend.dstb_end) = \h4443
     /\ ReadsRow(image, FpgaSend.dstb_data, \h50) /\ IsTrue(image, FpgaSend.dstb)

FrameStorageTest ==
  LET image == Load(\h100, <<\h40, \h1A, 0, 0, 0, \h12, \h34, \h56, 1, 0, 0, 0>>)
  IN /\ Get(image, FrameStorage.frame_depth) = \h1A40
     /\ Get(image, FrameStorage.frame_num) = \h56341200 /\ IsTrue(image, FrameStorage.overflow)

ScopeCtrlTest == IsTrue(Load(\h1B0, <<1, 0, 0, 0>>), ScopeCtrl.scope_ctrl)

SJA1000Test ==
  LET image == Load(\h0, <<0, \h14, 1, 0>> \o Row(1, 13) \o <<0, 0, 0, \h12, \h13, \hD2, \h80>>)
  IN /\ Get(image, SJA1000.sja_btr) = \h1400 /\ ReadsRow(image, SJA1000.frame_data, 1)
     /\ \A bind \in {SJA1000.slient, SJA1000.int_bus, SJA1000.int_send, SJA1000.int_alc,
                     SJA1000.cfg, SJA1000.sending} : IsTrue(image, bind)
     /\ Get(image, SJA1000.s_alc) = \h12 /\ Get(image, SJA1000.s_ecc) = \h13
     /\ Raw(image, SJA1000.send_state) = Word(\h80D2, \h1312)

SoftDiffTest ==
  LET image == Load(\hC0, <<0, \h14, 2, \h80, 4, 5, 6, 7, 4, 16, 80, 0, 2, 4, 6, 0,
                            1, 2, 3, 4, 5, 0, 7, 8, 1, 3, 5, 2>>)
  IN /\ Get(image, SoftDiff.sja_btr) = \h1400
     /\ IsTrue(image, SoftDiff.sys_cfg) /\ IsTrue(image, SoftDiff.diff_ctrl)
     /\ Get(image, SoftDiff.ch_sens.CAN_H) = 4 /\ Get(image, SoftDiff.ch_sens.CAN_L) = 16
     /\ Get(image, SoftDiff.ch_sens.CAN_DIFF) = 80
     /\ Get(image, SoftDiff.ch_zero.CAN_H) = \h102 /\ Get(image, SoftDiff.ch_zero.CAN_L) = \h304
     /\ Get(image, SoftDiff.ch_zero.CAN_DIFF) = \h506 /\ Get(image, SoftDiff.fil_div) = 5

Trigger1Test ==
  LET image == Load(\h180, Row(1, 16))
  IN /\ Get(image, Trigger1.trig_pre) = \h04030201 /\ Get(image, Trigger1.trig_post) = \h08070605
     /\ Get(image, Trigger1.auto_time) = \h0C0B0A09 /\ Get(image, Trigger1.div_coe) = \h100F0E0D

Trigger2Test ==
  LET image == Load(\h1A0, <<\hFD, \hFF, \hFF, \hFF, \hAB, \hCD, \hFF, \hFF,
                             \hFA, \hA, \hB, \h80, \hD, \hE, \hF, \hBD>>)
  IN /\ Get(image, Trigger2.trig_source) = 5 /\ Get(image, Trigger2.cmp_low) = \hAB
     /\ Get(image, Trigger2.cmp_high) = \hCD /\ Get(image, Trigger2.trig_type) = 2
     /\ Get(image, Trigger2.trig_mode) = 1 /\ Get(image, Trigger2.compare) = 2
     /\ Get(image, Trigger2.trig_time) = \h3D0F0E0D

TriggerStateTest ==
  LET image == Load(\h190, <<\hD>> \o [i \in 1 .. 11 |-> \hFF])
  IN /\ IsTrue(image, TriggerState.clet_bit) /\ ~IsTrue(image, TriggerState.trig_bit)
     /\ IsTrue(image, TriggerState.pre_bit)

\* all of them
RegisterTestsPass ==
  /\ BoolBindTest /\ Uint32SubBindTest /\ Uint16SplitBindTest /\ SimpleTypeBindTest
  /\ Uint8BindTest /\ RegisterMemoryTest
  /\ AnalogCtrlTest /\ AnalogSwitchTest /\ FpgaSendTest /\ FrameStorageTest /\ ScopeCtrlTest
  /\ SJA1000Test /\ SoftDiffTest /\ Trigger1Test /\ Trigger2Test /\ TriggerStateTest
==============================================================================
