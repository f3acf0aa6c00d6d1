------------------------------ MODULE Simulator ------------------------------
(***************************************************************************)
(* The simulated device (canscope/device_simulate) and how                  *)
(* CANScopeDeviceRunner brings a device up.  A simulator is opened_,        *)
(* load_fpga_, the image of its device information and that of its          *)
(* registers; it is no longer alive when one of its CHECKs failed.          *)
(*                                                                          *)
(* Voltages are in mV, times in units of 10 ns.                             *)
(***************************************************************************)
EXTENDS RegisterMap

\* CANScopeDeviceRegisterGroup; the device information is not in it
Group ==
  {AnalogCtrlAll, AnalogSwitchAll, FpgaSendAll, FrameStorageAll, ScopeCtrlAll, SJA1000All,
   SoftDiffAll, Trigger1All, TriggerStateAll, Trigger2All, WaveReadCtrlAll, WaveStorageAll}

\* NOTREACHED: the range is in one register
InRegister(part) == \E r \in Group : part \subseteq r
\* the registers that it meets: WriteDevice and ReadDevice take the first
Met(part) == {r \in Group : r \cap part # {}}

\* the only callback: whatever it is asked, the simulated scope has triggered
OnTriggerState(image) ==
  FoldLeft(LAMBDA i, bit : SetBool(i, TriggerState[bit], TRUE), image,
           <<"pre_bit", "trig_bit", "clet_bit">>)
\* a write is copied into the memory, and a read runs the callback before it
WriteDevice(image, part, from) == (image \ part) \cup (from \cap part)
ReadDevice(image, part) ==
  (IF TriggerStateAll \in Met(part) THEN OnTriggerState(image) ELSE image) \cap part

---------------------------------------------------------------------------
(* SimulateDeviceDelegate.                                                  *)

Erased == 0 .. 31   \* 0xFFFFFFFF: there is nothing in the FPGA
kDevicePath == "CANScopeDeviceSimulate"

PoweredOn ==
  [alive |-> TRUE, opened |-> FALSE, load_fpga |-> FALSE, group |-> {},
   info |-> Put(PutRaw({}, DeviceInfo.fpage_version, Erased), DeviceInfo.device_type, \h1203)]

Check(sim, condition) == [sim EXCEPT !.alive = @ /\ condition]

OpenDevice(sim) == [Check(sim, ~sim.opened) EXCEPT !.opened = TRUE]
CloseDevice(sim) == [Check(sim, sim.opened) EXCEPT !.opened = FALSE]
DownloadFPGA(sim) ==
  [Check(sim, sim.opened /\ ~sim.load_fpga) EXCEPT
     !.load_fpga = TRUE, !.info = Put(@, DeviceInfo.fpage_version, \h1234)]
\* WriteDevice, ReadDevice: CheckOpen and CheckConfig, and the group's own
SimWrite(sim, part, from) ==
  [Check(sim, sim.opened /\ sim.load_fpga /\ InRegister(part))
     EXCEPT !.group = WriteDevice(@, part, from)]

\* CANScopeDeviceRunner::InitDeviceImpl, with a file to load
InitDevice(sim, path) ==
  IF path # kDevicePath THEN sim
  ELSE LET open == OpenDevice(sim)
       IN IF Raw(open.info, DeviceInfo.fpage_version) # Erased THEN open ELSE DownloadFPGA(open)

---------------------------------------------------------------------------
(* What OscDeviceSimulate makes of the registers.                           *)

COEToVoltRange(coe) ==
  CASE coe = 4 -> 0 [] coe = 8 -> 1 [] coe = 16 -> 2 [] coe = 32 -> 3 [] coe = 80 -> 4 [] coe = 200 -> 5
COEToTimeBase(coe) ==
  SelectInSeq(<<0, 1, 4, 9, 19, 49, 99, 199, 499, 999, 1999, 4999, 9999, 19999, 49999, 99999,
                199999, 499999, 1999999>>, LAMBDA c : c = coe) - 1

VoltOf == <<1, 2, 4, 8, 20, 50>>
Volt(range) == VoltOf[range + 1]
\* TimeBaseValue, up to 100 ms
BaseOf == <<100, 200, 500, 1000, 2000, 5000, 10000, 20000, 50000, 100000, 200000,
            500000, 1000000, 2000000, 5000000, 10000000>>

\* UpdateVoltConfig with ChZeroToOffset
ShownRange(image, c) == COEToVoltRange(Get(image, SoftDiff.ch_sens[c]))
ShownOffset(image, c) ==
  (Get(image, SoftDiff.ch_zero[c]) - 127) * 4 * Volt(ShownRange(image, c))
\* UpdateTimeBase, UpdateTriggerBase; the product has 32 bits, and so has the
\* difference, which wraps below zero (2^32 ns, less 6 of them)
ShownTimeBase(image) == COEToTimeBase(Get(image, Trigger1.div_coe))
SAMET(image) == Get(image, Trigger1.div_coe) + 1
FitsTrigger(image) == Get(image, Trigger1.trig_pre) <= 429496729 \div SAMET(image)
ShownTimeOffset(image, k) ==
  LET before == (Get(image, Trigger1.trig_pre) * SAMET(image)) \div 2
  IN (before - BaseOf[ShownTimeBase(image) + 1] * 5 * k) % 429496729

\* the byte of a sample, from the bottom of the screen to the top
ToChnlValue(range, mv) ==
  LET temp == ((mv + 500 * Volt(range)) * 250) \div (1000 * Volt(range))
  IN IF temp < 0 THEN 0
     ELSE IF mv > 500 * Volt(range) THEN 255 ELSE temp + 3
==============================================================================
