----------------------------- MODULE MCRegisters -----------------------------
(* The configs are the program's own (config_util.cc) and that of            *)
(* frame_device_unittest.cc.                                                 *)
EXTENDS Registers, RegisterTests

ProgramConfig ==
  [device_enable |-> FALSE, ack_enable |-> TRUE, sja_btr |-> 5184, percent |-> 50,
   frame_bit |-> 100, bit_sample_rate |-> 5000]
MCFrameConfigs ==
  {ProgramConfig, [ProgramConfig EXCEPT !.device_enable = TRUE, !.frame_bit = 180]}
MCOffsets == {-4000}
MCTimeOffsets == {3337, -3337}
MCLevels == {3990, -500}

\* no two registers overlap, and what the devices write is in one of them
ASSUME WritesFit ==
  /\ \A r, q \in Group : r # q => r \cap q = {}
  /\ \A part \in ToSet(OscWrites \o FrameWrites) \cup {FpgaSendSend, FpgaSendState} :
       InRegister(part) /\ Cardinality(Met(part)) = 1

\* a device is brought up, closed and brought up again, and takes writes when
\* it is up only
ASSUME SimulatorServes ==
  LET up == InitDevice(PoweredOn, kDevicePath)
      again == InitDevice(CloseDevice(up), kDevicePath)
      write(sim) == SimWrite(sim, SoftDiffSys, {})
  IN /\ write(again).alive /\ CloseDevice(write(again)).alive
     /\ ~write(PoweredOn).alive /\ ~write(CloseDevice(up)).alive
     /\ ~InitDevice(up, kDevicePath).alive /\ InitDevice(up, "elsewhere") = up
     /\ IsProVersion(up.info) /\ DeviceK(GetDeviceType(up.info)) = 8

\* the scope of the simulator has triggered as soon as it is asked
ASSUME AlwaysTriggered ==
  \A bit \in DOMAIN TriggerState :
    /\ IsTrue(ReadDevice({}, TriggerStateAll), TriggerState[bit])
    /\ ~IsTrue(ReadDevice({}, Trigger1All), TriggerState[bit])

\* a sample on the screen is one step above the level that triggers on it
ASSUME SamplesMatchLevels ==
  \A range \in 0 .. 5, percent \in -50 .. 50 :
    LET mv == percent * 10 * Volt(range)
    IN ToChnlValue(range, mv) - Code(range, mv) \in 0 .. 1

\* what the unit tests of the binds and the registers say holds of the model
ASSUME TestsPass == RegisterTestsPass
==============================================================================
