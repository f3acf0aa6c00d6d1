--------------------------- MODULE FrameCollecter ---------------------------
(***************************************************************************)
(* FrameDataCollecter: the state machine that fetches the CAN frames the    *)
(* device has stored (canscope/device/frame_device/frame_data_collecter.cc).*)
(* It is the job of a ThreadedLoop on the device thread, where it shares    *)
(* the UsbPort with the oscilloscope and the settings, task by task.        *)
(***************************************************************************)
EXTENDS UsbPort, ThreadedLoop

CONSTANT BufferMax  \* kFrameBufferMaxSize, in units

ASSUME BufferAssumption == BufferMax \in Nat \ {0}

VARIABLES
  next_state,      \* next_state_; within a state, the state itself
  step,            \* what the machine waits for: "call" outside
  clean_leftover,  \* clean_leftover_
  pushed,          \* history: the units pushed into the queue
  cut,             \* history: a bulk was of the size of the buffer
  cleaned          \* history: how many units were thrown away

queueVars == <<pushed, cut>>
machineVars == <<next_state, step, clean_leftover, queueVars, cleaned>>
frameVars == <<usbVars, loopVars, machineVars>>

FrameInit ==
  /\ UsbInit /\ LoopInit
  /\ next_state = "CLEAN_LEFTOVER" /\ step = "call"
  /\ clean_leftover \in BOOLEAN /\ cleaned = 0
  /\ pushed = <<>> /\ cut = FALSE

\* the flags, tasks and views of the loop while its job runs
LoopRest == <<flags, posting, loop_tasks, viewVars, runs>>

\* the end of OnLoopRun, and LoopRunImp, which calls it again at IMMEDIATE; a
\* machine without a next state stops
Go(state, loop_state) ==
  /\ next_state' = state /\ step' = "call" /\ call' = NoCall
  /\ body' = IF state = "NONE" \/ loop_state = "STOP" THEN "done"
             ELSE IF loop_state = "NEXT_LOOP" THEN "more" ELSE "body"
  /\ UNCHANGED LoopRest
  /\ UNCHANGED <<opened, pipeVars, deviceVars, faults, broken>>

\* a call to the device from within a state
Ask(cmd, s) ==
  /\ SendCmd("frame", cmd) /\ step' = s
  /\ UNCHANGED <<loopVars, next_state, clean_leftover, queueVars, cleaned>>

In(state, s) == body = "body" /\ next_state = state /\ step = s
Ok == call.at = "ok"
frame_num == call.got[1]
ReadSize == IF frame_num > BufferMax THEN BufferMax ELSE frame_num

\* each state but WAIT_FULL looks at the number of frames first
AskFrameNum ==
  /\ \/ In("CLEAN_LEFTOVER", "call") /\ clean_leftover
     \/ In("CHECK_COLLECT", "call") \/ In("COLLECT", "call")
  /\ Ask(FrameNum, "num")

\* (slip) the device is tried again at once
OffineRetries ==
  /\ body = "body" /\ call.at = "failed"
  /\ Go("CLEAN_LEFTOVER", "IMMEDIATE")
  /\ UNCHANGED <<clean_leftover, queueVars, cleaned>>

\* CHECK_DEVICE, anywhere.  (stop_by_offine_ is read by ReRun only.)
DeviceOffine ==
  /\ body = "body" /\ call.at = "failed"
  /\ Go("CLEAN_LEFTOVER", "STOP")
  /\ UNCHANGED <<clean_leftover, queueVars, cleaned>>

\* DoCleanLeftover: ask, read and throw away until nothing is left
DoCleanLeftover ==
  \/ /\ \/ In("CLEAN_LEFTOVER", "call") /\ ~clean_leftover
        \/ In("CLEAN_LEFTOVER", "num") /\ Ok /\ frame_num = 0
     /\ Go("CHECK_COLLECT", "IMMEDIATE")
     /\ UNCHANGED <<clean_leftover, queueVars, cleaned>>
  \/ /\ In("CLEAN_LEFTOVER", "num") /\ Ok /\ frame_num > 0
     /\ Ask(FrameData(ReadSize), "data")
  \/ /\ In("CLEAN_LEFTOVER", "data") /\ Ok
     /\ SendCmd("frame", FrameNum) /\ step' = "num"
     /\ cleaned' = cleaned + Len(call.got)
     /\ UNCHANGED <<loopVars, next_state, clean_leftover, queueVars>>

\* a number that is not one of whole frames ends the run, with no state to go
\* on from
Misaligned == frame_num % FrameSize # 0

NoAligned ==
  /\ In("CHECK_COLLECT", "num") \/ In("COLLECT", "num")
  /\ Ok /\ Misaligned
  /\ Go("NONE", "STOP")
  /\ UNCHANGED <<clean_leftover, queueVars, cleaned>>

DoCheckCollect ==
  /\ In("CHECK_COLLECT", "num") /\ Ok /\ ~Misaligned
  /\ IF frame_num < BufferMax THEN Go("WAIT_FULL", "NEXT_LOOP") ELSE Go("COLLECT", "IMMEDIATE")
  /\ UNCHANGED <<clean_leftover, queueVars, cleaned>>

DoWaitFull ==
  /\ In("WAIT_FULL", "call")
  /\ Go("COLLECT", "IMMEDIATE")
  /\ UNCHANGED <<clean_leftover, queueVars, cleaned>>

StillNoData ==
  /\ In("COLLECT", "num") /\ Ok /\ frame_num = 0
  /\ Go("CHECK_COLLECT", "NEXT_LOOP")
  /\ UNCHANGED <<clean_leftover, queueVars, cleaned>>

\* (slip) the last unit of what is there is left for the next time
ReadFrameDataShort ==
  /\ In("COLLECT", "num") /\ Ok /\ ~Misaligned /\ frame_num > 0
  /\ Ask(FrameData(IF frame_num > BufferMax THEN BufferMax ELSE frame_num - 1), "data")

ReadFrameData ==
  /\ In("COLLECT", "num") /\ Ok /\ ~Misaligned /\ frame_num > 0
  /\ Ask(FrameData(ReadSize), "data")

\* (slip) a single run leaves the machine where it began
PushBulkFromStart ==
  /\ In("COLLECT", "data") /\ Ok
  /\ pushed' = pushed \o call.got /\ cut' = (cut \/ Len(call.got) = BufferMax)
  /\ IF single THEN Go("CLEAN_LEFTOVER", "STOP") ELSE Go("CHECK_COLLECT", "NEXT_LOOP")
  /\ UNCHANGED <<clean_leftover, cleaned>>

PushBulk ==
  /\ In("COLLECT", "data") /\ Ok
  /\ pushed' = pushed \o call.got /\ cut' = (cut \/ Len(call.got) = BufferMax)
  /\ Go("CHECK_COLLECT", IF single THEN "STOP" ELSE "NEXT_LOOP")
  /\ UNCHANGED <<clean_leftover, cleaned>>

DoCollect == StillNoData \/ ReadFrameData \/ PushBulk

\* a machine without a next state runs into CHECK_NE, which ends the program
OnLoopRun ==
  \/ AskFrameNum \/ DoCleanLeftover \/ NoAligned \/ DoCheckCollect \/ DoWaitFull
  \/ DoCollect \/ DeviceOffine

PortStep ==
  /\ HandleCommand \/ StoreFrame \/ ReadResponse \/ ReadEP3
  /\ UNCHANGED <<loopVars, machineVars>>

\* other tasks of the device thread: the oscilloscope collects, settings are
\* written
OtherCall ==
  /\ body = "idle" /\ call.at = "none" /\ Len(stream) <= MaxLeft
  /\ \E cmd \in {Register("RDEP1"), Register("WREP1"), ScopeData} : SendCmd("other", cmd)
  /\ UNCHANGED <<loopVars, machineVars>>

OtherReturn ==
  /\ call.who = "other" /\ call.at \in {"ok", "failed"}
  /\ call' = NoCall
  /\ UNCHANGED <<opened, pipeVars, deviceVars, faults, broken, loopVars, machineVars>>

\* CANScopeDeviceRunner::CloseDevice: StopAll, and the port is closed
Close ==
  /\ body = "idle" /\ CloseDevice
  /\ stop' = (stop \/ start \/ single)
  /\ UNCHANGED <<start, single, running, posting, loop_tasks, body, viewVars, runs>>
  /\ UNCHANGED machineVars

LoopStep ==
  /\ \/ call.at = "none" /\ LoopFrame
     \/ \E c \in Clients : Request(c) \/ Post(c)
  /\ UNCHANGED <<usbVars, machineVars>>

FrameNext ==
  LoopStep \/ OnLoopRun \/ PortStep \/ OtherCall \/ OtherReturn \/ Close

FrameSpec == FrameInit /\ [][FrameNext]_frameVars

\* The device thread runs its tasks, and a transfer ends: data comes or it is
\* given up.  That the frames the device stores are bounded is a quiet bus.
FrameFairness ==
  /\ SF_frameVars(LoopStep /\ LoopFrame)
  /\ WF_frameVars(OnLoopRun) /\ WF_frameVars(OtherReturn)
  /\ WF_frameVars(HandleCommand /\ PortStep)
  /\ WF_frameVars((ReadResponse \/ ReadEP3) /\ PortStep)
  /\ \A c \in Clients : WF_frameVars(LoopStep /\ Post(c))

FairFrameSpec == FrameSpec /\ FrameFairness

(***************************************************************************)
(* Properties.                                                              *)
(***************************************************************************)

\* Frames are pushed in the order they were stored, each once, and, as long as
\* no transfer failed, none is lost but those cleaned in the beginning, however
\* runs are started, stopped and single.
FramesInOrder ==
  /\ \A i, j \in 1 .. Len(pushed) :
       i < j /\ pushed[i] # Sample /\ pushed[j] # Sample => pushed[i] < pushed[j]
  /\ ~broken /\ step # "data" => pushed = [i \in 1 .. taken - cleaned |-> cleaned + i]

\* The number of units is one of whole frames, so that a run need not end, as
\* long as no bulk was cut at the size of the buffer and no transfer failed.
AlignedUnlessCut ==
  next_state = "NONE" => broken \/ cut

\* A stop ends the run once the bus is quiet: no transfer that fails, and
\* nobody else's, keeps the device thread for ever.
FrameStopEnds == stop ~> (~stop \/ next_state = "NONE")

\* Between two calls of OnLoopRun the machine knows its next state
\* ("CHECK_NE(STATE_NONE, next_state_)").
FrameKnowsNextState == step = "call" => next_state # "NONE"
=============================================================================
