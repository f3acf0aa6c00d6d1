------------------------------ MODULE UsbPort ------------------------------
(***************************************************************************)
(* UsbPort: the commands that the device thread sends to a CANScope and the *)
(* data it reads back (canscope/device/usb/usb_port.cc).  A command and its *)
(* answer go through the pipes of port 1, the samples and the frames asked  *)
(* for come through port 3.  Nothing but the id of the command ties an      *)
(* answer to it, and nothing at all the data, so that what a failed call    *)
(* has left in a pipe is what the next call reads.                          *)
(*                                                                          *)
(* The device is external: it handles commands one by one, late or never.   *)
(* Data is counted in units; a frame is some of them, and one read of a     *)
(* pipe moves one.                                                          *)
(***************************************************************************)
EXTENDS Naturals, Sequences, FiniteSets, SequencesExt

CONSTANTS
  FrameSize,  \* kFrameSize, in units
  MaxUnits,   \* bound: units that the device stores in all
  MaxFault,   \* bound: transfers that fail although there is data to come
  MaxLeft     \* bound: units left in the pipe of port 3 when others make a call

ASSUME UsbAssumption ==
  FrameSize \in Nat \ {0} /\ MaxUnits \in Nat /\ MaxFault \in Nat /\ MaxLeft \in Nat

VARIABLES
  opened,    \* pipes holds handles
  commands,  \* written to the pipe of port 1, not handled yet
  answers,   \* answers in the pipe of port 1
  stream,    \* units in the pipe of port 3
  call,      \* the call under way, and its result
  stored,    \* the device: units of frames stored so far ...
  taken,     \* ... and how many of them were asked for and sent
  faults,    \* transfers that failed although there was data to come
  broken     \* history: some transfer has failed

deviceVars == <<stored, taken>>
pipeVars == <<commands, answers, stream>>
usbVars == <<opened, pipeVars, call, deviceVars, faults, broken>>

\* the commands: to read and write registers, and to read port 3
FrameNum == [id |-> "RDEP1", addr |-> "frame_num", size |-> 1]
Register(id) == [id |-> id, addr |-> "register", size |-> 1]
FrameData(n) == [id |-> "RDEP3", addr |-> "frames", size |-> n]
ScopeData == [id |-> "RDEP3", addr |-> "scope", size |-> 1]

Sample == 0  \* a unit of no frame

\* history: alone, nothing of an earlier call was in the pipes when this one began;
\* fresh, what was read so far is this very command's
NoCall == [at |-> "none", who |-> "other", cmd |-> FrameNum, got |-> <<>>,
           alone |-> TRUE, fresh |-> TRUE]

UsbInit ==
  /\ opened = TRUE /\ commands = <<>> /\ answers = <<>> /\ stream = <<>>
  /\ call = NoCall /\ faults = 0 /\ broken = FALSE
  /\ stored \in {n \in 0 .. MaxUnits : n % FrameSize = 0} /\ taken = 0

Outdated(pipe) == [i \in 1 .. Len(pipe) |-> [pipe[i] EXCEPT !.old = TRUE]]

\* a transfer fails: it times out, when nothing is to come, or otherwise
MayFail(pipe) ==
  /\ \/ commands = <<>> /\ pipe = <<>> /\ UNCHANGED faults
     \/ faults < MaxFault /\ faults' = faults + 1
  /\ broken' = TRUE

\* SetCmd, and the write of SendCmd.  A write that fails may have been one to a
\* port that is closed, or have arrived all the same.
SendCmd(who, cmd) ==
  /\ answers' = Outdated(answers) /\ stream' = Outdated(stream)
  /\ LET sent == Append(Outdated(commands), [cmd |-> cmd, old |-> FALSE])
         empty == commands = <<>> /\ answers = <<>> /\ stream = <<>>
         at(s) == [NoCall EXCEPT !.at = s, !.who = who, !.cmd = cmd, !.alone = empty]
     IN \/ opened /\ call' = at("answer") /\ commands' = sent /\ UNCHANGED <<faults, broken>>
        \/ ~opened /\ call' = at("failed") /\ UNCHANGED <<commands, faults, broken>>
        \/ /\ opened /\ faults < MaxFault /\ faults' = faults + 1 /\ broken' = TRUE
           /\ call' = at("failed") /\ commands' \in {Outdated(commands), sent}
  /\ UNCHANGED <<opened, deviceVars>>

\* the response of SendCmd: only the id of the command is compared
ReadResponse ==
  /\ call.at = "answer"
  /\ \/ /\ answers # <<>>
        /\ answers' = Tail(answers)
        /\ LET a == Head(answers) IN
           call' = [call EXCEPT
             !.at = IF a.cmd.id # call.cmd.id THEN "failed"
                    ELSE IF a.cmd.id = "RDEP3" THEN "data" ELSE "ok",
             !.got = IF a.cmd.id = "RDEP1" THEN <<a.value>> ELSE <<>>,
             !.fresh = @ /\ ~a.old]
        /\ UNCHANGED <<faults, broken>>
     \/ MayFail(answers) /\ call' = [call EXCEPT !.at = "failed"] /\ UNCHANGED answers
  /\ UNCHANGED <<opened, commands, stream, deviceVars>>

\* (slip) the last unit is not read
ReadEP3Short ==
  /\ call.at = "data"
  /\ \/ /\ stream # <<>>
        /\ stream' = Tail(stream)
        /\ call' = [call EXCEPT
             !.at = IF Len(call.got) + 2 >= call.cmd.size THEN "ok" ELSE "data",
             !.got = Append(@, Head(stream).unit),
             !.fresh = @ /\ ~Head(stream).old]
        /\ UNCHANGED <<faults, broken>>
     \/ /\ MayFail(stream) /\ call' = [call EXCEPT !.at = "failed"]
        /\ stream' \in {stream} \cup (IF stream = <<>> THEN {} ELSE {Tail(stream)})
  /\ UNCHANGED <<opened, commands, answers, deviceVars>>

\* the loop of ReadEP3, one unit at a time; a read that fails or is short ends
\* it, and what is still to come stays in the pipe
ReadEP3 ==
  /\ call.at = "data"
  /\ \/ /\ stream # <<>>
        /\ stream' = Tail(stream)
        /\ call' = [call EXCEPT
             !.at = IF Len(call.got) + 1 = call.cmd.size THEN "ok" ELSE "data",
             !.got = Append(@, Head(stream).unit),
             !.fresh = @ /\ ~Head(stream).old]
        /\ UNCHANGED <<faults, broken>>
     \/ /\ MayFail(stream) /\ call' = [call EXCEPT !.at = "failed"]
        /\ stream' \in {stream} \cup (IF stream = <<>> THEN {} ELSE {Tail(stream)})
  /\ UNCHANGED <<opened, commands, answers, deviceVars>>

\* the device handles a command
HandleCommand ==
  /\ opened /\ commands # <<>>
  /\ commands' = Tail(commands)
  /\ LET c == Head(commands)
         n == IF c.cmd.addr # "frames" THEN 0
              ELSE IF c.cmd.size < stored - taken THEN c.cmd.size ELSE stored - taken
         unit(u) == [unit |-> u, old |-> c.old]
     IN /\ answers' = Append(answers, [cmd |-> c.cmd, old |-> c.old,
                                       value |-> IF c.cmd.addr = "frame_num" THEN stored - taken ELSE 0])
        /\ stream' = stream \o (IF c.cmd.addr = "scope" THEN <<unit(Sample)>>
                                ELSE [i \in 1 .. n |-> unit(taken + i)])
        /\ taken' = taken + n
  /\ UNCHANGED <<opened, call, stored, faults, broken>>

\* the device stores a frame
StoreFrame ==
  /\ stored + FrameSize <= MaxUnits
  /\ stored' = stored + FrameSize
  /\ UNCHANGED <<opened, pipeVars, call, taken, faults, broken>>

\* CloseDevice; the port is not opened again, so what is in the pipes is lost
CloseDevice ==
  /\ opened /\ call.at = "none"
  /\ opened' = FALSE
  /\ commands' = <<>> /\ answers' = <<>> /\ stream' = <<>>
  /\ UNCHANGED <<call, deviceVars, faults, broken>>

\* Whatever failed before, a call that succeeds got its own answer and its own
\* data if it found nothing of an earlier one in the pipes; and until a transfer
\* fails every call does: none leaves a command, an answer or a unit behind.
OwnAnswer ==
  /\ call.at = "ok" /\ call.alone => call.fresh
  /\ ~broken => call.alone
=============================================================================
