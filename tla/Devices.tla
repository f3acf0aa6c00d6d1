------------------------------ MODULE Devices ------------------------------
(***************************************************************************)
(* The devices from plug to unplug (canscope/device): CANScopeDeviceFinder  *)
(* enumerates, DevicesManager merges what was found and opens and closes,   *)
(* a CANScopeDevice lives until its last reference goes, and                *)
(* CANScopeProcess follows it from the UI thread and ends the program.      *)
(*                                                                          *)
(* A task of a thread is one step, but for the round of the finder, whose   *)
(* enumeration is stale when it is used, and for Close(), which another     *)
(* thread may overtake.  Every queue of tasks is first in, first out.       *)
(***************************************************************************)
EXTENDS Naturals, Sequences, FiniteSets, SequencesExt, DeviceList

CONSTANTS
  Paths,       \* the places a device may be plugged into
  Rank,        \* Rank[p]: where EnumDevices lists what is plugged into p
  Sound,       \* places whose device opens when it is tried again and again;
               \* at any other it may fail each time
  Modes,       \* the ways the manager and the finder are created
  MaxPlug,     \* bound: how often a device is plugged or unplugged
  MaxDevices,  \* bound: how many CANScopeDevice objects live at a time
  MaxCalls,    \* bound: how many calls of OpenDevice and CloseDevice are made
  MaxQueue     \* bound: with more tasks waiting the finder's delay is not over

\* ui: the program, else a test without CANScopeProcess; user: OpenDevice and
\* CloseDevice are called; the other flags are the parameters of
\* DevicesManager::Create and of the finder
ModeType == [ui : BOOLEAN, user : BOOLEAN, first : BOOLEAN, all : BOOLEAN,
             close : BOOLEAN, stop : BOOLEAN]

ASSUME DevicesAssumption ==
  /\ MaxPlug \in Nat /\ MaxDevices \in Nat /\ MaxCalls \in Nat
  /\ MaxQueue \in Nat
  /\ Modes \subseteq ModeType
  /\ Rank \in [Paths -> Nat] /\ \A p, q \in Paths : Rank[p] = Rank[q] => p = q
  /\ Sound \subseteq Paths
  /\ Paths # {} /\ \A m \in Modes : ~(m.first /\ m.all) /\ (m.ui => m.first /\ ~m.close /\ ~m.user)

Ids == 1 .. MaxDevices
NoDevice == 0

VARIABLES
  mode,
  usb,        \* usb[p]: plugs and unplugs so far; a device is there if odd
  calls,      \* calls of OpenDevice and CloseDevice so far
  finder,     \* "on", "stopping" once Stop() was called, "off"
  work,       \* the round of the finder: where it is and what is left to do
  manager,    \* g_manager is not NULL
  status,     \* device_to_status_, as GetDeviceStatus sees it
  device,     \* path_to_device_; its devices' runners are the observers
  open_first, \* open_first_
  dev,        \* the CANScopeDevices: path, port, holders of a reference ...
  queue,      \* the tasks of each thread
  device_,    \* CANScopeProcess::device_, a raw pointer
  window,     \* the window is shown
  phase       \* of the program

usbVars == <<mode, usb, calls>>
mgrVars == <<status, device, open_first>>
uiVars == <<manager, device_, window, phase>>
devVars == <<usbVars, finder, work, mgrVars, dev, queue, uiVars>>

Plugged(p) == usb[p] % 2 = 1
\* the front of the list of these places
FirstOf(found) == {p \in found : \A q \in found : Rank[p] <= Rank[q]}
Idle == [at |-> "idle", found |-> {}, open |-> {}, close |-> {},
         list |-> FALSE, state |-> FALSE]
NoDev == [path |-> CHOOSE p \in Paths : TRUE, port |-> 0, refs |-> {},
          created |-> FALSE, life |-> "none"]
Threads == {"DEVICE", "UI", "TASK"}

DevicesInit ==
  /\ mode \in Modes
  /\ usb = [p \in Paths |-> 0] /\ calls = 0
  /\ finder = "on" /\ work = Idle
  /\ manager = TRUE /\ status = [p \in Paths |-> "NoExist"]
  /\ device = [p \in Paths |-> NoDevice] /\ open_first = FALSE
  /\ dev = [d \in Ids |-> NoDev] /\ queue = [t \in Threads |-> <<>>]
  /\ device_ = NoDevice /\ window = FALSE /\ phase = "up"

Alive == phase \notin {"exited", "crashed"}
\* the object a new device is: one that never was, or is deleted
Free == {d \in Ids : dev[d].life = "none"}
NewDevice == CHOOSE d \in Free : TRUE

Post(q, t, task) == [q EXCEPT ![t] = Append(@, task)]
\* NotifyAll: one task for each thread; nobody observes on the others
NotifyAll(q, type, d) ==
  IF mode.ui THEN Post(Post(q, "UI", <<type, d>>), "TASK", <<type, d>>) ELSE q
\* ObserverListThreadSafe: one task if the device thread has observers
NotifyObservers(q, observed) ==
  IF \E p \in Paths : observed[p] # NoDevice
  THEN Post(q, "DEVICE", <<"state", NoDevice>>) ELSE q

\* a reference goes; the last one posts DeleteDeviceImpl, in vain when the
\* device thread has ended
Release(d, holders, q) ==
  LET left == dev[d].refs \ holders IN
  /\ dev' = [dev EXCEPT ![d].refs = left]
  /\ queue' = IF left = {} /\ dev[d].refs # {} /\ phase # "joining"
              THEN Post(q, "DEVICE", <<"delete", d>>) ELSE q

\* a task of the device thread
OnDevice == work.at = "idle" /\ Alive /\ phase # "joining"
Head1(t, type) == queue[t] # <<>> /\ Head(queue[t])[1] = type
Rest(t) == [queue EXCEPT ![t] = Tail(@)]

-----------------------------------------------------------------------------
(* DevicesManager *)

\* every pipe of a device opens at most once
PortFree(p) == \A d \in Ids : dev[d].port = 0 \/ dev[d].path # p

\* OpenDeviceImpl, InitDevice failing: OpenDevice of the port fails, which
\* leaves the pipes it got open, or what follows does, which closes them.
OpenFails(p, q) ==
  /\ Free # {}
  /\ \E left \in {0, usb[p]} :
       /\ left # 0 => Plugged(p) /\ PortFree(p)
       /\ dev' = [dev EXCEPT ![NewDevice] = [path |-> p, port |-> left, refs |-> {"own", "task"},
                                             created |-> FALSE, life |-> "dying"]]
  /\ queue' = Post(q, "DEVICE", <<"destroy", NewDevice>>)
  /\ UNCHANGED <<status, device>>

\* OpenDeviceImpl: the device is there and answers
Opens(p, notify, q) ==
  LET d == NewDevice IN
     /\ Plugged(p) /\ PortFree(p) /\ Free # {}
     /\ dev' = [dev EXCEPT ![d] = [path |-> p, port |-> usb[p], refs |-> {"own", "map"},
                                    created |-> TRUE, life |-> "live"]]
     /\ status' = [status EXCEPT ![p] = "Online"]
     /\ device' = [device EXCEPT ![p] = d]
     /\ queue' = NotifyAll(IF notify THEN NotifyObservers(q, device') ELSE q, "created", d)

\* OpenDeviceImpl returns at once: no such device, or it is open
CannotOpen(p) == status[p] # "Exist"

\* CloseDeviceImpl, on a path whose device may not be open
CloseDeviceImpl(p, notify, q) ==
  LET d == device[p] IN
  IF status[p] \notin {"Online", "Offline"} THEN queue' = q /\ UNCHANGED <<status, device, dev>>
  ELSE /\ dev' = [dev EXCEPT ![d].refs = (@ \ {"map"}) \cup {"task"},
                             ![d].port = 0, ![d].life = "dying"]
       /\ status' = [status EXCEPT ![p] = "Exist"]
       /\ device' = [device EXCEPT ![p] = NoDevice]
       /\ queue' = LET r == Post(q, "DEVICE", <<"destroy", d>>)
                   IN IF notify THEN NotifyObservers(r, device') ELSE r

\* OpenDevice and CloseDevice, called on the main thread of a test
Request ==
  /\ mode.user /\ manager /\ phase = "up" /\ calls < MaxCalls
  /\ \E type \in {"open", "close"}, p \in Paths :
        queue' = Post(queue, "DEVICE", <<type, p>>)
  /\ calls' = calls + 1
  /\ UNCHANGED <<mode, usb, finder, work, mgrVars, dev, uiVars>>

OpenTask ==
  /\ OnDevice /\ Head1("DEVICE", "open")
  /\ LET p == Head(queue.DEVICE)[2] IN
     \/ /\ CannotOpen(p)
        /\ queue' = Rest("DEVICE") /\ UNCHANGED <<status, device, dev>>
     \/ ~CannotOpen(p) /\ (OpenFails(p, Rest("DEVICE")) \/ Opens(p, TRUE, Rest("DEVICE")))
  /\ UNCHANGED <<mode, usb, calls, finder, work, open_first, uiVars>>

CloseTask ==
  /\ OnDevice /\ Head1("DEVICE", "close")
  /\ CloseDeviceImpl(Head(queue.DEVICE)[2], TRUE, Rest("DEVICE"))
  /\ UNCHANGED <<usbVars, finder, work, open_first, uiVars>>

\* the round of the finder begins: EnumDevices
Enumerate ==
  /\ OnDevice /\ finder = "on" /\ Len(queue.DEVICE) <= MaxQueue
  /\ work' = [Idle EXCEPT !.at = "found", !.found = {p \in Paths : Plugged(p)}]
  /\ UNCHANGED <<usbVars, finder, mgrVars, dev, queue, uiVars>>

\* ... the job of a finder that was told to stop ends, or finds no manager
FinderEnds ==
  /\ \/ OnDevice /\ finder = "stopping"
     \/ Alive /\ work.at = "found" /\ ~manager
  /\ finder' = "off" /\ work' = Idle
  /\ UNCHANGED <<usbVars, mgrVars, dev, queue, uiVars>>

\* DeviceListChanged, the first part: what was found is merged, and what is to
\* be opened and closed follows from the merged list
DeviceListChanged ==
  /\ Alive /\ work.at = "found" /\ manager
  /\ LET merged == MergeDeviceList(status, work.found)
         are(s) == {p \in Paths : merged.status[p] = s}
         opened == IF mode.first /\ ~open_first THEN FirstOf(work.found)
                   ELSE IF mode.all THEN are("Exist") ELSE {}
     IN /\ status' = merged.status
        /\ work' = [work EXCEPT !.at = "open", !.open = opened,
                      !.close = IF mode.close THEN are("Offline") ELSE {},
                      !.list = merged.list, !.state = merged.state \/ opened # {}]
  /\ UNCHANGED <<usbVars, finder, device, open_first, dev, queue, uiVars>>

\* (slip) the first device counts as opened though it was not
OpenFirstAnyway ==
  /\ Alive /\ work.at = "open"
  /\ \E p \in work.open :
        /\ \/ CannotOpen(p) /\ UNCHANGED <<status, device, dev, queue>>
           \/ ~CannotOpen(p) /\ (OpenFails(p, queue) \/ Opens(p, FALSE, queue))
        /\ open_first' = mode.first
        /\ work' = [work EXCEPT !.open = @ \ {p}]
  /\ UNCHANGED <<mode, usb, calls, finder, uiVars>>

\* ... the devices that are to be opened, one after the other
OpenFound ==
  /\ Alive /\ work.at = "open"
  /\ \E p \in work.open :
        /\ \/ CannotOpen(p) /\ UNCHANGED <<status, device, dev, queue>>
           \/ ~CannotOpen(p) /\ (OpenFails(p, queue) \/ Opens(p, FALSE, queue))
        /\ open_first' = (open_first \/ (mode.first /\ device'[p] # device[p]))
        /\ work' = [work EXCEPT !.open = @ \ {p}]
  /\ UNCHANGED <<mode, usb, calls, finder, uiVars>>

\* ... those that are to be closed
CloseLost ==
  /\ Alive /\ work.at = "open" /\ work.open = {}
  /\ \E p \in work.close :
        /\ CloseDeviceImpl(p, FALSE, queue)
        /\ work' = [work EXCEPT !.close = @ \ {p}, !.list = TRUE]
  /\ UNCHANGED <<usbVars, finder, open_first, uiVars>>

\* ... the notification, and the end of the round
EndRound ==
  /\ Alive /\ work.at = "open" /\ work.open \cup work.close = {}
  /\ queue' = IF work.list \/ work.state THEN NotifyObservers(queue, device) ELSE queue
  /\ finder' = IF mode.stop /\ work.found # {} THEN "off" ELSE finder
  /\ work' = Idle
  /\ UNCHANGED <<usbVars, mgrVars, dev, uiVars>>

\* (slip) a device that is offline is left alone
DestroyOnline ==
  /\ OnDevice /\ Head1("DEVICE", "destroy all")
  /\ LET online == {p \in Paths : status[p] = "Online"} IN
     IF online = {}
     THEN queue' = Rest("DEVICE") /\ UNCHANGED <<status, device, dev>>
     ELSE \E p \in online : CloseDeviceImpl(p, FALSE, queue)
  /\ UNCHANGED <<usbVars, finder, work, open_first, uiVars>>

\* DestroyDevicesImpl; no runner is left to be notified
DestroyDevices ==
  /\ OnDevice /\ Head1("DEVICE", "destroy all")
  /\ LET opened == {p \in Paths : device[p] # NoDevice} IN
     IF opened = {}
     THEN queue' = Rest("DEVICE") /\ UNCHANGED <<status, device, dev>>
     ELSE \E p \in opened : CloseDeviceImpl(p, FALSE, queue)
  /\ UNCHANGED <<usbVars, finder, work, open_first, uiVars>>

\* CANScopeDeviceRunner::DeviceStateChanged, on every runner that is open.  Its
\* status_ is kOnline for good, so it never does more than look.  (DeviceList-
\* Changed, which the same task stands for, does nothing at all.)
StateChanged ==
  /\ OnDevice /\ Head1("DEVICE", "state")
  /\ queue' = Rest("DEVICE")
  /\ phase' = IF ~manager /\ \E p \in Paths : device[p] # NoDevice THEN "crashed" ELSE phase
  /\ UNCHANGED <<usbVars, finder, work, mgrVars, dev, manager, device_, window>>

-----------------------------------------------------------------------------
(* DeviceManager and CANScopeDevice *)

\* DestroyPos: the notification, if creation was notified, then own_ref_ and
\* the reference of the task
DestroyPos ==
  /\ OnDevice /\ Head1("DEVICE", "destroy")
  /\ LET d == Head(queue.DEVICE)[2] IN
     Release(d, {"own", "task"}, IF dev[d].created
                                 THEN NotifyAll(Rest("DEVICE"), "start_destroy", d)
                                 ELSE Rest("DEVICE"))
  /\ UNCHANGED <<usbVars, finder, work, mgrVars, uiVars>>

\* DeleteDeviceImpl; the port closes with the delegate
DeleteDeviceImpl ==
  /\ OnDevice /\ Head1("DEVICE", "delete")
  /\ dev' = [dev EXCEPT ![Head(queue.DEVICE)[2]] = NoDev]
  /\ queue' = Rest("DEVICE")
  /\ UNCHANGED <<usbVars, finder, work, mgrVars, uiVars>>

-----------------------------------------------------------------------------
(* CANScopeProcess and the handles *)

\* the UI thread runs tasks: not within Close(), not after its loop has quit
OnUI == phase \in {"up", "waiting"}

\* (slip) the UI thread makes no handle
CreatedNoHandle ==
  /\ OnUI /\ Head1("UI", "created")
  /\ LET d == Head(queue.UI)[2] IN
     /\ device_' = d /\ window' = TRUE
     /\ queue' = Post(Rest("UI"), "TASK", <<"handle", d>>) /\ UNCHANGED dev
  /\ UNCHANGED <<usbVars, finder, work, mgrVars, manager, phase>>

\* Observe: CREATED; the program is made for one device
Created ==
  /\ OnUI /\ Head1("UI", "created")
  /\ LET d == Head(queue.UI)[2] IN
     IF device_ # NoDevice THEN queue' = Rest("UI") /\ UNCHANGED <<dev, device_, window>>
     ELSE /\ device_' = d /\ window' = TRUE
          /\ dev' = [dev EXCEPT ![d].refs = @ \cup {"UI"}]
          /\ queue' = Post(Rest("UI"), "TASK", <<"handle", d>>)
  /\ UNCHANGED <<usbVars, finder, work, mgrVars, manager, phase>>

\* Observe: START_DESTROY, on the process and then on the handle of the thread
StartDestroy ==
  /\ OnUI /\ Head1("UI", "start_destroy")
  /\ Release(Head(queue.UI)[2], {"UI"}, Rest("UI"))
  /\ device_' = NoDevice
  /\ phase' = IF phase = "waiting" THEN "shutdown" ELSE phase
  /\ UNCHANGED <<usbVars, finder, work, mgrVars, manager, window>>

\* the TASK thread: CANScopeDeviceHandle::Create and Observe
TaskStep ==
  /\ Alive /\ queue.TASK # <<>>
  /\ LET type == Head(queue.TASK)[1]
         d == Head(queue.TASK)[2] IN
     \/ /\ type = "handle"
        /\ dev' = [dev EXCEPT ![d].refs = @ \cup {"TASK"}] /\ queue' = Rest("TASK")
     \/ type = "start_destroy" /\ Release(d, {"TASK"}, Rest("TASK"))
     \/ type = "created" /\ queue' = Rest("TASK") /\ UNCHANGED dev
  /\ UNCHANGED <<usbVars, finder, work, mgrVars, uiVars>>

\* Close(), when the user closes the window (a test: when it is done), up to
\* the task of DestroyDevices ...
Close ==
  /\ phase = "up" /\ (mode.ui => window)
  /\ window' = FALSE /\ phase' = "closing"
  /\ finder' = IF finder = "on" THEN "stopping" ELSE finder
  /\ queue' = Post(queue, "DEVICE", <<"destroy all", NoDevice>>)
  /\ UNCHANGED <<usbVars, work, mgrVars, dev, manager, device_>>

\* ... and from there; a test ends without a further wait
DestroyManager ==
  /\ phase = "closing"
  /\ manager' = FALSE
  /\ phase' = IF mode.ui THEN "waiting" ELSE "shutdown"
  /\ UNCHANGED <<usbVars, finder, work, mgrVars, dev, queue, device_, window>>

\* ShutdownThreadsAndCleanUp: the device thread runs what it has and ends,
\* and the TASK thread after it
JoinDevice ==
  /\ phase = "shutdown" /\ work = Idle /\ queue.DEVICE = <<>>
  /\ phase' = "joining" /\ finder' = "off"
  /\ UNCHANGED <<usbVars, work, mgrVars, dev, queue, manager, device_, window>>

JoinTask ==
  /\ phase = "joining" /\ queue.TASK = <<>>
  /\ phase' = "exited"
  /\ UNCHANGED <<usbVars, finder, work, mgrVars, dev, queue, manager, device_, window>>

-----------------------------------------------------------------------------
Plug(p) ==
  /\ Alive /\ MapThenSumSet(LAMBDA r : usb[r], Paths) < MaxPlug
  /\ usb' = [usb EXCEPT ![p] = @ + 1]
  /\ UNCHANGED <<mode, calls, finder, work, mgrVars, dev, queue, uiVars>>

FinderRound == Enumerate \/ DeviceListChanged \/ OpenFound \/ CloseLost \/ EndRound
               \/ FinderEnds
DeviceTask == OpenTask \/ CloseTask \/ DestroyDevices \/ StateChanged \/ DestroyPos
              \/ DeleteDeviceImpl
UIStep == Created \/ StartDestroy \/ DestroyManager \/ JoinDevice \/ JoinTask

DevicesNext ==
  \/ FinderRound \/ DeviceTask \/ UIStep \/ TaskStep
  \/ Request \/ Close \/ \E p \in Paths : Plug(p)

DevicesSpec == DevicesInit /\ [][DevicesNext]_devVars

\* a round opens the device at p
OpensAt(p) == OpenFound /\ device'[p] # device[p]

\* The threads run their tasks, and the delay of the finder ends, again and
\* again.  A sound device that is tried again and again opens at last.  Users
\* and the other devices may do nothing for ever.
DevicesFairness ==
  /\ SF_devVars(Enumerate) /\ WF_devVars(FinderRound) /\ WF_devVars(DeviceTask)
  /\ WF_devVars(UIStep) /\ WF_devVars(TaskStep)
  /\ \A p \in Sound : SF_devVars(OpensAt(p))

FairDevicesSpec == DevicesSpec /\ DevicesFairness

(***************************************************************************)
(* Properties.                                                              *)
(***************************************************************************)

\* A raw pointer to a device that the UI thread has, in a task or in device_,
\* never outlives it: its handle keeps the device until START_DESTROY is seen.
\* (The pointer in the TASK thread's task may: see the README.)
PointersAlive ==
  /\ device_ # NoDevice => dev[device_].life # "none"
  /\ mode.ui => \A i \in 1 .. Len(queue.UI) :
       queue.UI[i][1] = "created" => dev[queue.UI[i][2]].life # "none"

\* Once DestroyDevices has run nothing is open, and nothing is opened again:
\* not by a round that was under way, nor by a request that was queued.
NothingOpenAtEnd ==
  phase \in {"waiting", "shutdown", "joining", "exited"}
    /\ (\A i \in 1 .. Len(queue.DEVICE) : queue.DEVICE[i][1] # "destroy all")
  => \A p \in Paths : device[p] = NoDevice

AnyOpen == \E p \in Paths : device[p] # NoDevice
PluggedIn == {p \in Paths : Plugged(p)}

\* "when open try next time.": an open that fails is tried again, by the next
\* round and the one after it, until the device opens, as long as it is the first
\* of those that are plugged.  Whoever comes and goes behind it, whatever failed
\* before and what is left of it do not keep it closed for ever.  (A finder that
\* stops when it has found something tries once.)
FirstIsOpened ==
  \A p \in Sound :
    (mode.first /\ ~mode.stop /\ phase = "up" /\ p \in FirstOf(PluggedIn))
      ~> (AnyOpen \/ phase # "up" \/ p \notin FirstOf(PluggedIn))

\* What one would expect of it: with a device plugged that can be opened, the
\* program opens one.  But it tries only the first of the list, and a first one
\* that fails each time keeps the others closed.
AnyIsOpened ==
  \A p \in Sound :
    (mode.first /\ ~mode.stop /\ phase = "up" /\ Plugged(p))
      ~> (AnyOpen \/ phase # "up" \/ ~Plugged(p))

\* A program that is told to close ends.
ProcessEnds == phase = "closing" ~> phase \in {"exited", "crashed"}

\* "manager is destroyed": the finder looks whether there is one, and a runner
\* that is told of the last round takes it for granted.
ManagerIsThere == phase # "crashed"

\* "Enum Devices and Check Devices online when offine.": an open device that was
\* seen offline and is plugged in again can be used again.
BackOnline ==
  \A p \in Paths :
    (status[p] = "Offline" /\ Plugged(p))
      ~> (~Plugged(p) \/ phase # "up" \/ device[p] = NoDevice
          \/ dev[device[p]].port = usb[p])
=============================================================================
