------------------------------ MODULE Handles ------------------------------
(***************************************************************************)
(* Where the handles and the measure lines of one container stand.  A       *)
(* handle is dragged in pixels; DelaySetter passes that on to the device    *)
(* at the press, at the release and every 300 ms between; and the screen    *)
(* shows the config of the last result, which is older.  Pixels become      *)
(* values and back through the transform of the wave, which changes with    *)
(* every zoom, every result and every layout.                               *)
(*                                                                          *)
(* All but Acquire runs on the UI thread, a handler at a time.  Ranges,     *)
(* offsets and levels are integers in one unit; width and height of the     *)
(* view are one size.  The trigger source stays; Waves has it change, and   *)
(* has the waves move between containers.                                   *)
(***************************************************************************)
EXTENDS Integers, Sequences

CONSTANTS
  Waves,        \* the waves of the container
  TriggerWave,  \* the one whose channel is the trigger source
  PartWave,     \* the one that the horizontal part refers to
  Ranges,       \* HRangeOption and VRangeOption: what the view spans
  Div,          \* horizontal_div
  Sizes,        \* the sizes of the view, in pixels
  Start, Width, \* start_ of the bars and the width of a handle, in pixels
  Lines,        \* the measure lines that are used, of "horiz" and "vertical"
  MaxEdits,     \* bound: what the user does
  MaxQueue      \* bound: the results on their way

Axes == Waves \cup {"time"}
\* a handle for the offset of each axis, and one for the level of the trigger
HandleIds == Axes \cup {"level"}
Bars == {"wave", "horiz", "trigger"}

ASSUME HandlesAssumption ==
  /\ Waves \cap {"time", "level", "none"} = {} /\ {TriggerWave, PartWave} \subseteq Waves
  /\ Lines \subseteq {"horiz", "vertical"}
  /\ Ranges \in Seq(Nat \ {0}) /\ Ranges # <<>> /\ Sizes \subseteq Nat \ {0}
  /\ Div \in Nat \ {0} /\ Start \in Nat /\ Width \in Nat
  /\ \A r \in DOMAIN Ranges : Ranges[r] % Div = 0 /\ \A s \in Sizes : Ranges[r] % s = 0
  /\ MaxEdits \in Nat /\ MaxQueue \in Nat \ {0}

VARIABLES
  device,    \* the config the device works with
  queue,     \* the configs of the results on their way
  shown,     \* the config of the result that is shown
  size,      \* of the view
  pos,       \* where each handle begins, in its bar
  setter,    \* the DelaySetter of each bar, with drag_id_
  hand,      \* the handle the mouse has hold of
  selected,  \* the wave that is measured
  line,      \* the measure lines
  lag,       \* history: the level was not told of a zoom of its wave
  dropped,   \* history: the last handle released and where, until the user
             \* does more; nothing if a zoom or a move was still on its way
  edits

screenVars == <<pos, setter, hand, selected, line, lag>>
handlesVars == <<device, queue, shown, size, pos, setter, hand, selected, line, lag, dropped, edits>>

BarOf(h) == CASE h = "level" -> "trigger" [] h = "time" -> "horiz" [] OTHER -> "wave"
WaveOf(h) == CASE h = "level" -> TriggerWave [] h = "time" -> PartWave [] OTHER -> h
None == [id |-> "none", at |-> 0]

-----------------------------------------------------------------------------
(* transform_util and CalcTransform *)

\* round(n / d), half away from zero
SymmetricRound(n, d) == IF n > 0 THEN (2 * n + d) \div (2 * d) ELSE -((d - 2 * n) \div (2 * d))

\* of an axis; the ranges begin at their greater end
CalcTransform(config, sz, a) ==
  [off |-> config.off[a], range |-> Ranges[config.range[a]], size |-> sz]

\* XInt, YInt
Pixel(t, x) == SymmetricRound((t.size \div 2) * t.range - t.size * (x - t.off), t.range)
\* ReverseXDouble, ReverseYDouble
ReverseDouble(t, p) == t.off - (p - t.size \div 2) * (t.range \div t.size)

-----------------------------------------------------------------------------
(* The delegates of the bars, and HandleBar *)

\* HorizOffsetBar, TriggerBar and WaveBar ::GetOffset; a wave is moved by its zero
GetOffset(h, config, sz, st) ==
  LET s == st[BarOf(h)] IN
  IF s.session /\ s.id = h THEN s.value
  ELSE IF h = "level" THEN Pixel(CalcTransform(config, sz, TriggerWave), config.level)
  ELSE Pixel(CalcTransform(config, sz, h), 0)

CalculateOffset(dest) == dest + Width \div 2 - Start
CalculateDest(offset) == offset - Width \div 2 + Start

\* SetHandlePos, of the handles hs
SetHandlePos(hs, config, sz, st) ==
  [h \in HandleIds |-> IF h \in hs THEN CalculateDest(GetOffset(h, config, sz, st)) ELSE pos[h]]

\* (slip) the way the handle went is added
ToOscOffsetAdds(old_offset, move_delta) == old_offset + move_delta
ToOscOffset(old_offset, move_delta) == old_offset - move_delta

\* SetHorizOffset, SetTriggerOffset, SetOscVerticalOffset: what the device has
\* after the handle was put at a pixel
SetTo(h, value) ==
  IF h = "level"
  THEN [device EXCEPT !.level = ReverseDouble(CalcTransform(shown, size, TriggerWave), value)]
  ELSE [device EXCEPT !.off[h] =
          ToOscOffset(shown.off[h], ReverseDouble(CalcTransform(shown, size, h), value))]

-----------------------------------------------------------------------------
(* SingleLineView *)

\* the axis a line measures
AxisOf(l, wave) == IF l = "horiz" THEN "time" ELSE wave

\* (slip) a line keeps its value, not its place
WaveChangedMoves(ln, t) ==
  [ln EXCEPT !.t = t, !.label = ReverseDouble(t, ln.point), !.point = Pixel(t, ln.pos)]
\* another wave is measured: "so measure line keep pos in view"
WaveChanged(ln, t) ==
  [ln EXCEPT !.t = t, !.pos = ReverseDouble(t, ln.point), !.label = ReverseDouble(t, ln.point)]

\* the label is made before the line is moved
TransformChanged(ln, t) ==
  [ln EXCEPT !.t = t, !.label = ReverseDouble(t, ln.point), !.point = Pixel(t, ln.pos)]

DataChanged(ln) == [ln EXCEPT !.label = ReverseDouble(ln.t, ln.point)]

\* MeasureLineContainerView: the lines that are shown are told
MeasureWaveChanged(wave) ==
  [l \in Lines |-> IF line[l].on THEN WaveChanged(line[l], CalcTransform(shown, size, AxisOf(l, wave)))
                   ELSE line[l]]
MeasureTransformChanged(config, sz) ==
  [l \in Lines |-> IF line[l].on THEN TransformChanged(line[l], CalcTransform(config, sz, AxisOf(l, selected)))
                   ELSE line[l]]

\* a line that is shown begins at 3/8 of the view
NewLine(t) ==
  LET point == (t.size * 3) \div 8 IN
  [on |-> TRUE, pos |-> ReverseDouble(t, point), t |-> t, point |-> point, label |-> ReverseDouble(t, point)]
NoLine == [on |-> FALSE, pos |-> 0, t |-> [off |-> 0, range |-> 1, size |-> 1], point |-> 0, label |-> 0]

-----------------------------------------------------------------------------
Initial == [off |-> [a \in Axes |-> 0], range |-> [a \in Axes |-> 1], level |-> 0]
\* what nothing will read again is forgotten
NoSetter == [session |-> FALSE, value |-> -1, timer |-> FALSE, id |-> "none"]

HandlesInit ==
  /\ device = Initial /\ shown = Initial /\ queue = <<>>
  /\ size \in Sizes
  /\ setter = [b \in Bars |-> NoSetter] /\ hand = "none" /\ selected \in Waves
  /\ pos = [h \in HandleIds |-> CalculateDest(GetOffset(h, shown, size, setter))]
  /\ line \in [Lines -> {NoLine, NewLine(CalcTransform(shown, size, AxisOf("vertical", selected)))}]
  /\ lag = FALSE /\ dropped = None /\ edits = 0

Edit == edits < MaxEdits /\ edits' = edits + 1 /\ dropped' = None

\* where something is dragged to: values between two pixels appear with a zoom
Targets == {0, size - 1}

-----------------------------------------------------------------------------
(* DelaySetter, by the handlers of Handle and HandleBar *)

\* OnHandleActive of the bar, which selects the wave; another one is then measured
ActiveHandle(h) ==
  /\ selected' = WaveOf(h)
  /\ line' = IF selected' = selected THEN line ELSE MeasureWaveChanged(selected')

\* the menu of the view
ActiveWaveBarHandle ==
  /\ Edit /\ hand = "none"
  /\ \E w \in Waves : ActiveHandle(w)
  /\ UNCHANGED <<device, queue, shown, size, pos, setter, hand, lag>>

\* Handle::OnMousePressed: ActiveHandle selects the wave, then BeginSet, which
\* sets the offset to the pixel the handle is at
Press ==
  /\ Edit /\ hand = "none"
  /\ \E h \in HandleIds :
       LET value == CalculateOffset(pos[h]) IN
       /\ hand' = h /\ lag' = (lag /\ h # "level")
       /\ setter' = [setter EXCEPT ![BarOf(h)] =
                       [@ EXCEPT !.session = TRUE, !.value = value, !.id = h]]
       /\ device' = SetTo(h, value)
       /\ ActiveHandle(h)
  /\ UNCHANGED <<queue, shown, size, pos>>

\* OnMouseDragged to where the handle then begins
Move ==
  /\ hand # "none"
  /\ \E offset \in Targets :
       setter' = [setter EXCEPT ![BarOf(hand)].value = offset, ![BarOf(hand)].timer = TRUE]
  /\ pos' = SetHandlePos({hand}, shown, size, setter')
  /\ UNCHANGED <<device, queue, shown, size, hand, selected, line, lag, dropped, edits>>

\* OnDelayPast, in the session or after it
DelayPast ==
  /\ \E b \in Bars :
       /\ setter[b].timer
       /\ setter' = [setter EXCEPT ![b] = IF @.session THEN [@ EXCEPT !.timer = FALSE] ELSE NoSetter]
       /\ device' = SetTo(setter[b].id, setter[b].value)
  /\ UNCHANGED <<queue, shown, size, pos, hand, selected, line, lag, dropped, edits>>

\* no other value of what the handle depends on is on its way
Quiet(h) ==
  \A c \in {queue[k] : k \in DOMAIN queue} \cup {shown} :
    LET a == IF h = "level" THEN TriggerWave ELSE h IN
    c.range[a] = device.range[a] /\ (h = "level" => c.off[a] = device.off[a])

\* OnHandleReleased: EndSet, and "fetch last real value"
Release ==
  /\ hand # "none" /\ hand' = "none"
  /\ LET b == BarOf(hand) IN
     /\ setter' = [setter EXCEPT ![b] = IF @.timer THEN [@ EXCEPT !.session = FALSE] ELSE NoSetter]
     /\ device' = SetTo(hand, setter[b].value)
     /\ dropped' = IF Quiet(hand) THEN [id |-> hand, at |-> setter[b].value] ELSE None
  /\ pos' = SetHandlePos({hand}, shown, size, setter')
  /\ lag' = (lag /\ hand # "level")
  /\ UNCHANGED <<queue, shown, size, selected, line, edits>>

-----------------------------------------------------------------------------
(* The wheel *)

\* ZoomInX, ZoomOutX, ZoomInY, ZoomOutY: from the range that is shown
Zoom ==
  /\ Edit
  /\ \E a \in Axes, select \in DOMAIN Ranges :
       /\ select \in {shown.range[a] - 1, shown.range[a] + 1}
       /\ device' = [device EXCEPT !.range[a] = select]
  /\ UNCHANGED <<queue, shown, size, screenVars>>

Abs(n) == IF n < 0 THEN -n ELSE n
Trunc(n, d) == LET q == Abs(n) \div Abs(d) IN IF (n < 0) = (d < 0) THEN q ELSE -q

\* without a key the wheel moves the waves by a division
Wheel ==
  /\ Edit
  /\ LET div_value == -(Ranges[shown.range["time"]] \div Div)
     IN \E step \in {-1, 1} :
          device' = [device EXCEPT !.off["time"] =
                       (Trunc(shown.off["time"], div_value) + step) * div_value]
  /\ UNCHANGED <<queue, shown, size, screenVars>>

-----------------------------------------------------------------------------
(* Measure lines and the layout *)

\* ToggleShowHorizSingle, ToggleShowVerticalSingle
Toggle ==
  /\ Edit /\ hand = "none"
  /\ \E l \in Lines :
       line' = [line EXCEPT ![l] =
                  IF @.on THEN NoLine ELSE NewLine(CalcTransform(shown, size, AxisOf(l, selected)))]
  /\ UNCHANGED <<device, queue, shown, size, pos, setter, hand, selected, lag>>

\* OnPosChanged of a line that is dragged
DragLine ==
  /\ Edit /\ hand = "none"
  /\ \E l \in Lines, point \in Targets :
       /\ line[l].on
       /\ line' = [line EXCEPT ![l] =
                  LET value == ReverseDouble(@.t, point)
                  IN [@ EXCEPT !.pos = value, !.point = point, !.label = value]]
  /\ UNCHANGED <<device, queue, shown, size, pos, setter, hand, selected, lag>>

\* Layout of the container: the inner view first, then each bar
Layout ==
  /\ Edit
  /\ size' \in Sizes \ {size}
  /\ line' = MeasureTransformChanged(shown, size')
  /\ pos' = SetHandlePos(HandleIds, shown, size', setter)
  /\ lag' = FALSE
  /\ UNCHANGED <<device, queue, shown, setter, hand, selected>>

-----------------------------------------------------------------------------
(* Results *)

\* a result is collected and calculated with the config of its time
Acquire ==
  /\ Len(queue) < MaxQueue
  /\ queue' = Append(queue, device)
  /\ UNCHANGED <<device, shown, size, screenVars, dropped, edits>>

\* the axes whose range changed; kVertical or kHorizontal says so, otherwise
\* kVerticalOffset or kHorizontalOffset that they moved
Ranged(old, new) == {a \in Axes : new.range[a] # old.range[a]}
Moved(old, new) == {a \in Axes \ Ranged(old, new) : new.off[a] # old.off[a]}

\* (slip) when the wave of the trigger moves, its level is not
NotifiedWavesOnly(old, new) ==
  Ranged(old, new) \cup Moved(old, new)
  \cup (IF new.level # old.level THEN {"level"} ELSE {})

\* OscConfigChanged and CommonOscWaveGroup::OnOscWaveChanged: the handles told
Notified(old, new) ==
  Ranged(old, new) \cup Moved(old, new)
  \cup (IF new.level # old.level \/ TriggerWave \in Moved(old, new) THEN {"level"} ELSE {})

\* QueueUpdate; kData is told to every wave last
QueueUpdate ==
  /\ queue # <<>>
  /\ shown' = Head(queue) /\ queue' = Tail(queue)
  /\ pos' = SetHandlePos(Notified(shown, shown'), shown', size, setter)
  /\ lag' = ((lag \/ TriggerWave \in Ranged(shown, shown')) /\ "level" \notin Notified(shown, shown'))
  /\ LET changed == Ranged(shown, shown') \cup Moved(shown, shown')
         told == IF changed \cap {"time", selected} = {} THEN line
                 ELSE MeasureTransformChanged(shown', size)
     IN line' = [l \in Lines |-> IF told[l].on THEN DataChanged(told[l]) ELSE told[l]]
  /\ UNCHANGED <<device, size, setter, hand, selected, dropped, edits>>

-----------------------------------------------------------------------------
HandlesNext ==
  \/ ActiveWaveBarHandle \/ Press \/ Move \/ DelayPast \/ Release
  \/ Zoom \/ Wheel \/ Toggle \/ DragLine \/ Layout
  \/ Acquire \/ QueueUpdate

HandlesSpec == HandlesInit /\ [][HandlesNext]_handlesVars

\* the acquisition runs, and the message loop goes on
FairHandlesSpec ==
  HandlesSpec /\ WF_handlesVars(Acquire) /\ WF_handlesVars(QueueUpdate)

(***************************************************************************)
(* Properties.                                                              *)
(***************************************************************************)

Placed(h) == CalculateDest(GetOffset(h, shown, size, setter))

\* Whatever is dragged, zoomed, resized and shown next: the handle of every axis
\* stands where its offset is in what is shown, or where the mouse has it, that of
\* the trigger where its level is, if it was told of every zoom, and a measure line
\* where its value is in the wave that is measured now.
ScreenStands ==
  /\ \A a \in Axes : pos[a] = Placed(a)
  /\ ~lag => pos["level"] = Placed("level")
  /\ \A l \in Lines : line[l].on =>
       LET t == CalcTransform(shown, size, AxisOf(l, selected))
       IN line[l].t = t /\ line[l].point = Pixel(t, line[l].pos)

\* A handle that is released jumps back, but in the end stands at the pixel
\* where it was released, if the user does nothing more: from there to a value,
\* to the device, to a result and to a pixel again nothing is lost.
SettlesAtRelease ==
  dropped # None ~> (dropped = None \/ pos[dropped.id] = CalculateDest(dropped.at))

\* "measure line keep pos in view" (single_line_view.cc:143): when another wave
\* is selected, lines stay at their pixel; when a result is shown, at their value.
LineKeepsPlace ==
  [][\A l \in Lines : line[l].on /\ line'[l].on =>
       /\ selected' # selected => line'[l].point = line[l].point
       /\ shown' # shown => line'[l].pos = line[l].pos]_handlesVars

\* The label of a measure line says what its pixel stands for.
LabelIsFresh ==
  \A l \in Lines : line[l].on => line[l].label = ReverseDouble(line[l].t, line[l].point)

\* The handle of the trigger stands at its level.
LevelStands == pos["level"] = Placed("level")

\* When nobody has hold of a handle and the timer of one that was released fires,
\* the device keeps what it has.
QuietAfterRelease ==
  [][DelayPast /\ hand = "none" => device' = device]_handlesVars

\* Pressing a handle without moving it changes no setting.
PressKeeps == [][Press => device' = device]_handlesVars
=============================================================================
