------------------------------- MODULE Waves -------------------------------
(***************************************************************************)
(* The waves on the screen: Oscilloscope (canscope/ui/oscilloscope.cc) puts *)
(* the wave of each channel into a container, ClassifyWaveControl moves     *)
(* them, and the view of a container keeps a CommonOscWaveGroup whose parts *)
(* are the handles of its three bars.  WaveDragController follows the mouse.*)
(* All of it runs on the UI thread, a handler at a time; what may go wrong  *)
(* is what the observers of a list, of a group and of a wave make of each   *)
(* other's notifications.                                                   *)
(*                                                                          *)
(* The trigger part and the horizontal part of a group are made, shared and *)
(* re-pointed alike: part stands for both.                                  *)
(***************************************************************************)
EXTENDS Naturals, Sequences, FiniteSets, SequencesExt

CONSTANTS
  Height,  \* the height of the control, in pixels
  Edge     \* the pixels at either end of a container that mean the gap

\* chnl_waves_, as UpdateControl makes them
ChnlWaves == <<"CAN_H", "CAN_L", "CAN_DIFF">>
OscWaves == ToSet(ChnlWaves)
NoWave == "none"
OscBars == {"wave", "horiz", "trigger"}

ASSUME WavesAssumption ==
  /\ Height \in Nat /\ Edge \in Nat
  /\ Edge >= Len(ChnlWaves) - 1 /\ Height \div Len(ChnlWaves) > 2 * Edge

VARIABLES
  model,   \* show_model_
  screen,  \* list: the containers from the top; drag: the controller;
           \* trigger: the wave whose channel is the trigger source, if one is
  held     \* what the pressed mouse has hold of

wavesVars == <<model, screen, held>>

NoHand == [on |-> "nothing", id |-> 0, bar |-> "wave"]
NoDrag == [pressed |-> FALSE, active |-> FALSE, canceling |-> FALSE,
           wave |-> NoWave, start |-> 0]

WavesInit ==
  /\ model = "separate" /\ held = NoHand
  /\ screen = [list |-> <<>>, drag |-> NoDrag, trigger |-> NoWave]

\* A container with its view: waves, the first one is selected; group, the
\* records of osc_waves_ and the vertical parts; part, the wave that the
\* trigger part refers to; shown, the trigger handle is visible; session, of
\* the DelaySetter of each bar.  The id tells the views apart.
Container(id) ==
  [id |-> id, waves |-> <<>>, group |-> <<>>, part |-> NoWave, shown |-> FALSE,
   session |-> [b \in OscBars |-> FALSE]]

NewId(s) == Max({0} \cup {s.list[k].id : k \in DOMAIN s.list}) + 1
\* between the steps a view is known by its place
Renumbered(s) ==
  [s EXCEPT !.list = [k \in 1 .. Len(s.list) |-> [s.list[k] EXCEPT !.id = k]]]

HasWave(c, w) == w \in ToSet(c.waves)
\* without the element w, which is there once
Erase(list, w) == RemoveAt(list, CHOOSE i \in 1 .. Len(list) : list[i] = w)
At(s, w) == CHOOSE k \in 1 .. Len(s.list) : HasWave(s.list[k], w)
WithId(s, id) == CHOOSE k \in 1 .. Len(s.list) : s.list[k].id = id

\* TriggerBar::IsVisible
IsVisible(c, t) == HasWave(c, t) /\ c.part = t

-----------------------------------------------------------------------------
(* CommonOscWaveGroup and the bars *)

\* AddOscWave: the first wave makes the trigger part, and so its handle; the
\* others share it, and nobody is told
AddOscWave(c, w, t) ==
  IF c.group # <<>> THEN [c EXCEPT !.group = Append(@, w)]
  ELSE LET made == [c EXCEPT !.group = <<w>>, !.part = w]
       IN [made EXCEPT !.shown = IsVisible(made, t)]

\* (slip) a part that refers to the wave is kept
RemoveKeepsPart(c, w, t) ==
  LET left == [c EXCEPT !.group = Erase(@, w)] IN
  [left EXCEPT !.shown = left.group # <<>> /\ @]

\* (slip) the part is re-pointed and nobody is told
RemoveUntold(c, w, t) ==
  LET left == Erase(c.group, w) IN
  IF left = <<>> THEN [c EXCEPT !.group = left, !.part = NoWave, !.shown = FALSE]
  ELSE IF c.part # w THEN [c EXCEPT !.group = left]
  ELSE [c EXCEPT !.group = left, !.part = Head(left)]

\* RemoveOscWave: a part that refers to the wave is re-pointed and its handle
\* is told; with the last wave the part and its handle go
RemoveOscWave(c, w, t) ==
  LET left == Erase(c.group, w) IN
  IF left = <<>> THEN [c EXCEPT !.group = left, !.part = NoWave, !.shown = FALSE]
  ELSE IF c.part # w THEN [c EXCEPT !.group = left]
  ELSE LET moved == [c EXCEPT !.group = left, !.part = Head(left)]
       IN [moved EXCEPT !.shown = IsVisible(moved, t)]

-----------------------------------------------------------------------------
(* YTWaveContainer, ClassifyWaveControl and Oscilloscope *)

Cancel(drag) == [drag EXCEPT !.canceling = TRUE]

\* OnSelectWaveChanged: it cancels the drag that began in this view
OnSelectWaveChanged(s, id) ==
  IF id = s.drag.start THEN [s EXCEPT !.drag = Cancel(@)] ELSE s

\* a wave into the container at k, ListItemsAdded; i: its index
AddWaveAt(s, k, i, w) ==
  LET c == [s.list[k] EXCEPT !.waves = InsertAt(@, i, w)]
      added == [s EXCEPT !.list[k] = AddOscWave(c, w, s.trigger)]
  IN IF i = 1 THEN OnSelectWaveChanged(added, c.id) ELSE added

\* YTWaveContainer::RemoveWave, ListItemsRemoved; the container may be empty now
RemoveWaveAt(s, k, w) ==
  LET was == s.list[k]
      c == [was EXCEPT !.waves = Erase(@, w)]
      removed == [s EXCEPT !.list[k] = RemoveOscWave(c, w, s.trigger)]
  IN IF was.waves[1] = w THEN OnSelectWaveChanged(removed, c.id) ELSE removed

\* a container with one wave; its view is made when it is in the list
InsertContainer(s, k, w) ==
  AddWaveAt([s EXCEPT !.list = InsertAt(@, k, Container(NewId(s)))], k, 1, w)

\* the container, and its view, goes if it has no wave
DropIfEmpty(s, id) ==
  LET k == WithId(s, id)
  IN IF s.list[k].waves = <<>> THEN [s EXCEPT !.list = RemoveAt(@, k)] ELSE s

\* Oscilloscope::RemoveWave
RemoveWave(s, w) == LET k == At(s, w) IN DropIfEmpty(RemoveWaveAt(s, k, w), s.list[k].id)

\* Oscilloscope::AddWave
AddWave(s, w, m) ==
  IF m = "combine" /\ s.list # <<>>
  THEN AddWaveAt(s, 1, Len(s.list[1].waves) + 1, w)
  ELSE InsertContainer(s, Len(s.list) + 1, w)

\* Oscilloscope::set_show_model and UpdateControl do so with each wave
RemoveWaves(s) == RemoveWave(RemoveWave(RemoveWave(s, ChnlWaves[1]), ChnlWaves[2]), ChnlWaves[3])
AddWaves(s, m) == AddWave(AddWave(AddWave(s, ChnlWaves[1], m), ChnlWaves[2], m), ChnlWaves[3], m)

\* ClassifyWaveControl::MoveWaveTo
MoveWaveTo(s, w, k) ==
  LET old == At(s, w)
  IN DropIfEmpty(AddWaveAt(RemoveWaveAt(s, old, w), k, 1, w), s.list[old].id)

\* ClassifyWaveControl::CreateWaveContainerAt
CreateWaveContainerAt(s, w, k) ==
  LET old == At(s, w)
  IN DropIfEmpty(InsertContainer(RemoveWaveAt(s, old, w), k, w), s.list[old].id)

-----------------------------------------------------------------------------
(* Results and buttons *)

\* QueueUpdate with the first result: UpdateControl
FirstResult ==
  /\ screen.list = <<>>
  /\ \E t \in OscWaves \cup {NoWave} :
       screen' = Renumbered(AddWaves([screen EXCEPT !.trigger = t], model))
  /\ UNCHANGED <<model, held>>

\* A handle that is hidden while it is dragged gets neither a release nor a lost
\* capture; VisibilityChanged posts the release, before the user does more.
HiddenInHand(s) ==
  held.on = "handle" /\ held.bar = "trigger" /\ ~s.list[WithId(s, held.id)].shown

EndSet(s, id, bar) == [s EXCEPT !.list[WithId(s, id)].session[bar] = FALSE]

\* QueueUpdate with a later result, whose trigger source may differ:
\* OscConfigChanged notifies every wave, and each group its trigger bar
LaterResult ==
  /\ screen.list # <<>>
  /\ \E t \in OscWaves \cup {NoWave} :
       LET told == [screen EXCEPT !.trigger = t, !.list =
                      [k \in DOMAIN @ |-> [screen.list[k] EXCEPT
                                             !.shown = IsVisible(screen.list[k], t)]]]
       IN IF t = screen.trigger THEN UNCHANGED <<screen, held>>
          ELSE IF HiddenInHand(told)
          THEN screen' = EndSet(told, held.id, held.bar) /\ held' = NoHand
          ELSE screen' = told /\ UNCHANGED held
  /\ UNCHANGED model

\* set_show_model, from the button "Model"; with no wave yet there is no more
SetShowModel ==
  /\ held = NoHand
  /\ model' = IF model = "separate" THEN "combine" ELSE "separate"
  /\ screen' = IF screen.list = <<>> THEN screen
               ELSE Renumbered(AddWaves(RemoveWaves(screen), model'))
  /\ UNCHANGED held

-----------------------------------------------------------------------------
(* Handle, HandleBar and the delegates of the bars *)

\* the handles one can see, and the wave each selects
HandlesOf(c, bar) ==
  CASE bar = "wave" -> 1 .. Len(c.group)
    [] bar = "horiz" -> {1}
    [] bar = "trigger" -> IF c.shown THEN {1} ELSE {}
SelectedBy(c, bar, i, t) ==
  CASE bar = "wave" -> c.group[i] [] bar = "horiz" -> c.part [] bar = "trigger" -> t

\* YTWaveContainer::SelectWave; WaveAt is 0 for a wave that is not there
SelectWave(s, k, w) ==
  LET c == s.list[k] IN
  IF ~HasWave(c, w) \/ c.waves[1] = w THEN s
  ELSE OnSelectWaveChanged([s EXCEPT !.list[k].waves = InsertAt(Erase(@, w), 1, w)], c.id)

\* Handle::OnMousePressed: ActiveHandle, then BeginSet
PressHandle ==
  /\ held = NoHand
  /\ \E k \in DOMAIN screen.list, bar \in OscBars :
       LET c == screen.list[k] IN
       \E i \in HandlesOf(c, bar) :
          LET s == SelectWave(screen, k, SelectedBy(c, bar, i, screen.trigger)) IN
          /\ screen' = [s EXCEPT !.list[k].session[bar] = TRUE]
          /\ held' = [on |-> "handle", id |-> c.id, bar |-> bar]
  /\ UNCHANGED model

\* OnMouseReleased, OnMouseCaptureLost
ReleaseHandle ==
  /\ held.on = "handle"
  /\ screen' = EndSet(screen, held.id, held.bar) /\ held' = NoHand
  /\ UNCHANGED model

-----------------------------------------------------------------------------
(* WaveDragController *)

\* YTWaveContainerInnerView::OnMousePressed: Init, then OnMousePressed
PressView ==
  /\ held = NoHand
  /\ \E k \in DOMAIN screen.list :
       LET c == screen.list[k] IN
       /\ screen' = [screen EXCEPT !.drag =
            [@ EXCEPT !.start = c.id, !.wave = c.waves[1], !.canceling = FALSE, !.pressed = TRUE]]
       /\ held' = [on |-> "view", id |-> c.id, bar |-> "wave"]
  /\ UNCHANGED model

\* OnMouseDragged, over the threshold
DragView ==
  /\ held.on = "view" /\ ~screen.drag.canceling
  /\ screen' = [screen EXCEPT !.drag.active = TRUE]
  /\ UNCHANGED <<model, held>>

\* Esc; nothing reads canceling_ when the mouse is free, and Init clears it
Escape ==
  /\ held.on = "view"
  /\ screen' = [screen EXCEPT !.drag = Cancel(@)]
  /\ UNCHANGED <<model, held>>

\* what the controller keeps of a drag that is over is not read again
CaptureLost ==
  /\ held.on = "view" /\ held' = NoHand
  /\ screen' = [screen EXCEPT !.drag = NoDrag]
  /\ UNCHANGED model

\* WaveControlView::GetIndicate, of a height in the control: the container or
\* the gap above the container that the mouse is at, from 1
GetIndicate(y, count) ==
  LET height == Height \div count
      at == (y \div height) + 1
      offset == y % height
  IN IF offset < Edge THEN [is_view |-> FALSE, index |-> at]
     ELSE IF offset > height - Edge THEN [is_view |-> FALSE, index |-> at + 1]
     ELSE [is_view |-> TRUE, index |-> at]

\* Drop: CANMoveWaveTo refuses the container the wave is in
Drop(s, w, target) ==
  IF ~target.is_view THEN CreateWaveContainerAt(s, w, target.index)
  ELSE IF HasWave(s.list[target.index], w) THEN s ELSE MoveWaveTo(s, w, target.index)

\* (slip) a drag that was cancelled stays active
ReleasedActive ==
  /\ held.on = "view" /\ held' = NoHand
  /\ LET drag == screen.drag
         dropped(y) == IF drag.canceling \/ ~drag.active THEN screen
                       ELSE Drop(screen, drag.wave, GetIndicate(y, Len(screen.list)))
     IN \E y \in 0 .. Height - 1 :
          screen' = Renumbered([dropped(y) EXCEPT
                      !.drag = [NoDrag EXCEPT !.active = drag.canceling /\ drag.active]])
  /\ UNCHANGED model

\* OnMouseReleased, at any height
ReleaseView ==
  /\ held.on = "view" /\ held' = NoHand
  /\ LET drag == screen.drag
         dropped(y) == IF drag.canceling \/ ~drag.active THEN screen
                       ELSE Drop(screen, drag.wave, GetIndicate(y, Len(screen.list)))
     IN \E y \in 0 .. Height - 1 :
          screen' = Renumbered([dropped(y) EXCEPT !.drag = NoDrag])
  /\ UNCHANGED model

-----------------------------------------------------------------------------
WavesNext ==
  \/ FirstResult \/ LaterResult \/ SetShowModel
  \/ PressHandle \/ ReleaseHandle
  \/ PressView \/ DragView \/ Escape \/ CaptureLost \/ ReleaseView

WavesSpec == WavesInit /\ [][WavesNext]_wavesVars

(***************************************************************************)
(* Properties.                                                              *)
(***************************************************************************)

\* However waves are moved, combined and separated: each is in one container,
\* no empty container is left, and the bars of a container have the handles of
\* its waves, the shared parts referring to one of them and never to a wave
\* that has left.
BarsFollow ==
  /\ screen.list # <<>> =>
       \A w \in OscWaves :
         Cardinality({k \in DOMAIN screen.list : HasWave(screen.list[k], w)}) = 1
  /\ \A k \in DOMAIN screen.list :
       LET c == screen.list[k] IN
       /\ c.waves # <<>> /\ Len(c.group) = Len(c.waves) /\ ToSet(c.group) = ToSet(c.waves)
       /\ c.part \in ToSet(c.waves)

\* A trigger handle that can be pressed selects the wave of the trigger source:
\* WaveAt's NOTREACHED is not, though the handle of a part is only told of what
\* happens to the wave the part refers to.
HandleFindsWave ==
  \A k \in DOMAIN screen.list :
    screen.list[k].shown => HasWave(screen.list[k], screen.trigger)

\* A drag can begin whenever the mouse is free ("CHECK(!active_)",
\* "CHECK(!pressed_)", "DCHECK(!session_)"), however the last one ended; and one
\* that is not cancelled has its wave selected where it began.
DragReady ==
  /\ held.on # "view" => ~screen.drag.pressed /\ ~screen.drag.active
  /\ held.on = "view" /\ ~screen.drag.canceling =>
       \E k \in DOMAIN screen.list :
         screen.list[k].id = screen.drag.start /\ screen.list[k].waves[1] = screen.drag.wave
  /\ \A k \in DOMAIN screen.list, bar \in OscBars :
       screen.list[k].session[bar] =>
         held = [on |-> "handle", id |-> screen.list[k].id, bar |-> bar]

\* The container that has the wave of the trigger source shows the handle that
\* moves its level.
TriggerHandleShown ==
  \A k \in DOMAIN screen.list :
    HasWave(screen.list[k], screen.trigger) => screen.list[k].shown
=============================================================================
