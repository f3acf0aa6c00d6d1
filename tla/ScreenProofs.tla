---------------------------- MODULE ScreenProofs ----------------------------
(***************************************************************************)
(* Theorems about what is on the screen: Handles, for any waves, any ranges *)
(* and sizes that divide them, any number of edits and any queue of         *)
(* results; and Waves, for any height of the control and any sequence of    *)
(* moves, buttons, results and releases.                                    *)
(*                                                                          *)
(* A handle stands where its bar places it as long as every handler that    *)
(* changes what the place is computed from - the config shown, the size,    *)
(* the setter of the bar - places the handles again; so the proof is about  *)
(* which handles each handler may leave alone.  Lines add that a pixel that *)
(* becomes a value is the same pixel again (PixelOfReverse).                *)
(*                                                                          *)
(* The waves keep together because a step on the screen is made of a few    *)
(* operations on the list of containers, and each of them moves one wave:   *)
(* Arranged says which waves are on the screen and which container may be   *)
(* without one in the middle of a step, and every operation is a lemma      *)
(* about it.                                                                *)
(***************************************************************************)
EXTENDS Handles, Waves, Integers, FiniteSetTheorems, WellFoundedInduction, TLAPS

Config == [off : [Axes -> Int], range : [Axes -> DOMAIN Ranges], level : Int]
Transform == {t \in [off : Int, range : Nat \ {0}, size : Nat \ {0}] : t.range % t.size = 0}
Line == [on : BOOLEAN, pos : Int, t : Transform, point : Int, label : Int]
Setter == [session : BOOLEAN, value : Int, timer : BOOLEAN, id : HandleIds \cup {"none"}]

\* The domain of the variables the screen is made of.
HandlesTypes ==
  /\ device \in Config /\ shown \in Config /\ queue \in Seq(Config)
  /\ size \in Sizes /\ pos \in [HandleIds -> Int] /\ setter \in [Bars -> Setter]
  /\ hand \in HandleIds \cup {"none"} /\ selected \in Waves
  /\ line \in [Lines -> Line] /\ lag \in BOOLEAN

\* The mouse has hold of at most one handle, whose bar is the one in a session; a
\* timer that runs is for a handle.
HandLife ==
  /\ \A b \in Bars : /\ setter[b].session <=> hand # "none" /\ BarOf(hand) = b
                     /\ setter[b].session => setter[b].id = hand
                     /\ setter[b].timer => setter[b].id \in HandleIds

HandlesInv == HandlesTypes /\ HandLife /\ ScreenStands

-----------------------------------------------------------------------------
(* Pixels and values. *)

LEMMA RoundExact ==
  ASSUME NEW p \in Int, NEW d \in Nat \ {0}
  PROVE  SymmetricRound(d * p, d) = p
<1>1. ASSUME NEW q \in Nat  PROVE (2 * (d * q) + d) \div (2 * d) = q
  <2>. DEFINE e == 2 * d
  <2>1. e \in Nat /\ e > 0 /\ d < e /\ 2 * (d * q) + d = e * q + d
    OBVIOUS
  <2>. HIDE DEF e
  <2>2. (e * q + d) \div e = q
    <3>. DEFINE k == (e * q + d) \div e
                r == (e * q + d) % e
    <3>1. k \in Int /\ r \in 0 .. e - 1 /\ e * q + d = e * k + r
      BY <2>1
    <3>. HIDE DEF k, r
    <3>2. ASSUME k > q  PROVE FALSE
      <4>1. e * (k - q) >= e
        BY <2>1, <3>1, <3>2
      <4>2. e * (k - q) = d - r
        BY <2>1, <3>1
      <4>. QED  BY <2>1, <3>1, <4>1, <4>2
    <3>3. ASSUME k < q  PROVE FALSE
      <4>1. e * (q - k) >= e
        BY <2>1, <3>1, <3>3
      <4>2. e * (q - k) = r - d
        BY <2>1, <3>1
      <4>. QED  BY <2>1, <3>1, <4>1, <4>2
    <3>4. k = q
      BY <3>1, <3>2, <3>3
    <3>. QED  BY <3>4 DEF k
  <2>. QED  BY <2>1, <2>2 DEF e
<1>2. CASE p > 0
  <2>1. d * p > 0 /\ d * p \in Int
    BY <1>2
  <2>. QED  BY <1>1, <1>2, <2>1 DEF SymmetricRound
<1>3. CASE p <= 0
  <2>1. 0 - p \in Nat
    BY <1>3
  <2>2. ~(d * p > 0) /\ d - 2 * (d * p) = 2 * (d * (0 - p)) + d
    BY <1>3
  <2>3. (d - 2 * (d * p)) \div (2 * d) = 0 - p
    BY <1>1, <2>1, <2>2
  <2>. QED  BY <2>2, <2>3 DEF SymmetricRound
<1>. QED  BY <1>2, <1>3

LEMMA DivExact ==
  ASSUME NEW n \in Nat, NEW d \in Nat \ {0}, n % d = 0
  PROVE  n \div d \in Int /\ n = d * (n \div d)
OBVIOUS

LEMMA RoundIsInt ==
  ASSUME NEW n \in Int, NEW d \in Nat \ {0}
  PROVE  SymmetricRound(n, d) \in Int
<1>1. 2 * d \in Nat \ {0} /\ 2 * n + d \in Int /\ d - 2 * n \in Int
  OBVIOUS
<1>. QED  BY <1>1 DEF SymmetricRound

LEMMA PixelIsInt ==
  ASSUME NEW t \in Transform, NEW x \in Int
  PROVE  Pixel(t, x) \in Int
<1>1. t.off \in Int /\ t.range \in Nat \ {0} /\ t.size \in Nat \ {0} /\ t.size \div 2 \in Int
  BY DEF Transform
<1>2. (t.size \div 2) * t.range - t.size * (x - t.off) \in Int
  BY <1>1
<1>. QED  BY <1>1, <1>2, RoundIsInt DEF Pixel

\* A pixel that becomes a value becomes the same pixel again.
LEMMA PixelOfReverse ==
  ASSUME NEW t \in Transform, NEW p \in Int
  PROVE  ReverseDouble(t, p) \in Int /\ Pixel(t, ReverseDouble(t, p)) = p
<1>1. t.off \in Int /\ t.range \in Nat \ {0} /\ t.size \in Nat \ {0} /\ t.range % t.size = 0
  BY DEF Transform
<1>2. PICK k \in Int : k = t.range \div t.size /\ t.range = t.size * k
  <2>1. t.range \div t.size \in Int /\ t.range = t.size * (t.range \div t.size)
    BY <1>1, DivExact
  <2>. QED  BY <2>1
<1>3. PICK h \in Int : h = t.size \div 2
  BY <1>1
<1>4. ReverseDouble(t, p) = t.off - (p - h) * k /\ ReverseDouble(t, p) \in Int
  BY <1>1, <1>2, <1>3 DEF ReverseDouble
<1>5. h * t.range - t.size * (ReverseDouble(t, p) - t.off) = t.range * p
  <2>1. ReverseDouble(t, p) - t.off = 0 - (p - h) * k
    BY <1>1, <1>4
  <2>2. t.size * (0 - (p - h) * k) = 0 - (t.size * k) * (p - h)
    BY <1>1, <1>2
  <2>3. t.size * (ReverseDouble(t, p) - t.off) = 0 - t.range * (p - h)
    BY <1>2, <2>1, <2>2
  <2>. QED  BY <1>1, <1>3, <2>3
<1>6. Pixel(t, ReverseDouble(t, p)) = SymmetricRound(t.range * p, t.range)
  BY <1>3, <1>5 DEF Pixel
<1>. QED  BY <1>1, <1>4, <1>6, RoundExact

LEMMA TransformIs ==
  ASSUME NEW config \in Config, NEW sz \in Sizes, NEW a \in Axes
  PROVE  CalcTransform(config, sz, a) \in Transform
<1>1. /\ config.range[a] \in DOMAIN Ranges /\ config.off[a] \in Int
      /\ sz \in Nat \ {0} /\ Ranges[config.range[a]] \in Nat \ {0}
      /\ Ranges[config.range[a]] % sz = 0
  BY HandlesAssumption DEF Config
<1>. QED  BY <1>1 DEF CalcTransform, Transform

-----------------------------------------------------------------------------
(* Where the handles are placed. *)

\* Placed(h), of any config, size and setters
PlacedBy(h, config, sz, st) == CalculateDest(GetOffset(h, config, sz, st))
Held(h, st) == st[BarOf(h)].session /\ st[BarOf(h)].id = h
\* the axis of the wave that a handle is placed by
PlaceAxis(h) == IF h = "level" THEN TriggerWave ELSE h

LEMMA HandleIdsAre ==
  /\ \A h \in HandleIds : h # "none" /\ BarOf(h) \in Bars /\ WaveOf(h) \in Waves
                          /\ PlaceAxis(h) \in Axes /\ (h # "level" => h \in Axes)
  /\ BarOf("level") = "trigger" /\ "level" \in HandleIds /\ TriggerWave \in Axes
  /\ \A a \in Axes : a \in HandleIds /\ a # "level" /\ BarOf(a) # "trigger" /\ PlaceAxis(a) = a
  /\ Waves \subseteq Axes /\ "time" \in Axes
BY HandlesAssumption DEF HandleIds, Axes, BarOf, Bars, WaveOf, PlaceAxis

\* The place of a handle that nobody has hold of depends on the transform of its
\* axis, and on the level; of one that somebody has, on the setter.
LEMMA PlacedFree ==
  ASSUME NEW h \in HandleIds, NEW config, NEW sz, NEW st, ~Held(h, st)
  PROVE  PlacedBy(h, config, sz, st) =
           CalculateDest(Pixel(CalcTransform(config, sz, PlaceAxis(h)),
                               IF h = "level" THEN config.level ELSE 0))
BY DEF PlacedBy, GetOffset, Held, PlaceAxis

LEMMA PlacedHeld ==
  ASSUME NEW h \in HandleIds, NEW config, NEW sz, NEW st, Held(h, st)
  PROVE  PlacedBy(h, config, sz, st) = CalculateDest(st[BarOf(h)].value)
BY DEF PlacedBy, GetOffset, Held

LEMMA DestIs ==
  ASSUME NEW x \in Int
  PROVE  /\ CalculateDest(x) \in Int /\ CalculateOffset(x) \in Int
         /\ CalculateDest(CalculateOffset(x)) = x
<1>1. Start \in Int /\ Width \div 2 \in Int
  BY HandlesAssumption
<1>. QED  BY <1>1 DEF CalculateDest, CalculateOffset

LEMMA PlacedIsInt ==
  ASSUME NEW h \in HandleIds, NEW config \in Config, NEW sz \in Sizes, NEW st \in [Bars -> Setter]
  PROVE  PlacedBy(h, config, sz, st) \in Int
<1>1. CASE Held(h, st)
  <2>1. st[BarOf(h)].value \in Int
    BY HandleIdsAre DEF Setter
  <2>. QED  BY <1>1, <2>1, PlacedHeld, DestIs
<1>2. CASE ~Held(h, st)
  <2>1. CalcTransform(config, sz, PlaceAxis(h)) \in Transform
    BY HandleIdsAre, TransformIs
  <2>2. (IF h = "level" THEN config.level ELSE 0) \in Int
    BY DEF Config
  <2>3. Pixel(CalcTransform(config, sz, PlaceAxis(h)), IF h = "level" THEN config.level ELSE 0) \in Int
    BY <2>1, <2>2, PixelIsInt
  <2>. QED  BY <1>2, <2>3, PlacedFree, DestIs
<1>. QED  BY <1>1, <1>2

\* SetHandlePos places the handles it is called for, and no others.
LEMMA SetHandlePosPlaces ==
  ASSUME NEW hs, NEW config \in Config, NEW sz \in Sizes, NEW st \in [Bars -> Setter],
         NEW to, to = SetHandlePos(hs, config, sz, st), pos \in [HandleIds -> Int]
  PROVE  /\ to \in [HandleIds -> Int]
         /\ \A h \in HandleIds : to[h] = IF h \in hs THEN PlacedBy(h, config, sz, st) ELSE pos[h]
<1>1. \A h \in HandleIds : PlacedBy(h, config, sz, st) \in Int
  BY PlacedIsInt
<1>. QED  BY <1>1 DEF SetHandlePos, PlacedBy

\* The handles that a result does not tell stand where it would place them.
LEMMA NotNotified ==
  ASSUME NEW old \in Config, NEW new \in Config, NEW sz, NEW st, NEW h \in HandleIds,
         h \notin Notified(old, new),
         h = "level" => TriggerWave \notin Ranged(old, new)
  PROVE  PlacedBy(h, new, sz, st) = PlacedBy(h, old, sz, st)
<1>1. PlaceAxis(h) \in Axes
  BY HandleIdsAre
<1>2. new.range[PlaceAxis(h)] = old.range[PlaceAxis(h)] /\ new.off[PlaceAxis(h)] = old.off[PlaceAxis(h)]
  BY <1>1, HandleIdsAre DEF Notified, Ranged, Moved, PlaceAxis
<1>3. h = "level" => new.level = old.level
  BY DEF Notified
<1>4. CalcTransform(new, sz, PlaceAxis(h)) = CalcTransform(old, sz, PlaceAxis(h))
  BY <1>2 DEF CalcTransform
<1>5. CASE Held(h, st)
  BY <1>5, PlacedHeld
<1>6. CASE ~Held(h, st)
  BY <1>3, <1>4, <1>6, PlacedFree
<1>. QED  BY <1>5, <1>6

-----------------------------------------------------------------------------
(* Lines. *)

LineStands(ln, t) == ln.t = t /\ ln.point = Pixel(t, ln.pos)
LinesStand(lines, config, sz, wave) ==
  \A l \in Lines : lines[l].on => LineStands(lines[l], CalcTransform(config, sz, AxisOf(l, wave)))

LEMMA AxisOfIs ==
  ASSUME NEW l \in Lines, NEW wave \in Waves
  PROVE  AxisOf(l, wave) \in Axes /\ AxisOf(l, wave) \in {"time", wave}
BY HandleIdsAre DEF AxisOf

LEMMA LineHandlers ==
  ASSUME NEW ln \in Line, NEW t \in Transform
  PROVE  /\ WaveChanged(ln, t) \in Line /\ LineStands(WaveChanged(ln, t), t)
         /\ WaveChanged(ln, t).point = ln.point /\ WaveChanged(ln, t).on = ln.on
         /\ TransformChanged(ln, t) \in Line /\ LineStands(TransformChanged(ln, t), t)
         /\ TransformChanged(ln, t).pos = ln.pos /\ TransformChanged(ln, t).on = ln.on
         /\ NewLine(t) \in Line /\ LineStands(NewLine(t), t)
<1>1. /\ ln.point \in Int /\ ln.pos \in Int /\ ln.on \in BOOLEAN /\ ln.label \in Int
  BY DEF Line
<1>2. ReverseDouble(t, ln.point) \in Int /\ Pixel(t, ReverseDouble(t, ln.point)) = ln.point /\ Pixel(t, ln.pos) \in Int
  BY <1>1, PixelOfReverse, PixelIsInt
<1>3. /\ WaveChanged(ln, t) \in Line /\ WaveChanged(ln, t).pos = ReverseDouble(t, ln.point)
      /\ WaveChanged(ln, t).t = t /\ WaveChanged(ln, t).point = ln.point /\ WaveChanged(ln, t).on = ln.on
  BY <1>2 DEF WaveChanged, Line
<1>4. /\ TransformChanged(ln, t) \in Line /\ TransformChanged(ln, t).pos = ln.pos
      /\ TransformChanged(ln, t).t = t /\ TransformChanged(ln, t).point = Pixel(t, ln.pos)
      /\ TransformChanged(ln, t).on = ln.on
  BY <1>2 DEF TransformChanged, Line
<1>5. NewLine(t) \in Line /\ LineStands(NewLine(t), t)
  <2>. DEFINE point == (t.size * 3) \div 8
  <2>1. point \in Int
    BY DEF Transform
  <2>2. NewLine(t) = [on |-> TRUE, pos |-> ReverseDouble(t, point), t |-> t, point |-> point,
                      label |-> ReverseDouble(t, point)]
    BY DEF NewLine
  <2>. HIDE DEF point
  <2>3. ReverseDouble(t, point) \in Int /\ Pixel(t, ReverseDouble(t, point)) = point
    BY <2>1, PixelOfReverse
  <2>. QED  BY <2>1, <2>2, <2>3 DEF Line, LineStands
<1>. QED  BY <1>2, <1>3, <1>4, <1>5 DEF LineStands

\* A result that changes nothing of the axes of a line changes its label only.
LEMMA DataHandler ==
  ASSUME NEW ln \in Line
  PROVE  /\ DataChanged(ln) \in Line /\ DataChanged(ln).on = ln.on /\ DataChanged(ln).pos = ln.pos
         /\ DataChanged(ln).point = ln.point /\ DataChanged(ln).t = ln.t
<1>1. /\ ln.point \in Int /\ ln.pos \in Int /\ ln.on \in BOOLEAN /\ ln.t \in Transform
      /\ ln = [on |-> ln.on, pos |-> ln.pos, t |-> ln.t, point |-> ln.point, label |-> ln.label]
  BY DEF Line
<1>2. ReverseDouble(ln.t, ln.point) \in Int
  BY <1>1, PixelOfReverse
<1>3. DataChanged(ln) = [on |-> ln.on, pos |-> ln.pos, t |-> ln.t, point |-> ln.point,
                         label |-> ReverseDouble(ln.t, ln.point)]
  BY <1>1 DEF DataChanged
<1>. QED  BY <1>1, <1>2, <1>3 DEF Line

LEMMA MeasureWaveKeeps ==
  ASSUME HandlesTypes, NEW wave \in Waves
  PROVE  LET to == MeasureWaveChanged(wave) IN
         /\ to \in [Lines -> Line] /\ LinesStand(to, shown, size, wave)
         /\ \A l \in Lines : to[l].on = line[l].on /\ (line[l].on => to[l].point = line[l].point)
<1>1. ASSUME NEW l \in Lines
      PROVE  line[l] \in Line /\ CalcTransform(shown, size, AxisOf(l, wave)) \in Transform
  BY AxisOfIs, TransformIs DEF HandlesTypes
<1>. QED  BY <1>1, LineHandlers DEF MeasureWaveChanged, LinesStand

LEMMA MeasureTransformKeeps ==
  ASSUME HandlesTypes, NEW config \in Config, NEW sz \in Sizes
  PROVE  LET to == MeasureTransformChanged(config, sz) IN
         /\ to \in [Lines -> Line] /\ LinesStand(to, config, sz, selected)
         /\ \A l \in Lines : to[l].on = line[l].on /\ (line[l].on => to[l].pos = line[l].pos)
<1>1. ASSUME NEW l \in Lines
      PROVE  line[l] \in Line /\ CalcTransform(config, sz, AxisOf(l, selected)) \in Transform
  BY AxisOfIs, TransformIs DEF HandlesTypes
<1>. QED  BY <1>1, LineHandlers DEF MeasureTransformChanged, LinesStand

-----------------------------------------------------------------------------
(* The handlers. *)

\* ScreenStands by parts
HandlesStand ==
  /\ \A h \in HandleIds : (h = "level" => ~lag) => pos[h] = PlacedBy(h, shown, size, setter)

LEMMA ScreenParts == ScreenStands <=> HandlesStand /\ LinesStand(line, shown, size, selected)
<1>1. HandlesStand <=> /\ \A a \in Axes : pos[a] = Placed(a)
                       /\ ~lag => pos["level"] = Placed("level")
  BY HandleIdsAre DEF HandlesStand, PlacedBy, Placed
<1>2. LinesStand(line, shown, size, selected) <=>
        \A l \in Lines : line[l].on =>
          LET t == CalcTransform(shown, size, AxisOf(l, selected))
          IN line[l].t = t /\ line[l].point = Pixel(t, line[l].pos)
  BY DEF LinesStand, LineStands
<1>. QED  BY <1>1, <1>2 DEF ScreenStands

LEMMA ScreenPartsNext ==
  ScreenStands' <=> HandlesStand' /\ LinesStand(line', shown', size', selected')
<1>1. (ScreenStands <=> HandlesStand /\ LinesStand(line, shown, size, selected))'
  BY ScreenParts, PTL
<1>. QED  BY <1>1

\* what a setting makes of the config of the device
LEMMA SetToIs ==
  ASSUME HandlesTypes, NEW h \in HandleIds, NEW value \in Int
  PROVE  SetTo(h, value) \in Config
<1>1. /\ device \in Config /\ shown \in Config /\ size \in Sizes
  BY DEF HandlesTypes
<1>2. CASE h = "level"
  <2>1. ReverseDouble(CalcTransform(shown, size, TriggerWave), value) \in Int
    BY <1>1, HandleIdsAre, TransformIs, PixelOfReverse
  <2>. QED  BY <1>1, <1>2, <2>1 DEF SetTo, Config
<1>3. CASE h # "level"
  <2>1. h \in Axes
    BY <1>3, HandleIdsAre
  <2>2. ReverseDouble(CalcTransform(shown, size, h), value) \in Int /\ shown.off[h] \in Int
    BY <1>1, <2>1, TransformIs, PixelOfReverse DEF Config
  <2>3. ToOscOffset(shown.off[h], ReverseDouble(CalcTransform(shown, size, h), value)) \in Int
    BY <2>2 DEF ToOscOffset
  <2>. QED  BY <1>1, <1>3, <2>1, <2>3 DEF SetTo, Config
<1>. QED  BY <1>2, <1>3

LEMMA ActiveHandleKeeps ==
  ASSUME HandlesTypes, ScreenStands, NEW h \in HandleIds, ActiveHandle(h)
  PROVE  /\ selected' \in Waves /\ line' \in [Lines -> Line]
         /\ LinesStand(line', shown, size, selected')
         /\ \A l \in Lines : line[l].on /\ line'[l].on => line'[l].point = line[l].point
<1>1. selected' \in Waves
  BY HandleIdsAre DEF ActiveHandle
<1>2. CASE selected' = selected
  BY <1>1, <1>2, ScreenParts DEF ActiveHandle, HandlesTypes
<1>3. CASE selected' # selected
  BY <1>1, <1>3, MeasureWaveKeeps DEF ActiveHandle
<1>. QED  BY <1>1, <1>2, <1>3

LEMMA PressKeepsInv ==
  ASSUME HandlesInv, Press
  PROVE  HandlesInv'
<1>1. HandlesTypes /\ HandLife /\ ScreenStands
  BY DEF HandlesInv
<1>2. PICK h \in HandleIds :
        LET value == CalculateOffset(pos[h]) IN
        /\ hand' = h /\ lag' = (lag /\ h # "level")
        /\ setter' = [setter EXCEPT ![BarOf(h)] =
                        [@ EXCEPT !.session = TRUE, !.value = value, !.id = h]]
        /\ device' = SetTo(h, value)
        /\ ActiveHandle(h)
  BY DEF Press
<1>3. hand = "none" /\ UNCHANGED <<queue, shown, size, pos>>
  BY DEF Press
<1>4. /\ selected' \in Waves /\ line' \in [Lines -> Line]
      /\ LinesStand(line', shown, size, selected')
  BY <1>1, <1>2, ActiveHandleKeeps
<1>5. pos[h] \in Int /\ CalculateOffset(pos[h]) \in Int /\ CalculateDest(CalculateOffset(pos[h])) = pos[h]
  BY <1>1, DestIs DEF HandlesTypes
<1>6. BarOf(h) \in Bars /\ h # "none"
  BY HandleIdsAre
<1>7. /\ setter' \in [Bars -> Setter] /\ setter'[BarOf(h)].session /\ setter'[BarOf(h)].id = h
      /\ setter'[BarOf(h)].value = CalculateOffset(pos[h])
      /\ \A b \in Bars : b # BarOf(h) => setter'[b] = setter[b]
      /\ \A b \in Bars : setter[b] \in Setter
  <2>1. setter \in [Bars -> Setter]
    BY <1>1 DEF HandlesTypes
  <2>. QED  BY <1>2, <1>5, <1>6, <2>1 DEF Setter
<1>8. HandlesTypes'
  <2>1. device' \in Config
    BY <1>1, <1>2, <1>5, SetToIs
  <2>2. lag' \in BOOLEAN
    BY <1>2
  <2>. QED  BY <1>1, <1>2, <1>3, <1>4, <1>7, <2>1, <2>2 DEF HandlesTypes
<1>9. HandLife'
  BY <1>1, <1>2, <1>3, <1>6, <1>7 DEF HandLife
<1>10. HandlesStand'
  <2>. SUFFICES ASSUME NEW g \in HandleIds, g = "level" => ~lag'
                PROVE  pos[g] = PlacedBy(g, shown, size, setter')
    BY <1>3 DEF HandlesStand
  <2>1. CASE g = h
    <3>1. Held(g, setter')
      BY <1>7, <2>1 DEF Held
    <3>. QED  BY <1>5, <1>7, <2>1, <3>1, PlacedHeld
  <2>2. CASE g # h
    <3>1. ~Held(g, setter') /\ ~Held(g, setter)
      BY <1>1, <1>3, <1>7, <2>2, HandleIdsAre DEF Held, HandLife
    <3>2. PlacedBy(g, shown, size, setter') = PlacedBy(g, shown, size, setter)
      BY <3>1, PlacedFree
    <3>3. g = "level" => ~lag
      BY <1>2, <2>2
    <3>. QED  BY <1>1, <3>2, <3>3, ScreenParts DEF HandlesStand
  <2>. QED  BY <2>1, <2>2
<1>11. ScreenStands'
  BY <1>3, <1>4, <1>10, ScreenPartsNext
<1>. QED  BY <1>8, <1>9, <1>11 DEF HandlesInv


\* A bar whose setter has the same handle at the same pixel places its handles
\* where they were.
LEMMA SamePlace ==
  ASSUME NEW g \in HandleIds, NEW st, NEW to,
         Held(g, to) <=> Held(g, st), Held(g, st) => to[BarOf(g)].value = st[BarOf(g)].value
  PROVE  PlacedBy(g, shown, size, to) = PlacedBy(g, shown, size, st)
<1>1. CASE Held(g, st)
  BY <1>1, PlacedHeld
<1>2. CASE ~Held(g, st)
  BY <1>2, PlacedFree
<1>. QED  BY <1>1, <1>2

\* nobody has hold of another handle than that of the mouse
LEMMA HeldIsHand ==
  ASSUME HandlesInv
  PROVE  \A g \in HandleIds : Held(g, setter) <=> g = hand
BY HandleIdsAre DEF Held, HandlesInv, HandLife

LEMMA MoveKeepsInv ==
  ASSUME HandlesInv, Move
  PROVE  HandlesInv'
<1>. DEFINE b == BarOf(hand)
<1>1. HandlesTypes /\ HandLife /\ HandlesStand /\ LinesStand(line, shown, size, selected)
  BY ScreenParts DEF HandlesInv
<1>2. PICK offset \in Targets :
        setter' = [setter EXCEPT ![BarOf(hand)].value = offset, ![BarOf(hand)].timer = TRUE]
  BY DEF Move
<1>3. /\ hand # "none" /\ hand \in HandleIds /\ pos' = SetHandlePos({hand}, shown, size, setter')
      /\ UNCHANGED <<device, queue, shown, size, hand, selected, line, lag>>
  BY <1>1 DEF Move, HandlesTypes
<1>4. b \in Bars /\ offset \in Int /\ setter[b] \in Setter /\ setter \in [Bars -> Setter]
  BY <1>1, <1>3, HandleIdsAre, HandlesAssumption DEF HandlesTypes, Targets
<1>5. setter[b].session /\ setter[b].id = hand
  BY <1>1, <1>3, <1>4 DEF HandLife
<1>6. /\ setter' \in [Bars -> Setter]
      /\ setter'[b].session /\ setter'[b].id = hand /\ setter'[b].value = offset
      /\ \A c \in Bars : c # b => setter'[c] = setter[c]
  BY <1>2, <1>4, <1>5 DEF Setter
<1>7. /\ pos' \in [HandleIds -> Int]
      /\ \A g \in HandleIds : pos'[g] = IF g \in {hand} THEN PlacedBy(g, shown, size, setter') ELSE pos[g]
  <2>1. shown \in Config /\ size \in Sizes /\ pos \in [HandleIds -> Int]
    BY <1>1 DEF HandlesTypes
  <2>. QED  BY <1>3, <1>6, <2>1, SetHandlePosPlaces
<1>8. HandlesTypes'
  BY <1>1, <1>3, <1>6, <1>7 DEF HandlesTypes
<1>9. HandLife'
  BY <1>1, <1>3, <1>4, <1>6 DEF HandLife
<1>10. HandlesStand'
  <2>. SUFFICES ASSUME NEW g \in HandleIds, g = "level" => ~lag
                PROVE  pos'[g] = PlacedBy(g, shown, size, setter')
    BY <1>3 DEF HandlesStand
  <2>1. CASE g = hand
    BY <1>7, <2>1
  <2>2. CASE g # hand
    <3>1. ~Held(g, setter) /\ ~Held(g, setter')
      BY <1>3, <1>4, <1>6, <2>2, HeldIsHand, HandleIdsAre DEF Held
    <3>. QED  BY <1>1, <1>7, <2>2, <3>1, SamePlace DEF HandlesStand
  <2>. QED  BY <2>1, <2>2
<1>. QED  BY <1>1, <1>3, <1>8, <1>9, <1>10, ScreenPartsNext DEF HandlesInv

LEMMA DelayPastKeepsInv ==
  ASSUME HandlesInv, DelayPast
  PROVE  HandlesInv'
<1>1. HandlesTypes /\ HandLife /\ HandlesStand /\ LinesStand(line, shown, size, selected)
  BY ScreenParts DEF HandlesInv
<1>2. PICK b \in Bars :
        /\ setter[b].timer
        /\ setter' = [setter EXCEPT ![b] = IF @.session THEN [@ EXCEPT !.timer = FALSE] ELSE NoSetter]
        /\ device' = SetTo(setter[b].id, setter[b].value)
  BY DEF DelayPast
<1>3. UNCHANGED <<queue, shown, size, pos, hand, selected, line, lag>>
  BY DEF DelayPast
<1>4. setter[b] \in Setter /\ setter \in [Bars -> Setter] /\ setter[b].id \in HandleIds
  BY <1>1, <1>2 DEF HandlesTypes, HandLife
<1>5. /\ setter' \in [Bars -> Setter]
      /\ setter'[b].session = setter[b].session
      /\ setter[b].session => setter'[b].id = setter[b].id /\ setter'[b].value = setter[b].value
      /\ setter'[b].timer => setter'[b].id \in HandleIds
      /\ \A c \in Bars : c # b => setter'[c] = setter[c]
  <2>1. CASE setter[b].session
    BY <1>2, <1>4, <2>1 DEF Setter
  <2>2. CASE ~setter[b].session
    <3>1. setter' = [setter EXCEPT ![b] = NoSetter] /\ NoSetter \in Setter /\ ~NoSetter.session /\ ~NoSetter.timer
      BY <1>2, <2>2 DEF NoSetter, Setter
    <3>2. setter' \in [Bars -> Setter] /\ setter'[b] = NoSetter /\ \A c \in Bars : c # b => setter'[c] = setter[c]
      BY <1>4, <3>1
    <3>3. setter[b].session = FALSE /\ NoSetter.session = FALSE
      BY <1>4, <2>2 DEF NoSetter, Setter
    <3>. QED  BY <2>2, <3>1, <3>2, <3>3
  <2>. QED  BY <2>1, <2>2
<1>6. HandlesTypes'
  <2>1. setter[b].value \in Int
    BY <1>4 DEF Setter
  <2>2. device' \in Config
    BY <1>1, <1>2, <1>4, <2>1, SetToIs
  <2>. QED  BY <1>1, <1>3, <1>5, <2>2 DEF HandlesTypes
<1>7. HandLife'
  BY <1>1, <1>3, <1>5 DEF HandLife
<1>8. HandlesStand'
  <2>. SUFFICES ASSUME NEW g \in HandleIds, g = "level" => ~lag
                PROVE  pos[g] = PlacedBy(g, shown, size, setter')
    BY <1>3 DEF HandlesStand
  <2>1. BarOf(g) \in Bars
    BY HandleIdsAre
  <2>2. /\ Held(g, setter') <=> Held(g, setter)
        /\ Held(g, setter) => setter'[BarOf(g)].value = setter[BarOf(g)].value
    BY <1>5, <2>1 DEF Held
  <2>. QED  BY <1>1, <2>2, SamePlace DEF HandlesStand
<1>. QED  BY <1>1, <1>3, <1>6, <1>7, <1>8, ScreenPartsNext DEF HandlesInv

LEMMA ReleaseKeepsInv ==
  ASSUME HandlesInv, Release
  PROVE  HandlesInv'
<1>. DEFINE b == BarOf(hand)
<1>1. HandlesTypes /\ HandLife /\ HandlesStand /\ LinesStand(line, shown, size, selected)
  BY ScreenParts DEF HandlesInv
<1>2. /\ hand # "none" /\ hand \in HandleIds /\ hand' = "none"
      /\ setter' = [setter EXCEPT ![b] = IF @.timer THEN [@ EXCEPT !.session = FALSE] ELSE NoSetter]
      /\ device' = SetTo(hand, setter[b].value)
      /\ pos' = SetHandlePos({hand}, shown, size, setter') /\ lag' = (lag /\ hand # "level")
      /\ UNCHANGED <<queue, shown, size, selected, line>>
  BY <1>1 DEF Release, HandlesTypes
<1>3. b \in Bars /\ setter[b] \in Setter /\ setter \in [Bars -> Setter]
  BY <1>1, <1>2, HandleIdsAre DEF HandlesTypes
<1>4. setter[b].session /\ setter[b].id = hand
  BY <1>1, <1>2, <1>3 DEF HandLife
<1>5. /\ setter' \in [Bars -> Setter] /\ ~setter'[b].session
      /\ setter'[b].timer => setter'[b].id \in HandleIds
      /\ \A c \in Bars : c # b => setter'[c] = setter[c]
  <2>1. CASE setter[b].timer
    BY <1>2, <1>3, <1>4, <2>1 DEF Setter
  <2>2. CASE ~setter[b].timer
    <3>1. setter' = [setter EXCEPT ![b] = NoSetter] /\ NoSetter \in Setter /\ ~NoSetter.session /\ ~NoSetter.timer
      BY <1>2, <2>2 DEF NoSetter, Setter
    <3>. QED  BY <1>3, <3>1
  <2>. QED  BY <2>1, <2>2
<1>6. /\ pos' \in [HandleIds -> Int]
      /\ \A g \in HandleIds : pos'[g] = IF g \in {hand} THEN PlacedBy(g, shown, size, setter') ELSE pos[g]
  <2>1. shown \in Config /\ size \in Sizes /\ pos \in [HandleIds -> Int]
    BY <1>1 DEF HandlesTypes
  <2>2. setter' \in [Bars -> Setter] /\ pos' = SetHandlePos({hand}, shown, size, setter')
    BY <1>2, <1>5
  <2>3. \A g \in HandleIds : PlacedBy(g, shown, size, setter') \in Int
    BY <2>1, <2>2, PlacedIsInt
  <2>. QED  BY <2>1, <2>2, <2>3 DEF SetHandlePos, PlacedBy
<1>7. HandlesTypes'
  <2>1. setter[b].value \in Int
    BY <1>3 DEF Setter
  <2>2. device' \in Config
    BY <1>1, <1>2, <2>1, SetToIs
  <2>3. lag' \in BOOLEAN
    BY <1>2
  <2>. QED  BY <1>1, <1>2, <1>5, <1>6, <2>2, <2>3 DEF HandlesTypes
<1>8. HandLife'
  <2>1. \A c \in Bars : ~setter'[c].session
    BY <1>1, <1>3, <1>5 DEF HandLife
  <2>. QED  BY <1>1, <1>2, <1>5, <2>1 DEF HandLife
<1>9. HandlesStand'
  <2>. SUFFICES ASSUME NEW g \in HandleIds, g = "level" => ~lag'
                PROVE  pos'[g] = PlacedBy(g, shown, size, setter')
    BY <1>2 DEF HandlesStand
  <2>1. CASE g = hand
    BY <1>6, <2>1
  <2>2. CASE g # hand
    <3>1. ~Held(g, setter) /\ ~Held(g, setter')
      <4>1. BarOf(g) = b \/ setter'[BarOf(g)] = setter[BarOf(g)]
        BY <1>5, HandleIdsAre
      <4>. QED  BY <1>5, <2>2, <4>1, HeldIsHand DEF Held
    <3>2. g = "level" => ~lag
      BY <1>2, <2>2
    <3>. QED  BY <1>1, <1>6, <2>2, <3>1, <3>2, SamePlace DEF HandlesStand
  <2>. QED  BY <2>1, <2>2
<1>. QED  BY <1>1, <1>2, <1>7, <1>8, <1>9, ScreenPartsNext DEF HandlesInv


\* what leaves the screen and its config alone
LEMMA SameScreen ==
  ASSUME HandlesInv, UNCHANGED <<shown, size, pos, setter, hand, lag>>,
         device' \in Config, queue' \in Seq(Config), selected' \in Waves, line' \in [Lines -> Line],
         LinesStand(line', shown, size, selected')
  PROVE  HandlesInv'
<1>1. HandlesTypes /\ HandLife /\ HandlesStand
  BY ScreenParts DEF HandlesInv
<1>2. HandlesTypes' /\ HandLife'
  BY <1>1 DEF HandlesTypes, HandLife
<1>3. HandlesStand'
  BY <1>1 DEF HandlesStand
<1>. QED  BY <1>2, <1>3, ScreenPartsNext DEF HandlesInv

LEMMA ZoomWheelAcquireKeepInv ==
  ASSUME HandlesInv, Zoom \/ Wheel \/ Acquire
  PROVE  HandlesInv'
<1>1. HandlesTypes /\ LinesStand(line, shown, size, selected)
  BY ScreenParts DEF HandlesInv
<1>2. /\ device \in Config /\ shown \in Config /\ queue \in Seq(Config) /\ size \in Sizes
      /\ selected \in Waves /\ line \in [Lines -> Line]
  BY <1>1 DEF HandlesTypes
<1>3. ASSUME Zoom  PROVE device' \in Config
  <2>1. PICK a \in Axes, select \in DOMAIN Ranges : device' = [device EXCEPT !.range[a] = select]
    BY <1>3 DEF Zoom
  <2>. QED  BY <1>2, <2>1 DEF Config
<1>4. ASSUME Wheel  PROVE device' \in Config
  <2>. DEFINE range == Ranges[shown.range["time"]]
              div_value == -(range \div Div)
              off == shown.off["time"]
  <2>1. range \in Nat \ {0} /\ range % Div = 0 /\ Div \in Nat \ {0} /\ off \in Int /\ "time" \in Axes
    <3>1. "time" \in Axes
      BY HandleIdsAre
    <3>2. shown.range["time"] \in DOMAIN Ranges /\ off \in Int
      BY <1>2, <3>1 DEF Config
    <3>3. range \in Nat \ {0} /\ range % Div = 0 /\ Div \in Nat \ {0}
      BY <3>2, HandlesAssumption
    <3>. QED  BY <3>1, <3>2, <3>3
  <2>2. PICK step \in {-1, 1} :
          device' = [device EXCEPT !.off["time"] = (Trunc(off, div_value) + step) * div_value]
    BY <1>4 DEF Wheel
  <2>. HIDE DEF range, off
  <2>3. div_value \in Int /\ div_value # 0
    <3>1. range = Div * (range \div Div) /\ range \div Div \in Int
      BY <2>1, DivExact
    <3>2. range \div Div # 0
      BY <2>1, <3>1
    <3>. QED  BY <3>1, <3>2
  <2>. HIDE DEF div_value
  <2>4. Trunc(off, div_value) \in Int
    <3>1. Abs(off) \in Int /\ Abs(div_value) \in Int /\ Abs(div_value) > 0
      BY <2>1, <2>3 DEF Abs
    <3>2. Abs(off) \div Abs(div_value) \in Int
      BY <3>1
    <3>. QED  BY <3>2 DEF Trunc
  <2>5. (Trunc(off, div_value) + step) * div_value \in Int
    BY <2>3, <2>4
  <2>. QED  BY <1>2, <2>1, <2>2, <2>5 DEF Config
<1>5. ASSUME Acquire  PROVE queue' \in Seq(Config) /\ device' \in Config
  BY <1>2, <1>5 DEF Acquire
<1>6. UNCHANGED <<shown, size, pos, setter, hand, lag, selected, line>>
  BY DEF Zoom, Wheel, Acquire, screenVars
<1>7. device' \in Config /\ queue' \in Seq(Config)
  BY <1>2, <1>3, <1>4, <1>5 DEF Zoom, Wheel
<1>. QED  BY <1>1, <1>2, <1>6, <1>7, SameScreen

LEMMA LinesKeepInv ==
  ASSUME HandlesInv, ActiveWaveBarHandle \/ Toggle \/ DragLine
  PROVE  HandlesInv'
<1>1. HandlesTypes /\ LinesStand(line, shown, size, selected) /\ ScreenStands
  BY ScreenParts DEF HandlesInv
<1>2. /\ device \in Config /\ shown \in Config /\ queue \in Seq(Config) /\ size \in Sizes
      /\ selected \in Waves /\ line \in [Lines -> Line]
  BY <1>1 DEF HandlesTypes
<1>3. UNCHANGED <<device, queue, shown, size, pos, setter, hand, lag>>
  BY DEF ActiveWaveBarHandle, Toggle, DragLine
<1>4. ASSUME ActiveWaveBarHandle
      PROVE  selected' \in Waves /\ line' \in [Lines -> Line] /\ LinesStand(line', shown, size, selected')
  <2>1. PICK w \in Waves : ActiveHandle(w)
    BY <1>4 DEF ActiveWaveBarHandle
  <2>2. w \in HandleIds
    BY HandleIdsAre
  <2>. QED  BY <1>1, <2>1, <2>2, ActiveHandleKeeps
<1>5. ASSUME Toggle
      PROVE  selected' \in Waves /\ line' \in [Lines -> Line] /\ LinesStand(line', shown, size, selected')
  <2>1. PICK l \in Lines :
          line' = [line EXCEPT ![l] =
                     IF @.on THEN NoLine ELSE NewLine(CalcTransform(shown, size, AxisOf(l, selected)))]
    BY <1>5 DEF Toggle
  <2>. DEFINE t == CalcTransform(shown, size, AxisOf(l, selected))
  <2>2. selected' = selected /\ t \in Transform /\ line[l] \in Line
    BY <1>2, <1>5, AxisOfIs, TransformIs DEF Toggle
  <2>3. NewLine(t) \in Line /\ LineStands(NewLine(t), t)
    BY <2>2, LineHandlers
  <2>4. NoLine \in Line /\ ~NoLine.on
    <3>1. [off |-> 0, range |-> 1, size |-> 1] \in Transform
      <4>1. 1 % 1 = 0
        OBVIOUS
      <4>. QED  BY <4>1 DEF Transform
    <3>. QED  BY <3>1 DEF NoLine, Line
  <2>5. line' \in [Lines -> Line] /\ \A k \in Lines : k # l => line'[k] = line[k]
    BY <1>2, <2>1, <2>3, <2>4
  <2>6. line'[l].on => line'[l] = NewLine(t)
    BY <1>2, <2>1, <2>4
  <2>. QED  BY <1>1, <1>2, <2>2, <2>3, <2>5, <2>6 DEF LinesStand
<1>6. ASSUME DragLine
      PROVE  selected' \in Waves /\ line' \in [Lines -> Line] /\ LinesStand(line', shown, size, selected')
  <2>1. PICK l \in Lines, point \in Targets :
          /\ line[l].on
          /\ line' = [line EXCEPT ![l] =
                        LET value == ReverseDouble(@.t, point)
                        IN [@ EXCEPT !.pos = value, !.point = point, !.label = value]]
    BY <1>6 DEF DragLine
  <2>2. selected' = selected /\ point \in Int /\ line[l] \in Line /\ line[l].t \in Transform
    <3>1. selected' = selected
      BY <1>6 DEF DragLine
    <3>2. point \in Int
      BY <1>2, HandlesAssumption DEF Targets
    <3>3. line[l] \in Line
      BY <1>2
    <3>. QED  BY <3>1, <3>2, <3>3 DEF Line
  <2>3. /\ ReverseDouble(line[l].t, point) \in Int
        /\ Pixel(line[l].t, ReverseDouble(line[l].t, point)) = point
    BY <2>2, PixelOfReverse
  <2>. DEFINE value == ReverseDouble(line[l].t, point)
  <2>4. line' = [line EXCEPT ![l] = [line[l] EXCEPT !.pos = value, !.point = point, !.label = value]]
    BY <2>1
  <2>. HIDE DEF value
  <2>5. value \in Int /\ Pixel(line[l].t, value) = point
    BY <2>3 DEF value
  <2>6. /\ line' \in [Lines -> Line] /\ \A k \in Lines : k # l => line'[k] = line[k]
        /\ line'[l].t = line[l].t /\ line'[l].pos = value /\ line'[l].point = point
    BY <1>2, <2>2, <2>4, <2>5 DEF Line
  <2>. QED  BY <1>1, <1>2, <2>1, <2>2, <2>5, <2>6 DEF LinesStand, LineStands
<1>. QED  BY <1>2, <1>3, <1>4, <1>5, <1>6, SameScreen

LEMMA LayoutKeepsInv ==
  ASSUME HandlesInv, Layout
  PROVE  HandlesInv'
<1>1. HandlesTypes /\ HandLife
  BY DEF HandlesInv
<1>2. /\ size' \in Sizes /\ line' = MeasureTransformChanged(shown, size')
      /\ pos' = SetHandlePos(HandleIds, shown, size', setter) /\ lag' = FALSE
      /\ UNCHANGED <<device, queue, shown, setter, hand, selected>>
  BY DEF Layout
<1>3. shown \in Config /\ setter \in [Bars -> Setter] /\ pos \in [HandleIds -> Int]
  BY <1>1 DEF HandlesTypes
<1>4. line' \in [Lines -> Line] /\ LinesStand(line', shown, size', selected)
  BY <1>1, <1>2, <1>3, MeasureTransformKeeps
<1>5. pos' \in [HandleIds -> Int] /\ \A g \in HandleIds : pos'[g] = PlacedBy(g, shown, size', setter)
  BY <1>2, <1>3, SetHandlePosPlaces
<1>6. HandlesTypes'
  BY <1>1, <1>2, <1>4, <1>5 DEF HandlesTypes
<1>7. HandLife'
  BY <1>1, <1>2 DEF HandLife
<1>8. HandlesStand'
  BY <1>2, <1>5 DEF HandlesStand
<1>. QED  BY <1>2, <1>4, <1>6, <1>7, <1>8, ScreenPartsNext DEF HandlesInv

LEMMA QueueUpdateKeepsInv ==
  ASSUME HandlesInv, QueueUpdate
  PROVE  /\ HandlesInv'
         /\ \A l \in Lines : line'[l].on = line[l].on /\ (line[l].on => line'[l].pos = line[l].pos)
<1>1. HandlesTypes /\ HandLife /\ HandlesStand /\ LinesStand(line, shown, size, selected)
  BY ScreenParts DEF HandlesInv
<1>2. /\ queue # <<>> /\ shown' = Head(queue) /\ queue' = Tail(queue)
      /\ pos' = SetHandlePos(Notified(shown, shown'), shown', size, setter)
      /\ lag' = ((lag \/ TriggerWave \in Ranged(shown, shown')) /\ "level" \notin Notified(shown, shown'))
      /\ UNCHANGED <<device, size, setter, hand, selected>>
  BY DEF QueueUpdate
<1>. DEFINE changed == Ranged(shown, shown') \cup Moved(shown, shown')
            told == IF changed \cap {"time", selected} = {} THEN line
                    ELSE MeasureTransformChanged(shown', size)
<1>3. line' = [l \in Lines |-> IF told[l].on THEN DataChanged(told[l]) ELSE told[l]]
  BY DEF QueueUpdate
<1>4. /\ shown' \in Config /\ queue' \in Seq(Config) /\ shown \in Config /\ size \in Sizes
      /\ setter \in [Bars -> Setter] /\ pos \in [HandleIds -> Int] /\ selected \in Waves
      /\ line \in [Lines -> Line]
  BY <1>1, <1>2 DEF HandlesTypes
<1>5. /\ told \in [Lines -> Line] /\ LinesStand(told, shown', size, selected)
      /\ \A l \in Lines : told[l].on = line[l].on /\ (line[l].on => told[l].pos = line[l].pos)
  <2>1. CASE changed \cap {"time", selected} = {}
    <3>1. told = line
      BY <2>1
    <3>2. ASSUME NEW l \in Lines
          PROVE  CalcTransform(shown', size, AxisOf(l, selected)) = CalcTransform(shown, size, AxisOf(l, selected))
      <4>1. AxisOf(l, selected) \in Axes /\ AxisOf(l, selected) \notin changed
        BY <1>4, <2>1, AxisOfIs
      <4>2. /\ shown'.range[AxisOf(l, selected)] = shown.range[AxisOf(l, selected)]
            /\ shown'.off[AxisOf(l, selected)] = shown.off[AxisOf(l, selected)]
        BY <4>1 DEF Ranged, Moved
      <4>. QED  BY <4>2 DEF CalcTransform
    <3>. QED  BY <1>1, <1>4, <3>1, <3>2 DEF LinesStand
  <2>2. CASE changed \cap {"time", selected} # {}
    <3>1. told = MeasureTransformChanged(shown', size)
      BY <2>2
    <3>. QED  BY <1>1, <1>4, <3>1, MeasureTransformKeeps
  <2>. QED  BY <2>1, <2>2
<1>. HIDE DEF told
<1>6. /\ line' \in [Lines -> Line]
      /\ \A l \in Lines : /\ line'[l].on = told[l].on /\ line'[l].pos = told[l].pos
                          /\ line'[l].point = told[l].point /\ line'[l].t = told[l].t
  <2>1. ASSUME NEW l \in Lines
        PROVE  /\ line'[l] \in Line
               /\ line'[l].on = told[l].on /\ line'[l].pos = told[l].pos
               /\ line'[l].point = told[l].point /\ line'[l].t = told[l].t
    <3>1. told[l] \in Line /\ line'[l] = IF told[l].on THEN DataChanged(told[l]) ELSE told[l]
      BY <1>3, <1>5
    <3>. QED  BY <3>1, DataHandler
  <2>2. line' = [l \in Lines |-> line'[l]]
    BY <1>3
  <2>. QED  BY <2>1, <2>2
<1>7. LinesStand(line', shown', size, selected)
  BY <1>5, <1>6 DEF LinesStand, LineStands
<1>8. /\ pos' \in [HandleIds -> Int]
      /\ \A g \in HandleIds : pos'[g] = IF g \in Notified(shown, shown')
                                        THEN PlacedBy(g, shown', size, setter) ELSE pos[g]
  <2>1. \A g \in HandleIds : PlacedBy(g, shown', size, setter) \in Int
    BY <1>4, PlacedIsInt
  <2>. QED  BY <1>2, <1>4, <2>1 DEF SetHandlePos, PlacedBy
<1>9. HandlesTypes'
  <2>1. lag' \in BOOLEAN
    BY <1>2
  <2>. QED  BY <1>1, <1>2, <1>4, <1>6, <1>8, <2>1 DEF HandlesTypes
<1>10. HandLife'
  BY <1>1, <1>2 DEF HandLife
<1>11. HandlesStand'
  <2>. SUFFICES ASSUME NEW g \in HandleIds, g = "level" => ~lag'
                PROVE  pos'[g] = PlacedBy(g, shown', size, setter)
    BY <1>2 DEF HandlesStand
  <2>1. CASE g \in Notified(shown, shown')
    BY <1>8, <2>1
  <2>2. CASE g \notin Notified(shown, shown')
    <3>1. g = "level" => TriggerWave \notin Ranged(shown, shown') /\ ~lag
      BY <1>2, <2>2
    <3>2. PlacedBy(g, shown', size, setter) = PlacedBy(g, shown, size, setter)
      BY <1>4, <2>2, <3>1, NotNotified
    <3>. QED  BY <1>1, <1>8, <2>2, <3>1, <3>2 DEF HandlesStand
  <2>. QED  BY <2>1, <2>2
<1>12. HandlesInv'
  BY <1>2, <1>7, <1>9, <1>10, <1>11, ScreenPartsNext DEF HandlesInv
<1>. QED  BY <1>5, <1>6, <1>12


LEMMA InitHasInv ==
  ASSUME HandlesInit
  PROVE  HandlesInv
<1>1. /\ device = Initial /\ shown = Initial /\ queue = <<>> /\ size \in Sizes
      /\ setter = [b \in Bars |-> NoSetter] /\ hand = "none" /\ selected \in Waves
      /\ pos = [h \in HandleIds |-> CalculateDest(GetOffset(h, shown, size, setter))]
      /\ line \in [Lines -> {NoLine, NewLine(CalcTransform(shown, size, AxisOf("vertical", selected)))}]
      /\ lag = FALSE
  BY DEF HandlesInit
<1>2. Initial \in Config
  <2>1. 1 \in DOMAIN Ranges
    BY HandlesAssumption
  <2>. QED  BY <2>1 DEF Initial, Config
<1>3. setter \in [Bars -> Setter]
  BY <1>1 DEF NoSetter, Setter
<1>4. \A h \in HandleIds : PlacedBy(h, shown, size, setter) \in Int
  BY <1>1, <1>2, <1>3, PlacedIsInt
<1>. DEFINE t == CalcTransform(shown, size, AxisOf("vertical", selected))
<1>5. /\ \A l \in Lines : CalcTransform(shown, size, AxisOf(l, selected)) = t
      /\ t \in Transform
  <2>1. \A a \in Axes : CalcTransform(shown, size, a) = [off |-> 0, range |-> Ranges[1], size |-> size]
    BY <1>1 DEF CalcTransform, Initial
  <2>2. \A l \in Lines : AxisOf(l, selected) \in Axes
    BY <1>1, AxisOfIs
  <2>3. AxisOf("vertical", selected) \in Axes
    BY <1>1, HandleIdsAre DEF AxisOf
  <2>. QED  BY <1>1, <1>2, <2>1, <2>2, <2>3, TransformIs
<1>. HIDE DEF t
<1>6. NoLine \in Line /\ ~NoLine.on
  <2>1. 1 % 1 = 0
    OBVIOUS
  <2>2. [off |-> 0, range |-> 1, size |-> 1] \in Transform
    BY <2>1 DEF Transform
  <2>. QED  BY <2>2 DEF NoLine, Line
<1>7. NewLine(t) \in Line /\ LineStands(NewLine(t), t)
  BY <1>5, <1>6, LineHandlers
<1>8. line \in [Lines -> {NoLine, NewLine(t)}]
  BY <1>1 DEF t
<1>9. line \in [Lines -> Line] /\ LinesStand(line, shown, size, selected)
  BY <1>5, <1>6, <1>7, <1>8 DEF LinesStand
<1>10. HandlesTypes
  <2>1. pos \in [HandleIds -> Int]
    BY <1>1, <1>4 DEF PlacedBy
  <2>2. queue \in Seq(Config)
    BY <1>1
  <2>. QED  BY <1>1, <1>2, <1>3, <1>9, <2>1, <2>2 DEF HandlesTypes
<1>11. HandLife
  <2>1. \A b \in Bars : setter[b] = NoSetter
    BY <1>1
  <2>2. NoSetter.session = FALSE /\ NoSetter.timer = FALSE
    BY DEF NoSetter
  <2>. QED  BY <1>1, <2>1, <2>2 DEF HandLife
<1>12. HandlesStand
  BY <1>1 DEF HandlesStand, PlacedBy
<1>. QED  BY <1>9, <1>10, <1>11, <1>12, ScreenParts DEF HandlesInv

-----------------------------------------------------------------------------
(* Theorems. *)

\* The domains of the screen, the life of a drag, and where handles and lines
\* stand, are an inductive invariant.
THEOREM ScreenInStep == HandlesSpec => []HandlesInv
<1>1. HandlesInit => HandlesInv
  BY InitHasInv
<1>2. HandlesInv /\ [HandlesNext]_handlesVars => HandlesInv'
  <2>. SUFFICES ASSUME HandlesInv, [HandlesNext]_handlesVars  PROVE HandlesInv'
    OBVIOUS
  <2>1. CASE Press  BY <2>1, PressKeepsInv
  <2>2. CASE Move  BY <2>2, MoveKeepsInv
  <2>3. CASE DelayPast  BY <2>3, DelayPastKeepsInv
  <2>4. CASE Release  BY <2>4, ReleaseKeepsInv
  <2>5. CASE Zoom \/ Wheel \/ Acquire  BY <2>5, ZoomWheelAcquireKeepInv
  <2>6. CASE ActiveWaveBarHandle \/ Toggle \/ DragLine  BY <2>6, LinesKeepInv
  <2>7. CASE Layout  BY <2>7, LayoutKeepsInv
  <2>8. CASE QueueUpdate  BY <2>8, QueueUpdateKeepsInv
  <2>9. CASE UNCHANGED handlesVars
    <3>1. HandlesTypes /\ LinesStand(line, shown, size, selected)
      BY ScreenParts DEF HandlesInv
    <3>2. /\ device \in Config /\ queue \in Seq(Config) /\ selected \in Waves /\ line \in [Lines -> Line]
          /\ UNCHANGED <<device, queue, shown, size, pos, setter, hand, selected, line, lag>>
      BY <2>9, <3>1 DEF HandlesTypes, handlesVars
    <3>. QED  BY <3>1, <3>2, SameScreen
  <2>. QED  BY <2>1, <2>2, <2>3, <2>4, <2>5, <2>6, <2>7, <2>8, <2>9 DEF HandlesNext
<1>. QED  BY <1>1, <1>2, PTL DEF HandlesSpec

\* Every handle stands where what is shown, or the mouse, has it; every line at
\* its value in the wave that is measured.
THEOREM HandlesAndLinesStand == HandlesSpec => []ScreenStands
<1>1. HandlesInv => ScreenStands
  BY DEF HandlesInv
<1>. QED  BY <1>1, ScreenInStep, PTL

\* A line keeps its pixel when another wave is measured, its value when a result
\* is shown.
THEOREM LinesKeepTheirPlace == HandlesSpec => LineKeepsPlace
<1>1. HandlesInv /\ [HandlesNext]_handlesVars =>
        [\A l \in Lines : line[l].on /\ line'[l].on =>
          /\ selected' # selected => line'[l].point = line[l].point
          /\ shown' # shown => line'[l].pos = line[l].pos]_handlesVars
  <2>. SUFFICES ASSUME HandlesInv, HandlesNext, NEW l \in Lines, line[l].on, line'[l].on
                PROVE  /\ selected' # selected => line'[l].point = line[l].point
                       /\ shown' # shown => line'[l].pos = line[l].pos
    OBVIOUS
  <2>1. ASSUME selected' # selected  PROVE line'[l].point = line[l].point
    <3>1. PICK h \in HandleIds : ActiveHandle(h)
      <4>1. Press \/ ActiveWaveBarHandle
        BY <2>1 DEF HandlesNext, Move, DelayPast, Release, Zoom, Wheel, Toggle, DragLine, Layout,
                    Acquire, QueueUpdate, screenVars
      <4>2. Waves \subseteq HandleIds
        BY HandleIdsAre
      <4>. QED  BY <4>1, <4>2 DEF Press, ActiveWaveBarHandle
    <3>. QED  BY <3>1, ActiveHandleKeeps DEF HandlesInv
  <2>2. ASSUME shown' # shown  PROVE line'[l].pos = line[l].pos
    <3>1. QueueUpdate
      BY <2>2 DEF HandlesNext, ActiveWaveBarHandle, Press, Move, DelayPast, Release, Zoom, Wheel, Toggle,
                  DragLine, Layout, Acquire
    <3>. QED  BY <3>1, QueueUpdateKeepsInv
  <2>. QED  BY <2>1, <2>2
<1>. QED  BY <1>1, ScreenInStep, PTL DEF HandlesSpec, LineKeepsPlace

-----------------------------------------------------------------------------
(* The waves on the screen (Waves). *)

\* The domains of the drag, of a container, of the screen and of what is held.
Drags == [pressed : BOOLEAN, active : BOOLEAN, canceling : BOOLEAN,
          wave : OscWaves \cup {NoWave}, start : Nat]
Containers == [id : Nat \ {0}, waves : Seq(OscWaves), group : Seq(OscWaves),
               part : OscWaves \cup {NoWave}, shown : BOOLEAN, session : [OscBars -> BOOLEAN]]
Screens == [list : Seq(Containers), drag : Drags, trigger : OscWaves \cup {NoWave}]
Hands == [on : {"nothing", "handle", "view"}, id : Nat, bar : OscBars]

\* No wave is twice in a list.
Distinct(l) == \A i, j \in 1 .. Len(l) : l[i] = l[j] => i = j

\* The bars of a container have the handles of its waves; the trigger handle is
\* shown for a part that refers to the wave of the trigger source.
BarsOf(c, t) ==
  /\ Distinct(c.waves) /\ Distinct(c.group)
  /\ Len(c.group) = Len(c.waves) /\ ToSet(c.group) = ToSet(c.waves)
  /\ c.waves # <<>> => c.part \in ToSet(c.waves)
  /\ c.shown => c.waves # <<>> /\ c.part = t

\* Two containers have views of their own and no wave in common.
Unlike(c, d) == c.id # d.id /\ ToSet(c.waves) \cap ToSet(d.waves) = {}

\* The waves of P are on the screen, each in one container, and no container but
\* those of E is without a wave.
Arranged(s, P, E) ==
  /\ s \in Screens
  /\ \A k \in 1 .. Len(s.list) : BarsOf(s.list[k], s.trigger)
  /\ \A j, k \in 1 .. Len(s.list) : j # k => Unlike(s.list[j], s.list[k])
  /\ \A w \in OscWaves : w \in P <=> \E k \in 1 .. Len(s.list) : HasWave(s.list[k], w)
  /\ \A k \in 1 .. Len(s.list) : s.list[k].waves = <<>> => s.list[k].id \in E

\* no bar is being dragged
NoSession(s) == \A k \in 1 .. Len(s.list), b \in OscBars : ~s.list[k].session[b]

\* The views are known by their places between the steps.
NumberedList(s) == \A k \in 1 .. Len(s.list) : s.list[k].id = k

\* What the mouse has hold of is on the screen, and only that is in a session; a
\* drag is one of the view it began in.
HandOn(s, h) ==
  /\ h \in Hands
  /\ h.on = "nothing" => h = NoHand
  /\ h.on # "nothing" => h.id \in 1 .. Len(s.list)
  /\ h.on = "handle" /\ h.bar = "trigger" => s.list[h.id].shown
  /\ \A k \in 1 .. Len(s.list), b \in OscBars :
       s.list[k].session[b] <=> h = [on |-> "handle", id |-> k, bar |-> b]
  /\ h.on # "view" => s.drag = NoDrag
  /\ h.on = "view" => s.drag.start = h.id /\ s.drag.wave \in OscWaves
  /\ h.on = "view" /\ ~s.drag.canceling => s.list[h.id].waves[1] = s.drag.wave

\* The inductive invariant.
WavesInv ==
  /\ model \in {"separate", "combine"}
  /\ Arranged(screen, IF screen.list = <<>> THEN {} ELSE OscWaves, {})
  /\ NumberedList(screen)
  /\ HandOn(screen, held)

\* A container that a wave comes to, or leaves; a container in the list.
Joined(c, i, w, t) == AddOscWave([c EXCEPT !.waves = InsertAt(@, i, w)], w, t)
Parted(c, w, t) == RemoveOscWave([c EXCEPT !.waves = Erase(@, w)], w, t)
Replaced(s, k, c) == [s EXCEPT !.list[k] = c]
WithNew(s, k) == [s EXCEPT !.list = InsertAt(@, k, Container(NewId(s)))]

-----------------------------------------------------------------------------
(* Lists of waves. *)

\* The three waves, in the order they are made.
LEMMA OscWavesAre ==
  /\ OscWaves = {"CAN_H", "CAN_L", "CAN_DIFF"} /\ NoWave \notin OscWaves
  /\ ChnlWaves \in Seq(OscWaves) /\ Len(ChnlWaves) = 3
  /\ ChnlWaves[1] = "CAN_H" /\ ChnlWaves[2] = "CAN_L" /\ ChnlWaves[3] = "CAN_DIFF"
BY DEF OscWaves, ChnlWaves, ToSet, NoWave

\* The waves of a list.
LEMMA ToSetIs ==
  ASSUME NEW S, NEW l \in Seq(S)
  PROVE  /\ ToSet(l) = {l[i] : i \in 1 .. Len(l)} /\ ToSet(l) \subseteq S
         /\ l = <<>> <=> ToSet(l) = {}
         /\ l = <<>> <=> Len(l) = 0
BY DEF ToSet

\* Putting an element into a list, and taking one out: where the others go.
LEMMA InsertIs ==
  ASSUME NEW S, NEW l \in Seq(S), NEW i \in 1 .. Len(l) + 1, NEW e \in S
  PROVE  /\ InsertAt(l, i, e) \in Seq(S) /\ Len(InsertAt(l, i, e)) = Len(l) + 1
         /\ InsertAt(l, i, e)[i] = e
         /\ \A j \in 1 .. Len(l) : j < i => InsertAt(l, i, e)[j] = l[j]
         /\ \A j \in 1 .. Len(l) : j >= i => InsertAt(l, i, e)[j + 1] = l[j]
<1> DEFINE a == SubSeq(l, 1, i - 1)
           b == SubSeq(l, i, Len(l))
<1>1. /\ a \in Seq(S) /\ Len(a) = i - 1 /\ \A j \in 1 .. i - 1 : a[j] = l[j]
      /\ b \in Seq(S) /\ Len(b) = Len(l) - i + 1
      /\ \A j \in 1 .. Len(l) - i + 1 : b[j] = l[i + j - 1]
  OBVIOUS
<1>2. InsertAt(l, i, e) = a \o <<e>> \o b
  BY DEF InsertAt
<1> HIDE DEF a, b
<1>3. <<e>> \in Seq(S) /\ Len(<<e>>) = 1 /\ <<e>>[1] = e
  OBVIOUS
<1>4. /\ a \o <<e>> \in Seq(S) /\ Len(a \o <<e>>) = i /\ (a \o <<e>>)[i] = e
      /\ \A j \in 1 .. i - 1 : (a \o <<e>>)[j] = l[j]
  BY <1>1, <1>3
<1> DEFINE ae == a \o <<e>>
<1> HIDE DEF ae
<1>5. /\ ae \in Seq(S) /\ Len(ae) = i /\ ae[i] = e /\ \A j \in 1 .. i - 1 : ae[j] = l[j]
  BY <1>4 DEF ae
<1>6. /\ ae \o b \in Seq(S) /\ Len(ae \o b) = Len(l) + 1
      /\ \A j \in 1 .. i : (ae \o b)[j] = ae[j]
      /\ \A j \in i + 1 .. Len(l) + 1 : (ae \o b)[j] = b[j - i]
  <2>1. ae \o b \in Seq(S) /\ Len(ae \o b) = Len(ae) + Len(b)
    BY <1>1, <1>5
  <2>2. \A j \in 1 .. Len(ae) + Len(b) : (ae \o b)[j] = IF j <= Len(ae) THEN ae[j] ELSE b[j - Len(ae)]
    BY <1>1, <1>5
  <2>3. Len(ae) = i /\ Len(ae) + Len(b) = Len(l) + 1
    BY <1>1, <1>5
  <2> QED BY <2>1, <2>2, <2>3
<1>7. InsertAt(l, i, e) = ae \o b
  BY <1>2 DEF ae
<1>8. ASSUME NEW j \in 1 .. Len(l), j >= i
      PROVE  (ae \o b)[j + 1] = l[j]
  <2>1. j + 1 \in i + 1 .. Len(l) + 1 /\ j + 1 - i \in 1 .. Len(l) - i + 1
    BY <1>8
  <2>2. b[j + 1 - i] = l[i + (j + 1 - i) - 1]
    BY <1>1, <2>1
  <2>3. i + (j + 1 - i) - 1 = j
    OBVIOUS
  <2>4. (ae \o b)[j + 1] = b[j + 1 - i]
    BY <1>6, <2>1
  <2> QED BY <2>2, <2>3, <2>4
<1> QED BY <1>5, <1>6, <1>7, <1>8

LEMMA RemoveIs ==
  ASSUME NEW S, NEW l \in Seq(S), NEW i \in 1 .. Len(l)
  PROVE  /\ RemoveAt(l, i) \in Seq(S) /\ Len(RemoveAt(l, i)) = Len(l) - 1
         /\ \A j \in 1 .. Len(l) - 1 : RemoveAt(l, i)[j] = IF j < i THEN l[j] ELSE l[j + 1]
<1> DEFINE a == SubSeq(l, 1, i - 1)
           b == SubSeq(l, i + 1, Len(l))
<1>1. /\ a \in Seq(S) /\ Len(a) = i - 1 /\ \A j \in 1 .. i - 1 : a[j] = l[j]
      /\ b \in Seq(S) /\ Len(b) = Len(l) - i
      /\ \A j \in 1 .. Len(l) - i : b[j] = l[i + j]
  OBVIOUS
<1>2. RemoveAt(l, i) = a \o b
  BY DEF RemoveAt
<1> HIDE DEF a, b
<1>3. /\ a \o b \in Seq(S) /\ Len(a \o b) = Len(l) - 1
      /\ \A j \in 1 .. i - 1 : (a \o b)[j] = a[j]
      /\ \A j \in i .. Len(l) - 1 : (a \o b)[j] = b[j - i + 1]
  <2>0. a \in Seq(S) /\ b \in Seq(S)
    BY <1>1
  <2>1. a \o b \in Seq(S) /\ Len(a \o b) = Len(a) + Len(b)
    BY <2>0
  <2>2. \A j \in 1 .. Len(a) + Len(b) : (a \o b)[j] = IF j <= Len(a) THEN a[j] ELSE b[j - Len(a)]
    BY <2>0
  <2>3. Len(a) = i - 1 /\ Len(a) + Len(b) = Len(l) - 1
    BY <1>1
  <2> QED BY <2>1, <2>2, <2>3
<1>4. ASSUME NEW j \in i .. Len(l) - 1 PROVE (a \o b)[j] = l[j + 1]
  <2>1. j - i + 1 \in 1 .. Len(l) - i /\ i + (j - i + 1) = j + 1
    OBVIOUS
  <2> QED BY <1>1, <1>3, <2>1
<1> QED BY <1>1, <1>2, <1>3, <1>4

\* Lists of waves, none of them twice.
LEMMA InsertDistinct ==
  ASSUME NEW S, NEW l \in Seq(S), Distinct(l), NEW i \in 1 .. Len(l) + 1,
         NEW e \in S, e \notin ToSet(l)
  PROVE  /\ InsertAt(l, i, e) \in Seq(S) /\ Len(InsertAt(l, i, e)) = Len(l) + 1
         /\ Distinct(InsertAt(l, i, e)) /\ ToSet(InsertAt(l, i, e)) = ToSet(l) \cup {e}
<1> DEFINE m == InsertAt(l, i, e)
<1>1. /\ m \in Seq(S) /\ Len(m) = Len(l) + 1 /\ m[i] = e
      /\ \A j \in 1 .. Len(l) : j < i => m[j] = l[j]
      /\ \A j \in 1 .. Len(l) : j >= i => m[j + 1] = l[j]
  BY InsertIs
<1> HIDE DEF m
<1>2. ASSUME NEW j \in 1 .. Len(m)
      PROVE  /\ j < i => j \in 1 .. Len(l) /\ m[j] = l[j]
             /\ j > i => j - 1 \in 1 .. Len(l) /\ m[j] = l[j - 1]
  <2>1. j < i => j \in 1 .. Len(l)
    BY <1>1
  <2>2. j > i => j - 1 \in 1 .. Len(l) /\ j - 1 >= i /\ j - 1 + 1 = j
    BY <1>1
  <2> QED BY <1>1, <2>1, <2>2
<1>3. \A j \in 1 .. Len(l) : l[j] \in ToSet(l) /\ l[j] # e
  BY ToSetIs
<1>4. Distinct(m)
  <2> SUFFICES ASSUME NEW j \in 1 .. Len(m), NEW k \in 1 .. Len(m), m[j] = m[k], j < k
               PROVE FALSE
    BY <1>1 DEF Distinct
  <2>1. CASE k < i
    BY <1>2, <2>1 DEF Distinct
  <2>2. CASE k = i
    BY <1>1, <1>2, <1>3, <2>2
  <2>3. CASE k > i
    <3>1. CASE j < i
      <4>1. j # k - 1
        BY <2>3, <3>1
      <4> QED BY <1>2, <2>3, <3>1, <4>1 DEF Distinct
    <3>2. CASE j = i
      BY <1>1, <1>2, <1>3, <2>3, <3>2
    <3>3. CASE j > i
      <4>1. j - 1 # k - 1
        OBVIOUS
      <4> QED BY <1>2, <2>3, <3>3, <4>1 DEF Distinct
    <3> QED BY <3>1, <3>2, <3>3
  <2> QED BY <2>1, <2>2, <2>3
<1>5. ToSet(m) = ToSet(l) \cup {e}
  <2>1. ToSet(m) = {m[j] : j \in 1 .. Len(m)} /\ ToSet(l) = {l[j] : j \in 1 .. Len(l)}
    BY <1>1, ToSetIs
  <2>2. ASSUME NEW j \in 1 .. Len(m) PROVE m[j] \in ToSet(l) \cup {e}
    <3>1. j < i \/ j = i \/ j > i
      OBVIOUS
    <3> QED BY <1>1, <1>2, <1>3, <3>1
  <2>3. ASSUME NEW j \in 1 .. Len(l) PROVE l[j] \in ToSet(m)
    <3>1. CASE j < i BY <1>1, <2>1, <3>1
    <3>2. CASE j >= i
      <4>1. j + 1 \in 1 .. Len(m)
        BY <1>1
      <4> QED BY <1>1, <2>1, <3>2, <4>1
    <3> QED BY <3>1, <3>2
  <2>4. e \in ToSet(m)
    BY <1>1, <2>1
  <2> QED BY <2>1, <2>2, <2>3, <2>4
<1> QED BY <1>1, <1>4, <1>5 DEF m

LEMMA EraseIs ==
  ASSUME NEW S, NEW l \in Seq(S), Distinct(l), NEW e \in ToSet(l)
  PROVE  /\ Erase(l, e) \in Seq(S) /\ Len(Erase(l, e)) = Len(l) - 1
         /\ Distinct(Erase(l, e)) /\ ToSet(Erase(l, e)) = ToSet(l) \ {e}
<1> DEFINE i == CHOOSE k \in 1 .. Len(l) : l[k] = e
           m == RemoveAt(l, i)
<1>1. i \in 1 .. Len(l) /\ l[i] = e
  BY ToSetIs
<1>2. Erase(l, e) = m
  BY DEF Erase
<1> HIDE DEF i
<1>3. /\ m \in Seq(S) /\ Len(m) = Len(l) - 1
      /\ \A j \in 1 .. Len(l) - 1 : m[j] = IF j < i THEN l[j] ELSE l[j + 1]
  BY <1>1, RemoveIs
<1> HIDE DEF m
<1> DEFINE was(j) == IF j < i THEN j ELSE j + 1
<1>4. \A j \in 1 .. Len(m) : was(j) \in 1 .. Len(l) /\ m[j] = l[was(j)] /\ was(j) # i
  BY <1>1, <1>3
<1>5. Distinct(m)
  <2> SUFFICES ASSUME NEW j \in 1 .. Len(m), NEW k \in 1 .. Len(m), m[j] = m[k] PROVE j = k
    BY DEF Distinct
  <2>1. was(j) = was(k)
    BY <1>4 DEF Distinct
  <2> QED BY <2>1, <1>1
<1>6. ToSet(m) = ToSet(l) \ {e}
  <2>1. ToSet(m) = {m[j] : j \in 1 .. Len(m)} /\ ToSet(l) = {l[j] : j \in 1 .. Len(l)}
    BY <1>3, ToSetIs
  <2>2. ASSUME NEW j \in 1 .. Len(m) PROVE m[j] \in ToSet(l) \ {e}
    BY <1>1, <1>4, <2>1 DEF Distinct
  <2>3. ASSUME NEW j \in 1 .. Len(l), l[j] # e PROVE l[j] \in ToSet(m)
    <3>1. CASE j < i
      <4>1. j \in 1 .. Len(m) /\ j \in 1 .. Len(l) - 1
        BY <1>1, <1>3, <3>1
      <4> QED BY <1>3, <2>1, <3>1, <4>1
    <3>2. CASE j > i
      <4>1. j - 1 \in 1 .. Len(m) /\ j - 1 \in 1 .. Len(l) - 1 /\ ~(j - 1 < i) /\ j - 1 + 1 = j
        BY <1>1, <1>3, <3>2
      <4> QED BY <1>3, <2>1, <4>1
    <3> QED BY <1>1, <2>3, <3>1, <3>2
  <2> QED BY <2>1, <2>2, <2>3
<1> QED BY <1>2, <1>3, <1>5, <1>6

-----------------------------------------------------------------------------
(* A container and its bars. *)

\* A wave that comes to a container, or leaves it, keeps the bars of it.
\* When a wave may come to a container, and when it may leave.
CanJoin(c, i, w, t) ==
  /\ c \in Containers /\ t \in OscWaves \cup {NoWave} /\ BarsOf(c, t)
  /\ w \in OscWaves \ ToSet(c.waves) /\ i \in 1 .. Len(c.waves) + 1

CanPart(c, w, t) ==
  /\ c \in Containers /\ t \in OscWaves \cup {NoWave} /\ BarsOf(c, t)
  /\ w \in ToSet(c.waves)

LEMMA AddKeepsBars ==
  ASSUME NEW c, NEW i, NEW w, NEW t, CanJoin(c, i, w, t)
  PROVE  LET d == Joined(c, i, w, t) IN
         /\ d \in Containers /\ BarsOf(d, t)
         /\ d.id = c.id /\ d.session = c.session
         /\ d.waves # <<>> /\ ToSet(d.waves) = ToSet(c.waves) \cup {w}
<1> DEFINE d == Joined(c, i, w, t)
<1> SUFFICES /\ d \in Containers /\ BarsOf(d, t)
             /\ d.id = c.id /\ d.session = c.session
             /\ d.waves # <<>> /\ ToSet(d.waves) = ToSet(c.waves) \cup {w}
  OBVIOUS
<1> USE DEF CanJoin
<1> DEFINE l == InsertAt(c.waves, i, w)
           e == [c EXCEPT !.waves = l]
<1>1. /\ l \in Seq(OscWaves) /\ Len(l) = Len(c.waves) + 1
      /\ Distinct(l) /\ ToSet(l) = ToSet(c.waves) \cup {w}
  <2>1. c.waves \in Seq(OscWaves) /\ Distinct(c.waves)
    BY DEF Containers, BarsOf
  <2> QED BY <2>1, InsertDistinct
<1> HIDE DEF l
<1>2. /\ e \in Containers /\ e.id = c.id /\ e.session = c.session /\ e.waves = l
      /\ e.group = c.group /\ e.part = c.part /\ e.shown = c.shown
  BY <1>1 DEF Containers
<1>3. l # <<>>
  BY <1>1, ToSetIs
<1>4. c.group \in Seq(OscWaves) /\ c.waves \in Seq(OscWaves)
  BY DEF Containers
<1>5. d = AddOscWave(e, w, t)
  BY DEF l, Joined
<1> HIDE DEF e, d
<1>6. CASE c.group # <<>>
  <2> DEFINE g == Append(c.group, w)
  <2>1. d = [e EXCEPT !.group = g]
    BY <1>2, <1>5, <1>6 DEF AddOscWave
  <2>2. /\ g \in Seq(OscWaves) /\ Len(g) = Len(c.group) + 1
        /\ \A j \in 1 .. Len(c.group) : g[j] = c.group[j]
        /\ g[Len(c.group) + 1] = w
    BY <1>4
  <2> HIDE DEF g
  <2>3. /\ d \in Containers /\ d.id = c.id /\ d.session = c.session /\ d.waves = l
        /\ d.group = g /\ d.part = c.part /\ d.shown = c.shown
    BY <1>2, <2>1, <2>2 DEF Containers
  <2>4. ToSet(g) = ToSet(c.group) \cup {w}
    <3>1. /\ ToSet(g) = {g[j] : j \in 1 .. Len(c.group) + 1}
          /\ ToSet(c.group) = {c.group[j] : j \in 1 .. Len(c.group)}
      BY <1>4, <2>2, ToSetIs
    <3>2. \A j \in 1 .. Len(c.group) : j \in 1 .. Len(c.group) + 1
      BY <1>4
    <3>3. \A j \in 1 .. Len(c.group) + 1 : j \in 1 .. Len(c.group) \/ j = Len(c.group) + 1
      BY <1>4
    <3>4. Len(c.group) + 1 \in 1 .. Len(c.group) + 1
      BY <1>4
    <3>5. \A x \in ToSet(g) : x \in ToSet(c.group) \cup {w}
      BY <2>2, <3>1, <3>3
    <3>6. \A x \in ToSet(c.group) \cup {w} : x \in ToSet(g)
      BY <2>2, <3>1, <3>2, <3>4
    <3> QED BY <3>5, <3>6
  <2>5. \A j \in 1 .. Len(c.group) : c.group[j] # w
    BY <1>4, ToSetIs DEF BarsOf
  <2>6. Distinct(g)
    <3>1. \A j \in 1 .. Len(g) : j \in 1 .. Len(c.group) \/ j = Len(c.group) + 1
      BY <1>4, <2>2
    <3> QED BY <2>2, <2>5, <3>1 DEF Distinct, BarsOf
  <2>7. c.waves # <<>>
    BY <1>4, <1>6, ToSetIs DEF BarsOf
  <2> QED BY <1>1, <1>3, <2>2, <2>3, <2>4, <2>6, <2>7 DEF BarsOf
<1>7. CASE c.group = <<>>
  <2>1. c.waves = <<>> /\ ~c.shown /\ Len(c.group) = 0 /\ ToSet(c.waves) = {}
    BY <1>4, <1>7, ToSetIs DEF BarsOf
  <2> DEFINE made == [e EXCEPT !.group = <<w>>, !.part = w]
             v == IsVisible(made, t)
  <2>2. d = [made EXCEPT !.shown = v]
    BY <1>2, <1>5, <1>7 DEF AddOscWave
  <2>3. made.waves = l /\ made.part = w
    BY <1>2 DEF Containers
  <2>4. v \in BOOLEAN /\ (v => t = w)
    BY <2>3 DEF IsVisible, HasWave
  <2>5. made \in Containers /\ made.id = c.id /\ made.session = c.session /\ made.group = <<w>>
    <3>1. <<w>> \in Seq(OscWaves) /\ w \in OscWaves
      OBVIOUS
    <3> QED BY <1>2, <3>1 DEF Containers
  <2> HIDE DEF made, v
  <2>6. /\ d \in Containers /\ d.id = c.id /\ d.session = c.session /\ d.waves = l
        /\ d.group = <<w>> /\ d.part = w /\ d.shown = v
    BY <2>2, <2>3, <2>4, <2>5 DEF Containers
  <2>7. Len(<<w>>) = 1 /\ ToSet(<<w>>) = {w} /\ Distinct(<<w>>)
    BY DEF ToSet, Distinct
  <2>8. Len(l) = 1 /\ ToSet(l) = {w}
    BY <1>1, <1>4, <2>1, ToSetIs
  <2> QED BY <1>1, <1>3, <2>1, <2>4, <2>6, <2>7, <2>8 DEF BarsOf
<1> QED BY <1>6, <1>7

LEMMA RemoveKeepsBars ==
  ASSUME NEW c, NEW w, NEW t, CanPart(c, w, t)
  PROVE  LET d == Parted(c, w, t) IN
         /\ d \in Containers /\ BarsOf(d, t)
         /\ d.id = c.id /\ d.session = c.session
         /\ ToSet(d.waves) = ToSet(c.waves) \ {w}
<1> DEFINE d == Parted(c, w, t)
<1> SUFFICES /\ d \in Containers /\ BarsOf(d, t)
             /\ d.id = c.id /\ d.session = c.session
             /\ ToSet(d.waves) = ToSet(c.waves) \ {w}
  OBVIOUS
<1> USE DEF CanPart
<1> DEFINE l == Erase(c.waves, w)
           g == Erase(c.group, w)
           e == [c EXCEPT !.waves = l]
<1>0. c.waves \in Seq(OscWaves) /\ Distinct(c.waves) /\ c.group \in Seq(OscWaves)
  BY DEF Containers, BarsOf
<1>1. /\ l \in Seq(OscWaves) /\ Len(l) = Len(c.waves) - 1
      /\ Distinct(l) /\ ToSet(l) = ToSet(c.waves) \ {w}
  BY <1>0, EraseIs
<1>2. /\ g \in Seq(OscWaves) /\ Len(g) = Len(c.group) - 1
      /\ Distinct(g) /\ ToSet(g) = ToSet(c.group) \ {w}
  BY <1>0, EraseIs DEF BarsOf
<1> HIDE DEF l
<1>3. /\ e \in Containers /\ e.id = c.id /\ e.session = c.session /\ e.waves = l
      /\ e.group = c.group /\ e.part = c.part /\ e.shown = c.shown
  BY <1>1 DEF Containers
<1>4. d = RemoveOscWave(e, w, t)
  BY DEF l, Parted
<1> HIDE DEF d
<1>5. Erase(e.group, w) = g
  BY <1>3
<1> HIDE DEF e, g
<1>6. ToSet(g) = ToSet(l) /\ Len(g) = Len(l)
  BY <1>0, <1>1, <1>2 DEF BarsOf
<1>7. CASE g = <<>>
  <2>1. d = [e EXCEPT !.group = g, !.part = NoWave, !.shown = FALSE]
    BY <1>3, <1>4, <1>5, <1>7 DEF RemoveOscWave
  <2>2. /\ d \in Containers /\ d.id = c.id /\ d.session = c.session /\ d.waves = l
        /\ d.group = g /\ ~d.shown
    BY <1>2, <1>3, <2>1 DEF Containers
  <2>3. l = <<>>
    BY <1>1, <1>2, <1>6, <1>7, ToSetIs
  <2> QED BY <1>1, <1>2, <1>6, <2>2, <2>3 DEF BarsOf
<1>8. CASE g # <<>> /\ c.part # w
  <2>1. d = [e EXCEPT !.group = g]
    BY <1>3, <1>4, <1>5, <1>8 DEF RemoveOscWave
  <2>2. /\ d \in Containers /\ d.id = c.id /\ d.session = c.session /\ d.waves = l
        /\ d.group = g /\ d.part = c.part /\ d.shown = c.shown
    BY <1>2, <1>3, <2>1 DEF Containers
  <2>3. l # <<>>
    BY <1>1, <1>2, <1>6, <1>8, ToSetIs
  <2>4. c.waves # <<>>
    BY <1>0, ToSetIs
  <2> QED BY <1>1, <1>2, <1>6, <1>8, <2>2, <2>3, <2>4 DEF BarsOf
<1>9. CASE g # <<>> /\ c.part = w
  <2> DEFINE moved == [e EXCEPT !.group = g, !.part = Head(g)]
             v == IsVisible(moved, t)
  <2>1. d = [moved EXCEPT !.shown = v]
    BY <1>3, <1>4, <1>5, <1>9 DEF RemoveOscWave
  <2>2. Head(g) = g[1] /\ 1 \in 1 .. Len(g)
    BY <1>2, <1>9
  <2>3. Head(g) \in ToSet(g) /\ Head(g) \in OscWaves
    <3>1. g[1] \in {g[j] : j \in 1 .. Len(g)} /\ g \in Seq(OscWaves)
      BY <1>2, <2>2
    <3> QED BY <2>2, <3>1, ToSetIs
  <2>4. /\ moved \in Containers /\ moved.id = c.id /\ moved.session = c.session
        /\ moved.group = g /\ moved.waves = l /\ moved.part = Head(g)
    BY <1>2, <1>3, <2>3 DEF Containers
  <2>5. v \in BOOLEAN /\ (v => t = Head(g))
    BY <2>4 DEF IsVisible, HasWave
  <2> HIDE DEF moved, v
  <2>6. /\ d \in Containers /\ d.id = c.id /\ d.session = c.session /\ d.waves = l
        /\ d.group = g /\ d.part = Head(g) /\ d.shown = v
    BY <2>1, <2>4, <2>5 DEF Containers
  <2>7. l # <<>>
    BY <1>1, <1>2, <1>6, <1>9, ToSetIs
  <2> QED BY <1>1, <1>2, <1>6, <2>3, <2>5, <2>6, <2>7 DEF BarsOf
<1> QED BY <1>7, <1>8, <1>9

-----------------------------------------------------------------------------
(* The list of containers. *)

\* A set of numbers has a least one.
LEMMA LeastNat ==
  ASSUME NEW T, T \subseteq Nat, T # {}
  PROVE  \E t \in T : \A y \in T : t <= y
<1>1. PICK t \in T : \A y \in T : ~(<<y, t>> \in OpToRel(<, Nat))
  BY NatLessThanWellFounded, WFMin
<1>2. \A y \in T : ~(y < t)
  BY <1>1 DEF OpToRel
<1> QED BY <1>2

\* A finite list of numbers is bounded.
LEMMA ListIsBounded ==
  ASSUME NEW n \in Nat, NEW f \in [1 .. n -> Nat]
  PROVE  \E b \in Nat : \A k \in 1 .. n : f[k] <= b
<1> DEFINE Over(m) == \E b \in Nat : \A k \in 1 .. m : f[k] <= b
           T == {m \in 0 .. n : ~Over(m)}
<1> SUFFICES ASSUME ~Over(n) PROVE FALSE
  OBVIOUS
<1>1. n \in T /\ T \subseteq Nat
  OBVIOUS
<1>2. PICK t \in T : \A y \in T : t <= y
  <2> HIDE DEF T
  <2> QED BY <1>1, LeastNat
<1>3. Over(0)
  <2>1. 0 \in Nat /\ \A k \in 1 .. 0 : f[k] <= 0
    OBVIOUS
  <2> QED BY <2>1
<1>4. t \in 1 .. n /\ t - 1 \in 0 .. n /\ ~(t <= t - 1)
  BY <1>2, <1>3
<1>5. Over(t - 1)
  BY <1>2, <1>4
<1>6. PICK b \in Nat : \A k \in 1 .. t - 1 : f[k] <= b
  BY <1>5
<1>7. f[t] \in Nat
  BY <1>4
<1>8. ASSUME NEW k \in 1 .. t PROVE f[k] <= b + f[t]
  <2> HIDE DEF Over, T
  <2>1. CASE k = t
    BY <1>7, <2>1
  <2>2. CASE k # t
    <3>1. k \in 1 .. t - 1 /\ k \in 1 .. n
      BY <1>4, <2>2
    <3>2. f[k] \in Nat /\ f[k] <= b
      BY <1>6, <3>1
    <3> QED BY <1>7, <3>2
  <2> QED BY <2>1, <2>2
<1>9. Over(t)
  <2>1. \A x, y \in Nat : x + y \in Nat
    OBVIOUS
  <2>2. b + f[t] \in Nat
    BY <1>6, <1>7, <2>1
  <2> QED BY <1>8, <2>2
<1> QED BY <1>2, <1>9

\* The containers of the list, and the names of their views.
LEMMA IdsAre ==
  ASSUME NEW s \in Screens, NEW k \in 1 .. Len(s.list)
  PROVE  s.list[k] \in Containers /\ s.list[k].id \in Nat \ {0}
<1>1. s.list \in Seq(Containers)
  BY DEF Screens
<1>2. s.list[k] \in Containers
  BY <1>1
<1> QED BY <1>2 DEF Containers

\* A container that is made is told apart from those there are.
LEMMA NewIdIs ==
  ASSUME NEW s \in Screens
  PROVE  NewId(s) \in Nat \ {0} /\ \A k \in 1 .. Len(s.list) : s.list[k].id # NewId(s)
<1> DEFINE n == Len(s.list)
           f == [k \in 1 .. n |-> s.list[k].id]
           S == {0} \cup {s.list[k].id : k \in DOMAIN s.list}
<1>1. n \in Nat /\ DOMAIN s.list = 1 .. n
  BY DEF Screens
<1>2. f \in [1 .. n -> Nat] /\ \A k \in 1 .. n : f[k] = s.list[k].id
  BY IdsAre
<1>3. S = {0} \cup {f[k] : k \in 1 .. n}
  BY <1>1, <1>2
<1>4. NewId(s) = Max(S) + 1
  BY DEF NewId
<1> HIDE DEF n, f, S
<1>5. PICK high \in Nat : \A k \in 1 .. n : f[k] <= high
  BY <1>1, <1>2, ListIsBounded
<1>6. \A x \in S : x \in Nat
  BY <1>2, <1>3
<1> DEFINE U == {b \in Nat : \A x \in S : x <= b}
<1>7. PICK u \in U : \A b \in U : u <= b
  <2>1. \A x \in S : x <= high
    BY <1>3, <1>5
  <2>2. U # {} /\ U \subseteq Nat
    BY <2>1
  <2> HIDE DEF U
  <2> QED BY <2>2, LeastNat
<1>8. u \in S
  <2> SUFFICES ASSUME u \notin S PROVE FALSE
    OBVIOUS
  <2>1. u \in Nat /\ 0 \in S /\ u # 0
    BY <1>3
  <2>2. u - 1 \in Nat /\ ~(u <= u - 1)
    BY <2>1
  <2>3. ASSUME NEW x \in S PROVE x <= u - 1
    <3>1. x \in Nat /\ x <= u /\ x # u
      BY <1>6
    <3> QED BY <2>1, <3>1
  <2> QED BY <1>7, <2>2, <2>3
<1>9. Max(S) \in S /\ \A x \in S : Max(S) >= x
  <2>1. \A y \in S : y \in Nat /\ y <= u /\ u \in Nat
    BY <1>6
  <2>2. \E x \in S : \A y \in S : x >= y
    BY <1>8, <2>1
  <2> QED BY <2>2 DEF Max
<1>10. ASSUME NEW k \in 1 .. n PROVE f[k] # Max(S) + 1
  <2>1. Max(S) >= f[k] /\ f[k] \in Nat /\ Max(S) \in Nat
    BY <1>2, <1>3, <1>6, <1>9
  <2> QED BY <2>1
<1> QED BY <1>2, <1>4, <1>6, <1>9, <1>10 DEF n

\* What a step on the list of containers leaves as it is: the trigger source, the
\* view a drag began in, and whether anything is being dragged.
Kept(s, r) ==
  /\ r.trigger = s.trigger /\ r.drag.start = s.drag.start
  /\ s.drag = NoDrag => r.drag = NoDrag
  /\ NoSession(s) => NoSession(r)
\* The views are those there were; a view is there.
SameIds(s, r) ==
  Len(r.list) = Len(s.list) /\ \A j \in 1 .. Len(s.list) : r.list[j].id = s.list[j].id
HasId(s, id) == \E k \in 1 .. Len(s.list) : s.list[k].id = id

\* What a view makes of another selected wave: at most a drag is cancelled.
LEMMA SelectChangeKeeps ==
  ASSUME NEW s \in Screens, NEW k \in 1 .. Len(s.list)
  PROVE  LET r == OnSelectWaveChanged(s, s.list[k].id) IN
         r \in Screens /\ r.list = s.list /\ Kept(s, r)
<1> DEFINE r == OnSelectWaveChanged(s, s.list[k].id)
<1> SUFFICES r \in Screens /\ r.list = s.list /\ Kept(s, r)
  OBVIOUS
<1>1. r = [s EXCEPT !.drag = Cancel(@)] \/ r = s
  BY DEF OnSelectWaveChanged
<1>2. /\ Cancel(s.drag) \in Drags /\ Cancel(s.drag).start = s.drag.start
  BY DEF Cancel, Screens, Drags
<1>3. s.list[k].id # 0
  BY IdsAre
<1>4. s.drag = NoDrag => r = s
  BY <1>3 DEF OnSelectWaveChanged, NoDrag
<1>5. CASE r = s
  BY <1>5 DEF Kept
<1>6. CASE r = [s EXCEPT !.drag = Cancel(@)]
  <2>1. /\ r \in Screens /\ r.list = s.list /\ r.trigger = s.trigger
        /\ r.drag.start = s.drag.start
    BY <1>2, <1>6 DEF Screens
  <2> QED BY <1>4, <2>1 DEF Kept, NoSession
<1> QED BY <1>1, <1>5, <1>6

\* The arrangement is one of the list and the trigger source.
LEMMA ArrangedByList ==
  ASSUME NEW s, NEW P, NEW E, Arranged(s, P, E), NEW r \in Screens,
         r.list = s.list, r.trigger = s.trigger, NEW F, E \subseteq F
  PROVE  Arranged(r, P, F)
BY DEF Arranged

\* A container is replaced by one that has other waves.
CanReplace(s, P, E, k, c, Q, F) ==
  /\ Arranged(s, P, E) /\ k \in 1 .. Len(s.list)
  /\ c \in Containers /\ c.id = s.list[k].id /\ BarsOf(c, s.trigger)
  /\ c.session = s.list[k].session
  /\ \A w \in OscWaves :
       w \in Q <=> (w \in ToSet(c.waves) \/ (w \in P /\ w \notin ToSet(s.list[k].waves)))
  /\ \A w \in ToSet(c.waves) : w \in P => w \in ToSet(s.list[k].waves)
  /\ E \ {c.id} \subseteq F /\ (c.waves = <<>> => c.id \in F)

LEMMA ReplaceKeeps ==
  ASSUME NEW s, NEW P, NEW E, NEW k, NEW c, NEW Q, NEW F, CanReplace(s, P, E, k, c, Q, F)
  PROVE  LET r == Replaced(s, k, c) IN
         /\ Arranged(r, Q, F) /\ Kept(s, r) /\ r.list[k] = c
         /\ Len(r.list) = Len(s.list)
         /\ \A j \in 1 .. Len(s.list) : r.list[j].id = s.list[j].id
<1> USE DEF CanReplace
<1> DEFINE r == Replaced(s, k, c)
<1> SUFFICES /\ Arranged(r, Q, F) /\ Kept(s, r) /\ r.list[k] = c
             /\ Len(r.list) = Len(s.list)
             /\ \A j \in 1 .. Len(s.list) : r.list[j].id = s.list[j].id
  OBVIOUS
<1>1. s \in Screens /\ s.list \in Seq(Containers)
  BY DEF Arranged, Screens
<1> DEFINE l == [s.list EXCEPT ![k] = c]
<1>2. /\ l \in Seq(Containers) /\ Len(l) = Len(s.list) /\ l[k] = c
      /\ \A j \in 1 .. Len(s.list) : j # k => l[j] = s.list[j]
  BY <1>1
<1>3. r = [s EXCEPT !.list = l]
  BY DEF Replaced
<1> HIDE DEF l, r
<1>4. r \in Screens /\ r.list = l /\ r.trigger = s.trigger /\ r.drag = s.drag
  BY <1>1, <1>2, <1>3 DEF Screens
<1>5. \A j \in 1 .. Len(l) : BarsOf(l[j], s.trigger)
  BY <1>2 DEF Arranged
<1>6. \A j \in 1 .. Len(l) : l[j].id = s.list[j].id /\ l[j].session = s.list[j].session
  BY <1>2
<1>7. ASSUME NEW j \in 1 .. Len(l), j # k
      PROVE  Unlike(l[j], c)
  <2>1. Unlike(s.list[j], s.list[k])
    BY <1>2, <1>7 DEF Arranged
  <2>2. ASSUME NEW w \in ToSet(l[j].waves) PROVE w \notin ToSet(c.waves)
    <3>1. w \in ToSet(s.list[j].waves)
      BY <1>2, <1>7
    <3>2. s.list[j] \in Containers
      BY <1>1, <1>2
    <3>3. w \in OscWaves
      BY <3>1, <3>2, ToSetIs DEF Containers
    <3>4. w \in P
      BY <1>2, <3>1, <3>3 DEF Arranged, HasWave
    <3>5. w \notin ToSet(s.list[k].waves)
      BY <2>1, <3>1 DEF Unlike
    <3> QED BY <3>3, <3>4, <3>5
  <2>3. l[j].id # c.id
    BY <1>2, <1>7, <2>1 DEF Unlike
  <2> QED BY <2>2, <2>3 DEF Unlike
<1>8. ASSUME NEW i \in 1 .. Len(l), NEW j \in 1 .. Len(l), i # j PROVE Unlike(l[i], l[j])
  <2>1. CASE i = k BY <1>2, <1>7, <1>8, <2>1 DEF Unlike
  <2>2. CASE j = k BY <1>2, <1>7, <1>8, <2>2 DEF Unlike
  <2>3. CASE i # k /\ j # k
    BY <1>2, <1>8, <2>3 DEF Arranged
  <2> QED BY <2>1, <2>2, <2>3
<1>9. ASSUME NEW w \in OscWaves PROVE w \in Q <=> \E j \in 1 .. Len(l) : HasWave(l[j], w)
  <2>1. w \in P <=> \E j \in 1 .. Len(s.list) : w \in ToSet(s.list[j].waves)
    BY DEF Arranged, HasWave
  <2>2. ASSUME NEW j \in 1 .. Len(s.list), j # k, w \in ToSet(s.list[j].waves)
        PROVE w \notin ToSet(s.list[k].waves)
    BY <2>2 DEF Arranged, Unlike
  <2>3. \A j \in 1 .. Len(l) : w \in ToSet(l[j].waves) <=>
          IF j = k THEN w \in ToSet(c.waves) ELSE w \in ToSet(s.list[j].waves)
    BY <1>2
  <2> QED BY <1>2, <2>1, <2>2, <2>3 DEF HasWave
<1>10. ASSUME NEW j \in 1 .. Len(l), l[j].waves = <<>> PROVE l[j].id \in F
  <2>1. CASE j = k BY <1>2, <1>10, <2>1
  <2>2. CASE j # k
    <3>1. l[j].id \in E
      BY <1>2, <1>10, <2>2 DEF Arranged
    <3>2. l[j].id # c.id
      BY <1>7, <2>2 DEF Unlike
    <3> QED BY <3>1, <3>2
  <2> QED BY <2>1, <2>2
<1>11. Arranged(r, Q, F)
  BY <1>4, <1>5, <1>8, <1>9, <1>10 DEF Arranged
<1>12. NoSession(s) => NoSession(r)
  BY <1>2, <1>4, <1>6 DEF NoSession
<1> QED BY <1>2, <1>4, <1>6, <1>11, <1>12 DEF Kept

\* When a wave may be put into a container of the list.
CanAdd(s, P, E, k, i, w) ==
  /\ Arranged(s, P, E) /\ k \in 1 .. Len(s.list)
  /\ w \in OscWaves \ P /\ i \in 1 .. Len(s.list[k].waves) + 1

LEMMA AddWaveAtKeeps ==
  ASSUME NEW s, NEW P, NEW E, NEW k, NEW i, NEW w, CanAdd(s, P, E, k, i, w)
  PROVE  LET r == AddWaveAt(s, k, i, w) IN
         /\ Arranged(r, P \cup {w}, E \ {s.list[k].id}) /\ Kept(s, r) /\ SameIds(s, r)
<1> USE DEF CanAdd
<1> DEFINE old == s.list[k]
           d == Joined(old, i, w, s.trigger)
           added == Replaced(s, k, d)
           r == AddWaveAt(s, k, i, w)
<1> SUFFICES /\ Arranged(r, P \cup {w}, E \ {s.list[k].id}) /\ Kept(s, r)
             /\ SameIds(s, r)
  OBVIOUS
<1> USE DEF SameIds
<1>1. /\ s \in Screens /\ old \in Containers /\ s.trigger \in OscWaves \cup {NoWave}
      /\ BarsOf(old, s.trigger) /\ w \notin ToSet(old.waves)
  BY IdsAre DEF Arranged, Screens, HasWave
<1>2. /\ d \in Containers /\ BarsOf(d, s.trigger) /\ d.id = old.id /\ d.session = old.session
      /\ d.waves # <<>> /\ ToSet(d.waves) = ToSet(old.waves) \cup {w}
  <2>1. w \in OscWaves \ ToSet(old.waves) /\ i \in 1 .. Len(old.waves) + 1
    BY <1>1
  <2>2. CanJoin(old, i, w, s.trigger)
    BY <1>1, <2>1 DEF CanJoin
  <2> QED BY <2>2, AddKeepsBars
<1>3. \A v \in ToSet(old.waves) : v \in OscWaves /\ v \in P
  <2>1. old.waves \in Seq(OscWaves)
    BY <1>1 DEF Containers
  <2>2. \A v \in ToSet(old.waves) : v \in OscWaves
    BY <2>1, ToSetIs
  <2> QED BY <2>2 DEF Arranged, HasWave
<1>0. s.list[k].id = old.id /\ s.list[k].session = old.session /\ s.list[k].waves = old.waves
  OBVIOUS
<1> HIDE DEF d, old
<1>4. /\ Arranged(added, P \cup {w}, E \ {old.id}) /\ Kept(s, added) /\ added.list[k] = d
      /\ Len(added.list) = Len(s.list)
      /\ \A j \in 1 .. Len(s.list) : added.list[j].id = s.list[j].id
  <2>2. \A v \in OscWaves :
          v \in P \cup {w} <=> (v \in ToSet(d.waves) \/ (v \in P /\ v \notin ToSet(old.waves)))
    BY <1>2, <1>3
  <2>3. \A v \in ToSet(d.waves) : v \in P => v \in ToSet(old.waves)
    BY <1>2
  <2>4. E \ {d.id} \subseteq E \ {old.id}
    BY <1>2
  <2>5. CanReplace(s, P, E, k, d, P \cup {w}, E \ {old.id})
    BY <1>0, <1>2, <2>2, <2>3, <2>4 DEF CanReplace
  <2> QED BY <2>5, ReplaceKeeps
<1> HIDE DEF added
<1>5. added \in Screens /\ added.list[k].id = old.id
  BY <1>2, <1>4 DEF Arranged
<1>6. r = added \/ r = OnSelectWaveChanged(added, added.list[k].id)
  <2> DEFINE c == [old EXCEPT !.waves = InsertAt(@, i, w)]
  <2>1. c.id = old.id
    BY <1>1 DEF Containers
  <2>2. r = IF i = 1 THEN OnSelectWaveChanged(added, c.id) ELSE added
    BY DEF AddWaveAt, added, d, old, Joined, Replaced
  <2> QED BY <1>5, <2>1, <2>2
<1> HIDE DEF r
<1>7. CASE r = added
  BY <1>0, <1>4, <1>7
<1>8. CASE r = OnSelectWaveChanged(added, added.list[k].id)
  <2>1. r \in Screens /\ r.list = added.list /\ Kept(added, r)
    BY <1>4, <1>5, <1>8, SelectChangeKeeps
  <2>2. Arranged(r, P \cup {w}, E \ {old.id})
    BY <1>4, <2>1, ArrangedByList DEF Kept
  <2>3. Kept(s, r)
    BY <1>4, <2>1 DEF Kept
  <2> QED BY <1>0, <1>4, <2>1, <2>2, <2>3
<1> QED BY <1>6, <1>7, <1>8

\* A wave that is on the screen, and a view that is there, are found.
LEMMA AtIs ==
  ASSUME NEW s, NEW P, NEW E, Arranged(s, P, E), NEW w \in OscWaves, w \in P
  PROVE  At(s, w) \in 1 .. Len(s.list) /\ HasWave(s.list[At(s, w)], w)
BY DEF Arranged, At

LEMMA WithIdIs ==
  ASSUME NEW s, NEW id, HasId(s, id)
  PROVE  WithId(s, id) \in 1 .. Len(s.list) /\ s.list[WithId(s, id)].id = id
BY DEF HasId, WithId

\* A wave leaves a container of the list, which may then be empty.
LEMMA RemoveWaveAtKeeps ==
  ASSUME NEW s, NEW P, NEW E, Arranged(s, P, E), NEW w \in OscWaves,
         NEW k \in 1 .. Len(s.list), HasWave(s.list[k], w)
  PROVE  LET r == RemoveWaveAt(s, k, w) IN
         /\ Arranged(r, P \ {w}, E \cup {s.list[k].id}) /\ Kept(s, r) /\ SameIds(s, r)
<1> DEFINE old == s.list[k]
           d == Parted(old, w, s.trigger)
           removed == Replaced(s, k, d)
           r == RemoveWaveAt(s, k, w)
<1> SUFFICES /\ Arranged(r, P \ {w}, E \cup {s.list[k].id}) /\ Kept(s, r)
             /\ SameIds(s, r)
  OBVIOUS
<1> USE DEF SameIds
<1>1. /\ s \in Screens /\ old \in Containers /\ s.trigger \in OscWaves \cup {NoWave}
      /\ BarsOf(old, s.trigger) /\ w \in ToSet(old.waves)
  BY IdsAre DEF Arranged, Screens, HasWave
<1>2. /\ d \in Containers /\ BarsOf(d, s.trigger) /\ d.id = old.id /\ d.session = old.session
      /\ ToSet(d.waves) = ToSet(old.waves) \ {w}
  <2>1. CanPart(old, w, s.trigger)
    BY <1>1 DEF CanPart
  <2> QED BY <2>1, RemoveKeepsBars
<1>3. \A v \in ToSet(old.waves) : v \in OscWaves /\ v \in P
  <2>1. old.waves \in Seq(OscWaves)
    BY <1>1 DEF Containers
  <2>2. \A v \in ToSet(old.waves) : v \in OscWaves
    BY <2>1, ToSetIs
  <2> QED BY <2>2 DEF Arranged, HasWave
<1>0. s.list[k].id = old.id /\ s.list[k].session = old.session /\ s.list[k].waves = old.waves
  OBVIOUS
<1> HIDE DEF d, old
<1>4. /\ Arranged(removed, P \ {w}, E \cup {old.id}) /\ Kept(s, removed) /\ removed.list[k] = d
      /\ Len(removed.list) = Len(s.list)
      /\ \A j \in 1 .. Len(s.list) : removed.list[j].id = s.list[j].id
  <2>2. \A v \in OscWaves :
          v \in P \ {w} <=> (v \in ToSet(d.waves) \/ (v \in P /\ v \notin ToSet(old.waves)))
    BY <1>1, <1>2, <1>3
  <2>3. \A v \in ToSet(d.waves) : v \in P => v \in ToSet(old.waves)
    BY <1>2
  <2>4. E \ {d.id} \subseteq E \cup {old.id} /\ d.id \in E \cup {old.id}
    BY <1>2
  <2>5. CanReplace(s, P, E, k, d, P \ {w}, E \cup {old.id})
    BY <1>0, <1>2, <2>2, <2>3, <2>4 DEF CanReplace
  <2> QED BY <2>5, ReplaceKeeps
<1> HIDE DEF removed
<1>5. removed \in Screens /\ removed.list[k].id = old.id
  BY <1>2, <1>4 DEF Arranged
<1>6. r = removed \/ r = OnSelectWaveChanged(removed, removed.list[k].id)
  <2> DEFINE c == [old EXCEPT !.waves = Erase(@, w)]
  <2>1. c.id = old.id
    BY <1>1 DEF Containers
  <2>2. r = IF old.waves[1] = w THEN OnSelectWaveChanged(removed, c.id) ELSE removed
    BY DEF RemoveWaveAt, removed, d, old, Parted, Replaced
  <2> QED BY <1>5, <2>1, <2>2
<1> HIDE DEF r
<1>7. CASE r = removed
  BY <1>0, <1>4, <1>7
<1>8. CASE r = OnSelectWaveChanged(removed, removed.list[k].id)
  <2>1. r \in Screens /\ r.list = removed.list /\ Kept(removed, r)
    BY <1>4, <1>5, <1>8, SelectChangeKeeps
  <2>2. Arranged(r, P \ {w}, E \cup {old.id})
    BY <1>4, <2>1, ArrangedByList DEF Kept
  <2>3. Kept(s, r)
    BY <1>4, <2>1 DEF Kept
  <2> QED BY <1>0, <1>4, <2>1, <2>2, <2>3
<1> QED BY <1>6, <1>7, <1>8

\* A container is put into the list, without a wave yet.
LEMMA NewContainerKeeps ==
  ASSUME NEW s, NEW P, NEW E, Arranged(s, P, E), NEW k \in 1 .. Len(s.list) + 1
  PROVE  LET r == WithNew(s, k) IN
         /\ Arranged(r, P, E \cup {NewId(s)}) /\ Kept(s, r)
         /\ Len(r.list) = Len(s.list) + 1 /\ r.list[k].id = NewId(s) /\ r.list[k].waves = <<>>
         /\ \A id : HasId(s, id) => HasId(r, id)
<1> DEFINE r == WithNew(s, k)
<1> SUFFICES /\ Arranged(r, P, E \cup {NewId(s)}) /\ Kept(s, r)
             /\ Len(r.list) = Len(s.list) + 1 /\ r.list[k].id = NewId(s) /\ r.list[k].waves = <<>>
             /\ \A id : HasId(s, id) => HasId(r, id)
  OBVIOUS
<1> DEFINE n == NewId(s)
           c == Container(n)
           l == InsertAt(s.list, k, c)
           L == Len(s.list)
<1>1. s \in Screens /\ s.list \in Seq(Containers) /\ s.trigger \in OscWaves \cup {NoWave} /\ L \in Nat
  BY DEF Arranged, Screens
<1>2. n \in Nat \ {0} /\ \A j \in 1 .. L : s.list[j].id # n
  BY <1>1, NewIdIs
<1> HIDE DEF n
<1>3. /\ c \in Containers /\ c.id = n /\ c.waves = <<>> /\ c.group = <<>> /\ ~c.shown
      /\ \A b \in OscBars : ~c.session[b]
  <2>1. <<>> \in Seq(OscWaves) /\ [b \in OscBars |-> FALSE] \in [OscBars -> BOOLEAN]
    OBVIOUS
  <2> QED BY <1>2, <2>1 DEF Container, Containers
<1>4. BarsOf(c, s.trigger) /\ ToSet(c.waves) = {}
  BY <1>3 DEF BarsOf, Distinct, ToSet
<1> HIDE DEF c
<1>5. /\ l \in Seq(Containers) /\ Len(l) = L + 1 /\ l[k] = c
      /\ \A j \in 1 .. L : j < k => l[j] = s.list[j]
      /\ \A j \in 1 .. L : j >= k => l[j + 1] = s.list[j]
  <2> DEFINE q == s.list
  <2>1. q \in Seq(Containers) /\ c \in Containers /\ k \in 1 .. Len(q) + 1
    BY <1>1, <1>3
  <2> HIDE DEF q
  <2>2. /\ InsertAt(q, k, c) \in Seq(Containers) /\ Len(InsertAt(q, k, c)) = Len(q) + 1
        /\ InsertAt(q, k, c)[k] = c
        /\ \A j \in 1 .. Len(q) : j < k => InsertAt(q, k, c)[j] = q[j]
        /\ \A j \in 1 .. Len(q) : j >= k => InsertAt(q, k, c)[j + 1] = q[j]
    BY ONLY <2>1, InsertIs
  <2> QED BY <2>2 DEF q
<1>6. r = [s EXCEPT !.list = l]
  BY DEF c, n, WithNew
<1> HIDE DEF l, r
<1>7. r \in Screens /\ r.list = l /\ r.trigger = s.trigger /\ r.drag = s.drag
  BY <1>1, <1>5, <1>6 DEF Screens
<1> DEFINE was(j) == IF j < k THEN j ELSE j - 1
<1>8. ASSUME NEW j \in 1 .. L + 1, j # k
      PROVE  was(j) \in 1 .. L /\ l[j] = s.list[was(j)]
  <2>1. CASE j < k
    BY <1>1, <1>5, <2>1
  <2>2. CASE j > k
    <3>1. j - 1 \in 1 .. L /\ j - 1 >= k /\ j - 1 + 1 = j
      BY <1>1, <2>2
    <3> QED BY <1>5, <2>2, <3>1
  <2> QED BY <1>1, <1>8, <2>1, <2>2
<1>9. ASSUME NEW j \in 1 .. L
      PROVE  \E i \in 1 .. L + 1 : i # k /\ l[i] = s.list[j]
  <2>1. CASE j < k
    <3>1. j \in 1 .. L + 1 /\ j # k
      BY <1>1, <2>1
    <3> QED BY <1>5, <2>1, <3>1
  <2>2. CASE j >= k
    <3>1. j + 1 \in 1 .. L + 1 /\ j + 1 # k
      BY <1>1, <2>2
    <3> QED BY <1>5, <2>2, <3>1
  <2> QED BY <1>1, <2>1, <2>2
<1>10. \A j \in 1 .. L + 1 : BarsOf(l[j], s.trigger)
  BY <1>4, <1>5, <1>8 DEF Arranged
<1>11. ASSUME NEW i \in 1 .. L + 1, NEW j \in 1 .. L + 1, i # j PROVE Unlike(l[i], l[j])
  <2>1. CASE i = k
    BY <1>2, <1>3, <1>4, <1>5, <1>8, <1>11, <2>1 DEF Unlike
  <2>2. CASE j = k
    BY <1>2, <1>3, <1>4, <1>5, <1>8, <1>11, <2>2 DEF Unlike
  <2>3. CASE i # k /\ j # k
    <3>1. was(i) # was(j)
      BY <1>11, <2>3
    <3> QED BY <1>8, <2>3, <3>1 DEF Arranged
  <2> QED BY <2>1, <2>2, <2>3
<1>12. ASSUME NEW w \in OscWaves PROVE w \in P <=> \E j \in 1 .. L + 1 : HasWave(l[j], w)
  <2>1. w \in P <=> \E j \in 1 .. L : HasWave(s.list[j], w)
    BY DEF Arranged
  <2>2. ~HasWave(l[k], w)
    BY <1>4, <1>5 DEF HasWave
  <2> QED BY <1>8, <1>9, <2>1, <2>2
<1>13. ASSUME NEW j \in 1 .. L + 1, l[j].waves = <<>> PROVE l[j].id \in E \cup {n}
  BY <1>3, <1>5, <1>8, <1>13 DEF Arranged
<1>14. Arranged(r, P, E \cup {n})
  BY <1>5, <1>7, <1>10, <1>11, <1>12, <1>13 DEF Arranged
<1>15. NoSession(s) => NoSession(r)
  <2> SUFFICES ASSUME NoSession(s), NEW j \in 1 .. L + 1, NEW b \in OscBars PROVE ~l[j].session[b]
    BY <1>5, <1>7 DEF NoSession
  <2>1. CASE j = k BY <1>3, <1>5, <2>1
  <2>2. CASE j # k BY <1>8, <2>2 DEF NoSession
  <2> QED BY <2>1, <2>2
<1>16. Kept(s, r)
  BY <1>7, <1>15 DEF Kept
<1>17. ASSUME NEW id, HasId(s, id) PROVE HasId(r, id)
  BY <1>5, <1>7, <1>9, <1>17 DEF HasId
<1> QED BY <1>3, <1>5, <1>7, <1>14, <1>16, <1>17 DEF n

\* What operations keep, a step that is made of them keeps.
LEMMA KeptTwice ==
  ASSUME NEW s, NEW q, NEW r, Kept(s, q), Kept(q, r)
  PROVE  Kept(s, r)
BY DEF Kept

LEMMA ArrangedMore ==
  ASSUME NEW s, NEW P, NEW E, Arranged(s, P, E), NEW F, E \subseteq F
  PROVE  Arranged(s, P, F)
BY DEF Arranged

LEMMA KeptSelf ==
  ASSUME NEW s
  PROVE  Kept(s, s)
BY DEF Kept

\* A container with one wave is put into the list.
LEMMA InsertContainerKeeps ==
  ASSUME NEW s, NEW P, NEW E, Arranged(s, P, E), NEW k \in 1 .. Len(s.list) + 1,
         NEW w \in OscWaves \ P
  PROVE  LET r == InsertContainer(s, k, w) IN
         /\ Arranged(r, P \cup {w}, E) /\ Kept(s, r)
         /\ Len(r.list) = Len(s.list) + 1
         /\ \A id : HasId(s, id) => HasId(r, id)
<1> DEFINE m == WithNew(s, k)
           r == AddWaveAt(m, k, 1, w)
           n == NewId(s)
<1>1. /\ Arranged(m, P, E \cup {n}) /\ Kept(s, m)
      /\ Len(m.list) = Len(s.list) + 1 /\ m.list[k].id = n /\ m.list[k].waves = <<>>
      /\ \A id : HasId(s, id) => HasId(m, id)
  BY NewContainerKeeps
<1>2. InsertContainer(s, k, w) = r
  BY DEF InsertContainer, WithNew
<1> HIDE DEF m, n
<1>3. k \in 1 .. Len(m.list) /\ 1 \in 1 .. Len(m.list[k].waves) + 1
  BY <1>1
<1>4. Arranged(r, P \cup {w}, (E \cup {n}) \ {n}) /\ Kept(m, r) /\ SameIds(m, r)
  <2> DEFINE D == E \cup {n}
             i == 1
             q == AddWaveAt(m, k, i, w)
  <2>1. CanAdd(m, P, D, k, i, w)
    BY <1>1, <1>3 DEF CanAdd
  <2>2. Arranged(q, P \cup {w}, D \ {m.list[k].id}) /\ Kept(m, q) /\ SameIds(m, q)
    <3> HIDE DEF D, i
    <3> QED BY ONLY <2>1, AddWaveAtKeeps
  <2> QED BY <1>1, <2>2
<1> HIDE DEF r
<1>5. Arranged(r, P \cup {w}, E)
  <2>1. (E \cup {n}) \ {n} \subseteq E
    OBVIOUS
  <2> QED BY <1>4, <2>1, ArrangedMore
<1>6. Kept(s, r)
  BY <1>1, <1>4, KeptTwice
<1>7. \A id : HasId(m, id) => HasId(r, id)
  BY <1>4 DEF HasId, SameIds
<1> QED BY <1>1, <1>2, <1>4, <1>5, <1>6, <1>7 DEF SameIds

\* The container that may be empty goes if it is.
LEMMA DropIfEmptyKeeps ==
  ASSUME NEW s, NEW P, NEW E, Arranged(s, P, E), NEW id, HasId(s, id), E \subseteq {id}
  PROVE  LET r == DropIfEmpty(s, id) IN Arranged(r, P, {}) /\ Kept(s, r)
<1> DEFINE k == WithId(s, id)
           L == Len(s.list)
           r == DropIfEmpty(s, id)
<1> SUFFICES Arranged(r, P, {}) /\ Kept(s, r)
  OBVIOUS
<1>1. k \in 1 .. L /\ s.list[k].id = id
  BY WithIdIs
<1>2. s \in Screens /\ s.list \in Seq(Containers) /\ L \in Nat
  BY DEF Arranged, Screens
<1>3. r = IF s.list[k].waves = <<>> THEN [s EXCEPT !.list = RemoveAt(@, k)] ELSE s
  BY DEF DropIfEmpty
<1> HIDE DEF k, r
<1>4. \A j \in 1 .. L : s.list[j].waves = <<>> => j = k
  <2>1. \A j \in 1 .. L : s.list[j].waves = <<>> => s.list[j].id = id
    BY DEF Arranged
  <2> QED BY <1>1, <2>1 DEF Arranged, Unlike
<1>5. CASE s.list[k].waves # <<>>
  <2>1. r = s
    BY <1>3, <1>5
  <2>2. Arranged(s, P, {})
    BY <1>4, <1>5 DEF Arranged
  <2> QED BY <2>1, <2>2, KeptSelf
<1>6. CASE s.list[k].waves = <<>>
  <2> DEFINE l == RemoveAt(s.list, k)
  <2>1. /\ l \in Seq(Containers) /\ Len(l) = L - 1
        /\ \A j \in 1 .. L - 1 : l[j] = IF j < k THEN s.list[j] ELSE s.list[j + 1]
    BY <1>1, <1>2, RemoveIs
  <2>2. r = [s EXCEPT !.list = l]
    BY <1>3, <1>6
  <2> HIDE DEF l
  <2>3. r \in Screens /\ r.list = l /\ r.trigger = s.trigger /\ r.drag = s.drag
    BY <1>2, <2>1, <2>2 DEF Screens
  <2> DEFINE was(j) == IF j < k THEN j ELSE j + 1
  <2>4. \A j \in 1 .. L - 1 : was(j) \in 1 .. L /\ was(j) # k /\ l[j] = s.list[was(j)]
    BY <1>1, <1>2, <2>1
  <2>5. ASSUME NEW j \in 1 .. L, j # k PROVE \E i \in 1 .. L - 1 : l[i] = s.list[j]
    <3>1. CASE j < k
      <4>1. j \in 1 .. L - 1
        BY <1>1, <1>2, <3>1
      <4> QED BY <2>1, <3>1, <4>1
    <3>2. CASE j > k
      <4>1. j - 1 \in 1 .. L - 1 /\ ~(j - 1 < k) /\ j - 1 + 1 = j
        BY <1>1, <1>2, <3>2
      <4> QED BY <2>1, <4>1
    <3> QED BY <1>1, <2>5, <3>1, <3>2
  <2>6. \A j \in 1 .. L - 1 : BarsOf(l[j], s.trigger)
    BY <2>4 DEF Arranged
  <2>7. ASSUME NEW i \in 1 .. L - 1, NEW j \in 1 .. L - 1, i # j PROVE Unlike(l[i], l[j])
    <3>1. was(i) # was(j)
      BY <1>1, <1>2, <2>7
    <3> QED BY <2>4, <3>1 DEF Arranged
  <2>8. ASSUME NEW w \in OscWaves PROVE w \in P <=> \E j \in 1 .. L - 1 : HasWave(l[j], w)
    <3>1. w \in P <=> \E j \in 1 .. L : HasWave(s.list[j], w)
      BY DEF Arranged
    <3>2. ~HasWave(s.list[k], w)
      BY <1>6 DEF HasWave, ToSet
    <3> QED BY <2>4, <2>5, <3>1, <3>2
  <2>9. \A j \in 1 .. L - 1 : l[j].waves # <<>>
    BY <1>4, <2>4
  <2>10. Arranged(r, P, {})
    BY <2>1, <2>3, <2>6, <2>7, <2>8, <2>9 DEF Arranged
  <2>11. Kept(s, r)
    BY <2>1, <2>3, <2>4 DEF Kept, NoSession
  <2> QED BY <2>10, <2>11
<1> QED BY <1>5, <1>6

\* A wave leaves its container, and the container the list if it was the last one.
LEMMA RemoveWaveKeeps ==
  ASSUME NEW s, NEW P, Arranged(s, P, {}), NEW w \in OscWaves, w \in P
  PROVE  Arranged(RemoveWave(s, w), P \ {w}, {}) /\ Kept(s, RemoveWave(s, w))
<1> DEFINE k == At(s, w)
           id == s.list[k].id
           m == RemoveWaveAt(s, k, w)
           r == DropIfEmpty(m, id)
<1>1. k \in 1 .. Len(s.list) /\ HasWave(s.list[k], w)
  BY AtIs
<1>2. RemoveWave(s, w) = r
  BY DEF RemoveWave
<1> HIDE DEF k
<1>3. /\ Arranged(m, P \ {w}, {} \cup {id}) /\ Kept(s, m) /\ SameIds(s, m)
  BY <1>1, RemoveWaveAtKeeps
<1> HIDE DEF m
<1>4. HasId(m, id) /\ {} \cup {id} \subseteq {id}
  BY <1>1, <1>3 DEF HasId, SameIds
<1> HIDE DEF id
<1>5. Arranged(r, P \ {w}, {}) /\ Kept(m, r)
  BY <1>3, <1>4, DropIfEmptyKeeps
<1> QED BY <1>2, <1>3, <1>5, KeptTwice

\* A wave is put on the screen, as the model says.
LEMMA AddWaveKeeps ==
  ASSUME NEW s, NEW P, Arranged(s, P, {}), NEW w \in OscWaves \ P, NEW m
  PROVE  Arranged(AddWave(s, w, m), P \cup {w}, {}) /\ Kept(s, AddWave(s, w, m))
<1>1. s \in Screens /\ s.list \in Seq(Containers)
  BY DEF Arranged, Screens
<1>2. CASE m = "combine" /\ s.list # <<>>
  <2>1. AddWave(s, w, m) = AddWaveAt(s, 1, Len(s.list[1].waves) + 1, w)
    BY <1>2 DEF AddWave
  <2>2. 1 \in 1 .. Len(s.list)
    BY <1>1, <1>2
  <2>3. Len(s.list[1].waves) + 1 \in 1 .. Len(s.list[1].waves) + 1
    <3>1. s.list[1] \in Containers
      BY <1>1, <2>2
    <3>2. s.list[1].waves \in Seq(OscWaves)
      BY <3>1 DEF Containers
    <3> QED BY <3>2
  <2>4. {} \ {s.list[1].id} = {}
    OBVIOUS
  <2>5. CanAdd(s, P, {}, 1, Len(s.list[1].waves) + 1, w)
    BY <2>2, <2>3 DEF CanAdd
  <2> DEFINE r == AddWaveAt(s, 1, Len(s.list[1].waves) + 1, w)
  <2>6. Arranged(r, P \cup {w}, {} \ {s.list[1].id}) /\ Kept(s, r)
    BY <2>5, AddWaveAtKeeps
  <2> QED BY <2>1, <2>4, <2>6
<1>3. CASE ~(m = "combine" /\ s.list # <<>>)
  <2>1. AddWave(s, w, m) = InsertContainer(s, Len(s.list) + 1, w)
    BY <1>3 DEF AddWave
  <2>2. Len(s.list) + 1 \in 1 .. Len(s.list) + 1
    BY <1>1
  <2> QED BY <2>1, <2>2, InsertContainerKeeps
<1> QED BY <1>2, <1>3

\* set_show_model: each wave leaves, each is put back.
LEMMA RemoveWavesKeeps ==
  ASSUME NEW s, Arranged(s, OscWaves, {})
  PROVE  Arranged(RemoveWaves(s), {}, {}) /\ Kept(s, RemoveWaves(s))
<1> DEFINE a == RemoveWave(s, "CAN_H")
           b == RemoveWave(a, "CAN_L")
           c == RemoveWave(b, "CAN_DIFF")
<1>0. /\ "CAN_H" \in OscWaves /\ "CAN_L" \in OscWaves /\ "CAN_DIFF" \in OscWaves
      /\ OscWaves \ {"CAN_H"} = {"CAN_L", "CAN_DIFF"}
  BY OscWavesAre
<1>1. Arranged(a, {"CAN_L", "CAN_DIFF"}, {}) /\ Kept(s, a)
  BY <1>0, RemoveWaveKeeps
<1>4. RemoveWaves(s) = c
  BY OscWavesAre DEF RemoveWaves
<1> HIDE DEF a
<1>2. Arranged(b, {"CAN_DIFF"}, {}) /\ Kept(a, b)
  <2>1. {"CAN_L", "CAN_DIFF"} \ {"CAN_L"} = {"CAN_DIFF"} /\ "CAN_L" \in {"CAN_L", "CAN_DIFF"}
    OBVIOUS
  <2> QED BY <1>0, <1>1, <2>1, RemoveWaveKeeps
<1> HIDE DEF b
<1>3. Arranged(c, {}, {}) /\ Kept(b, c)
  <2>1. {"CAN_DIFF"} \ {"CAN_DIFF"} = {} /\ "CAN_DIFF" \in {"CAN_DIFF"}
    OBVIOUS
  <2> QED BY <1>0, <1>2, <2>1, RemoveWaveKeeps
<1> HIDE DEF c
<1> QED BY <1>1, <1>2, <1>3, <1>4, KeptTwice

LEMMA AddWavesKeeps ==
  ASSUME NEW s, Arranged(s, {}, {}), NEW m
  PROVE  Arranged(AddWaves(s, m), OscWaves, {}) /\ Kept(s, AddWaves(s, m))
<1> DEFINE a == AddWave(s, "CAN_H", m)
           b == AddWave(a, "CAN_L", m)
           c == AddWave(b, "CAN_DIFF", m)
<1>0. /\ "CAN_H" \in OscWaves /\ "CAN_L" \in OscWaves /\ "CAN_DIFF" \in OscWaves
      /\ {"CAN_H", "CAN_L"} \cup {"CAN_DIFF"} = OscWaves
  BY OscWavesAre
<1>1. Arranged(a, {"CAN_H"}, {}) /\ Kept(s, a)
  <2>1. {} \cup {"CAN_H"} = {"CAN_H"} /\ "CAN_H" \in OscWaves \ {}
    BY <1>0
  <2> QED BY <2>1, AddWaveKeeps
<1>4. AddWaves(s, m) = c
  BY OscWavesAre DEF AddWaves
<1> HIDE DEF a
<1>2. Arranged(b, {"CAN_H", "CAN_L"}, {}) /\ Kept(a, b)
  <2>1. {"CAN_H"} \cup {"CAN_L"} = {"CAN_H", "CAN_L"} /\ "CAN_L" \in OscWaves \ {"CAN_H"}
    BY <1>0
  <2> QED BY <1>1, <2>1, AddWaveKeeps
<1> HIDE DEF b
<1>3. Arranged(c, OscWaves, {}) /\ Kept(b, c)
  <2>1. "CAN_DIFF" \in OscWaves \ {"CAN_H", "CAN_L"}
    BY <1>0
  <2> QED BY <1>0, <1>2, <2>1, AddWaveKeeps
<1> HIDE DEF c
<1> QED BY <1>1, <1>2, <1>3, <1>4, KeptTwice

\* A wave is dropped on another container, or between two.
LEMMA MoveKeeps ==
  ASSUME NEW s, Arranged(s, OscWaves, {}), NEW w \in OscWaves, NEW k \in 1 .. Len(s.list)
  PROVE  Arranged(MoveWaveTo(s, w, k), OscWaves, {}) /\ Kept(s, MoveWaveTo(s, w, k))
<1> DEFINE old == At(s, w)
           id == s.list[old].id
           m == RemoveWaveAt(s, old, w)
           a == AddWaveAt(m, k, 1, w)
           r == DropIfEmpty(a, id)
<1>1. old \in 1 .. Len(s.list) /\ HasWave(s.list[old], w)
  BY AtIs
<1>2. MoveWaveTo(s, w, k) = r
  BY DEF MoveWaveTo
<1> HIDE DEF old
<1>3. Arranged(m, OscWaves \ {w}, {} \cup {id}) /\ Kept(s, m) /\ SameIds(s, m)
  BY <1>1, RemoveWaveAtKeeps
<1>4. HasId(m, id) /\ k \in 1 .. Len(m.list)
  BY <1>1, <1>3 DEF HasId, SameIds
<1> HIDE DEF m, id
<1>5. Arranged(a, OscWaves, {id}) /\ Kept(m, a) /\ SameIds(m, a)
  <2> DEFINE i == 1
             q == AddWaveAt(m, k, i, w)
             Q == OscWaves \ {w}
             D == {} \cup {id}
  <2>1. i \in 1 .. Len(m.list[k].waves) + 1
    <3>1. m \in Screens
      BY <1>3 DEF Arranged
    <3>2. m.list[k] \in Containers
      BY <1>4, <3>1, IdsAre
    <3>3. m.list[k].waves \in Seq(OscWaves)
      BY <3>2 DEF Containers
    <3> QED BY <3>3
  <2>2. CanAdd(m, Q, D, k, i, w)
    BY <1>3, <1>4, <2>1 DEF CanAdd
  <2>3. Arranged(q, Q \cup {w}, D \ {m.list[k].id}) /\ Kept(m, q) /\ SameIds(m, q)
    <3> HIDE DEF D, Q, i
    <3> QED BY ONLY <2>2, AddWaveAtKeeps
  <2>4. Q \cup {w} = OscWaves /\ D \ {m.list[k].id} \subseteq {id}
    OBVIOUS
  <2>5. Arranged(q, OscWaves, D \ {m.list[k].id})
    BY <2>3, <2>4
  <2>6. Arranged(q, OscWaves, {id})
    <3> HIDE DEF q
    <3> QED BY ONLY <2>4, <2>5, ArrangedMore
  <2> QED BY <2>3, <2>6
<1> HIDE DEF a
<1>6. HasId(a, id)
  BY <1>4, <1>5 DEF HasId, SameIds
<1>7. Arranged(r, OscWaves, {}) /\ Kept(a, r)
  BY <1>5, <1>6, DropIfEmptyKeeps
<1> HIDE DEF r
<1> QED BY <1>2, <1>3, <1>5, <1>7, KeptTwice

LEMMA CreateKeeps ==
  ASSUME NEW s, Arranged(s, OscWaves, {}), NEW w \in OscWaves, NEW k \in 1 .. Len(s.list) + 1
  PROVE  /\ Arranged(CreateWaveContainerAt(s, w, k), OscWaves, {})
         /\ Kept(s, CreateWaveContainerAt(s, w, k))
<1> DEFINE old == At(s, w)
           id == s.list[old].id
           m == RemoveWaveAt(s, old, w)
           a == InsertContainer(m, k, w)
           r == DropIfEmpty(a, id)
<1>1. old \in 1 .. Len(s.list) /\ HasWave(s.list[old], w)
  BY AtIs
<1>2. CreateWaveContainerAt(s, w, k) = r
  BY DEF CreateWaveContainerAt
<1> HIDE DEF old
<1>3. Arranged(m, OscWaves \ {w}, {} \cup {id}) /\ Kept(s, m) /\ SameIds(s, m)
  BY <1>1, RemoveWaveAtKeeps
<1>4. HasId(m, id) /\ k \in 1 .. Len(m.list) + 1
  BY <1>1, <1>3 DEF HasId, SameIds
<1> HIDE DEF m, id
<1>5. Arranged(a, OscWaves, {id}) /\ Kept(m, a) /\ \A x : HasId(m, x) => HasId(a, x)
  <2> DEFINE Q == OscWaves \ {w}
             D == {} \cup {id}
  <2>1. Arranged(m, Q, D) /\ w \in OscWaves \ Q
    BY <1>3
  <2>2. Arranged(a, Q \cup {w}, D) /\ Kept(m, a) /\ \A x : HasId(m, x) => HasId(a, x)
    <3> HIDE DEF D, Q
    <3> QED BY <1>4, <2>1, InsertContainerKeeps
  <2>3. Q \cup {w} = OscWaves /\ D = {id}
    OBVIOUS
  <2> QED BY <2>2, <2>3
<1> HIDE DEF a
<1>6. HasId(a, id)
  BY <1>4, <1>5
<1>7. Arranged(r, OscWaves, {}) /\ Kept(a, r)
  BY <1>5, <1>6, DropIfEmptyKeeps
<1> HIDE DEF r
<1> QED BY <1>2, <1>3, <1>5, <1>7, KeptTwice

\* The views are named by their places again; nothing else changes.
SameLists(s, r) ==
  /\ Len(r.list) = Len(s.list)
  /\ \A k \in 1 .. Len(s.list) :
       /\ r.list[k].waves = s.list[k].waves /\ r.list[k].session = s.list[k].session
       /\ r.list[k].shown = s.list[k].shown

LEMMA RenumberedKeeps ==
  ASSUME NEW s, NEW P, Arranged(s, P, {})
  PROVE  LET r == Renumbered(s) IN
         /\ Arranged(r, P, {}) /\ NumberedList(r) /\ SameLists(s, r)
         /\ r.trigger = s.trigger /\ r.drag = s.drag
<1> DEFINE r == Renumbered(s)
<1> SUFFICES /\ Arranged(r, P, {}) /\ NumberedList(r) /\ SameLists(s, r)
             /\ r.trigger = s.trigger /\ r.drag = s.drag
  OBVIOUS
<1> DEFINE L == Len(s.list)
           c(k) == [s.list[k] EXCEPT !.id = k]
           l == [k \in 1 .. L |-> c(k)]
<1>1. s \in Screens /\ s.list \in Seq(Containers) /\ L \in Nat
  BY DEF Arranged, Screens
<1>2. ASSUME NEW k \in 1 .. L
      PROVE  /\ c(k) \in Containers /\ c(k).id = k /\ c(k).waves = s.list[k].waves
             /\ c(k).group = s.list[k].group /\ c(k).part = s.list[k].part
             /\ c(k).shown = s.list[k].shown /\ c(k).session = s.list[k].session
  <2>1. s.list[k] \in Containers /\ k \in Nat \ {0}
    BY <1>1
  <2> QED BY <2>1 DEF Containers
<1>3. /\ l \in Seq(Containers) /\ Len(l) = L
      /\ \A k \in 1 .. L : l[k] = c(k)
  <2>1. l \in [1 .. L -> Containers]
    BY <1>2
  <2> HIDE DEF l, c
  <2>2. l \in Seq(Containers) /\ Len(l) = L
    BY <1>1, <2>1
  <2> QED BY <2>2 DEF l
<1>4. r = [s EXCEPT !.list = l]
  BY DEF Renumbered
<1> HIDE DEF l, r
<1>5. r \in Screens /\ r.list = l /\ r.trigger = s.trigger /\ r.drag = s.drag
  BY <1>1, <1>3, <1>4 DEF Screens
<1>6. \A k \in 1 .. L : /\ l[k].id = k /\ l[k].waves = s.list[k].waves
                        /\ l[k].group = s.list[k].group /\ l[k].part = s.list[k].part
                        /\ l[k].shown = s.list[k].shown /\ l[k].session = s.list[k].session
  BY <1>2, <1>3
<1> HIDE DEF c
<1>7. \A k \in 1 .. L : BarsOf(l[k], s.trigger)
  BY <1>6 DEF Arranged, BarsOf
<1>8. \A j, k \in 1 .. L : j # k => Unlike(l[j], l[k])
  BY <1>6 DEF Arranged, Unlike
<1>9. \A w \in OscWaves : w \in P <=> \E k \in 1 .. L : HasWave(l[k], w)
  BY <1>6 DEF Arranged, HasWave
<1>10. \A k \in 1 .. L : l[k].waves # <<>>
  BY <1>6 DEF Arranged
<1>11. Arranged(r, P, {})
  BY <1>3, <1>5, <1>7, <1>8, <1>9, <1>10 DEF Arranged
<1>12. NumberedList(r) /\ SameLists(s, r)
  BY <1>3, <1>5, <1>6 DEF NumberedList, SameLists
<1> QED BY <1>5, <1>11, <1>12

-----------------------------------------------------------------------------
(* Where the mouse drops a wave. *)

\* There are one to three containers.
LEMMA CountIs ==
  ASSUME NEW s, Arranged(s, OscWaves, {})
  PROVE  Len(s.list) \in 1 .. 3
<1>1. s \in Screens /\ s.list \in Seq(Containers) /\ Len(s.list) \in Nat
  BY DEF Arranged, Screens
<1>2. Len(s.list) # 0
  <2>1. "CAN_H" \in OscWaves
    BY OscWavesAre
  <2>2. \E k \in 1 .. Len(s.list) : HasWave(s.list[k], "CAN_H")
    BY <2>1 DEF Arranged
  <2> QED BY <2>2
<1> DEFINE first == [k \in 1 .. Len(s.list) |-> s.list[k].waves[1]]
<1>3. ASSUME NEW k \in 1 .. Len(s.list)
      PROVE  first[k] \in OscWaves /\ first[k] \in ToSet(s.list[k].waves)
  <2>1. s.list[k].waves \in Seq(OscWaves) /\ s.list[k].waves # <<>>
    BY <1>1, IdsAre DEF Containers, Arranged
  <2>2. 1 \in 1 .. Len(s.list[k].waves)
    BY <2>1
  <2> QED BY <2>1, <2>2, ToSetIs
<1>4. \A j, k \in 1 .. Len(s.list) : j # k => first[j] # first[k]
  <2> SUFFICES ASSUME NEW j \in 1 .. Len(s.list), NEW k \in 1 .. Len(s.list), j # k
               PROVE first[j] # first[k]
    OBVIOUS
  <2> HIDE DEF first
  <2>1. ToSet(s.list[j].waves) \cap ToSet(s.list[k].waves) = {}
    BY DEF Arranged, Unlike
  <2> QED BY <1>3, <2>1
<1> HIDE DEF first
<1>5. ASSUME Len(s.list) >= 4 PROVE FALSE
  <2>1. 1 \in 1 .. Len(s.list) /\ 2 \in 1 .. Len(s.list) /\ 3 \in 1 .. Len(s.list) /\ 4 \in 1 .. Len(s.list)
    BY <1>1, <1>5
  <2>2. /\ first[1] # first[2] /\ first[1] # first[3] /\ first[1] # first[4]
        /\ first[2] # first[3] /\ first[2] # first[4] /\ first[3] # first[4]
    BY <1>4, <2>1
  <2>3. first[1] \in OscWaves /\ first[2] \in OscWaves /\ first[3] \in OscWaves /\ first[4] \in OscWaves
    BY <1>3, <2>1
  <2> QED BY <2>2, <2>3, OscWavesAre
<1>6. ~(Len(s.list) >= 4)
  BY <1>5
<1>7. \A n \in Nat : n # 0 /\ ~(n >= 4) => n \in 1 .. 3
  OBVIOUS
<1> QED BY <1>1, <1>2, <1>6, <1>7

LEMMA DivIs ==
  ASSUME NEW a \in Nat, NEW b \in Nat \ {0}
  PROVE  /\ a \div b \in Nat /\ a % b \in 0 .. b - 1
         /\ a = b * (a \div b) + (a % b)
OBVIOUS

\* The mouse is at a container, or above or below one.
LEMMA TargetIsThere ==
  ASSUME NEW y \in 0 .. Height - 1, NEW count \in 1 .. 3
  PROVE  LET t == GetIndicate(y, count) IN
         /\ t.is_view \in BOOLEAN
         /\ t.is_view => t.index \in 1 .. count
         /\ ~t.is_view => t.index \in 1 .. count + 1
<1> DEFINE h == Height \div count
           q == y \div h
           o == y % h
<1>0. /\ Height \in Nat /\ Edge \in Nat /\ Edge >= 2 /\ Height \div 3 > 2 * Edge
      /\ y \in Nat /\ y < Height /\ count \in Nat \ {0}
  BY WavesAssumption, OscWavesAre
<1>1. /\ h \in Nat /\ Height % count \in 0 .. count - 1
      /\ Height = count * h + (Height % count)
  BY <1>0, DivIs
<1> DEFINE third == Height \div 3
           rest == Height % count
<1>2. third \in Nat /\ Height >= 3 * third /\ third > 2 * Edge
  <2>1. third \in Nat /\ Height % 3 \in 0 .. 2 /\ Height = 3 * third + (Height % 3)
    BY <1>0, DivIs
  <2> QED BY <1>0, <2>1
<1> HIDE DEF h, third, rest
<1>3. h > 4
  <2>1. /\ Height = count * h + rest /\ rest \in 0 .. count - 1
    BY <1>1 DEF rest
  <2>2. count = 1 \/ count = 2 \/ count = 3
    OBVIOUS
  <2> QED BY <1>0, <1>1, <1>2, <2>1, <2>2
<1>4. q \in Nat /\ o \in 0 .. h - 1 /\ y = h * q + o
  <2>1. h \in Nat \ {0}
    BY <1>1, <1>3
  <2> QED BY <1>0, <2>1, DivIs
<1> HIDE DEF q, o
<1>5. q <= count
  <2>1. /\ Height = count * h + rest /\ rest \in 0 .. count - 1
    BY <1>1 DEF rest
  <2> SUFFICES ASSUME q >= count + 1 PROVE FALSE
    BY <1>4
  <2>2. h * q >= h * (count + 1)
    BY <1>1, <1>4
  <2>3. h * (count + 1) = count * h + h
    BY <1>1
  <2>4. h * q \in Nat /\ count * h \in Nat /\ h * (count + 1) \in Nat
    BY <1>1, <1>4
  <2> DEFINE a == h * q
             b == count * h
  <2>5. /\ a \in Nat /\ b \in Nat /\ a >= b + h /\ y = a + o /\ Height = b + rest
        /\ h \in Nat /\ o \in Nat /\ rest \in Nat /\ rest <= 2
    BY <1>1, <1>4, <2>1, <2>2, <2>3, <2>4
  <2> HIDE DEF a, b
  <2> QED BY <1>0, <1>3, <2>5
<1>6. q = count => o < Edge
  <2>1. /\ Height = count * h + rest /\ rest \in 0 .. count - 1
    BY <1>1 DEF rest
  <2>2. CASE q = count
    <3>1. h * q = count * h /\ count * h \in Nat
      BY <1>1, <2>2
    <3> QED BY <1>0, <1>4, <2>1, <3>1
  <2> QED BY <2>2
<1>7. GetIndicate(y, count) =
        IF o < Edge THEN [is_view |-> FALSE, index |-> q + 1]
        ELSE IF o > h - Edge THEN [is_view |-> FALSE, index |-> q + 1 + 1]
        ELSE [is_view |-> TRUE, index |-> q + 1]
  BY DEF GetIndicate, h, q, o
<1>8. q + 1 + 1 \in 1 .. count + 1 \/ o < Edge
  BY <1>0, <1>4, <1>5, <1>6
<1>9. q + 1 \in 1 .. count + 1
  BY <1>0, <1>4, <1>5
<1>10. o < Edge \/ q + 1 \in 1 .. count
  BY <1>0, <1>4, <1>5, <1>6
<1> HIDE DEF h
<1>11. CASE o < Edge
  BY <1>7, <1>9, <1>11
<1>12. CASE ~(o < Edge) /\ o > h - Edge
  BY <1>7, <1>8, <1>12
<1>13. CASE ~(o < Edge) /\ ~(o > h - Edge)
  BY <1>7, <1>10, <1>13
<1> QED BY <1>11, <1>12, <1>13

\* Wherever it is dropped, every wave is on the screen again.
LEMMA DropKeeps ==
  ASSUME NEW s, Arranged(s, OscWaves, {}), NEW w \in OscWaves, NEW y \in 0 .. Height - 1
  PROVE  LET r == Drop(s, w, GetIndicate(y, Len(s.list))) IN
         Arranged(r, OscWaves, {}) /\ Kept(s, r)
<1> DEFINE t == GetIndicate(y, Len(s.list))
           r == Drop(s, w, t)
<1> SUFFICES Arranged(r, OscWaves, {}) /\ Kept(s, r)
  OBVIOUS
<1>1. /\ t.is_view \in BOOLEAN
      /\ t.is_view => t.index \in 1 .. Len(s.list)
      /\ ~t.is_view => t.index \in 1 .. Len(s.list) + 1
  BY CountIs, TargetIsThere
<1> HIDE DEF t
<1>2. CASE ~t.is_view
  <2>1. r = CreateWaveContainerAt(s, w, t.index)
    BY <1>2 DEF Drop
  <2> QED BY <1>1, <1>2, <2>1, CreateKeeps
<1>3. CASE t.is_view /\ HasWave(s.list[t.index], w)
  <2>1. r = s
    BY <1>3 DEF Drop
  <2> QED BY <2>1, KeptSelf
<1>4. CASE t.is_view /\ ~HasWave(s.list[t.index], w)
  <2>1. r = MoveWaveTo(s, w, t.index)
    BY <1>4 DEF Drop
  <2> QED BY <1>1, <1>4, <2>1, MoveKeeps
<1> QED BY <1>1, <1>2, <1>3, <1>4

-----------------------------------------------------------------------------
(* The steps. *)

\* The mouse has hold of nothing; all waves are on the screen, or none is yet.
Free(s) == NoSession(s) /\ s.drag = NoDrag
Whole(s) == Arranged(s, IF s.list = <<>> THEN {} ELSE OscWaves, {})

LEMMA FreeIs ==
  ASSUME NEW s
  PROVE  Free(s) <=> HandOn(s, NoHand)
<1>1. NoHand \in Hands /\ NoHand.on = "nothing"
  BY DEF NoHand, Hands, OscBars
<1>2. \A k, b : NoHand # [on |-> "handle", id |-> k, bar |-> b]
  BY <1>1
<1> HIDE DEF NoHand
<1> QED BY <1>1, <1>2 DEF Free, HandOn, NoSession

LEMMA FullIs ==
  ASSUME NEW s, Arranged(s, OscWaves, {})
  PROVE  s.list # <<>> /\ Whole(s)
<1>1. "CAN_H" \in OscWaves
  BY OscWavesAre
<1>2. \E k \in 1 .. Len(s.list) : HasWave(s.list[k], "CAN_H")
  BY <1>1 DEF Arranged
<1>3. s.list # <<>>
  BY <1>2
<1> QED BY <1>3 DEF Whole

LEMMA FreeKept ==
  ASSUME NEW s, NEW r, Free(s), Kept(s, r)
  PROVE  Free(r)
BY DEF Free, Kept

\* Nothing but the visible handles, the sessions, the drag and the trigger source
\* changes.
Alike(s, r) ==
  /\ Len(r.list) = Len(s.list)
  /\ \A k \in 1 .. Len(s.list) :
       r.list[k].id = s.list[k].id /\ ToSet(r.list[k].waves) = ToSet(s.list[k].waves)

LEMMA AlikeKeeps ==
  ASSUME NEW s, NEW P, NEW E, Arranged(s, P, E), NEW r \in Screens, Alike(s, r),
         \A k \in 1 .. Len(s.list) : BarsOf(r.list[k], r.trigger)
  PROVE  Arranged(r, P, E) /\ (NumberedList(s) => NumberedList(r))
<1>1. s.list \in Seq(Containers) /\ r.list \in Seq(Containers)
  BY DEF Arranged, Screens
<1>2. \A k \in 1 .. Len(s.list) : r.list[k].waves = <<>> <=> s.list[k].waves = <<>>
  <2> SUFFICES ASSUME NEW k \in 1 .. Len(s.list)
               PROVE r.list[k].waves = <<>> <=> s.list[k].waves = <<>>
    OBVIOUS
  <2>1. r.list[k] \in Containers /\ s.list[k] \in Containers
    BY <1>1 DEF Alike
  <2>2. r.list[k].waves \in Seq(OscWaves) /\ s.list[k].waves \in Seq(OscWaves)
    BY <2>1 DEF Containers
  <2> QED BY <2>2, ToSetIs DEF Alike
<1>3. \A j, k \in 1 .. Len(s.list) : j # k => Unlike(r.list[j], r.list[k])
  BY DEF Arranged, Alike, Unlike
<1>4. \A w \in OscWaves : w \in P <=> \E k \in 1 .. Len(r.list) : HasWave(r.list[k], w)
  BY DEF Arranged, Alike, HasWave
<1> QED BY <1>2, <1>3, <1>4 DEF Arranged, Alike, NumberedList

LEMMA WithIdThere ==
  ASSUME NEW s, NumberedList(s), NEW k \in 1 .. Len(s.list)
  PROVE  WithId(s, k) = k
BY DEF WithId, NumberedList

\* A bar begins a session, or ends it.
SessionSet(s, k, bar, v) == [s EXCEPT !.list[k].session[bar] = v]

\* When it may, and what that changes.
CanSet(s, k, bar, v) ==
  /\ Arranged(s, OscWaves, {}) /\ NumberedList(s)
  /\ k \in 1 .. Len(s.list) /\ bar \in OscBars /\ v \in BOOLEAN
IsSet(s, r, k, bar, v) ==
  /\ r.drag = s.drag /\ r.trigger = s.trigger /\ Len(r.list) = Len(s.list)
  /\ \A j \in 1 .. Len(s.list) :
       r.list[j].waves = s.list[j].waves /\ r.list[j].shown = s.list[j].shown
  /\ r.list[k].session[bar] = v
  /\ \A j \in 1 .. Len(s.list), b \in OscBars :
       ~(j = k /\ b = bar) => r.list[j].session[b] = s.list[j].session[b]

LEMMA SessionIs ==
  ASSUME NEW s, NEW k, NEW bar, NEW v, CanSet(s, k, bar, v)
  PROVE  LET r == SessionSet(s, k, bar, v) IN
         Arranged(r, OscWaves, {}) /\ NumberedList(r) /\ IsSet(s, r, k, bar, v)
<1> USE DEF CanSet
<1> DEFINE r == SessionSet(s, k, bar, v)
           old == s.list[k]
           se == [old.session EXCEPT ![bar] = v]
           c == [old EXCEPT !.session = se]
           l == [s.list EXCEPT ![k] = c]
<1>1. s \in Screens /\ s.list \in Seq(Containers) /\ old \in Containers
  BY IdsAre DEF Arranged, Screens
<1>2. /\ se \in [OscBars -> BOOLEAN]
      /\ \A b \in OscBars : se[b] = IF b = bar THEN v ELSE old.session[b]
  <2>1. old.session \in [OscBars -> BOOLEAN]
    BY <1>1 DEF Containers
  <2> QED BY <2>1
<1>3. r = [s EXCEPT !.list = l]
  BY DEF SessionSet
<1> HIDE DEF se
<1>4. /\ c \in Containers /\ c.id = old.id /\ c.waves = old.waves /\ c.group = old.group
      /\ c.part = old.part /\ c.shown = old.shown /\ c.session = se
  BY <1>1, <1>2 DEF Containers
<1> HIDE DEF c
<1>5. /\ l \in Seq(Containers) /\ Len(l) = Len(s.list) /\ l[k] = c
      /\ \A j \in 1 .. Len(s.list) : j # k => l[j] = s.list[j]
  BY <1>1, <1>4
<1> HIDE DEF l, r
<1>6. r \in Screens /\ r.list = l /\ r.trigger = s.trigger /\ r.drag = s.drag
  BY <1>1, <1>3, <1>5 DEF Screens
<1>7. \A j \in 1 .. Len(s.list) :
        /\ l[j].id = s.list[j].id /\ l[j].waves = s.list[j].waves
        /\ l[j].group = s.list[j].group /\ l[j].part = s.list[j].part
        /\ l[j].shown = s.list[j].shown
  BY <1>4, <1>5
<1>8. \A j \in 1 .. Len(s.list), b \in OscBars :
        l[j].session[b] = IF j = k /\ b = bar THEN v ELSE s.list[j].session[b]
  BY <1>2, <1>4, <1>5
<1>9. Alike(s, r) /\ \A j \in 1 .. Len(s.list) : BarsOf(r.list[j], r.trigger)
  <2>1. \A j \in 1 .. Len(s.list) : BarsOf(s.list[j], s.trigger)
    BY DEF Arranged
  <2> QED BY <1>5, <1>6, <1>7, <2>1 DEF Alike, BarsOf
<1>10. Arranged(r, OscWaves, {}) /\ NumberedList(r)
  BY <1>6, <1>9, AlikeKeeps
<1>11. IsSet(s, r, k, bar, v)
  BY <1>5, <1>6, <1>7, <1>8 DEF IsSet
<1> QED BY <1>10, <1>11 DEF r

\* The session of a view is that of its place.
LEMMA EndSetIs ==
  ASSUME NEW s, NumberedList(s), NEW id \in 1 .. Len(s.list), NEW bar
  PROVE  EndSet(s, id, bar) = SessionSet(s, id, bar, FALSE)
BY WithIdThere DEF EndSet, SessionSet

\* A drag begins, goes on or is over.
LEMMA DragSet ==
  ASSUME NEW s, NEW P, NEW E, Arranged(s, P, E), NumberedList(s), NEW d \in Drags
  PROVE  LET r == [s EXCEPT !.drag = d] IN
         /\ Arranged(r, P, E) /\ NumberedList(r)
         /\ r.drag = d /\ r.trigger = s.trigger /\ r.list = s.list
<1> DEFINE r == [s EXCEPT !.drag = d]
<1>1. s \in Screens
  BY DEF Arranged
<1>2. r \in Screens /\ r.drag = d /\ r.trigger = s.trigger /\ r.list = s.list
  BY <1>1 DEF Screens
<1> HIDE DEF r
<1>3. Arranged(r, P, E)
  BY <1>2 DEF Arranged
<1>4. NumberedList(r)
  BY <1>2 DEF NumberedList
<1> QED BY <1>2, <1>3, <1>4 DEF r

\* What the invariant says with waves on the screen, without, and of a free mouse.
LEMMA InvIs ==
  ASSUME WavesInv
  PROVE  /\ screen.list = <<>> => held = NoHand /\ Arranged(screen, {}, {})
         /\ screen.list # <<>> => Arranged(screen, OscWaves, {})
         /\ held = NoHand => Free(screen)
<1>1. screen.list = <<>> => Len(screen.list) = 0
  OBVIOUS
<1>2. screen.list = <<>> => held.on = "nothing"
  BY <1>1 DEF WavesInv, HandOn
<1> QED BY <1>2, FreeIs DEF WavesInv, HandOn

LEMMA InvFrom ==
  ASSUME NEW s, NEW h, Arranged(s, OscWaves, {}), NumberedList(s), HandOn(s, h),
         model' \in {"separate", "combine"}, screen' = s, held' = h
  PROVE  WavesInv'
BY FullIs DEF WavesInv, Whole

\* The end of a step that leaves the mouse free.
LEMMA RenumberedFree ==
  ASSUME NEW s, Arranged(s, OscWaves, {}), Free(s)
  PROVE  /\ Arranged(Renumbered(s), OscWaves, {}) /\ NumberedList(Renumbered(s))
         /\ HandOn(Renumbered(s), NoHand)
<1> DEFINE r == Renumbered(s)
<1>1. /\ Arranged(r, OscWaves, {}) /\ NumberedList(r) /\ SameLists(s, r) /\ r.drag = s.drag
  BY RenumberedKeeps
<1> HIDE DEF r
<1>2. Free(r)
  BY <1>1 DEF Free, NoSession, SameLists
<1>3. HandOn(r, NoHand)
  BY <1>2, FreeIs
<1> QED BY <1>1, <1>3 DEF r

\* The steps, one by one.
LEMMA FirstResultKeeps ==
  ASSUME WavesInv, FirstResult
  PROVE  WavesInv'
<1>1. PICK t \in OscWaves \cup {NoWave} :
        screen' = Renumbered(AddWaves([screen EXCEPT !.trigger = t], model))
  BY DEF FirstResult
<1>2. /\ screen.list = <<>> /\ model' = model /\ held' = NoHand
      /\ Arranged(screen, {}, {}) /\ Free(screen)
  BY InvIs DEF FirstResult
<1> DEFINE q == [screen EXCEPT !.trigger = t]
           a == AddWaves(q, model)
<1>3. q \in Screens /\ q.list = <<>> /\ q.drag = screen.drag
  BY <1>1, <1>2 DEF Arranged, Screens
<1>4. screen' = Renumbered(a)
  BY <1>1
<1> HIDE DEF q
<1>5. Arranged(q, {}, {}) /\ Free(q)
  <2>1. Len(q.list) = 0
    BY <1>3
  <2> QED BY <1>2, <1>3, <2>1 DEF Arranged, Free, NoSession
<1>6. Arranged(a, OscWaves, {}) /\ Kept(q, a)
  BY <1>5, AddWavesKeeps
<1> HIDE DEF a
<1>7. Free(a)
  BY <1>5, <1>6, FreeKept
<1>8. model' \in {"separate", "combine"}
  BY <1>2 DEF WavesInv
<1> QED BY <1>2, <1>4, <1>6, <1>7, <1>8, RenumberedFree, InvFrom

LEMMA SetShowModelKeeps ==
  ASSUME WavesInv, SetShowModel
  PROVE  WavesInv'
<1>1. held = NoHand /\ held' = NoHand /\ Free(screen) /\ model' \in {"separate", "combine"}
  BY InvIs DEF SetShowModel
<1>2. CASE screen.list = <<>>
  BY <1>1, <1>2 DEF SetShowModel, WavesInv
<1>3. CASE screen.list # <<>>
  <2> DEFINE b == RemoveWaves(screen)
             a == AddWaves(b, model')
  <2>1. screen' = Renumbered(a)
    BY <1>3 DEF SetShowModel
  <2>2. Arranged(b, {}, {}) /\ Kept(screen, b)
    BY <1>3, InvIs, RemoveWavesKeeps
  <2> HIDE DEF b
  <2>3. Arranged(a, OscWaves, {}) /\ Kept(b, a)
    BY <2>2, AddWavesKeeps
  <2> HIDE DEF a
  <2>4. Free(a)
    BY <1>1, <2>2, <2>3, FreeKept
  <2> QED BY <1>1, <2>1, <2>3, <2>4, RenumberedFree, InvFrom
<1> QED BY <1>2, <1>3

\* The bars are told of another trigger source.
Told(s, t) ==
  [s EXCEPT !.trigger = t,
            !.list = [k \in DOMAIN @ |-> [s.list[k] EXCEPT !.shown = IsVisible(s.list[k], t)]]]

LEMMA ToldIs ==
  ASSUME NEW s, Arranged(s, OscWaves, {}), NumberedList(s), NEW t \in OscWaves \cup {NoWave}
  PROVE  LET r == Told(s, t) IN
         /\ Arranged(r, OscWaves, {}) /\ NumberedList(r)
         /\ r.drag = s.drag /\ Len(r.list) = Len(s.list)
         /\ \A k \in 1 .. Len(s.list) :
              r.list[k].waves = s.list[k].waves /\ r.list[k].session = s.list[k].session
<1> DEFINE r == Told(s, t)
           L == Len(s.list)
           c == [k \in 1 .. L |-> [s.list[k] EXCEPT !.shown = IsVisible(s.list[k], t)]]
<1>1. s \in Screens /\ s.list \in Seq(Containers) /\ L \in Nat /\ DOMAIN s.list = 1 .. L
  BY DEF Arranged, Screens
<1>2. ASSUME NEW k \in 1 .. L
      PROVE  /\ c[k] \in Containers /\ c[k].id = s.list[k].id /\ c[k].waves = s.list[k].waves
             /\ c[k].group = s.list[k].group /\ c[k].part = s.list[k].part
             /\ c[k].session = s.list[k].session
             /\ c[k].shown => HasWave(s.list[k], t) /\ s.list[k].part = t
  <2>1. s.list[k] \in Containers
    BY <1>1
  <2>2. IsVisible(s.list[k], t) \in BOOLEAN
    BY DEF IsVisible, HasWave
  <2>3. IsVisible(s.list[k], t) => HasWave(s.list[k], t) /\ s.list[k].part = t
    BY DEF IsVisible
  <2> QED BY <2>1, <2>2, <2>3 DEF Containers
<1>3. r = [s EXCEPT !.trigger = t, !.list = c]
  BY <1>1 DEF Told
<1>4. c \in Seq(Containers) /\ Len(c) = L
  <2>1. c \in [1 .. L -> Containers]
    BY <1>2
  <2> HIDE DEF c
  <2> QED BY <1>1, <2>1
<1> HIDE DEF c, r
<1>5. r \in Screens /\ r.list = c /\ r.trigger = t /\ r.drag = s.drag
  BY <1>1, <1>3, <1>4 DEF Screens
<1>6. ASSUME NEW k \in 1 .. L PROVE BarsOf(r.list[k], r.trigger)
  <2>1. BarsOf(s.list[k], s.trigger)
    BY DEF Arranged
  <2>2. c[k].shown => s.list[k].waves # <<>>
    BY <1>2 DEF HasWave, ToSet
  <2> QED BY <1>2, <1>5, <2>1, <2>2 DEF BarsOf
<1>7. Alike(s, r)
  BY <1>2, <1>4, <1>5 DEF Alike
<1>8. Arranged(r, OscWaves, {}) /\ NumberedList(r)
  BY <1>5, <1>6, <1>7, AlikeKeeps
<1> QED BY <1>2, <1>4, <1>5, <1>8 DEF r

\* A bar that is being dragged, or was.
Grip(id, bar) == [on |-> "handle", id |-> id, bar |-> bar]

LEMMA ReleasedIs ==
  ASSUME NEW s, Arranged(s, OscWaves, {}), NumberedList(s), NEW h \in Hands, h.on = "handle",
         h.id \in 1 .. Len(s.list), s.drag = NoDrag,
         \A k \in 1 .. Len(s.list), b \in OscBars : s.list[k].session[b] <=> h = Grip(k, b)
  PROVE  LET r == EndSet(s, h.id, h.bar) IN
         Arranged(r, OscWaves, {}) /\ NumberedList(r) /\ HandOn(r, NoHand)
<1> DEFINE r == SessionSet(s, h.id, h.bar, FALSE)
<1>1. EndSet(s, h.id, h.bar) = r
  BY EndSetIs
<1>2. h.bar \in OscBars /\ FALSE \in BOOLEAN
  BY DEF Hands
<1>3. Arranged(r, OscWaves, {}) /\ NumberedList(r) /\ IsSet(s, r, h.id, h.bar, FALSE)
  <2>1. CanSet(s, h.id, h.bar, FALSE)
    BY <1>2 DEF CanSet
  <2> QED BY <2>1, SessionIs
<1> HIDE DEF r
<1>4. \A j, b : h = Grip(j, b) => j = h.id /\ b = h.bar
  BY DEF Grip
<1>5. NoSession(r)
  <2> SUFFICES ASSUME NEW j \in 1 .. Len(s.list), NEW b \in OscBars PROVE ~r.list[j].session[b]
    BY <1>3 DEF NoSession, IsSet
  <2>1. CASE j = h.id /\ b = h.bar
    BY <1>3, <2>1 DEF IsSet
  <2>2. CASE ~(j = h.id /\ b = h.bar)
    <3>1. ~s.list[j].session[b]
      BY <1>4, <2>2
    <3>2. r.list[j].session[b] = s.list[j].session[b]
      BY <1>3, <2>2 DEF IsSet
    <3> QED BY <3>1, <3>2
  <2> QED BY <2>1, <2>2
<1>6. HandOn(r, NoHand)
  BY <1>3, <1>5, FreeIs DEF Free, IsSet
<1> QED BY <1>1, <1>3, <1>6

LEMMA LaterResultKeeps ==
  ASSUME WavesInv, LaterResult
  PROVE  WavesInv'
<1>1. PICK t \in OscWaves \cup {NoWave} :
        LET told == Told(screen, t) IN
        IF t = screen.trigger THEN UNCHANGED <<screen, held>>
        ELSE IF HiddenInHand(told)
        THEN screen' = EndSet(told, held.id, held.bar) /\ held' = NoHand
        ELSE screen' = told /\ UNCHANGED held
  BY DEF LaterResult, Told
<1>2. /\ screen.list # <<>> /\ model' \in {"separate", "combine"}
      /\ Arranged(screen, OscWaves, {}) /\ NumberedList(screen) /\ HandOn(screen, held)
  BY InvIs DEF LaterResult, WavesInv
<1> DEFINE told == Told(screen, t)
<1>3. /\ Arranged(told, OscWaves, {}) /\ NumberedList(told)
      /\ told.drag = screen.drag /\ Len(told.list) = Len(screen.list)
      /\ \A k \in 1 .. Len(screen.list) :
           told.list[k].waves = screen.list[k].waves /\ told.list[k].session = screen.list[k].session
  BY <1>2, ToldIs
<1>4. CASE t = screen.trigger
  BY <1>1, <1>2, <1>4, InvFrom
<1>5. CASE t # screen.trigger /\ HiddenInHand(told)
  <2>1. screen' = EndSet(told, held.id, held.bar) /\ held' = NoHand
    BY <1>1, <1>5
  <2> HIDE DEF told
  <2>2. /\ held \in Hands /\ held.on = "handle" /\ held.id \in 1 .. Len(told.list)
        /\ told.drag = NoDrag
    BY <1>2, <1>3, <1>5 DEF HiddenInHand, HandOn
  <2>3. \A k \in 1 .. Len(told.list), b \in OscBars :
          told.list[k].session[b] <=> held = Grip(k, b)
    BY <1>2, <1>3 DEF HandOn, Grip
  <2> DEFINE r == EndSet(told, held.id, held.bar)
  <2>4. Arranged(r, OscWaves, {}) /\ NumberedList(r) /\ HandOn(r, NoHand)
    BY <1>3, <2>2, <2>3, ReleasedIs
  <2> HIDE DEF r
  <2> QED BY <1>2, <2>1, <2>4, InvFrom DEF r
<1>6. CASE t # screen.trigger /\ ~HiddenInHand(told)
  <2>1. screen' = told /\ held' = held
    BY <1>1, <1>6
  <2> HIDE DEF told
  <2>2. held.on = "handle" /\ held.bar = "trigger" => told.list[held.id].shown
    <3>1. held.on = "handle" => held.id \in 1 .. Len(told.list)
      BY <1>2, <1>3 DEF HandOn
    <3>2. held.on = "handle" => WithId(told, held.id) = held.id
      BY <1>3, <3>1, WithIdThere
    <3> QED BY <1>6, <3>2 DEF HiddenInHand
  <2>3. HandOn(told, held)
    BY <1>2, <1>3, <2>2 DEF HandOn
  <2> QED BY <1>2, <1>3, <2>1, <2>3, InvFrom
<1> QED BY <1>4, <1>5, <1>6

LEMMA ReleaseHandleKeeps ==
  ASSUME WavesInv, ReleaseHandle
  PROVE  WavesInv'
<1>1. /\ held.on = "handle" /\ held' = NoHand /\ model' \in {"separate", "combine"}
      /\ screen' = EndSet(screen, held.id, held.bar)
  BY DEF ReleaseHandle, WavesInv
<1>2. held # NoHand
  BY <1>1 DEF NoHand
<1>3. Arranged(screen, OscWaves, {}) /\ NumberedList(screen) /\ HandOn(screen, held)
  BY <1>2, InvIs DEF WavesInv
<1>4. /\ held \in Hands /\ held.id \in 1 .. Len(screen.list) /\ screen.drag = NoDrag
      /\ \A k \in 1 .. Len(screen.list), b \in OscBars :
           screen.list[k].session[b] <=> held = Grip(k, b)
  BY <1>1, <1>3 DEF HandOn, Grip
<1> DEFINE r == EndSet(screen, held.id, held.bar)
<1>5. Arranged(r, OscWaves, {}) /\ NumberedList(r) /\ HandOn(r, NoHand)
  BY <1>1, <1>3, <1>4, ReleasedIs
<1> HIDE DEF r
<1> QED BY <1>1, <1>5, InvFrom DEF r

\* The wave that a handle selects becomes the first one of its container.
LEMMA SelectWaveKeeps ==
  ASSUME NEW s, Arranged(s, OscWaves, {}), NumberedList(s), Free(s),
         NEW k \in 1 .. Len(s.list), NEW w
  PROVE  LET r == SelectWave(s, k, w) IN
         /\ Arranged(r, OscWaves, {}) /\ NumberedList(r) /\ Free(r)
         /\ Len(r.list) = Len(s.list) /\ r.list[k].shown = s.list[k].shown
<1> DEFINE old == s.list[k]
           e == Erase(old.waves, w)
           l == InsertAt(e, 1, w)
           c == [old EXCEPT !.waves = l]
           q == Replaced(s, k, c)
           r == SelectWave(s, k, w)
<1> SUFFICES /\ Arranged(r, OscWaves, {}) /\ NumberedList(r) /\ Free(r)
             /\ Len(r.list) = Len(s.list) /\ r.list[k].shown = s.list[k].shown
  OBVIOUS
<1>1. CASE ~HasWave(old, w) \/ old.waves[1] = w
  <2>1. r = s
    BY <1>1 DEF SelectWave
  <2> QED BY <2>1
<1>2. CASE HasWave(old, w) /\ ~(old.waves[1] = w)
  <2>1. r = OnSelectWaveChanged(q, old.id)
    BY <1>2 DEF SelectWave, Replaced
  <2> HIDE DEF r
  <2>2. old \in Containers /\ BarsOf(old, s.trigger) /\ s \in Screens
    BY IdsAre DEF Arranged
  <2> HIDE DEF old
  <2>3. old.waves \in Seq(OscWaves) /\ Distinct(old.waves) /\ w \in ToSet(old.waves)
    BY <1>2, <2>2 DEF Containers, BarsOf, HasWave
  <2>4. /\ e \in Seq(OscWaves) /\ Len(e) = Len(old.waves) - 1 /\ Distinct(e)
        /\ ToSet(e) = ToSet(old.waves) \ {w}
    BY <2>3, EraseIs
  <2> HIDE DEF e
  <2>5. w \in OscWaves /\ w \notin ToSet(e) /\ 1 \in 1 .. Len(e) + 1
    <3>1. w \in OscWaves
      BY <2>3, ToSetIs
    <3> QED BY <2>4, <3>1
  <2>6. /\ l \in Seq(OscWaves) /\ Len(l) = Len(e) + 1 /\ Distinct(l)
        /\ ToSet(l) = ToSet(e) \cup {w}
    BY <2>4, <2>5, InsertDistinct
  <2> HIDE DEF l
  <2>7. Len(l) = Len(old.waves) /\ ToSet(l) = ToSet(old.waves)
    BY <2>3, <2>4, <2>6
  <2>8. l # <<>>
    BY <2>3, <2>6, <2>7, ToSetIs
  <2>9. old.waves # <<>>
    BY <2>3, ToSetIs
  <2>10. /\ c \in Containers /\ c.id = old.id /\ c.waves = l /\ c.group = old.group
         /\ c.part = old.part /\ c.shown = old.shown /\ c.session = old.session
    BY <2>2, <2>6 DEF Containers
  <2> HIDE DEF c
  <2>11. BarsOf(c, s.trigger)
    BY <2>2, <2>6, <2>7, <2>8, <2>9, <2>10 DEF BarsOf
  <2>12. s.list[k].id = old.id /\ s.list[k].session = old.session /\ s.list[k].waves = old.waves
    BY DEF old
  <2>13. CanReplace(s, OscWaves, {}, k, c, OscWaves, {})
    BY <2>7, <2>8, <2>10, <2>11, <2>12, <2>3, ToSetIs DEF CanReplace
  <2>14. /\ Arranged(q, OscWaves, {}) /\ Kept(s, q) /\ q.list[k] = c
         /\ Len(q.list) = Len(s.list)
         /\ \A j \in 1 .. Len(s.list) : q.list[j].id = s.list[j].id
    BY <2>13, ReplaceKeeps
  <2> HIDE DEF q
  <2>15. q \in Screens /\ k \in 1 .. Len(q.list) /\ q.list[k].id = old.id
    BY <2>10, <2>14 DEF Arranged
  <2>16. r \in Screens /\ r.list = q.list /\ Kept(q, r)
    BY <2>1, <2>15, SelectChangeKeeps
  <2>17. Arranged(r, OscWaves, {})
    BY <2>14, <2>16, ArrangedByList DEF Kept
  <2>18. NumberedList(r)
    BY <2>14, <2>16 DEF NumberedList
  <2>19. Free(r)
    BY <2>14, <2>16, FreeKept
  <2>20. r.list[k].shown = s.list[k].shown
    BY <2>10, <2>14, <2>16 DEF old
  <2> QED BY <2>14, <2>16, <2>17, <2>18, <2>19, <2>20
<1> QED BY <1>1, <1>2

\* A handle that is pressed: its bar, and only that, is in a session.
LEMMA GrippedIs ==
  ASSUME NEW s, Arranged(s, OscWaves, {}), NumberedList(s), Free(s),
         NEW k \in 1 .. Len(s.list), NEW bar \in OscBars, bar = "trigger" => s.list[k].shown
  PROVE  LET r == SessionSet(s, k, bar, TRUE) IN
         Arranged(r, OscWaves, {}) /\ NumberedList(r) /\ HandOn(r, Grip(k, bar))
<1> DEFINE r == SessionSet(s, k, bar, TRUE)
           h == Grip(k, bar)
<1>1. Arranged(r, OscWaves, {}) /\ NumberedList(r) /\ IsSet(s, r, k, bar, TRUE)
  <2>1. CanSet(s, k, bar, TRUE)
    BY DEF CanSet
  <2> QED BY <2>1, SessionIs
<1> HIDE DEF r
<1>2. s.list \in Seq(Containers) /\ k \in Nat
  BY DEF Arranged, Screens
<1>3. /\ h \in Hands /\ h.on = "handle" /\ h.id = k /\ h.bar = bar
      /\ \A j, b : h = [on |-> "handle", id |-> j, bar |-> b] <=> (j = k /\ b = bar)
  BY <1>2 DEF Grip, Hands
<1> HIDE DEF h
<1>4. \A j \in 1 .. Len(r.list), b \in OscBars : r.list[j].session[b] <=> (j = k /\ b = bar)
  BY <1>1 DEF IsSet, Free, NoSession
<1>5. r.drag = NoDrag /\ k \in 1 .. Len(r.list) /\ (bar = "trigger" => r.list[k].shown)
  BY <1>1 DEF IsSet, Free
<1>6. HandOn(r, h)
  BY <1>3, <1>4, <1>5 DEF HandOn
<1> QED BY <1>1, <1>6 DEF r, h

LEMMA PressHandleKeeps ==
  ASSUME WavesInv, PressHandle
  PROVE  WavesInv'
<1>1. PICK k \in DOMAIN screen.list, bar \in OscBars :
        LET c == screen.list[k] IN
        \E i \in HandlesOf(c, bar) :
          LET s == SelectWave(screen, k, SelectedBy(c, bar, i, screen.trigger)) IN
          /\ screen' = [s EXCEPT !.list[k].session[bar] = TRUE]
          /\ held' = [on |-> "handle", id |-> c.id, bar |-> bar]
  BY DEF PressHandle
<1> DEFINE c == screen.list[k]
<1>2. PICK i \in HandlesOf(c, bar) :
        LET s == SelectWave(screen, k, SelectedBy(c, bar, i, screen.trigger)) IN
        /\ screen' = [s EXCEPT !.list[k].session[bar] = TRUE]
        /\ held' = [on |-> "handle", id |-> c.id, bar |-> bar]
  BY <1>1
<1> DEFINE s == SelectWave(screen, k, SelectedBy(c, bar, i, screen.trigger))
<1>3. screen' = SessionSet(s, k, bar, TRUE) /\ held' = Grip(c.id, bar)
  BY <1>2 DEF SessionSet, Grip
<1>4. held = NoHand /\ model' \in {"separate", "combine"} /\ NumberedList(screen)
  BY DEF PressHandle, WavesInv
<1>5. k \in 1 .. Len(screen.list) /\ screen.list # <<>>
  <2>1. screen.list \in Seq(Containers)
    BY DEF WavesInv, Arranged, Screens
  <2> QED BY <1>1, <2>1
<1>6. Arranged(screen, OscWaves, {}) /\ Free(screen)
  BY <1>4, <1>5, InvIs
<1>7. /\ Arranged(s, OscWaves, {}) /\ NumberedList(s) /\ Free(s)
      /\ Len(s.list) = Len(screen.list) /\ s.list[k].shown = screen.list[k].shown
  BY <1>4, <1>5, <1>6, SelectWaveKeeps
<1>8. c.id = k
  BY <1>4, <1>5 DEF NumberedList
<1>9. bar = "trigger" => s.list[k].shown
  <2>1. bar = "trigger" => c.shown
    BY <1>2 DEF HandlesOf
  <2> QED BY <1>7, <2>1
<1> HIDE DEF s
<1> DEFINE r == SessionSet(s, k, bar, TRUE)
           h == Grip(k, bar)
<1>10. Arranged(r, OscWaves, {}) /\ NumberedList(r) /\ HandOn(r, h)
  BY <1>1, <1>5, <1>7, <1>9, GrippedIs
<1>11. screen' = r /\ held' = h
  BY <1>3, <1>8
<1> HIDE DEF r, h
<1> QED BY <1>4, <1>10, <1>11, InvFrom

-----------------------------------------------------------------------------
(* The drag of a wave. *)

\* A container has a selected wave.
LEMMA FirstIs ==
  ASSUME NEW s, Arranged(s, OscWaves, {}), NEW k \in 1 .. Len(s.list)
  PROVE  s.list[k].waves[1] \in OscWaves
<1>1. s.list[k] \in Containers /\ s.list[k].waves # <<>>
  BY IdsAre DEF Arranged
<1>2. s.list[k].waves \in Seq(OscWaves)
  BY <1>1 DEF Containers
<1>3. 1 \in 1 .. Len(s.list[k].waves)
  BY <1>1, <1>2
<1> QED BY <1>2, <1>3

LEMMA PressViewKeeps ==
  ASSUME WavesInv, PressView
  PROVE  WavesInv'
<1>1. PICK k \in DOMAIN screen.list :
        LET c == screen.list[k] IN
        /\ screen' = [screen EXCEPT !.drag =
             [@ EXCEPT !.start = c.id, !.wave = c.waves[1], !.canceling = FALSE, !.pressed = TRUE]]
        /\ held' = [on |-> "view", id |-> c.id, bar |-> "wave"]
  BY DEF PressView
<1>2. held = NoHand /\ model' \in {"separate", "combine"} /\ NumberedList(screen)
  BY DEF PressView, WavesInv
<1>3. k \in 1 .. Len(screen.list) /\ screen.list # <<>>
  <2>1. screen.list \in Seq(Containers)
    BY DEF WavesInv, Arranged, Screens
  <2> QED BY <1>1, <2>1
<1>4. Arranged(screen, OscWaves, {}) /\ Free(screen)
  BY <1>2, <1>3, InvIs
<1> DEFINE c == screen.list[k]
           d == [screen.drag EXCEPT !.start = k, !.wave = c.waves[1], !.canceling = FALSE,
                                    !.pressed = TRUE]
           s == [screen EXCEPT !.drag = d]
           h == [on |-> "view", id |-> k, bar |-> "wave"]
<1>5. c.id = k /\ c.waves[1] \in OscWaves /\ k \in Nat
  BY <1>2, <1>3, <1>4, FirstIs DEF NumberedList
<1>6. screen' = s /\ held' = h
  BY <1>1, <1>5
<1>7. d \in Drags /\ d.start = k /\ d.wave = c.waves[1]
  <2>1. screen.drag \in Drags
    BY <1>4 DEF Arranged, Screens
  <2> QED BY <1>5, <2>1 DEF Drags
<1> HIDE DEF d
<1>8. Arranged(s, OscWaves, {}) /\ NumberedList(s) /\ s.drag = d /\ s.list = screen.list
  BY <1>2, <1>4, <1>7, DragSet
<1> HIDE DEF s
<1>9. /\ h \in Hands /\ h.on = "view" /\ h.id = k
      /\ \A j, b : h # [on |-> "handle", id |-> j, bar |-> b]
  BY <1>5 DEF Hands, OscBars
<1> HIDE DEF h
<1>10. \A j \in 1 .. Len(s.list), b \in OscBars : ~s.list[j].session[b]
  BY <1>4, <1>8 DEF Free, NoSession
<1>11. HandOn(s, h)
  BY <1>3, <1>5, <1>7, <1>8, <1>9, <1>10 DEF HandOn
<1> QED BY <1>2, <1>6, <1>8, <1>11, InvFrom

\* While a view is held only the drag changes, or it is let go.
LEMMA ViewHeld ==
  ASSUME WavesInv, held.on = "view"
  PROVE  /\ Arranged(screen, OscWaves, {}) /\ NumberedList(screen) /\ HandOn(screen, held)
         /\ NoSession(screen) /\ screen.drag \in Drags
<1>1. held # NoHand
  BY DEF NoHand
<1>2. Arranged(screen, OscWaves, {}) /\ NumberedList(screen) /\ HandOn(screen, held)
  BY <1>1, InvIs DEF WavesInv
<1>3. \A j, b : held # [on |-> "handle", id |-> j, bar |-> b]
  OBVIOUS
<1> QED BY <1>2, <1>3 DEF HandOn, NoSession, Arranged, Screens

LEMMA DragViewKeeps ==
  ASSUME WavesInv, DragView \/ Escape
  PROVE  WavesInv'
<1>1. held.on = "view" /\ held' = held /\ model' \in {"separate", "combine"}
  BY DEF DragView, Escape, WavesInv
<1>2. /\ Arranged(screen, OscWaves, {}) /\ NumberedList(screen) /\ HandOn(screen, held)
      /\ screen.drag \in Drags
  BY <1>1, ViewHeld
<1>3. \E d \in Drags : /\ screen' = [screen EXCEPT !.drag = d]
                       /\ d.start = screen.drag.start /\ d.wave = screen.drag.wave
                       /\ screen.drag.canceling => d.canceling
  <2>1. CASE DragView
    <3> DEFINE d == [screen.drag EXCEPT !.active = TRUE]
    <3>1. screen' = [screen EXCEPT !.drag = d]
      BY <2>1 DEF DragView
    <3>2. /\ d \in Drags /\ d.start = screen.drag.start /\ d.wave = screen.drag.wave
          /\ d.canceling = screen.drag.canceling
      BY <1>2 DEF Drags
    <3> QED BY <3>1, <3>2
  <2>2. CASE Escape
    <3> DEFINE d == Cancel(screen.drag)
    <3>1. screen' = [screen EXCEPT !.drag = d]
      BY <2>2 DEF Escape
    <3>2. /\ d \in Drags /\ d.start = screen.drag.start /\ d.wave = screen.drag.wave
          /\ d.canceling
      BY <1>2 DEF Drags, Cancel
    <3> QED BY <3>1, <3>2
  <2> QED BY <2>1, <2>2
<1>4. PICK d \in Drags : /\ screen' = [screen EXCEPT !.drag = d]
                         /\ d.start = screen.drag.start /\ d.wave = screen.drag.wave
                         /\ screen.drag.canceling => d.canceling
  BY <1>3
<1> DEFINE s == [screen EXCEPT !.drag = d]
<1>5. Arranged(s, OscWaves, {}) /\ NumberedList(s) /\ s.drag = d /\ s.list = screen.list
  BY <1>2, <1>4, DragSet
<1>6. screen' = s
  BY <1>4
<1> HIDE DEF s
<1>7. HandOn(s, held)
  BY <1>1, <1>2, <1>4, <1>5 DEF HandOn
<1> QED BY <1>1, <1>5, <1>6, <1>7, InvFrom

\* A drag that is over leaves nothing.
LEMMA NoDragIs ==
  ASSUME NEW s, Arranged(s, OscWaves, {}), NumberedList(s), NoSession(s)
  PROVE  LET r == [s EXCEPT !.drag = NoDrag] IN
         Arranged(r, OscWaves, {}) /\ NumberedList(r) /\ Free(r)
<1> DEFINE r == [s EXCEPT !.drag = NoDrag]
<1>1. NoDrag \in Drags
  BY DEF NoDrag, Drags
<1>2. /\ Arranged(r, OscWaves, {}) /\ NumberedList(r) /\ r.drag = NoDrag /\ r.list = s.list
  BY <1>1, DragSet
<1> HIDE DEF r
<1>3. Free(r)
  BY <1>2 DEF Free, NoSession
<1> QED BY <1>2, <1>3 DEF r

LEMMA CaptureLostKeeps ==
  ASSUME WavesInv, CaptureLost
  PROVE  WavesInv'
<1> DEFINE r == [screen EXCEPT !.drag = NoDrag]
<1>1. held.on = "view" /\ held' = NoHand /\ screen' = r /\ model' \in {"separate", "combine"}
  BY DEF CaptureLost, WavesInv
<1>2. Arranged(screen, OscWaves, {}) /\ NumberedList(screen) /\ NoSession(screen)
  BY <1>1, ViewHeld
<1>3. Arranged(r, OscWaves, {}) /\ NumberedList(r) /\ Free(r)
  BY <1>2, NoDragIs
<1> HIDE DEF r
<1>4. HandOn(r, NoHand)
  BY <1>3, FreeIs
<1> QED BY <1>1, <1>3, <1>4, InvFrom

LEMMA ReleaseViewKeeps ==
  ASSUME WavesInv, ReleaseView
  PROVE  WavesInv'
<1> DEFINE drag == screen.drag
           after(y) == IF drag.canceling \/ ~drag.active THEN screen
                         ELSE Drop(screen, drag.wave, GetIndicate(y, Len(screen.list)))
<1>1. /\ held.on = "view" /\ held' = NoHand /\ model' \in {"separate", "combine"}
      /\ \E y \in 0 .. Height - 1 : screen' = Renumbered([after(y) EXCEPT !.drag = NoDrag])
  BY DEF ReleaseView, WavesInv
<1>2. PICK y \in 0 .. Height - 1 : screen' = Renumbered([after(y) EXCEPT !.drag = NoDrag])
  BY <1>1
<1>3. /\ Arranged(screen, OscWaves, {}) /\ NoSession(screen) /\ drag.wave \in OscWaves
  BY <1>1, ViewHeld DEF HandOn
<1> DEFINE q == after(y)
           r == [q EXCEPT !.drag = NoDrag]
<1>4. Arranged(q, OscWaves, {}) /\ NoSession(q)
  <2>1. CASE drag.canceling \/ ~drag.active
    BY <1>3, <2>1
  <2>2. CASE ~(drag.canceling \/ ~drag.active)
    <3> DEFINE d == Drop(screen, drag.wave, GetIndicate(y, Len(screen.list)))
    <3>1. Arranged(d, OscWaves, {}) /\ Kept(screen, d)
      BY <1>2, <1>3, DropKeeps
    <3>2. q = d
      BY <2>2
    <3> HIDE DEF d, q
    <3> QED BY <1>3, <3>1, <3>2 DEF Kept
  <2> QED BY <2>1, <2>2
<1>5. screen' = Renumbered(r)
  BY <1>2
<1> HIDE DEF q
<1>6. Arranged(r, OscWaves, {}) /\ Free(r)
  <2>1. q \in Screens /\ NoDrag \in Drags
    BY <1>4 DEF Arranged, NoDrag, Drags
  <2>2. r \in Screens /\ r.list = q.list /\ r.trigger = q.trigger /\ r.drag = NoDrag
    BY <2>1 DEF Screens
  <2> HIDE DEF r
  <2>3. Arranged(r, OscWaves, {})
    BY <1>4, <2>2 DEF Arranged
  <2> QED BY <1>4, <2>2, <2>3 DEF Free, NoSession
<1> HIDE DEF r
<1> QED BY <1>1, <1>5, <1>6, RenumberedFree, InvFrom

-----------------------------------------------------------------------------
(* The theorems about Waves. *)

\* What the waves, their bars and the mouse keep to, at every step.
THEOREM WavesInductive == WavesSpec => []WavesInv
<1>1. WavesInit => WavesInv
  <2> SUFFICES ASSUME WavesInit PROVE WavesInv
    OBVIOUS
  <2>1. screen.list = <<>> /\ Len(screen.list) = 0 /\ screen.drag = NoDrag
    BY DEF WavesInit
  <2>2. screen \in Screens
    <3>1. NoDrag \in Drags /\ <<>> \in Seq(Containers)
      BY DEF NoDrag, Drags
    <3> QED BY <3>1 DEF WavesInit, Screens
  <2>3. Arranged(screen, {}, {}) /\ NumberedList(screen) /\ NoSession(screen)
    BY <2>1, <2>2 DEF Arranged, NumberedList, NoSession
  <2>4. HandOn(screen, NoHand)
    BY <2>1, <2>3, FreeIs DEF Free
  <2> QED BY <2>1, <2>3, <2>4 DEF WavesInit, WavesInv
<1>2. WavesInv /\ [WavesNext]_wavesVars => WavesInv'
  <2> SUFFICES ASSUME WavesInv, [WavesNext]_wavesVars PROVE WavesInv'
    OBVIOUS
  <2>1. CASE FirstResult BY <2>1, FirstResultKeeps
  <2>2. CASE LaterResult BY <2>2, LaterResultKeeps
  <2>3. CASE SetShowModel BY <2>3, SetShowModelKeeps
  <2>4. CASE PressHandle BY <2>4, PressHandleKeeps
  <2>5. CASE ReleaseHandle BY <2>5, ReleaseHandleKeeps
  <2>6. CASE PressView BY <2>6, PressViewKeeps
  <2>7. CASE DragView BY <2>7, DragViewKeeps
  <2>8. CASE Escape BY <2>8, DragViewKeeps
  <2>9. CASE CaptureLost BY <2>9, CaptureLostKeeps
  <2>10. CASE ReleaseView BY <2>10, ReleaseViewKeeps
  <2>11. CASE UNCHANGED wavesVars
    BY <2>11 DEF wavesVars, WavesInv
  <2> QED BY <2>1, <2>2, <2>3, <2>4, <2>5, <2>6, <2>7, <2>8, <2>9, <2>10, <2>11 DEF WavesNext
<1> QED BY <1>1, <1>2, PTL DEF WavesSpec

\* However waves are moved, combined and separated, each is in one container and
\* the bars of a container are those of its waves.
THEOREM BarsFollowWaves == WavesSpec => []BarsFollow
<1>1. WavesInv => BarsFollow
  <2> SUFFICES ASSUME WavesInv PROVE BarsFollow
    OBVIOUS
  <2>1. screen \in Screens /\ screen.list \in Seq(Containers)
        /\ DOMAIN screen.list = 1 .. Len(screen.list)
    BY DEF WavesInv, Arranged, Screens
  <2>2. ASSUME screen.list # <<>>, NEW w \in OscWaves
        PROVE Cardinality({k \in DOMAIN screen.list : HasWave(screen.list[k], w)}) = 1
    <3> DEFINE S == {k \in DOMAIN screen.list : HasWave(screen.list[k], w)}
    <3>1. Arranged(screen, OscWaves, {})
      BY <2>2, InvIs
    <3>2. PICK k \in 1 .. Len(screen.list) : HasWave(screen.list[k], w)
      BY <3>1 DEF Arranged
    <3>3. ASSUME NEW j \in S PROVE j = k
      <4>1. j \in 1 .. Len(screen.list) /\ w \in ToSet(screen.list[j].waves)
            /\ w \in ToSet(screen.list[k].waves)
        BY <2>1, <3>2 DEF HasWave
      <4> QED BY <3>1, <4>1 DEF Arranged, Unlike
    <3>4. S = {k}
      BY <2>1, <3>2, <3>3
    <3> HIDE DEF S
    <3>5. Cardinality(S) = 1
      BY <3>4, FS_Singleton
    <3> QED BY <3>5 DEF S
  <2>3. ASSUME NEW k \in DOMAIN screen.list
        PROVE LET c == screen.list[k] IN
              /\ c.waves # <<>> /\ Len(c.group) = Len(c.waves) /\ ToSet(c.group) = ToSet(c.waves)
              /\ c.part \in ToSet(c.waves)
    BY <2>1, <2>3 DEF WavesInv, Arranged, BarsOf
  <2> QED BY <2>2, <2>3 DEF BarsFollow
<1> QED BY <1>1, WavesInductive, PTL

\* A trigger handle that can be pressed selects a wave of its own container.
THEOREM HandleFindsItsWave == WavesSpec => []HandleFindsWave
<1>1. WavesInv => HandleFindsWave
  <2> SUFFICES ASSUME WavesInv, NEW k \in DOMAIN screen.list, screen.list[k].shown
               PROVE HasWave(screen.list[k], screen.trigger)
    BY DEF HandleFindsWave
  <2>1. screen.list \in Seq(Containers)
    BY DEF WavesInv, Arranged, Screens
  <2>2. BarsOf(screen.list[k], screen.trigger)
    BY <2>1 DEF WavesInv, Arranged
  <2> QED BY <2>2 DEF BarsOf, HasWave
<1> QED BY <1>1, WavesInductive, PTL

\* A drag can begin whenever the mouse is free, and one that is not cancelled has
\* its wave selected where it began.
THEOREM DragIsReady == WavesSpec => []DragReady
<1>1. WavesInv => DragReady
  <2> SUFFICES ASSUME WavesInv PROVE DragReady
    OBVIOUS
  <2>1. screen.list \in Seq(Containers) /\ DOMAIN screen.list = 1 .. Len(screen.list)
    BY DEF WavesInv, Arranged, Screens
  <2>2. NumberedList(screen) /\ HandOn(screen, held)
    BY DEF WavesInv
  <2>3. held.on # "view" => ~screen.drag.pressed /\ ~screen.drag.active
    BY <2>2 DEF HandOn, NoDrag
  <2>4. held.on = "view" /\ ~screen.drag.canceling =>
          \E k \in DOMAIN screen.list :
            screen.list[k].id = screen.drag.start /\ screen.list[k].waves[1] = screen.drag.wave
    <3> SUFFICES ASSUME held.on = "view", ~screen.drag.canceling
                 PROVE \E k \in DOMAIN screen.list :
                         /\ screen.list[k].id = screen.drag.start
                         /\ screen.list[k].waves[1] = screen.drag.wave
      OBVIOUS
    <3>1. /\ held.id \in 1 .. Len(screen.list) /\ screen.drag.start = held.id
          /\ screen.list[held.id].waves[1] = screen.drag.wave
      BY <2>2 DEF HandOn
    <3>2. screen.list[held.id].id = held.id
      BY <2>2, <3>1 DEF NumberedList
    <3> QED BY <2>1, <3>1, <3>2
  <2>5. \A k \in DOMAIN screen.list, bar \in OscBars :
          screen.list[k].session[bar] =>
            held = [on |-> "handle", id |-> screen.list[k].id, bar |-> bar]
    BY <2>1, <2>2 DEF HandOn, NumberedList
  <2> QED BY <2>3, <2>4, <2>5 DEF DragReady
<1> QED BY <1>1, WavesInductive, PTL
=============================================================================
