---------------------------- MODULE UiSceneProofs ----------------------------
(***************************************************************************)
(* Proofs about UiScene, for every scene, every geometry and every order   *)
(* of events: what is held down, what is reported and what moves (IInv),   *)
(* what the chart shows (ChartInv), and that a press takes the card that   *)
(* is drawn at its place (PlaceInv).                                       *)
(***************************************************************************)
EXTENDS UiScene, TLAPS

TypeInv ==
  /\ scene \in Scenes /\ at \in Nat \ {0}
  /\ widgets \in Seq(Widgets)
  /\ dragging \in Int /\ clicked \in Int /\ lastX \in Int
  /\ down \in BOOLEAN
  /\ pressed \in {0} \cup DOMAIN widgets

\* What the pressed widget makes of the two numbers the handlers remember.
HeldId(kind) ==
  IF pressed # 0 /\ widgets[pressed].kind = kind THEN widgets[pressed].id ELSE NoId

HeldInv ==
  /\ phase = "parse" => ~down /\ dragging = NoId /\ clicked = NoId
  /\ ~down => pressed = 0
  /\ pressed # 0 => widgets[pressed].kind \in {"button", "slider"}
  /\ DistinctIds => dragging = HeldId("slider") /\ clicked = HeldId("button")

IInv == TypeInv /\ HeldInv

------------------------------------------------------------------------------
\* What a press and a motion may do to the widgets

LEMMA WidgetTypes ==
  ASSUME TypeInv
  PROVE  \A i \in DOMAIN widgets :
           /\ i \in Nat \ {0}
           /\ widgets[i] \in Widgets /\ widgets[i].kind \in Kinds
           /\ widgets[i].id \in Int /\ widgets[i].min \in Int
           /\ widgets[i].max \in Int /\ widgets[i].current \in Int
<1>1. widgets \in Seq(Widgets)
  BY DEF TypeInv
<1>2. \A i \in DOMAIN widgets : i \in Nat \ {0} /\ widgets[i] \in Widgets
  BY <1>1
<1> QED
  BY <1>2 DEF Widgets

LEMMA TargetsArePressable ==
  ASSUME TypeInv, NEW x \in Xs, NEW y \in Ys, NEW target \in PressTargets(x, y)
  PROVE  \/ target = 0
         \/ target \in DOMAIN widgets /\ widgets[target].kind \in {"button", "slider"}
<1>1. \A i \in DOMAIN widgets : widgets[i].kind \in Kinds
  BY WidgetTypes
<1> QED
  BY <1>1 DEF PressTargets, First, Kinds

LEMMA HalfType ==
  ASSUME NEW d \in Int  PROVE  Half(d) \in Int
BY DEF Half

LEMMA ClampType ==
  ASSUME NEW v \in Int, NEW low \in Int, NEW high \in Int
  PROVE  /\ Clamp(v, low, high) \in Int
         /\ low <= high => low <= Clamp(v, low, high) /\ Clamp(v, low, high) <= high
BY DEF Clamp

\* The widgets are the same but for the value of widget i, which is in bounds.
Moved(i) ==
  /\ i \in DOMAIN widgets
  /\ widgets' = [widgets EXCEPT ![i].current = widgets'[i].current]
  /\ widgets'[i].current \in Int
  /\ widgets[i].min <= widgets[i].max =>
       widgets[i].min <= widgets'[i].current /\ widgets'[i].current <= widgets[i].max

LEMMA MotionMoves ==
  ASSUME TypeInv, NEW x \in Xs, Motion(x), widgets' # widgets
  PROVE  /\ dragging >= 0
         /\ \E i \in Dragged : Moved(i)
<1>1. /\ dragging >= 0
      /\ \E i \in First(Dragged) :
           widgets' = [widgets EXCEPT ![i].current =
                         Clamp(widgets[i].current + Half(x - lastX),
                               widgets[i].min, widgets[i].max)]
  BY DEF Motion
<1>2. PICK i \in First(Dragged) :
        widgets' = [widgets EXCEPT ![i].current =
                      Clamp(widgets[i].current + Half(x - lastX),
                            widgets[i].min, widgets[i].max)]
  BY <1>1
<1>3. i \in Dragged /\ i \in DOMAIN widgets
  BY <1>2 DEF First, Dragged
<1>4. widgets[i] \in Widgets /\ widgets[i].current \in Int
      /\ widgets[i].min \in Int /\ widgets[i].max \in Int
  BY <1>3, WidgetTypes
<1>5. x - lastX \in Int
  BY PointerAssumption DEF TypeInv
<1>6. widgets[i].current + Half(x - lastX) \in Int
  BY <1>4, <1>5, HalfType
<1> DEFINE v == Clamp(widgets[i].current + Half(x - lastX), widgets[i].min, widgets[i].max)
<1>7. /\ v \in Int
      /\ widgets[i].min <= widgets[i].max => widgets[i].min <= v /\ v <= widgets[i].max
  BY <1>4, <1>6, ClampType
<1> HIDE DEF v
<1>8. widgets' = [widgets EXCEPT ![i].current = v]
  BY <1>2 DEF v
<1>9. widgets'[i].current = v
  BY <1>3, <1>4, <1>8 DEF Widgets
<1> QED
  BY <1>1, <1>3, <1>7, <1>8, <1>9 DEF Moved

\* A move leaves numbers and kinds alone.
LEMMA MovedKeeps ==
  ASSUME TypeInv, NEW i \in DOMAIN widgets, Moved(i)
  PROVE  /\ widgets' \in Seq(Widgets)
         /\ DOMAIN widgets' = DOMAIN widgets
         /\ \A j \in DOMAIN widgets : /\ widgets'[j].id = widgets[j].id
                                      /\ widgets'[j].kind = widgets[j].kind
<1> DEFINE v == widgets'[i].current
           w == [widgets[i] EXCEPT !.current = v]
<1>1. v \in Int /\ widgets' = [widgets EXCEPT ![i] = w]
  BY DEF Moved
<1>2. widgets[i] \in Widgets
  BY WidgetTypes
<1>3. w \in Widgets /\ w.id = widgets[i].id /\ w.kind = widgets[i].kind
  BY <1>1, <1>2 DEF Widgets
<1> HIDE DEF v, w
<1>4. widgets \in Seq(Widgets)
  BY DEF TypeInv
<1>5. widgets' \in Seq(Widgets) /\ DOMAIN widgets' = DOMAIN widgets
  BY <1>1, <1>3, <1>4
<1> QED
  BY <1>1, <1>3, <1>4, <1>5

------------------------------------------------------------------------------
\* The invariant

LEMMA InitInv == Init => IInv
<1> SUFFICES ASSUME Init PROVE IInv
  OBVIOUS
<1>1. widgets = <<>> /\ widgets \in Seq(Widgets)
  BY DEF Init
<1>2. TypeInv
  <2>1. -1 \in Int
    OBVIOUS
  <2>2. dragging \in Int /\ clicked \in Int /\ lastX \in Int
    BY <2>1 DEF Init, NoId
  <2>3. scene \in Scenes
    BY DEF Init
  <2>4. at \in Nat \ {0}
    BY DEF Init
  <2>5. down \in BOOLEAN
    BY DEF Init
  <2>6. pressed = 0
    BY DEF Init
  <2> QED
    BY <1>1, <2>2, <2>3, <2>4, <2>5, <2>6 DEF TypeInv
<1>3. HeldInv
  BY DEF Init, HeldInv, HeldId, NoId
<1> QED
  BY <1>2, <1>3 DEF IInv

LEMMA StepInv == IInv /\ [Next]_vars => IInv'
<1> SUFFICES ASSUME IInv, [Next]_vars PROVE IInv'
  OBVIOUS
<1> USE DEF IInv
<1>1. ASSUME ParseLine PROVE IInv'
  <2>1. phase = "parse" /\ phase' = "parse" /\ scene' = scene /\ at' = at + 1
        /\ UNCHANGED <<heldVars, userVars>>
    BY <1>1 DEF ParseLine, AtLine, ParseOther, ParseMalformed, ParseRejected, ParseMark,
         ParseWindow, ParseLayout, ParseWidget, ParseChartBegin, ParseChartPoint
  <2>2. pressed = 0 /\ ~down /\ dragging = NoId /\ clicked = NoId
    BY <2>1 DEF HeldInv
  <2>3. widgets' \in Seq(Widgets)
    <3>1. CASE UNCHANGED widgets
      BY <3>1 DEF TypeInv
    <3>2. CASE ParseWidget
      <4>1. line.kind \in Kinds /\ at \in Nat /\ at <= Len(scene)
        BY <3>2 DEF ParseWidget, AtLine, TypeInv
      <4>2. at \in DOMAIN scene => line \in Widgets
        BY <4>1, ScenesAssumption DEF TypeInv, line
      <4>3. at \in DOMAIN scene
        <5>1. at \in Nat \ {0}
          BY DEF TypeInv
        <5> QED
          BY <4>1, <5>1, ScenesAssumption DEF TypeInv
      <4> QED
        BY <3>2, <4>2, <4>3 DEF ParseWidget, TypeInv
    <3> QED
      BY <1>1, <3>1, <3>2 DEF ParseLine, ParseOther, ParseMalformed, ParseRejected,
           ParseMark, ParseWindow, ParseLayout, ParseChartBegin, ParseChartPoint
  <2> QED
    BY <2>1, <2>2, <2>3 DEF TypeInv, HeldInv, HeldId, heldVars, userVars
<1>2. ASSUME ParseEnd \/ OtherButton \/ Close \/ (\E w \in Widths : Resize(w))
             \/ UNCHANGED vars
      PROVE  IInv'
  <2>1. UNCHANGED <<scene, at, widgets, heldVars, userVars>> /\ (phase' = "parse" => phase = "parse")
    BY <1>2 DEF ParseEnd, OtherButton, Close, Resize, vars, parserVars, Shown
  <2> QED
    BY <2>1 DEF TypeInv, HeldInv, HeldId, DistinctIds, heldVars, userVars
<1>3. ASSUME NEW x \in Xs, NEW y \in Ys, NEW target \in PressTargets(x, y), Press(x, target)
      PROVE  IInv'
  <2>1. \/ target = 0
        \/ target \in DOMAIN widgets /\ widgets[target].kind \in {"button", "slider"}
    BY TargetsArePressable
  <2>2. /\ UNCHANGED <<phase, scene, at, widgets>> /\ phase = "shown" /\ pressed = 0
        /\ lastX' = x /\ down' = TRUE /\ pressed' = target
    BY <1>3 DEF Press, Shown, parserVars, HeldInv, TypeInv
  <2>3. /\ dragging' = IF target # 0 /\ widgets[target].kind = "slider"
                         THEN widgets[target].id ELSE dragging
        /\ clicked' = IF target # 0 /\ widgets[target].kind = "button"
                        THEN widgets[target].id ELSE clicked
    BY <1>3 DEF Press
  <2>4. TypeInv'
    <3>1. target # 0 => widgets[target].id \in Int
      BY <2>1, WidgetTypes
    <3> QED
      BY <2>1, <2>2, <2>3, <3>1, PointerAssumption DEF TypeInv
  <2>5. HeldInv'
    <3>1. DistinctIds' => dragging = NoId /\ clicked = NoId
      BY <2>2 DEF HeldInv, HeldId, DistinctIds
    <3> QED
      BY <2>1, <2>2, <2>3, <3>1 DEF HeldInv, HeldId
  <2> QED
    BY <2>4, <2>5
<1>4. ASSUME Release PROVE IInv'
  <2>1. /\ UNCHANGED <<phase, scene, at, widgets, lastX>> /\ phase = "shown"
        /\ down' = FALSE /\ pressed' = 0
        /\ IF dragging >= 0
             THEN dragging' = NoId /\ clicked' = clicked
             ELSE /\ clicked >= 0 => clicked' = NoId
                  /\ clicked < 0 => clicked' = clicked
                  /\ dragging' = dragging
    BY <1>4 DEF Release, Shown, parserVars
  <2>2. TypeInv'
    <3>1. NoId \in Int
      BY DEF NoId
    <3>2. dragging' \in Int /\ clicked' \in Int
      BY <2>1, <3>1 DEF TypeInv
    <3> QED
      BY <2>1, <3>2 DEF TypeInv
  <2>3. DistinctIds => dragging' = NoId /\ clicked' = NoId
    <3> SUFFICES ASSUME DistinctIds PROVE dragging' = NoId /\ clicked' = NoId
      OBVIOUS
    <3>1. dragging = HeldId("slider") /\ clicked = HeldId("button")
      BY DEF HeldInv
    <3>2. pressed # 0 => widgets[pressed].id \in Int /\ widgets[pressed].id >= 0
      BY WidgetTypes DEF TypeInv, DistinctIds
    <3> QED
      BY <2>1, <3>1, <3>2 DEF HeldId, NoId
  <2>4. DistinctIds' => DistinctIds
    BY <2>1 DEF DistinctIds
  <2> QED
    BY <2>1, <2>2, <2>3, <2>4 DEF HeldInv, HeldId
<1>5. ASSUME NEW x \in Xs, Motion(x) PROVE IInv'
  <2>1. UNCHANGED <<phase, scene, at, dragging, clicked, down, pressed>> /\ lastX' = x
        /\ phase = "shown"
    BY <1>5 DEF Motion, Shown, userVars
  <2>2. /\ widgets' \in Seq(Widgets) /\ DOMAIN widgets' = DOMAIN widgets
        /\ \A j \in DOMAIN widgets : /\ widgets'[j].id = widgets[j].id
                                     /\ widgets'[j].kind = widgets[j].kind
    <3>1. CASE widgets' = widgets
      BY <3>1 DEF TypeInv
    <3>2. CASE widgets' # widgets
      <4>1. PICK i \in Dragged : Moved(i)
        BY <1>5, <3>2, MotionMoves
      <4> QED
        BY <4>1, MovedKeeps DEF Moved
    <3> QED
      BY <3>1, <3>2
  <2>3. TypeInv'
    BY <2>1, <2>2, PointerAssumption DEF TypeInv
  <2>4. DistinctIds' => DistinctIds
    BY <2>2 DEF DistinctIds
  <2>5. pressed # 0 => pressed \in DOMAIN widgets
    BY DEF TypeInv
  <2>6. HeldId("slider")' = HeldId("slider") /\ HeldId("button")' = HeldId("button")
    BY <2>1, <2>2, <2>5 DEF HeldId
  <2>7. HeldInv'
    BY <2>1, <2>2, <2>4, <2>5, <2>6 DEF HeldInv
  <2> QED
    BY <2>3, <2>7
<1> QED
  BY <1>1, <1>2, <1>3, <1>4, <1>5 DEF Next

LEMMA InvAlways == Spec => []IInv
<1> QED
  BY InitInv, StepInv, PTL DEF Spec

------------------------------------------------------------------------------
\* The theorems

\* Whatever the order of the events, exactly the widget the left button went
\* down on is drawn as held (on_ui_button_press, on_ui_button_release and the
\* comparison with clicked_button_id and dragging_slider_id in the drawing).
THEOREM HeldIsAlwaysPressed == Spec => []HeldIsPressed
<1>1. IInv => HeldIsPressed
  <2> SUFFICES ASSUME IInv, DistinctIds PROVE DrawnHeld = {pressed} \ {0}
    BY DEF HeldIsPressed
  <2>1. \A i \in DOMAIN widgets : widgets[i].id \in Int /\ widgets[i].id >= 0 /\ i # 0
    BY WidgetTypes DEF IInv, DistinctIds
  <2>2. dragging = HeldId("slider") /\ clicked = HeldId("button")
    BY DEF IInv, HeldInv
  <2>3. CASE pressed = 0
    BY <2>1, <2>2, <2>3 DEF DrawnHeld, HeldId, NoId
  <2>4. CASE pressed # 0
    <3>1. pressed \in DOMAIN widgets /\ widgets[pressed].kind \in {"button", "slider"}
      BY <2>4 DEF IInv, TypeInv, HeldInv
    <3>2. {dragging, clicked} = {widgets[pressed].id, NoId}
      BY <2>2, <2>4, <3>1 DEF HeldId
    <3>3. \A i \in DOMAIN widgets : widgets[i].id \in {dragging, clicked} <=> i = pressed
      BY <2>1, <3>1, <3>2 DEF DistinctIds, NoId
    <3> QED
      BY <2>4, <3>1, <3>3 DEF DrawnHeld
  <2> QED
    BY <2>3, <2>4
<1> QED
  BY <1>1, InvAlways, PTL

\* A release reports exactly the button that the press before it took
\* (on_ui_button_release).
THEOREM ReleasesReportPressed == Spec => ReleaseReportsPressed
<1>1. ASSUME IInv, [Next]_vars, down, ~down', DistinctIds
      PROVE  clicks' = IF pressed # 0 /\ widgets[pressed].kind = "button"
                         THEN widgets[pressed].id ELSE NoId
  <2>1. Release
    BY <1>1 DEF Next, ParseLine, ParseOther, ParseMalformed, ParseRejected, ParseMark,
         ParseWindow, ParseLayout, ParseWidget, ParseChartBegin, ParseChartPoint, AtLine,
         ParseEnd, OtherButton, Press, Motion, Resize, Close, userVars, vars
  <2>2. clicks' = IF dragging >= 0 THEN NoId ELSE IF clicked >= 0 THEN clicked ELSE NoId
    <3>1. dragging \in Int /\ clicked \in Int
      BY <1>1 DEF IInv, TypeInv
    <3> QED
      BY <2>1, <3>1 DEF Release
  <2>3. dragging = HeldId("slider") /\ clicked = HeldId("button")
    BY <1>1 DEF IInv, HeldInv
  <2>4. pressed # 0 => /\ widgets[pressed].id \in Int /\ widgets[pressed].id >= 0
                       /\ widgets[pressed].kind \in {"button", "slider"}
    BY <1>1, WidgetTypes DEF IInv, TypeInv, HeldInv, DistinctIds
  <2> QED
    BY <2>2, <2>3, <2>4 DEF HeldId, NoId
<1> QED
  BY <1>1, InvAlways, PTL DEF Spec, ReleaseReportsPressed

\* Only the slider that is held down moves, and only within its bounds
\* (on_ui_mouse_motion).
THEOREM OnlyThePressedSliderMoves == Spec => OnlyPressedSliderMoves
<1> DEFINE Kept ==
      /\ down /\ pressed # 0 /\ widgets[pressed].kind = "slider"
      /\ widgets' = [widgets EXCEPT ![pressed].current = widgets'[pressed].current]
      /\ LET w == widgets'[pressed]
         IN w.min <= w.max => w.min <= w.current /\ w.current <= w.max
<1>1. ASSUME IInv, [Next]_vars, Shown, widgets' # widgets, DistinctIds
      PROVE  Kept
  <2>1. \E x \in Xs : Motion(x)
    BY <1>1 DEF Next, ParseLine, ParseOther, ParseMalformed, ParseRejected, ParseMark,
         ParseWindow, ParseLayout, ParseWidget, ParseChartBegin, ParseChartPoint, AtLine,
         ParseEnd, OtherButton, Press, Release, Resize, Close, parserVars, vars, Shown
  <2>2. PICK x \in Xs : Motion(x)
    BY <2>1
  <2>3. TypeInv /\ HeldInv
    BY <1>1 DEF IInv
  <2>4. dragging >= 0 /\ \E i \in Dragged : Moved(i)
    BY <1>1, <2>2, <2>3, MotionMoves
  <2>5. PICK i \in Dragged : Moved(i)
    BY <2>4
  <2>6. pressed # 0 /\ widgets[pressed].kind = "slider" /\ widgets[pressed].id = dragging
    BY <1>1, <2>3, <2>4 DEF HeldInv, HeldId, NoId
  <2>7. i = pressed
    BY <1>1, <2>3, <2>5, <2>6 DEF Dragged, DistinctIds, TypeInv
  <2>8. down
    BY <2>3, <2>6 DEF HeldInv, TypeInv
  <2>9. /\ i \in DOMAIN widgets /\ widgets[i] \in Widgets
        /\ widgets' = [widgets EXCEPT ![i].current = widgets'[i].current]
        /\ widgets'[i].min = widgets[i].min /\ widgets'[i].max = widgets[i].max
    BY <2>3, <2>5, WidgetTypes DEF Moved, Widgets
  <2> QED
    BY <2>5, <2>6, <2>7, <2>8, <2>9 DEF Moved
<1> QED
  BY <1>1, InvAlways, PTL DEF Spec, OnlyPressedSliderMoves

------------------------------------------------------------------------------
\* The chart

\* Where the parser is, and the chart it has made so far.
Place(k)   == Max2(0, scene[k].index) + 1
Begins(n)  == {k \in 1 .. n - 1 : scene[k].kind = "chartBegin"}
Points(n)  == {k \in 1 .. n - 1 : scene[k].kind = "chartPoint" /\ \A b \in Begins(n) : b < k}

\* The k-th line plotted the value v at index i, and no line after it another.
IsLast(k, i, v) ==
  /\ k \in Points(at) /\ Place(k) = i /\ v = scene[k].value
  /\ \A j \in Points(at) : Place(j) = i => j <= k

ChartInv ==
  /\ scene \in Scenes /\ at \in Nat \ {0} /\ at <= Len(scene) + 1
  /\ chart.values \in Seq(Int)
  /\ \A i \in 1 .. Len(chart.values) :
       \/ (\A k \in Points(at) : Place(k) # i) /\ chart.values[i] = 0
       \/ \E k \in Points(at) : IsLast(k, i, chart.values[i])
  /\ \A k \in Points(at) : Place(k) \in 1 .. Len(chart.values)
  /\ chart.values # <<>> => \E k \in Points(at) : Place(k) = Len(chart.values)

\* The lines that count when the parser has gone past the line at.
LEMMA PointsStep ==
  ASSUME ChartInv, scene' = scene, at' = at + 1, at <= Len(scene)
  PROVE  /\ line.kind = "chartBegin" => Points(at)' = {}
         /\ line.kind = "chartPoint" => Points(at)' = Points(at) \cup {at}
         /\ line.kind \notin {"chartBegin", "chartPoint"} => Points(at)' = Points(at)
         /\ \A k \in Points(at) : k \in 1 .. Len(scene) /\ k < at /\ Place(k)' = Place(k)
                                  /\ Place(k) \in Nat \ {0} /\ scene[k].value \in Int
         /\ line.kind = "chartPoint" => Place(at) \in Nat \ {0} /\ line.value \in Int
<1>1. at \in Nat \ {0} /\ Len(scene) \in Nat /\ DOMAIN scene = 1 .. Len(scene)
      /\ \A k \in 1 .. Len(scene) : scene[k].kind = "chartPoint" =>
           scene[k].index \in Int /\ scene[k].value \in Int
  BY ScenesAssumption DEF ChartInv
<1>2. \A k \in 1 .. Len(scene) : scene[k].kind = "chartPoint" => Place(k) \in Nat \ {0}
  BY <1>1 DEF Place, Max2
<1>3. 1 .. at' - 1 = (1 .. at - 1) \cup {at} BY <1>1
<1>4. Begins(at)' = IF line.kind = "chartBegin" THEN Begins(at) \cup {at} ELSE Begins(at)
  BY <1>3 DEF Begins, line
<1>5. \A b \in Begins(at) : b < at /\ b \in Nat BY <1>1 DEF Begins
<1>6. line.kind = "chartBegin" => Points(at)' = {}
  <2> SUFFICES ASSUME line.kind = "chartBegin", NEW k \in Points(at)' PROVE FALSE OBVIOUS
  <2>1. at \in Begins(at)' BY <1>4
  <2>2. k \in 1 .. at /\ at < k BY <1>1, <2>1 DEF Points
  <2> QED BY <1>1, <2>2
<1>7. line.kind = "chartPoint" => Points(at)' = Points(at) \cup {at}
  BY <1>3, <1>4, <1>5 DEF Points, line
<1>8. line.kind \notin {"chartBegin", "chartPoint"} => Points(at)' = Points(at)
  BY <1>3, <1>4 DEF Points, line
<1>9. \A k \in Points(at) : k \in 1 .. Len(scene) /\ k < at /\ scene[k].kind = "chartPoint"
  BY <1>1 DEF Points
<1>10. \A k \in Points(at) : Place(k)' = Place(k) BY DEF Place
<1>11. line.kind = "chartPoint" => Place(at) \in Nat \ {0} /\ line.value \in Int
  BY <1>1, <1>2 DEF line
<1> QED BY <1>1, <1>2, <1>6, <1>7, <1>8, <1>9, <1>10, <1>11

LEMMA ChartInit == Init => ChartInv
<1> SUFFICES ASSUME Init PROVE ChartInv OBVIOUS
<1>1. scene \in Scenes /\ at = 1 /\ chart.values = <<>> BY DEF Init
<1>2. Len(scene) \in Nat BY <1>1, ScenesAssumption
<1>3. Points(at) = {} BY <1>1 DEF Points
<1> QED BY <1>1, <1>2, <1>3 DEF ChartInv

\* A line that has nothing to do with the points of the chart.
LEMMA ChartKept ==
  ASSUME ChartInv, scene' = scene, at' = at + 1, at <= Len(scene),
         chart'.values = chart.values, line.kind \notin {"chartBegin", "chartPoint"}
  PROVE  ChartInv'
<1>1. Points(at)' = Points(at) /\ \A k \in Points(at) : Place(k)' = Place(k) BY PointsStep
<1>2. \A k, i, v : k \in Points(at) => IsLast(k, i, v)' = IsLast(k, i, v)
  BY <1>1 DEF IsLast
<1>3. at' \in Nat \ {0} /\ at' <= Len(scene) + 1 BY ScenesAssumption DEF ChartInv
<1> QED BY <1>1, <1>3 DEF ChartInv, IsLast

LEMMA ChartPoint ==
  ASSUME ChartInv, scene' = scene, at' = at + 1, at <= Len(scene), line.kind = "chartPoint",
         chart'.values = Plotted(chart.values, line.index, line.value)
  PROVE  ChartInv'
<1> DEFINE old == chart.values
           p   == Place(at)
<1>1. PICK new : new = chart'.values OBVIOUS
<1>2. /\ Points(at)' = Points(at) \cup {at}
      /\ \A k \in Points(at) : k < at /\ Place(k)' = Place(k) /\ Place(k) \in Nat \ {0}
      /\ p \in Nat \ {0} /\ line.value \in Int
  BY PointsStep
<1>3. \A k : Place(k)' = Place(k) BY DEF Place
<1>4. old \in Seq(Int) /\ Len(old) \in Nat /\ at \in Nat \ {0} BY DEF ChartInv
<1>5. new = [k \in 1 .. Max2(Len(old), p) |->
               IF k = p THEN line.value ELSE IF k <= Len(old) THEN old[k] ELSE 0]
  BY <1>1 DEF Plotted, Place, line
<1> HIDE DEF p, old
<1>6. Max2(Len(old), p) \in Nat /\ Max2(Len(old), p) >= p /\ Max2(Len(old), p) >= Len(old)
      /\ (Max2(Len(old), p) = p \/ Max2(Len(old), p) = Len(old))
  BY <1>2, <1>4 DEF Max2
<1>7. new \in Seq(Int) /\ Len(new) = Max2(Len(old), p)
  BY <1>2, <1>4, <1>5, <1>6
<1>8. \A k \in 1 .. Len(new) :
        new[k] = IF k = p THEN line.value ELSE IF k <= Len(old) THEN old[k] ELSE 0
  BY <1>5, <1>7
<1>9. PICK n : n = at OBVIOUS
<1>10. /\ Points(at)' = Points(at) \cup {n} /\ n \in Nat \ {0} /\ n \notin Points(at)
       /\ Place(n) = p /\ scene[n].value = line.value
  BY <1>2, <1>4, <1>9 DEF p, line
<1>11. ASSUME NEW i \in 1 .. Len(new)
       PROVE  \/ (\A k \in Points(at)' : Place(k) # i) /\ new[i] = 0
              \/ \E k \in Points(at)' : IsLast(k, i, new[i])'
  <2>1. CASE i = p
    <3>1. new[i] = scene[n].value BY <1>8, <1>10, <2>1
    <3>2. \A j \in Points(at)' : j <= n BY <1>2, <1>4, <1>9, <1>10 DEF Points
    <3>3. IsLast(n, i, new[i])' BY <1>3, <1>10, <2>1, <3>1, <3>2 DEF IsLast
    <3> QED BY <1>10, <3>3
  <2>2. CASE i # p /\ i <= Len(old)
    <3>1. i \in 1 .. Len(old) /\ new[i] = old[i] BY <1>4, <1>7, <1>8, <2>2
    <3>2. CASE (\A k \in Points(at) : Place(k) # i) /\ old[i] = 0
      BY <1>10, <2>2, <3>1, <3>2
    <3>3. CASE \E k \in Points(at) : IsLast(k, i, old[i])
      <4>1. PICK k \in Points(at) : IsLast(k, i, old[i]) BY <3>3
      <4>2. IsLast(k, i, new[i])' BY <1>3, <1>10, <2>2, <3>1, <4>1 DEF IsLast
      <4> QED BY <1>10, <4>1, <4>2
    <3> QED BY <3>1, <3>2, <3>3 DEF ChartInv, old
  <2>3. CASE i # p /\ ~(i <= Len(old))
    <3>1. new[i] = 0 BY <1>8, <2>3
    <3>2. \A k \in Points(at) : Place(k) \in 1 .. Len(old) BY DEF ChartInv, old
    <3>3. \A k \in Points(at) : Place(k) # i BY <1>4, <2>3, <3>2
    <3> QED BY <1>10, <2>3, <3>1, <3>3
  <2> QED BY <2>1, <2>2, <2>3
<1>12. \A k \in Points(at)' : Place(k) \in 1 .. Len(new)
  <2>1. \A k \in Points(at) : Place(k) \in 1 .. Len(old) BY DEF ChartInv, old
  <2>2. 1 .. Len(old) \subseteq 1 .. Len(new) /\ p \in 1 .. Len(new) BY <1>2, <1>4, <1>6, <1>7
  <2> QED BY <1>10, <2>1, <2>2
<1>13. \E k \in Points(at)' : Place(k) = Len(new)
  <2>1. CASE Len(new) = p BY <1>10, <2>1
  <2>2. CASE Len(new) # p
    <3>1. Len(new) = Len(old) /\ old # <<>> BY <1>2, <1>4, <1>6, <1>7, <2>2
    <3>2. \E k \in Points(at) : Place(k) = Len(old) BY <3>1 DEF ChartInv, old
    <3> QED BY <1>10, <3>1, <3>2
  <2> QED BY <2>1, <2>2
<1>14. at' \in Nat \ {0} /\ at' <= Len(scene) + 1 /\ scene \in Scenes
  BY ScenesAssumption DEF ChartInv
<1> HIDE DEF IsLast
<1> QED BY <1>1, <1>3, <1>7, <1>11, <1>12, <1>13, <1>14 DEF ChartInv

LEMMA ChartStep == ASSUME ChartInv, [Next]_vars PROVE ChartInv'
<1>1. ASSUME UNCHANGED <<scene, at, chart>> PROVE ChartInv'
  <2>1. \A n : Points(n)' = Points(n) /\ Place(n)' = Place(n)
    BY <1>1 DEF Points, Begins, Place
  <2>2. PICK n : n = at OBVIOUS
  <2>3. Points(at)' = Points(at) BY <1>1, <2>1, <2>2
  <2>4. \A k, i, v : IsLast(k, i, v)' = IsLast(k, i, v) BY <1>1, <2>1, <2>3 DEF IsLast
  <2> HIDE DEF IsLast, Points, Place
  <2> QED BY <1>1, <2>1, <2>3, <2>4 DEF ChartInv
<1>2. ASSUME UNCHANGED <<parserVars>> PROVE ChartInv'
  BY <1>1, <1>2 DEF parserVars
<1>3. ASSUME ParseLine PROVE ChartInv'
  <2>1. scene' = scene /\ at' = at + 1 /\ at <= Len(scene)
    BY <1>3 DEF ParseLine, AtLine, ParseOther, ParseMalformed, ParseRejected, ParseMark,
         ParseWindow, ParseLayout, ParseWidget, ParseChartBegin, ParseChartPoint
  <2>2. CASE ParseChartPoint
    <3>1. line.kind = "chartPoint" /\ chart'.values = Plotted(chart.values, line.index, line.value)
      BY <2>2 DEF ParseChartPoint, AtLine
    <3> QED BY <2>1, <3>1, ChartPoint
  <2>3. CASE ParseChartBegin
    <3>1. line.kind = "chartBegin" /\ chart'.values = <<>>
      BY <2>3 DEF ParseChartBegin, AtLine
    <3>2. Points(at)' = {} BY <2>1, <3>1, PointsStep
    <3>3. at' \in Nat \ {0} /\ at' <= Len(scene) + 1 BY <2>1, ScenesAssumption DEF ChartInv
    <3> QED BY <2>1, <3>1, <3>2, <3>3 DEF ChartInv
  <2>4. CASE ParseMark
    <3>1. line.kind \in {"mark", "chartCommit"}
          /\ chart' = IF line.kind = "chartCommit" THEN [chart EXCEPT !.present = TRUE] ELSE chart
      BY <2>4 DEF ParseMark, AtLine
    <3>2. chart'.values = chart.values BY <3>1
    <3> QED BY <2>1, <3>1, <3>2, ChartKept
  <2>5. CASE ParseOther \/ ParseMalformed \/ ParseRejected \/ ParseWindow \/ ParseLayout \/ ParseWidget
    <3>1. chart' = chart /\ line.kind \notin {"chartBegin", "chartPoint"}
      BY <2>5 DEF AtLine, ParseOther, ParseMalformed, ParseRejected, ParseWindow, ParseLayout,
           ParseWidget, Kinds
    <3> QED BY <2>1, <3>1, ChartKept
  <2> QED BY <1>3, <2>2, <2>3, <2>4, <2>5 DEF ParseLine
<1>4. ASSUME NEW x \in Xs, Motion(x) PROVE ChartInv'
  BY <1>1, <1>4 DEF Motion
<1>5. ASSUME NEW x \in Xs, NEW y \in Ys, NEW target \in PressTargets(x, y), Press(x, target)
      PROVE  ChartInv'
  BY <1>2, <1>5 DEF Press
<1>6. ASSUME ParseEnd \/ OtherButton \/ Release \/ Close \/ (\E w \in Widths : Resize(w)) PROVE ChartInv'
  BY <1>2, <1>6 DEF ParseEnd, OtherButton, Release, Close, Resize, parserVars
<1>7. ASSUME UNCHANGED vars PROVE ChartInv'
  BY <1>2, <1>7 DEF vars, parserVars
<1> QED BY <1>3, <1>4, <1>5, <1>6, <1>7 DEF Next

\* The chart is what the chart lines since the last chart begin make of it
\* (parse_ui_scene, the group chart).
THEOREM ChartIsAlwaysWhatWasPlotted == Spec => []ChartIsWhatWasPlotted
<1>1. ASSUME ChartInv PROVE ChartIsWhatWasPlotted
  <2> DEFINE begins == {k \in 1 .. at - 1 : scene[k].kind = "chartBegin"}
             points == {k \in 1 .. at - 1 : /\ scene[k].kind = "chartPoint"
                                            /\ \A b \in begins : b < k}
             places(k) == Max2(0, scene[k].index) + 1
             here(i) == {k \in points : places(k) = i}
             last(i) == CHOOSE k \in here(i) : \A j \in here(i) : j <= k
  <2>1. points = Points(at) /\ \A k : places(k) = Place(k) BY DEF Points, Begins, Place
  <2>2. chart.values \in Seq(Int) /\ \A k \in Points(at) : k \in Nat
    BY <1>1 DEF ChartInv, Points
  <2> HIDE DEF points, places
  <2>3. DOMAIN chart.values = 1 .. Len(chart.values) BY <2>2
  <2>4. ASSUME NEW i \in DOMAIN chart.values
        PROVE  chart.values[i] = IF here(i) = {} THEN 0 ELSE scene[last(i)].value
    <3>1. CASE (\A k \in Points(at) : Place(k) # i) /\ chart.values[i] = 0
      BY <2>1, <3>1
    <3>2. CASE \E k \in Points(at) : IsLast(k, i, chart.values[i])
      <4>1. PICK k \in Points(at) : IsLast(k, i, chart.values[i]) BY <3>2
      <4>2. k \in here(i) /\ chart.values[i] = scene[k].value /\ \A j \in here(i) : j <= k
        BY <2>1, <4>1 DEF IsLast
      <4>3. \A j \in here(i) : j \in Nat BY <2>1, <2>2
      <4> HIDE DEF here
      <4>4. last(i) \in here(i) /\ \A j \in here(i) : j <= last(i) BY <4>2
      <4>5. last(i) = k
        <5>1. PICK l : l = last(i) OBVIOUS
        <5>2. l \in Nat /\ k \in Nat /\ l <= k /\ k <= l BY <4>2, <4>3, <4>4, <5>1
        <5>3. l = k BY <5>2
        <5> QED BY <5>1, <5>3
      <4> QED BY <4>2, <4>5
    <3> QED BY <1>1, <2>3, <3>1, <3>2 DEF ChartInv
  <2>5. \A k \in points : places(k) \in DOMAIN chart.values
    BY <1>1, <2>1, <2>3 DEF ChartInv
  <2>6. chart.values # <<>> => \E k \in points : places(k) = Len(chart.values)
    BY <1>1, <2>1 DEF ChartInv
  <2> QED BY <2>4, <2>5, <2>6 DEF ChartIsWhatWasPlotted, points, places
<1>2. Spec => []ChartInv BY ChartInit, ChartStep, PTL DEF Spec
<1> QED BY <1>1, <1>2, PTL
------------------------------------------------------------------------------
\* The cards

\* What the places of the cards depend on.
PlaceInv ==
  /\ layout.horizontal \in BOOLEAN /\ layout.spacing \in Int
  /\ window.width \in Int /\ width \in Int
  /\ widgets \in Seq(Widgets)
  /\ scene \in Scenes /\ at \in Nat \ {0}

LEMMA ProductOrder ==
  ASSUME NEW a \in Int, NEW b \in Int, NEW p \in Nat, a < b
  PROVE  a * p + p <= b * p
<1>1. b * p = a * p + (b - a) * p OBVIOUS
<1>2. PICK d \in Nat : d = b - a - 1 OBVIOUS
<1>3. (b - a) * p = d * p + p BY <1>2
<1>4. d * p \in Nat OBVIOUS
<1>5. a * p \in Int /\ b * p \in Int OBVIOUS
<1> QED BY <1>1, <1>3, <1>4, <1>5

\* Two intervals of a row of them that share a place are the same.
LEMMA SameInterval ==
  ASSUME NEW x \in Int, NEW a \in Int, NEW b \in Int, NEW p \in Nat, NEW s \in Int, s <= p,
         0 <= x - a * p, x - a * p < s, 0 <= x - b * p, x - b * p < s
  PROVE  a = b
<1>1. ASSUME NEW c \in Int, NEW d \in Int, c < d, x - c * p < s, 0 <= x - d * p PROVE FALSE
  <2>1. c * p + p <= d * p BY <1>1, ProductOrder
  <2>2. c * p \in Int /\ d * p \in Int OBVIOUS
  <2> QED BY <1>1, <2>1, <2>2
<1>2. a < b \/ b < a \/ a = b OBVIOUS
<1> QED BY <1>1, <1>2

LEMMA DivideAgain ==
  ASSUME NEW i \in Nat, NEW j \in Nat, NEW c \in Nat \ {0},
         i % c = j % c, i \div c = j \div c
  PROVE  i = j
<1>1. i = (c * (i \div c)) + (i % c) /\ j = (c * (j \div c)) + (j % c) OBVIOUS
<1> QED BY <1>1
LEMMA PlaceInit == Init => PlaceInv
<1> SUFFICES ASSUME Init PROVE PlaceInv OBVIOUS
<1>1. layout = [horizontal |-> FALSE, spacing |-> 12] /\ window = [width |-> 1280, height |-> 720]
  BY DEF Init
<1>2. scene \in Scenes /\ at = 1 /\ widgets = <<>> /\ width = 0 BY DEF Init
<1> QED BY <1>1, <1>2 DEF PlaceInv

LEMMA PlaceStep == ASSUME IInv, PlaceInv, [Next]_vars PROVE PlaceInv'
<1>1. TypeInv' BY StepInv DEF IInv
<1>2. widgets' \in Seq(Widgets) /\ scene' \in Scenes /\ at' \in Nat \ {0} BY <1>1 DEF TypeInv
<1>3. layout'.horizontal \in BOOLEAN /\ layout'.spacing \in Int
      /\ window'.width \in Int /\ width' \in Int
  <2>1. CASE UNCHANGED <<layout, window, width>> BY <2>1 DEF PlaceInv
  <2>2. CASE ParseWindow
    <3>1. at <= Len(scene) /\ line.kind = "window" /\ UNCHANGED <<layout, width>>
          /\ window' = [width |-> Max2(320, line.width), height |-> Max2(240, line.height)]
      BY <2>2 DEF ParseWindow, AtLine
    <3>2. line.width \in Int BY <3>1, ScenesAssumption DEF PlaceInv, line
    <3>3. Max2(320, line.width) \in Int BY <3>2 DEF Max2
    <3> QED BY <3>1, <3>3 DEF PlaceInv
  <2>3. CASE ParseLayout
    <3>1. at <= Len(scene) /\ line.kind = "layout" /\ UNCHANGED <<window, width>>
          /\ layout' = [horizontal |-> line.horizontal, spacing |-> line.spacing]
      BY <2>3 DEF ParseLayout, AtLine
    <3>2. line.horizontal \in BOOLEAN /\ line.spacing \in Int
      BY <3>1, ScenesAssumption DEF PlaceInv, line
    <3>3. layout'.horizontal = line.horizontal /\ layout'.spacing = line.spacing BY <3>1
    <3>4. layout'.horizontal \in BOOLEAN BY <3>2, <3>3
    <3> QED BY <3>1, <3>2, <3>3, <3>4 DEF PlaceInv
  <2>4. CASE ParseEnd
    BY <2>4 DEF ParseEnd, parserVars, PlaceInv
  <2>5. CASE \E w \in Widths : Resize(w)
    BY <2>5, PointerAssumption DEF Resize, parserVars, PlaceInv
  <2>6. ASSUME ParseLine, ~ParseWindow, ~ParseLayout PROVE UNCHANGED <<layout, window, width>>
    BY <2>6 DEF ParseLine, AtLine, ParseOther, ParseMalformed, ParseRejected, ParseMark,
         ParseWidget, ParseChartBegin, ParseChartPoint
  <2>7. ASSUME \/ OtherButton \/ Release \/ Close \/ (\E x \in Xs : Motion(x)) \/ UNCHANGED vars
               \/ \E x \in Xs, y \in Ys : \E target \in PressTargets(x, y) : Press(x, target)
        PROVE  UNCHANGED <<layout, window, width>>
    BY <2>7 DEF OtherButton, Release, Close, Motion, Press, vars, parserVars
  <2> QED BY <2>1, <2>2, <2>3, <2>4, <2>5, <2>6, <2>7 DEF Next
<1> QED BY <1>2, <1>3 DEF PlaceInv

\* Drawing and pressing count the same columns.
LEMMA SameColumns ==
  ASSUME PlaceInv PROVE DrawnColumns = PressColumns /\ DrawnColumns \in Nat \ {0} /\ Gap \in Nat \ {0}
                        /\ Usable \in Int
<1>1. Gap \in Nat \ {0} /\ Usable \in Int BY DEF PlaceInv, Gap, Usable, Margin, Max2
<1>2. PICK q : q = (Usable + Gap) \div (270 + Gap) OBVIOUS
<1>3. q \in Int BY <1>1, <1>2
<1>4. Len(widgets) \in Nat /\ (widgets = <<>> <=> Len(widgets) = 0) BY DEF PlaceInv
<1>5. DrawnColumns = IF layout.horizontal /\ widgets # <<>>
                       THEN Max2(1, Min2(Max2(1, q), Len(widgets))) ELSE 1
  BY <1>2 DEF DrawnColumns
<1>6. PressColumns = Max2(1, Min2(Len(widgets), IF layout.horizontal THEN Max2(1, q) ELSE 1))
  BY <1>2 DEF PressColumns
<1> QED BY <1>1, <1>3, <1>4, <1>5, <1>6 DEF Max2, Min2, PlaceInv

\* Cards do not overlap.
LEMMA CardsApart ==
  ASSUME PlaceInv, NEW c \in Nat \ {0}, NEW x \in Int, NEW y \in Int,
         NEW i \in Nat \ {0}, NEW j \in Nat \ {0}, OnCard(i, c, x, y), OnCard(j, c, x, y)
  PROVE  i = j
<1> DEFINE span      == Usable - Gap * (c - 1)
           column(k) == (k - 1) % c
           row(k)    == (k - 1) \div c
           right(k)  == c * (x - Margin - column(k) * Gap) - column(k) * span
           below(k)  == y - (Margin + 126) - row(k) * (CardHeight + Gap)
<1>1. Gap \in Nat \ {0} /\ Usable \in Int BY SameColumns
<1>2. \A k \in {i, j} : /\ 0 <= right(k) /\ right(k) < span
                        /\ 0 <= below(k) /\ below(k) < CardHeight
  BY DEF OnCard
<1>3. \A k \in {i, j} : column(k) \in Nat /\ row(k) \in Nat OBVIOUS
<1>4. CardHeight \in Nat BY DEF CardHeight
<1>5. span \in Int BY <1>1
<1>6. row(i) = row(j)
  <2>1. PICK p \in Nat : p = CardHeight + Gap BY <1>1, <1>4
  <2>2. PICK z \in Int : z = y - (Margin + 126) BY DEF Margin
  <2>3. CardHeight <= p BY <1>1, <1>4, <2>1
  <2>4. \A k \in {i, j} : 0 <= z - row(k) * p /\ z - row(k) * p < CardHeight BY <1>2, <2>1, <2>2
  <2>5. row(i) \in Int /\ row(j) \in Int /\ CardHeight \in Int BY <1>3, <1>4
  <2> HIDE DEF row
  <2>6. /\ 0 <= z - row(i) * p /\ z - row(i) * p < CardHeight
        /\ 0 <= z - row(j) * p /\ z - row(j) * p < CardHeight
    BY <2>4
  <2> QED BY <2>3, <2>5, <2>6, SameInterval
<1>7. column(i) = column(j)
  <2>1. span \in Nat
    <3>1. x - Margin \in Int /\ Gap \in Int BY <1>1 DEF Margin
    <3>2. column(i) \in Int BY <1>3
    <3> HIDE DEF column, span
    <3>3. right(i) \in Int BY <1>5, <3>1, <3>2
    <3> HIDE DEF right
    <3> QED BY <1>2, <1>5, <3>3
  <2>2. PICK p \in Nat : p = c * Gap + span BY <1>1, <2>1
  <2>3. span <= p BY <1>1, <2>1, <2>2
  <2>4. PICK z \in Int : z = c * (x - Margin) BY DEF Margin
  <2>5. \A k \in {i, j} : right(k) = z - column(k) * p
    <3>1. PICK m \in Int : m = x - Margin BY DEF Margin
    <3>2. ASSUME NEW n \in Nat, NEW g \in Nat, NEW s \in Nat
          PROVE  c * (m - n * g) - n * s = c * m - n * (c * g + s)
      OBVIOUS
    <3> HIDE DEF column, span
    <3> QED BY <1>1, <1>3, <2>1, <2>2, <2>4, <3>1, <3>2
  <2>6. \A k \in {i, j} : 0 <= z - column(k) * p /\ z - column(k) * p < span BY <1>2, <2>5
  <2>7. column(i) \in Int /\ column(j) \in Int /\ span \in Int BY <1>3, <2>1
  <2> HIDE DEF column, span, right
  <2>8. /\ 0 <= z - column(i) * p /\ z - column(i) * p < span
        /\ 0 <= z - column(j) * p /\ z - column(j) * p < span
    BY <2>6
  <2> QED BY <2>3, <2>7, <2>8, SameInterval
<1>8. i - 1 \in Nat /\ j - 1 \in Nat OBVIOUS
<1>9. i - 1 = j - 1 BY <1>6, <1>7, <1>8, DivideAgain
<1> QED BY <1>9

\* At no place are there two cards, and a press takes the card that is drawn
\* there (on_ui_button_press and render_ui_scene_to_cairo).
THEOREM PressAlwaysTakesDrawnCard == Spec => []PressTakesDrawnCard
<1>1. ASSUME PlaceInv PROVE PressTakesDrawnCard
  <2> SUFFICES ASSUME NEW x \in Xs, NEW y \in Ys
               PROVE  /\ \A i, j \in DrawnAt(x, y) : i = j
                      /\ PressTargets(x, y) =
                           IF \E i \in DrawnAt(x, y) : widgets[i].kind # "label"
                             THEN DrawnAt(x, y)
                             ELSE {0}
    BY DEF PressTakesDrawnCard
  <2>1. x \in Int /\ y \in Int BY PointerAssumption
  <2>2. DrawnColumns = PressColumns /\ DrawnColumns \in Nat \ {0} BY <1>1, SameColumns
  <2>3. \A i \in DrawnAt(x, y) : i \in DOMAIN widgets /\ i \in Nat \ {0}
                                 /\ OnCard(i, DrawnColumns, x, y)
    BY <1>1 DEF DrawnAt, PlaceInv
  <2>4. \A i, j \in DrawnAt(x, y) : i = j BY <1>1, <2>1, <2>2, <2>3, CardsApart
  <2> DEFINE here == {i \in DOMAIN widgets : /\ widgets[i].kind # "label"
                                             /\ OnCard(i, PressColumns, x, y)}
  <2>5. here = {i \in DrawnAt(x, y) : widgets[i].kind # "label"} BY <2>2 DEF DrawnAt
  <2>6. PressTargets(x, y) = IF here = {} THEN {0} ELSE First(here) BY DEF PressTargets
  <2> HIDE DEF here
  <2>7. CASE here = {} BY <2>4, <2>5, <2>6, <2>7
  <2>8. CASE here # {}
    <3>1. here = DrawnAt(x, y) BY <2>4, <2>5, <2>8
    <3>2. First(here) = here BY <2>3, <2>4, <3>1 DEF First
    <3> QED BY <2>4, <2>5, <2>6, <2>8, <3>1, <3>2
  <2> QED BY <2>7, <2>8
<1>2. Init => IInv /\ PlaceInv BY InitInv, PlaceInit
<1>3. IInv /\ PlaceInv /\ [Next]_vars => IInv' /\ PlaceInv' BY StepInv, PlaceStep
<1> QED BY <1>1, <1>2, <1>3, PTL DEF Spec
=============================================================================
