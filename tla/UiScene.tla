------------------------------ MODULE UiScene -------------------------------
(***************************************************************************)
(* The graphical user interface of src/nanlang_cpp.cpp: parse_ui_scene     *)
(* reads the ui directives of a source line by line, and the window then   *)
(* answers mouse events on the cards the widgets are drawn as.             *)
(*                                                                         *)
(* Coordinates are pixels.  The texts, colours and the drawing itself are  *)
(* left out, but not the places the cards are drawn at and which card is   *)
(* drawn as held down.                                                     *)
(***************************************************************************)
EXTENDS Integers, Sequences

CONSTANTS
  Scenes,     \* sources: sequences of directives, see the parser's actions
  Widths,     \* widths the window may be given
  Xs, Ys,     \* places the pointer may be at
  Buttons     \* mouse buttons; 1 is the left one

Kinds   == {"label", "button", "slider"}
Widgets == [kind : Kinds, id : Int, min : Int, max : Int, current : Int]
NoId    == -1

ASSUME ScenesAssumption ==
  \A s \in Scenes :
    /\ Len(s) \in Nat /\ DOMAIN s = 1 .. Len(s)
    /\ \A k \in DOMAIN s :
         /\ s[k].kind \in Kinds => s[k] \in Widgets
         /\ s[k].kind = "window" => s[k].width \in Int /\ s[k].height \in Int
         /\ s[k].kind = "layout" => s[k].horizontal \in BOOLEAN /\ s[k].spacing \in Int
         /\ s[k].kind = "chartPoint" => s[k].index \in Int /\ s[k].value \in Int

ASSUME PointerAssumption == Xs \subseteq Nat /\ Ys \subseteq Nat /\ Widths \subseteq Nat

VARIABLES
  phase,      \* "parse", "refused", "shown" or "closed"
  scene, at,  \* the source and the line the parser is at
  hasUi,      \* saw_ui: some line was a ui directive
  window,     \* [width, height] asked for
  layout,     \* [horizontal, spacing]
  widgets,    \* the widgets, in the order of their lines
  chart,      \* [present, values]
  notes,      \* the lines a warning is noted for
  width,      \* width of the window on the screen
  dragging,   \* dragging_slider_id
  clicked,    \* clicked_button_id
  lastX,      \* last_mouse_x; last_mouse_y is never read
  clicks,     \* the button that the last event reported as clicked, or none
  down,       \* the left button is held down (the user)
  pressed     \* what the left button last went down on: an index, or 0

parserVars == <<scene, at, hasUi, window, layout, widgets, chart, notes>>
heldVars   == <<dragging, clicked, lastX>>
userVars   == <<down, pressed>>
vars == <<phase, parserVars, heldVars, userVars, width, clicks>>


------------------------------------------------------------------------------
\* parse_ui_scene

Init ==
  /\ phase = "parse"
  /\ scene \in Scenes /\ at = 1
  /\ hasUi = FALSE
  /\ window = [width |-> 1280, height |-> 720]
  /\ layout = [horizontal |-> FALSE, spacing |-> 12]
  /\ widgets = <<>>
  /\ chart = [present |-> FALSE, values |-> <<>>]
  /\ notes = {}
  /\ width = 0
  /\ dragging = NoId /\ clicked = NoId /\ lastX = -1
  /\ clicks = NoId
  /\ down = FALSE /\ pressed = 0

line == scene[at]

\* The parser moves on from a line of one of the kinds.
AtLine(kinds) ==
  /\ phase = "parse" /\ at <= Len(scene) /\ line.kind \in kinds
  /\ at' = at + 1
  /\ UNCHANGED <<phase, scene, width, heldVars, userVars, clicks>>

\* Statements of the language, braces, comments and the magic line.
ParseOther ==
  /\ AtLine({"other"})
  /\ UNCHANGED <<hasUi, window, layout, widgets, chart, notes>>

\* A string that is not closed, or ui alone: noted, and not counted as ui.
ParseMalformed ==
  /\ AtLine({"malformed"})
  /\ notes' = notes \cup {at}
  /\ UNCHANGED <<hasUi, window, layout, widgets, chart>>

\* A directive that misses arguments or is unknown, or a widget with a word for
\* a number.
ParseRejected ==
  /\ AtLine({"rejected"})
  /\ hasUi' = TRUE
  /\ notes' = notes \cup {at}
  /\ UNCHANGED <<window, layout, widgets, chart>>

\* app, title, frame, and chart commit, which only shows the chart.  So are a
\* window, layout or chart point with a word for a number: passed over silently.
ParseMark ==
  /\ AtLine({"mark", "chartCommit"})
  /\ hasUi' = TRUE
  /\ chart' = IF line.kind = "chartCommit" THEN [chart EXCEPT !.present = TRUE] ELSE chart
  /\ UNCHANGED <<window, layout, widgets, notes>>

Max2(a, b) == IF a >= b THEN a ELSE b
Min2(a, b) == IF a <= b THEN a ELSE b

ParseWindow ==
  /\ AtLine({"window"})
  /\ hasUi' = TRUE
  /\ window' = [width |-> Max2(320, line.width), height |-> Max2(240, line.height)]
  /\ UNCHANGED <<layout, widgets, chart, notes>>

ParseLayout ==
  /\ AtLine({"layout"})
  /\ hasUi' = TRUE
  /\ layout' = [horizontal |-> line.horizontal, spacing |-> line.spacing]
  /\ UNCHANGED <<window, widgets, chart, notes>>

ParseWidget ==
  /\ AtLine(Kinds)
  /\ hasUi' = TRUE
  /\ widgets' = Append(widgets, line)
  /\ UNCHANGED <<window, layout, chart, notes>>

\* chart begin forgets the points of the chart before.
ParseChartBegin ==
  /\ AtLine({"chartBegin"})
  /\ hasUi' = TRUE
  /\ chart' = [present |-> TRUE, values |-> <<>>]
  /\ UNCHANGED <<window, layout, widgets, notes>>

\* Mutant of Plotted: the points before the new one are not filled up.
PlottedPushed(values, index, value) == Append(values, value)

\* values.resize(index + 1, 0) when needed, then values[index] = value.
\* Indices below 0 count as 0.
Plotted(values, index, value) ==
  LET i == Max2(0, index) + 1
  IN [k \in 1 .. Max2(Len(values), i) |->
        IF k = i THEN value ELSE IF k <= Len(values) THEN values[k] ELSE 0]

ParseChartPoint ==
  /\ AtLine({"chartPoint"})
  /\ hasUi' = TRUE
  /\ chart' = [present |-> TRUE, values |-> Plotted(chart.values, line.index, line.value)]
  /\ UNCHANGED <<window, layout, widgets, notes>>

ParseLine ==
  \/ ParseOther \/ ParseMalformed \/ ParseRejected \/ ParseMark \/ ParseWindow
  \/ ParseLayout \/ ParseWidget \/ ParseChartBegin \/ ParseChartPoint

\* A source without a ui directive is refused; the window takes the width
\* asked for.
ParseEnd ==
  /\ phase = "parse" /\ at > Len(scene)
  /\ phase' = IF hasUi THEN "shown" ELSE "refused"
  /\ width' = window.width
  /\ UNCHANGED <<parserVars, heldVars, userVars, clicks>>

------------------------------------------------------------------------------
\* Where the cards are: columns, and the card of each widget.  Divisions that
\* the code does in floating point are multiplied out.

Margin == 24
Gap    == Max2(8, layout.spacing)
Usable == width - 2 * Margin
CardHeight == IF layout.horizontal THEN 154 ELSE 92

\* Mutant of PressColumns: the gap between two cards forgotten.
PressColumnsNoGap ==
  Max2(1, Min2(Len(widgets), IF layout.horizontal THEN Usable \div 270 ELSE 1))

\* render_ui_scene_to_cairo and on_ui_button_press each count the columns.
DrawnColumns ==
  IF layout.horizontal /\ widgets # <<>>
    THEN Max2(1, Min2(Max2(1, (Usable + Gap) \div (270 + Gap)), Len(widgets)))
    ELSE 1

PressColumns ==
  Max2(1, Min2(Len(widgets),
               IF layout.horizontal THEN Max2(1, (Usable + Gap) \div (270 + Gap)) ELSE 1))

\* The card of widget i, when there are that many columns, covers the place.
\* A card is (Usable - Gap * (columns - 1)) / columns wide.
OnCard(i, columns, x, y) ==
  LET column == (i - 1) % columns
      row    == (i - 1) \div columns
      span   == Usable - Gap * (columns - 1)
      right  == columns * (x - Margin - column * Gap) - column * span
      below  == y - (Margin + 126) - row * (CardHeight + Gap)
  IN /\ 0 <= right /\ right < span
     /\ 0 <= below /\ below < CardHeight

\* The cards that are drawn at a place, and those drawn as held down.
DrawnAt(x, y) == {i \in DOMAIN widgets : OnCard(i, DrawnColumns, x, y)}
DrawnHeld     == {i \in DOMAIN widgets : widgets[i].id \in {dragging, clicked}}

\* The first of some widgets, as a set; empty when there are none.
First(indices) == {i \in indices : \A j \in indices : i <= j}

\* The first slider or button at the place, 0 when there is none.
PressTargets(x, y) ==
  LET here == {i \in DOMAIN widgets : /\ widgets[i].kind # "label"
                                      /\ OnCard(i, PressColumns, x, y)}
  IN IF here = {} THEN {0} ELSE First(here)

------------------------------------------------------------------------------
\* The mouse.  Between a press and its release GTK sends all events of the
\* pointer to the window, so the release is never lost; the extra press event
\* of a double click repeats the press at the same place.

Shown == phase = "shown"

\* Buttons other than the left one are ignored.
OtherButton ==
  /\ Shown /\ \E b \in Buttons : b # 1
  /\ clicks' = NoId
  /\ UNCHANGED <<phase, parserVars, heldVars, userVars, width>>

Press(x, target) ==
  LET isSlider == target # 0 /\ widgets[target].kind = "slider"
      isButton == target # 0 /\ widgets[target].kind = "button"
  IN /\ Shown /\ 1 \in Buttons /\ ~down
     /\ lastX' = x
     /\ dragging' = IF isSlider THEN widgets[target].id ELSE dragging
     /\ clicked' = IF isButton THEN widgets[target].id ELSE clicked
     /\ clicks' = NoId
     /\ down' = TRUE /\ pressed' = target
     /\ UNCHANGED <<phase, parserVars, width>>

\* Mutant of Release: a button that was reported stays pressed.
ReleaseKeepsClicked ==
  /\ Shown /\ down
  /\ dragging' = NoId
  /\ clicked' = clicked
  /\ clicks' = IF dragging >= 0 THEN NoId ELSE clicked
  /\ down' = FALSE /\ pressed' = 0
  /\ UNCHANGED <<phase, parserVars, lastX, width>>

\* A drag ends first; a button is reported when there was no drag.
Release ==
  /\ Shown /\ down
  /\ IF dragging >= 0
       THEN dragging' = NoId /\ clicks' = NoId /\ UNCHANGED clicked
       ELSE /\ clicked >= 0 => clicked' = NoId /\ clicks' = clicked
            /\ clicked < 0 => clicks' = NoId /\ UNCHANGED clicked
            /\ UNCHANGED dragging
  /\ down' = FALSE /\ pressed' = 0
  /\ UNCHANGED <<phase, parserVars, lastX, width>>

\* static_cast<int>(delta * 0.5)
Half(delta) == IF delta >= 0 THEN delta \div 2 ELSE -((-delta) \div 2)

\* Mutant of Clamp: the lower bound is forgotten.
ClampAbove(v, low, high) == IF high < v THEN high ELSE v

Clamp(v, low, high) == IF v < low THEN low ELSE IF high < v THEN high ELSE v

\* The sliders of that number; the first one moves.
Dragged == {i \in DOMAIN widgets : widgets[i].kind = "slider" /\ widgets[i].id = dragging}

Motion(x) ==
  /\ Shown
  /\ lastX' = x
  /\ \/ /\ dragging < 0 \/ Dragged = {}
        /\ UNCHANGED widgets
     \/ /\ dragging >= 0
        /\ \E i \in First(Dragged) :
             LET w == widgets[i]
             IN widgets' = [widgets EXCEPT ![i].current =
                              Clamp(w.current + Half(x - lastX), w.min, w.max)]
  /\ clicks' = NoId
  /\ UNCHANGED <<phase, scene, at, hasUi, window, layout, chart, notes, dragging,
                 clicked, userVars, width>>

Resize(w) ==
  /\ Shown
  /\ width' = w
  /\ clicks' = NoId
  /\ UNCHANGED <<phase, parserVars, heldVars, userVars>>

\* The window is closed and the notes are printed.
Close ==
  /\ Shown
  /\ phase' = "closed"
  /\ clicks' = NoId
  /\ UNCHANGED <<parserVars, heldVars, userVars, width>>

Next ==
  \/ ParseLine \/ ParseEnd
  \/ OtherButton
  \/ \E x \in Xs, y \in Ys : \E target \in PressTargets(x, y) : Press(x, target)
  \/ Release
  \/ \E x \in Xs : Motion(x)
  \/ \E w \in Widths : Resize(w)
  \/ Close

Spec == Init /\ [][Next]_vars

------------------------------------------------------------------------------
\* Properties

\* Each widget has a number of its own, not below 0, as the examples and
\* docs/NAN_GRAPHICS.md give them: the handlers tell widgets apart by it.
DistinctIds ==
  \A i, j \in DOMAIN widgets :
    widgets[i].id >= 0 /\ (widgets[i].id = widgets[j].id => i = j)

\* The chart that is drawn has, at every index, the last value plotted there
\* since the chart was begun, 0 where there was none, up to the largest index.
ChartIsWhatWasPlotted ==
  LET begins == {k \in 1 .. at - 1 : scene[k].kind = "chartBegin"}
      points == {k \in 1 .. at - 1 : /\ scene[k].kind = "chartPoint"
                                     /\ \A b \in begins : b < k}
      places(k) == Max2(0, scene[k].index) + 1
  IN /\ \A i \in DOMAIN chart.values :
          LET here == {k \in points : places(k) = i}
          IN chart.values[i] =
               IF here = {} THEN 0
               ELSE scene[CHOOSE k \in here : \A j \in here : j <= k].value
     /\ \A k \in points : places(k) \in DOMAIN chart.values
     /\ chart.values # <<>> => \E k \in points : places(k) = Len(chart.values)

\* At no place do two cards overlap, and what a press there takes is the card
\* that is drawn there, however wide the window is.
PressTakesDrawnCard ==
  Shown =>
    \A x \in Xs, y \in Ys :
      /\ \A i, j \in DrawnAt(x, y) : i = j
      /\ PressTargets(x, y) =
           IF \E i \in DrawnAt(x, y) : widgets[i].kind # "label"
             THEN DrawnAt(x, y)
             ELSE {0}

\* Exactly the widget that the left button went down on is drawn as held down,
\* and none when the button is up: no order of events leaves one stuck.
HeldIsPressed ==
  DistinctIds => DrawnHeld = {pressed} \ {0}

\* A release reports the button it went down on, and only that.
ReleaseReportsPressed ==
  [][down /\ ~down' /\ DistinctIds =>
       clicks' = IF pressed # 0 /\ widgets[pressed].kind = "button"
                   THEN widgets[pressed].id ELSE NoId]_vars

\* Once the window is shown nothing changes but the value of the slider that is
\* held down, and what a motion gives it is within its bounds.
OnlyPressedSliderMoves ==
  [][Shown /\ widgets' # widgets /\ DistinctIds =>
       /\ down /\ pressed # 0 /\ widgets[pressed].kind = "slider"
       /\ widgets' = [widgets EXCEPT ![pressed].current = widgets'[pressed].current]
       /\ LET w == widgets'[pressed]
          IN w.min <= w.max => w.min <= w.current /\ w.current <= w.max]_vars
=============================================================================
