------------------------------ MODULE MCUiScene ------------------------------
(***************************************************************************)
(* Instance of UiScene for TLC: short orders of the lines below; a window  *)
(* just too narrow for two columns and one with two; places on two cards,  *)
(* on the border of one and between two.                                   *)
(***************************************************************************)
EXTENDS UiScene

Widget(kind, id) == [kind |-> kind, id |-> id, min |-> 0, max |-> 100, current |-> 0]
Slider(id, low, high, now) ==
  [kind |-> "slider", id |-> id, min |-> low, max |-> high, current |-> now]

Layouts == [kind : {"layout"}, horizontal : BOOLEAN, spacing : {0, 12}]

WidgetLines == {Widget("label", 0), Widget("button", 1), Widget("button", 2),
                Slider(3, 0, 4, 2), Slider(4, -1, 1, 5)}

OtherLines == {[kind |-> k] : k \in {"other", "malformed", "rejected", "mark", "chartCommit"}}
              \cup {[kind |-> "window", width |-> w, height |-> 100] : w \in {100, 700}}

ChartLines == {[kind |-> "chartBegin"]}
              \cup [kind : {"chartPoint"}, index : {-1, 0, 2}, value : {7, 8}]

MCScenes ==
  {<<l, a, b, c>> : l \in Layouts, a \in WidgetLines, b \in WidgetLines, c \in WidgetLines}
  \cup {<<a, b>> : a \in OtherLines, b \in OtherLines \cup WidgetLines \cup ChartLines}
  \cup {<<>>}
  \cup {<<a, b, c, d>> : a \in ChartLines, b \in ChartLines, c \in ChartLines, d \in ChartLines}

MCWidths == {596, 700}
MCXs == {30, 33, 346, 360}
MCYs == {160, 246, 260}
=============================================================================
