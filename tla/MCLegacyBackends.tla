--------------------------- MODULE MCLegacyBackends ---------------------------
(***************************************************************************)
(* Instance of LegacyBackends for TLC: all sources of up to three of the   *)
(* lines below; a text whose length takes two bytes; every ui directive    *)
(* with its tokens, with one too few and with a word for a number.         *)
(***************************************************************************)
EXTENDS LegacyBackends

Say(t)    == [kind |-> "say", text |-> t]
Mmio(a, v) == [kind |-> "mmio", addr |-> a, value |-> v]
Signal(p, s) == [kind |-> "signal", port |-> p, signal |-> s]
Ui(f, g)  == [kind |-> "ui", form |-> f, given |-> g]

MCLines ==
  {Say(t) : t \in {<<>>, <<65>>, <<10, 0>>}}
  \cup {Signal(PULSE_PORT, 1), Signal(EMIT_PORT, 255)}
  \cup {[kind |-> k] : k \in {"skip", "broken", "halt", "at"}}
  \cup {Mmio(16, 4), Mmio(32, 2), Mmio(256, 1)}
  \cup {Ui("windowCreate", <<1, 640, 480>>)}

Enough(f) == UiNumbers[f] + UiTexts(f)
Tokens(f) ==
  {[i \in 1 .. Enough(f) |-> IF i > UiNumbers[f] THEN Word ELSE v] : v \in {0, 1}}
  \cup {[i \in 1 .. Enough(f) - 1 |-> 1], [i \in 1 .. Enough(f) |-> Word]}

MCSources ==
  {<<>>} \cup UNION {[1 .. n -> MCLines] : n \in 1 .. 3}
  \cup {<<Say([i \in 1 .. 258 |-> 2]), Say(<<65>>)>>}
  \cup {<<Ui(f, g)>> : f \in DOMAIN UiNumbers, g \in {<<>>}}
  \cup UNION {{<<Ui(f, g), Say(<<65>>)>> : g \in Tokens(f)} : f \in DOMAIN UiNumbers}
===============================================================================
