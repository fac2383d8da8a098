----------------------------- MODULE LegacySource -----------------------------
(***************************************************************************)
(* The lines of a source as the version 3 compilers that are still in      *)
(* src/nanlang_cpp.cpp tell them apart, and what each of the two makes of  *)
(* a line.  compile_native_source and compile_source are no longer called  *)
(* from main.                                                              *)
(*                                                                         *)
(* A line is a record with a kind:                                         *)
(*   "skip"    declarations, braces, if, loop, return, comments, NAN3, and *)
(*             statements nobody knows: a warning at most                  *)
(*   "say"     with a text, a sequence of bytes                            *)
(*   "signal"  pulse or emit, with its port and a signal                   *)
(*   "broken"  a say without a closed string, a pulse or emit of a signal  *)
(*             that is none                                                *)
(*   "halt"                                                                *)
(*   "mmio"    @addr = value, with both numbers                            *)
(*   "at"      another line that begins with @, @macro and @nan_magic too  *)
(*   "ui"      with its form and the tokens given to it                    *)
(*                                                                         *)
(* What is written is a sequence of messages, and a message a sequence of  *)
(* cells: a byte of a text, or a whole log line as one cell.               *)
(***************************************************************************)
EXTENDS Integers, Sequences, SequencesExt

PULSE_PORT == 16
EMIT_PORT  == 17
Word       == -1000    \* a token of a ui directive that is not a number

\* The numbers a directive of a form takes, and the texts after them.
UiNumbers == [appBegin |-> 0, appEnd |-> 0, windowCreate |-> 3, windowTitle |-> 1,
              layout |-> 2, label |-> 2, button |-> 2, slider |-> 5,
              chartBegin |-> 3, chartPoint |-> 3, chartCommit |-> 1, framePresent |-> 1]

\* The lines; addresses and values are what stoul makes of a token.
Lines ==
  [kind : {"skip", "broken", "halt", "at"}]
    \cup [kind : {"say"}, text : Seq(0 .. 255)]
    \cup [kind : {"signal"}, port : {PULSE_PORT, EMIT_PORT}, signal : 0 .. 255]
    \cup [kind : {"mmio"}, addr : Nat, value : Nat]
    \cup [kind : {"ui"}, form : DOMAIN UiNumbers, given : Seq(Int)]

Newline == <<"byte", 10>>

SayMessage(text) == Append([i \in DOMAIN text |-> <<"byte", text[i]>>], Newline)
SignalMessage(port, signal) ==
  <<<<IF port = PULSE_PORT THEN "pulse" ELSE "emit", signal>>, Newline>>
LogMessage(what, k) == <<<<what, k>>, Newline>>     \* of line k

------------------------------------------------------------------------------
\* handle_ui_directive

\* The texts a directive of a form takes after its numbers.
UiTexts(form) == IF form \in {"windowTitle", "label", "button"} THEN 1 ELSE 0

\* Not malformed, and its numbers are numbers.
UiAccepted(line) ==
  /\ Len(line.given) >= UiNumbers[line.form] + UiTexts(line.form)
  /\ \A i \in 1 .. UiNumbers[line.form] : line.given[i] # Word

\* The signal logged with a directive: an open window, samples to come.
UiSignals(line) ==
  CASE line.form \in {"appBegin", "framePresent"} -> <<1>>
    [] line.form = "appEnd"       -> <<0>>
    [] line.form = "windowCreate" -> <<IF line.given[2] > 0 /\ line.given[3] > 0 THEN 1 ELSE 0>>
    [] line.form = "chartBegin"   -> <<IF line.given[3] > 0 THEN 1 ELSE 0>>
    [] OTHER -> <<>>

UiMessages(line, k) ==
  IF ~UiAccepted(line) THEN <<>>
  ELSE <<LogMessage("ui", k)>>
         \o FlattenSeq([i \in DOMAIN UiSignals(line) |->
              <<SignalMessage(PULSE_PORT, UiSignals(line)[i]),
                SignalMessage(EMIT_PORT, UiSignals(line)[i])>>])

------------------------------------------------------------------------------
\* What a source is meant to print

\* No line is broken, and none has a meaning of its own in one of the two
\* compilers; nothing is printed after a halt.
Plain(s) ==
  /\ \A k \in DOMAIN s : s[k].kind \in {"skip", "say", "signal", "halt"}
  /\ \A j, k \in DOMAIN s : s[j].kind = "halt" /\ s[k].kind \in {"say", "signal"} => k < j

LineMessages(line) ==
  CASE line.kind = "say"    -> <<SayMessage(line.text)>>
    [] line.kind = "signal" -> <<SignalMessage(line.port, line.signal)>>
    [] OTHER -> <<>>

PlainScript(s) == FlattenSeq([k \in DOMAIN s |-> LineMessages(s[k])])

\* What the native emitter makes of any source: it writes a log line for what
\* it cannot do, and goes on after a halt.
NativeMessages(s, k) ==
  CASE s[k].kind \in {"mmio", "at"} -> <<LogMessage("mmio", k)>>
    [] s[k].kind = "ui" -> UiMessages(s[k], k)
    [] OTHER -> LineMessages(s[k])

NativeScript(s) == FlattenSeq([k \in DOMAIN s |-> NativeMessages(s, k)])

\* What the bytecode machine makes of any source: a store to one of the two
\* ports is a signal, one to another address is silent, and a halt ends it.
Reached(s, k) == \A j \in 1 .. k - 1 : s[j].kind # "halt"

BytecodeMessages(s, k) ==
  IF ~Reached(s, k) THEN <<>>
  ELSE IF s[k].kind = "mmio" /\ s[k].addr \in {PULSE_PORT, EMIT_PORT}
         THEN <<SignalMessage(s[k].addr, s[k].value)>>
         ELSE LineMessages(s[k])

BytecodeScript(s) == FlattenSeq([k \in DOMAIN s |-> BytecodeMessages(s, k)])
===============================================================================
