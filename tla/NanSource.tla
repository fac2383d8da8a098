------------------------------ MODULE NanSource ------------------------------
(***************************************************************************)
(* The lines of a NanLang source as the version 4 compiler tells them      *)
(* apart, and what the language says a program made of them prints.        *)
(*                                                                         *)
(* A line is a record of these fields:                                     *)
(*   kind   "say"    say "text";                                           *)
(*          "halt"   halt;                                                 *)
(*          "match"  match value {          (value NoValue: the { is not   *)
(*                                           on the line)                  *)
(*          "arm"    value => action        (value Wildcard: _ )           *)
(*          "close"  }                                                     *)
(*          "other"  let, fn, const, on, pulse, emit, comments, blanks, a  *)
(*                   say without a quoted text                             *)
(*   value  of a match or an arm, else NoValue                             *)
(*   text   the text a say line or a say action prints, else NoText        *)
(*   arrow  whether the line contains =>, which every arm does             *)
(*   stops  whether an arm's action is halt                                *)
(***************************************************************************)
EXTENDS Naturals, Sequences

CONSTANTS
  Texts,      \* the texts to print
  NoText,
  Values,     \* the values and patterns of match
  Wildcard,   \* the pattern _
  NoValue     \* no value: the initial current_match_val, the empty string

ASSUME TextAssumption  == NoText \notin Texts
ASSUME ValueAssumption == /\ Wildcard \notin Values
                          /\ NoValue \notin Values
                          /\ Wildcard # NoValue

Line(kind, value, text, arrow, stops) ==
  [kind |-> kind, value |-> value, text |-> text, arrow |-> arrow, stops |-> stops]

Say(t)        == Line("say", NoValue, t, FALSE, FALSE)
SayArrow(t)   == Line("say", NoValue, t, TRUE, FALSE)   \* => within the text
Halt          == Line("halt", NoValue, NoText, FALSE, FALSE)
Match(v)      == Line("match", v, NoText, FALSE, FALSE)
ArmSay(p, t)  == Line("arm", p, t, TRUE, FALSE)
ArmHalt(p)    == Line("arm", p, NoText, TRUE, TRUE)
ArmOther(p)   == Line("arm", p, NoText, TRUE, FALSE)
Close         == Line("close", NoValue, NoText, FALSE, FALSE)
Other         == Line("other", NoValue, NoText, FALSE, FALSE)

Patterns == Values \cup {Wildcard}

AllLines ==
  {Say(t) : t \in Texts} \cup {SayArrow(t) : t \in Texts} \cup {Halt, Close, Other}
    \cup {Match(v) : v \in Values \cup {NoValue}}
    \cup {ArmSay(p, t) : p \in Patterns, t \in Texts}
    \cup {ArmHalt(p) : p \in Patterns} \cup {ArmOther(p) : p \in Patterns}

------------------------------------------------------------------------------
\* Meaning of a source s, line by line

\* Line i opens a match, with its value and brace on the line.
SetsValue(s, i) == s[i].kind = "match" /\ s[i].value # NoValue

\* v is the value of the match that line i belongs to.
InForce(s, i, v) ==
  \/ \E j \in 1 .. i - 1 :
       /\ SetsValue(s, j) /\ s[j].value = v
       /\ \A k \in j + 1 .. i - 1 : ~SetsValue(s, k)
  \/ v = NoValue /\ \A k \in 1 .. i - 1 : ~SetsValue(s, k)

\* Line i is an arm whose pattern fits.
Fits(s, i) ==
  /\ s[i].kind = "arm"
  /\ s[i].value = Wildcard \/ InForce(s, i, s[i].value)

\* An arm before line i fits, and no match was opened after it.
ArmTakenBefore(s, i) ==
  \E j \in 1 .. i - 1 :
    /\ Fits(s, j)
    /\ \A k \in j + 1 .. i - 1 : s[k].kind # "match"

\* Line i is the arm its match takes: the first one that fits.
Taken(s, i) == Fits(s, i) /\ ~ArmTakenBefore(s, i)

\* "Print string to stdout" (docs/README.md, keyword say).
Prints(s, i) ==
  \/ s[i].kind = "say"
  \/ Taken(s, i) /\ s[i].text # NoText

\* "halt terminates execution immediately, regardless of where it appears in
\* the code" (docs/LEARNING.md, section 9.3).
Stops(s, i) ==
  \/ s[i].kind = "halt"
  \/ Taken(s, i) /\ s[i].stops

\* Line i is reached, and prints.
Shown(s, i) == (\A j \in 1 .. i - 1 : ~Stops(s, j)) /\ Prints(s, i)

\* The texts the program prints, in order, up to each line.
Printed(s) ==
  LET upTo[i \in 0 .. Len(s)] ==
        IF i = 0 THEN <<>>
        ELSE IF Shown(s, i) THEN Append(upTo[i - 1], s[i].text) ELSE upTo[i - 1]
  IN  upTo

Meaning(s) == Printed(s)[Len(s)]

\* No line is of the two forms whose meaning the compiler loses: a text with an
\* arrow in it, and an arm that halts.
Plain(s) == \A i \in 1 .. Len(s) : ~(s[i].kind = "say" /\ s[i].arrow) /\ ~s[i].stops

\* Arms stand between a match and its closing brace and nowhere else.
WellFormed(s) ==
  \A i \in 1 .. Len(s) :
    /\ s[i].kind \in {"arm", "close"} =>
         i > 1 /\ s[i - 1].kind \in {"match", "arm"}
    /\ s[i].kind \in {"match", "arm"} =>
         i < Len(s) /\ s[i + 1].kind \in {"arm", "close"}
    /\ s[i].kind = "match" => s[i].value # NoValue
==============================================================================
