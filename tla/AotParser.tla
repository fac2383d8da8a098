------------------------------ MODULE AotParser ------------------------------
(***************************************************************************)
(* Parser::parse of src/nan_aot_compiler.cpp: one step per source line.    *)
(* The loop turns the lines into the IR of the one function main; two      *)
(* flags that live across lines (static in the code) carry the match       *)
(* statement.                                                              *)
(***************************************************************************)
EXTENDS NanSource

CONSTANT Sources    \* the sources the compiler may be given
ASSUME SourcesAssumption == Sources \subseteq Seq(AllLines)

VARIABLES
  source,          \* lines_, read whole by the constructor
  lineNo,          \* the line the loop is at
  matchValue,      \* current_match_val
  matchResolved,   \* match_resolved
  ir,              \* the instructions of main's only block
  hasHalt,         \* has_halt
  parsed           \* "no", then "ok" or "failed": what parse returns

parserVars == <<source, lineNo, matchValue, matchResolved, ir, hasHalt, parsed>>

PRINT(t) == [op |-> "PRINT", text |-> t]
HALT     == [op |-> "HALT", text |-> NoText]
IRInstruction == {PRINT(t) : t \in Texts} \cup {HALT}

ParserTypeOK ==
  /\ source \in Sources
  /\ lineNo \in 1 .. Len(source) + 1
  /\ matchValue \in Values \cup {NoValue}
  /\ matchResolved \in BOOLEAN
  /\ ir \in Seq(IRInstruction)
  /\ hasHalt \in BOOLEAN
  /\ parsed \in {"no", "ok", "failed"}

ParserInit ==
  /\ source \in Sources
  /\ lineNo = 1
  /\ matchValue = NoValue
  /\ matchResolved = FALSE
  /\ ir = <<>>
  /\ hasHalt = FALSE
  /\ parsed = "no"

------------------------------------------------------------------------------
AtLine == parsed = "no" /\ lineNo <= Len(source)
line   == source[lineNo]

\* errors_.push_back("Empty source file"); return false;
ParseEmpty ==
  /\ parsed = "no"
  /\ source = <<>>
  /\ parsed' = "failed"
  /\ UNCHANGED <<source, lineNo, matchValue, matchResolved, ir, hasHalt>>

\* The tests on the first word that only skip the line.  A closing brace is
\* skipped here: the later test of it, which would reset match_resolved, is
\* never reached.
ParseSkipped ==
  /\ AtLine
  /\ line.kind \in {"other", "close"}
  /\ lineNo' = lineNo + 1
  /\ UNCHANGED <<source, matchValue, matchResolved, ir, hasHalt, parsed>>

\* Mutant of ParseMatch: a match does not clear the flag of the one before.
ParseMatchKeepsResolved ==
  /\ AtLine
  /\ line.kind = "match"
  /\ matchValue' = IF line.value = NoValue THEN matchValue ELSE line.value
  /\ lineNo' = lineNo + 1
  /\ UNCHANGED <<source, matchResolved, ir, hasHalt, parsed>>

\* A match line keeps the value of the previous one when it has no brace.
ParseMatch ==
  /\ AtLine
  /\ line.kind = "match"
  /\ matchResolved' = FALSE
  /\ matchValue' = IF line.value = NoValue THEN matchValue ELSE line.value
  /\ lineNo' = lineNo + 1
  /\ UNCHANGED <<source, ir, hasHalt, parsed>>

\* condition == current_match_val || condition == "_".  The condition is what
\* stands before the arrow; in a say line with an arrow in its text that is
\* the start of the say statement, which is no value.
ConditionHolds ==
  /\ line.kind = "arm"
  /\ line.value = Wildcard \/ line.value = matchValue

\* A line with an arrow that is passed over.
ParseArmPassed ==
  /\ AtLine
  /\ line.arrow
  /\ matchResolved \/ ~ConditionHolds
  /\ lineNo' = lineNo + 1
  /\ UNCHANGED <<source, matchValue, matchResolved, ir, hasHalt, parsed>>

\* Mutant of ParseArmTaken: the arm does not close its match.
ParseArmTakenLeavesOpen ==
  /\ AtLine
  /\ line.arrow
  /\ ~matchResolved /\ ConditionHolds
  /\ ir' = IF line.text = NoText THEN ir ELSE Append(ir, PRINT(line.text))
  /\ lineNo' = lineNo + 1
  /\ UNCHANGED <<source, matchValue, matchResolved, hasHalt, parsed>>

\* The arm taken: a say action goes on to the say test, any other is dropped.
ParseArmTaken ==
  /\ AtLine
  /\ line.arrow
  /\ ~matchResolved /\ ConditionHolds
  /\ matchResolved' = TRUE
  /\ ir' = IF line.text = NoText THEN ir ELSE Append(ir, PRINT(line.text))
  /\ lineNo' = lineNo + 1
  /\ UNCHANGED <<source, matchValue, hasHalt, parsed>>

ParseSay ==
  /\ AtLine
  /\ line.kind = "say" /\ ~line.arrow
  /\ ir' = Append(ir, PRINT(line.text))
  /\ lineNo' = lineNo + 1
  /\ UNCHANGED <<source, matchValue, matchResolved, hasHalt, parsed>>

ParseHalt ==
  /\ AtLine
  /\ line.kind = "halt"
  /\ ir' = Append(ir, HALT)
  /\ hasHalt' = TRUE
  /\ lineNo' = lineNo + 1
  /\ UNCHANGED <<source, matchValue, matchResolved, parsed>>

\* Mutant of ParseEnd: no halt is added.
ParseEndAddsNothing ==
  /\ parsed = "no"
  /\ source # <<>> /\ lineNo = Len(source) + 1
  /\ parsed' = "ok"
  /\ UNCHANGED <<source, lineNo, matchValue, matchResolved, ir, hasHalt>>

\* The end of the loop: an explicit halt is added when the source has none.
ParseEnd ==
  /\ parsed = "no"
  /\ source # <<>> /\ lineNo = Len(source) + 1
  /\ ir' = IF hasHalt THEN ir ELSE Append(ir, HALT)
  /\ parsed' = "ok"
  /\ UNCHANGED <<source, lineNo, matchValue, matchResolved, hasHalt>>

ParseLine ==
  \/ ParseSkipped \/ ParseMatch \/ ParseArmPassed \/ ParseArmTaken
  \/ ParseSay \/ ParseHalt

ParserNext == ParseEmpty \/ ParseLine \/ ParseEnd

ParserSpec == ParserInit /\ [][ParserNext]_parserVars

------------------------------------------------------------------------------
\* Properties

\* The two flags that outlive a line say what they are meant to: the value of
\* the match in force and whether an arm of the last match was taken, although
\* the closing brace resets neither.
MatchStateIsTrue ==
  /\ InForce(source, lineNo, matchValue)
  /\ matchResolved <=> ArmTakenBefore(source, lineNo)

\* What line i of the source means to the IR.
Meant(i) ==
  IF Stops(source, i) THEN <<HALT>>
  ELSE IF Prints(source, i) THEN <<PRINT(source[i].text)>> ELSE <<>>

\* Each line adds to the IR what it means and nothing else, whatever the
\* lines before it left in the flags.
LinesEmitTheirMeaning ==
  [][ParseLine => ir' = ir \o Meant(lineNo)]_parserVars

\* has_halt is the fact it stands for, so that a program always ends in exit
\* and never runs off its last instruction.
ParsedEndsInHalt ==
  parsed = "ok" => \E i \in 1 .. Len(ir) : ir[i] = HALT
==============================================================================
