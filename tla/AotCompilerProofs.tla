-------------------------- MODULE AotCompilerProofs ---------------------------
(***************************************************************************)
(* The version 4 compiler and the programs it makes, for all texts and all *)
(* sources.                                                                *)
(*   parser    its two match flags always say what they are meant to, and  *)
(*             each line of a plain source adds its meaning to the IR      *)
(*             (ParserInv, HaltInv)                                        *)
(*   compiler  the program only runs the code generated for it, and when   *)
(*             no source is of the forms the parser loses, it prints what  *)
(*             the source means and exits (IInv, ScriptInv)                *)
(***************************************************************************)
EXTENDS AotCompiler, FiniteSetTheorems, SequenceTheorems, TLAPS

------------------------------------------------------------------------------
\* The parser

\* The lines that no arm takes part in: their fields are those of their kind.
LEMMA StatementFacts ==
  ASSUME NEW l \in AllLines, l.kind # "arm"
  PROVE  /\ l.kind \in {"say", "halt", "match", "close", "other"}
         /\ ~l.stops
         /\ l.arrow => l.kind = "say"
         /\ l.kind = "say" => l.text \in Texts
         /\ l.kind = "match" => l.value \in Values \cup {NoValue}
<1>1. CASE \E t \in Texts : l = Say(t) \/ l = SayArrow(t)
  BY <1>1 DEF Say, SayArrow, Line
<1>2. CASE l \in {Halt, Close, Other}
  BY <1>2 DEF Halt, Close, Other, Line
<1>3. CASE \E v \in Values \cup {NoValue} : l = Match(v)
  BY <1>3 DEF Match, Line
<1>4. CASE \E p \in Patterns : (\E t \in Texts : l = ArmSay(p, t)) \/ l = ArmHalt(p) \/ l = ArmOther(p)
  BY <1>4 DEF ArmSay, ArmHalt, ArmOther, Line
<1>. QED BY <1>1, <1>2, <1>3, <1>4 DEF AllLines

\* The lines that are arms: they have a pattern, and what they do is to print
\* a text, to halt, or nothing.
LEMMA ArmFacts ==
  ASSUME NEW l \in AllLines, l.kind = "arm"
  PROVE  /\ l.arrow
         /\ l.value \in Patterns
         /\ l.text \in Texts \cup {NoText}
         /\ l.stops => l.text = NoText
<1>1. CASE \E t \in Texts : l = Say(t) \/ l = SayArrow(t)
  BY <1>1 DEF Say, SayArrow, Line
<1>2. CASE l \in {Halt, Close, Other}
  BY <1>2 DEF Halt, Close, Other, Line
<1>3. CASE \E v \in Values \cup {NoValue} : l = Match(v)
  BY <1>3 DEF Match, Line
<1>4. CASE \E p \in Patterns : (\E t \in Texts : l = ArmSay(p, t)) \/ l = ArmHalt(p) \/ l = ArmOther(p)
  BY <1>4 DEF ArmSay, ArmHalt, ArmOther, Line
<1>. QED BY <1>1, <1>2, <1>3, <1>4 DEF AllLines

\* The inductive invariant of the parser.
ParserInv == ParserTypeOK /\ MatchStateIsTrue

\* Before the first line no match is in force and no arm was taken.
LEMMA InitParserInv == ParserInit => ParserInv
<1>. SUFFICES ASSUME ParserInit PROVE ParserInv
  OBVIOUS
<1>1. source \in Seq(AllLines)
  BY SourcesAssumption DEF ParserInit
<1>2. Len(source) \in Nat
  BY <1>1
<1>3. lineNo \in 1 .. Len(source) + 1
  BY <1>2 DEF ParserInit
<1>4. ParserTypeOK
  <2>1. ir \in Seq(IRInstruction)
    BY DEF ParserInit
  <2>2. source \in Sources /\ matchValue \in Values \cup {NoValue} /\ parsed \in {"no", "ok", "failed"}
    BY DEF ParserInit
  <2>3. matchResolved \in BOOLEAN /\ hasHalt \in BOOLEAN
    BY DEF ParserInit
  <2>. QED BY <1>3, <2>1, <2>2, <2>3 DEF ParserTypeOK
<1>5. MatchStateIsTrue
  BY DEF ParserInit, MatchStateIsTrue, InForce, ArmTakenBefore
<1>. QED BY <1>4, <1>5 DEF ParserInv

\* The line a step handles.
LEMMA LineAt ==
  ASSUME ParserTypeOK, AtLine
  PROVE  /\ line \in AllLines
         /\ line = source[lineNo]
         /\ lineNo \in 1 .. Len(source)
         /\ lineNo \in Nat
         /\ source \in Seq(AllLines)
         /\ lineNo + 1 \in 1 .. Len(source) + 1
  BY SourcesAssumption DEF ParserTypeOK, AtLine, line

\* Only one value can be in force at a line.
LEMMA InForceUnique ==
  ASSUME NEW s, NEW i \in Nat, NEW v, NEW w, InForce(s, i, v), InForce(s, i, w)
  PROVE  v = w
  BY DEF InForce, SetsValue

\* The test of an arm is the meaning of an arm that fits.
LEMMA ConditionIsFits ==
  ASSUME ParserInv, AtLine
  PROVE  ConditionHolds <=> Fits(source, lineNo)
  BY LineAt, InForceUnique DEF ParserInv, ParserTypeOK, MatchStateIsTrue, ConditionHolds, Fits, line

\* The value in force after a line is its own if it opens a match, else the
\* value that was in force at it.
LEMMA InForceNext ==
  ASSUME NEW s, NEW i \in Nat \ {0}, NEW v, InForce(s, i, v)
  PROVE  /\ SetsValue(s, i) => InForce(s, i + 1, s[i].value)
         /\ ~SetsValue(s, i) => InForce(s, i + 1, v)
<1>1. ASSUME SetsValue(s, i) PROVE InForce(s, i + 1, s[i].value)
  <2>1. i \in 1 .. (i + 1) - 1 /\ (i + 1) .. (i + 1) - 1 = {}
    OBVIOUS
  <2>. QED BY <1>1, <2>1 DEF InForce
<1>2. ASSUME ~SetsValue(s, i) PROVE InForce(s, i + 1, v)
  <2>1. CASE v = NoValue /\ \A k \in 1 .. i - 1 : ~SetsValue(s, k)
    <3>1. \A k \in 1 .. (i + 1) - 1 : ~SetsValue(s, k)
      BY <1>2, <2>1
    <3>. QED BY <2>1, <3>1 DEF InForce
  <2>2. ASSUME NEW j \in 1 .. i - 1, SetsValue(s, j), s[j].value = v,
               \A k \in j + 1 .. i - 1 : ~SetsValue(s, k)
        PROVE  InForce(s, i + 1, v)
    <3>1. j \in 1 .. (i + 1) - 1 /\ \A k \in j + 1 .. (i + 1) - 1 : ~SetsValue(s, k)
      BY <1>2, <2>2
    <3>. QED BY <2>2, <3>1 DEF InForce
  <2>. QED BY <2>1, <2>2 DEF InForce
<1>. QED BY <1>1, <1>2

\* An arm is taken after a line if the line opens no match and it is an arm
\* that fits, or one was taken before it.
LEMMA ArmTakenNext ==
  ASSUME NEW s, NEW i \in Nat \ {0}
  PROVE  ArmTakenBefore(s, i + 1) <=>
           s[i].kind # "match" /\ (Fits(s, i) \/ ArmTakenBefore(s, i))
<1>1. ASSUME ArmTakenBefore(s, i + 1)
      PROVE  s[i].kind # "match" /\ (Fits(s, i) \/ ArmTakenBefore(s, i))
  <2>1. PICK j \in 1 .. i : Fits(s, j) /\ \A k \in j + 1 .. i : s[k].kind # "match"
    BY <1>1 DEF ArmTakenBefore
  <2>2. CASE j = i
    BY <2>1, <2>2 DEF Fits
  <2>3. CASE j # i
    BY <2>1, <2>3 DEF ArmTakenBefore
  <2>. QED BY <2>2, <2>3
<1>2. ASSUME s[i].kind # "match", Fits(s, i) PROVE ArmTakenBefore(s, i + 1)
  <2>1. i \in 1 .. (i + 1) - 1 /\ (i + 1) .. (i + 1) - 1 = {}
    OBVIOUS
  <2>. QED BY <1>2, <2>1 DEF ArmTakenBefore
<1>3. ASSUME s[i].kind # "match", ArmTakenBefore(s, i) PROVE ArmTakenBefore(s, i + 1)
  <2>1. PICK j \in 1 .. i - 1 : Fits(s, j) /\ \A k \in j + 1 .. i - 1 : s[k].kind # "match"
    BY <1>3 DEF ArmTakenBefore
  <2>2. j \in 1 .. (i + 1) - 1 /\ \A k \in j + 1 .. (i + 1) - 1 : s[k].kind # "match"
    BY <1>3, <2>1
  <2>. QED BY <2>1, <2>2 DEF ArmTakenBefore
<1>. QED BY <1>1, <1>2, <1>3

\* A step on a line keeps the types.
LEMMA LineKeepsTypes ==
  ASSUME ParserTypeOK, ParseLine
  PROVE  ParserTypeOK'
<1>. USE DEF ParserTypeOK
<1>1. AtLine /\ source' = source /\ lineNo' = lineNo + 1 /\ parsed' = parsed
  BY DEF ParseLine, ParseSkipped, ParseMatch, ParseArmPassed, ParseArmTaken, ParseSay, ParseHalt
<1>2. lineNo' \in 1 .. Len(source') + 1
  BY <1>1, LineAt
<1>3. matchValue' \in Values \cup {NoValue}
  <2>1. CASE ParseMatch
    BY <1>1, <2>1, LineAt, StatementFacts DEF ParseMatch
  <2>2. CASE ~ParseMatch
    BY <2>2 DEF ParseLine, ParseSkipped, ParseArmPassed, ParseArmTaken, ParseSay, ParseHalt
  <2>. QED BY <2>1, <2>2
<1>4. matchResolved' \in BOOLEAN /\ hasHalt' \in BOOLEAN
  BY DEF ParseLine, ParseSkipped, ParseMatch, ParseArmPassed, ParseArmTaken, ParseSay, ParseHalt
<1>5. ir' \in Seq(IRInstruction)
  <2>1. ASSUME NEW t \in Texts PROVE Append(ir, PRINT(t)) \in Seq(IRInstruction)
    BY AppendProperties DEF IRInstruction
  <2>2. CASE ParseArmTaken
    <3>1. line.kind = "arm" /\ line \in AllLines
      BY <1>1, <2>2, LineAt DEF ParseArmTaken, ConditionHolds
    <3>2. line.text \in Texts \cup {NoText}
      BY <3>1, ArmFacts
    <3>. QED BY <2>1, <2>2, <3>2 DEF ParseArmTaken
  <2>3. CASE ParseSay
    <3>1. line.text \in Texts
      BY <1>1, <2>3, LineAt, StatementFacts DEF ParseSay
    <3>. QED BY <2>1, <2>3, <3>1 DEF ParseSay
  <2>4. CASE ParseHalt
    BY <2>4, AppendProperties DEF ParseHalt, IRInstruction
  <2>5. CASE ParseSkipped \/ ParseMatch \/ ParseArmPassed
    BY <2>5 DEF ParseSkipped, ParseMatch, ParseArmPassed
  <2>. QED BY <2>2, <2>3, <2>4, <2>5 DEF ParseLine
<1>. QED BY <1>1, <1>2, <1>3, <1>4, <1>5

\* A step on a line keeps the flags true to the source.
LEMMA LineKeepsMatchState ==
  ASSUME ParserInv, ParseLine
  PROVE  MatchStateIsTrue'
<1>1. ParserTypeOK /\ AtLine /\ source' = source /\ lineNo' = lineNo + 1
  BY DEF ParserInv, ParseLine, ParseSkipped, ParseMatch, ParseArmPassed, ParseArmTaken,
         ParseSay, ParseHalt
<1>2. line = source[lineNo] /\ lineNo \in Nat \ {0} /\ line \in AllLines
  BY <1>1, LineAt
<1>3. /\ InForce(source, lineNo, matchValue)
      /\ matchResolved <=> ArmTakenBefore(source, lineNo)
      /\ matchResolved \in BOOLEAN
  BY DEF ParserInv, ParserTypeOK, MatchStateIsTrue
<1>4. ConditionHolds <=> Fits(source, lineNo)
  BY <1>1, ConditionIsFits
<1>5. InForce(source, lineNo + 1, matchValue')
  <2>1. CASE ParseMatch
    BY <1>2, <1>3, <2>1, InForceNext DEF ParseMatch, SetsValue
  <2>2. CASE ~ParseMatch
    <3>1. matchValue' = matchValue /\ line.kind # "match"
      BY <2>2, <1>2, StatementFacts DEF ParseLine, ParseSkipped, ParseArmPassed, ParseArmTaken,
                      ParseSay, ParseHalt, ConditionHolds
    <3>. QED BY <1>2, <1>3, <3>1, InForceNext DEF SetsValue
  <2>. QED BY <2>1, <2>2
<1>6. matchResolved' <=> ArmTakenBefore(source, lineNo + 1)
  <2>1. CASE ParseMatch
    BY <1>2, <2>1, ArmTakenNext DEF ParseMatch
  <2>2. CASE ParseArmTaken
    BY <1>2, <1>4, <2>2, ArmTakenNext DEF ParseArmTaken, ConditionHolds
  <2>3. CASE ParseArmPassed
    <3>1. line.kind # "match"
      BY <1>2, <2>3, StatementFacts DEF ParseArmPassed
    <3>. QED BY <1>2, <1>3, <1>4, <2>3, <3>1, ArmTakenNext DEF ParseArmPassed
  <2>4. CASE ParseSkipped \/ ParseSay \/ ParseHalt
    <3>1. line.kind # "match" /\ line.kind # "arm" /\ matchResolved' = matchResolved
      BY <2>4 DEF ParseSkipped, ParseSay, ParseHalt
    <3>2. ~Fits(source, lineNo)
      BY <1>2, <3>1 DEF Fits
    <3>. QED BY <1>2, <1>3, <3>1, <3>2, ArmTakenNext
  <2>. QED BY <2>1, <2>2, <2>3, <2>4 DEF ParseLine
<1>. QED BY <1>1, <1>5, <1>6 DEF MatchStateIsTrue

\* A step on a line of a plain source adds the line's meaning to the IR.
LEMMA LineEmitsItsMeaning ==
  ASSUME ParserInv, ParseLine, Plain(source)
  PROVE  ir' = ir \o Meant(lineNo)
<1>1. ParserTypeOK /\ AtLine
  BY DEF ParserInv, ParseLine, ParseSkipped, ParseMatch, ParseArmPassed, ParseArmTaken,
         ParseSay, ParseHalt
<1>2. line = source[lineNo] /\ lineNo \in 1 .. Len(source) /\ line \in AllLines
  BY <1>1, LineAt
<1>3. ~(line.kind = "say" /\ line.arrow) /\ ~line.stops
  BY <1>2 DEF Plain
<1>4. Taken(source, lineNo) <=> ConditionHolds /\ ~matchResolved
  BY <1>1, ConditionIsFits DEF ParserInv, MatchStateIsTrue, Taken
<1>5. ir \in Seq(IRInstruction) /\ ir \o <<>> = ir
  BY <1>1 DEF ParserTypeOK
<1>6. \A x \in IRInstruction : Append(ir, x) = ir \o <<x>>
  BY <1>5
<1>7. Stops(source, lineNo) <=> line.kind = "halt"
  BY <1>2, <1>3 DEF Stops
<1>8. Prints(source, lineNo) <=>
        line.kind = "say" \/ (ConditionHolds /\ ~matchResolved /\ line.text # NoText)
  BY <1>2, <1>4 DEF Prints
<1>9. CASE ParseSkipped \/ ParseMatch
  <2>1. Meant(lineNo) = <<>>
    BY <1>7, <1>8, <1>9 DEF Meant, ParseSkipped, ParseMatch, ConditionHolds
  <2>. QED BY <1>5, <1>9, <2>1 DEF ParseSkipped, ParseMatch
<1>10. CASE ParseArmPassed
  <2>1. line.kind = "arm"
    BY <1>2, <1>3, <1>10, StatementFacts DEF ParseArmPassed
  <2>2. Meant(lineNo) = <<>>
    BY <1>7, <1>8, <1>10, <2>1 DEF Meant, ParseArmPassed
  <2>. QED BY <1>5, <1>10, <2>2 DEF ParseArmPassed
<1>11. CASE ParseArmTaken
  <2>1. line.kind = "arm" /\ line.text \in Texts \cup {NoText}
    BY <1>2, <1>11, ArmFacts DEF ParseArmTaken, ConditionHolds
  <2>2. Meant(lineNo) = IF line.text = NoText THEN <<>> ELSE <<PRINT(line.text)>>
    BY <1>2, <1>7, <1>8, <1>11, <2>1 DEF Meant, ParseArmTaken
  <2>. QED BY <1>5, <1>6, <1>11, <2>1, <2>2 DEF ParseArmTaken, IRInstruction
<1>12. CASE ParseSay
  <2>1. line.kind = "say" /\ line.text \in Texts
    BY <1>2, <1>12, StatementFacts DEF ParseSay
  <2>2. Meant(lineNo) = <<PRINT(line.text)>>
    BY <1>2, <1>7, <1>8, <2>1 DEF Meant
  <2>. QED BY <1>6, <1>12, <2>1, <2>2 DEF ParseSay, IRInstruction
<1>13. CASE ParseHalt
  <2>1. Meant(lineNo) = <<HALT>>
    BY <1>7, <1>13 DEF Meant, ParseHalt
  <2>. QED BY <1>6, <1>13, <2>1 DEF ParseHalt, IRInstruction
<1>. QED BY <1>9, <1>10, <1>11, <1>12, <1>13 DEF ParseLine

\* The steps that are not on a line change neither the source nor the flags.
LEMMA OtherStepsKeepInv ==
  ASSUME ParserInv, ParseEmpty \/ ParseEnd \/ UNCHANGED parserVars
  PROVE  ParserInv'
<1>1. /\ source' = source /\ lineNo' = lineNo /\ matchValue' = matchValue
      /\ matchResolved' = matchResolved /\ hasHalt' = hasHalt
  BY DEF ParseEmpty, ParseEnd, parserVars
<1>2. ir' \in Seq(IRInstruction)
  <2>1. Append(ir, HALT) \in Seq(IRInstruction)
    BY AppendProperties DEF ParserInv, ParserTypeOK, IRInstruction
  <2>. QED BY <2>1 DEF ParserInv, ParserTypeOK, ParseEmpty, ParseEnd, parserVars
<1>3. parsed' \in {"no", "ok", "failed"}
  BY DEF ParserInv, ParserTypeOK, ParseEmpty, ParseEnd, parserVars
<1>4. ParserTypeOK'
  BY <1>1, <1>2, <1>3 DEF ParserInv, ParserTypeOK
<1>5. MatchStateIsTrue'
  BY <1>1 DEF ParserInv, MatchStateIsTrue
<1>. QED BY <1>4, <1>5 DEF ParserInv

LEMMA NextKeepsInv == ParserInv /\ [ParserNext]_parserVars => ParserInv'
  BY LineKeepsTypes, LineKeepsMatchState, OtherStepsKeepInv DEF ParserNext, ParserInv

------------------------------------------------------------------------------
\* The theorems

\* The variables of the parser keep to their types.
THEOREM ParserTypes == ParserSpec => []ParserTypeOK
<1>1. ParserInv => ParserTypeOK
  BY DEF ParserInv
<1>. QED BY InitParserInv, NextKeepsInv, <1>1, PTL DEF ParserSpec

\* Whatever the source, current_match_val is the value of the match in force
\* and match_resolved says whether an arm of it was taken, at every line of the
\* loop of Parser::parse.
THEOREM MatchStateAlwaysTrue == ParserSpec => []MatchStateIsTrue
<1>1. ParserInv => MatchStateIsTrue
  BY DEF ParserInv
<1>. QED BY InitParserInv, NextKeepsInv, <1>1, PTL DEF ParserSpec

\* When no source prints a text with an arrow or has an arm that halts, every
\* line adds to the IR exactly what the language says it means.
THEOREM PlainLinesKeepTheirMeaning ==
  ASSUME \A s \in Sources : Plain(s)
  PROVE  ParserSpec => LinesEmitTheirMeaning
<1>1. ParserInv /\ [ParserNext]_parserVars =>
        [ParseLine => ir' = ir \o Meant(lineNo)]_parserVars
  BY LineEmitsItsMeaning DEF ParserInv, ParserTypeOK
<1>. QED BY InitParserInv, NextKeepsInv, <1>1, PTL DEF ParserSpec, LinesEmitTheirMeaning

\* has_halt while the loop runs, and what follows from it at its end.
HaltInv ==
  /\ hasHalt => \E i \in 1 .. Len(ir) : ir[i] = HALT
  /\ ParsedEndsInHalt

\* An instruction appended leaves those before it where they are.
LEMMA AppendKeepsHalt ==
  ASSUME NEW s \in Seq(IRInstruction), NEW x \in IRInstruction,
         x = HALT \/ \E i \in 1 .. Len(s) : s[i] = HALT
  PROVE  \E i \in 1 .. Len(Append(s, x)) : Append(s, x)[i] = HALT
  BY AppendProperties

LEMMA InitHaltInv == ParserInit => HaltInv
  BY DEF ParserInit, HaltInv, ParsedEndsInHalt

LEMMA StepHaltInv ==
  ASSUME ParserTypeOK, HaltInv, [ParserNext]_parserVars
  PROVE  HaltInv'
<1>1. ir \in Seq(IRInstruction) /\ HALT \in IRInstruction
  BY DEF ParserTypeOK, IRInstruction
<1>2. CASE ParseHalt \/ (ParseEnd /\ ~hasHalt)
  <2>1. ir' = Append(ir, HALT)
    BY <1>2 DEF ParseHalt, ParseEnd
  <2>. QED BY <1>1, <2>1, AppendKeepsHalt DEF HaltInv, ParsedEndsInHalt
<1>3. CASE ParseArmTaken \/ ParseSay
  <2>1. hasHalt' = hasHalt /\ parsed = "no" /\ parsed' = "no"
    BY <1>3 DEF ParseArmTaken, ParseSay, AtLine
  <2>2. ASSUME NEW x, ir' = Append(ir, x)
        PROVE  (\E i \in 1 .. Len(ir) : ir[i] = HALT) => \E i \in 1 .. Len(ir') : ir'[i] = HALT
    BY <1>1, <2>2
  <2>3. ir' = ir \/ \E x : ir' = Append(ir, x)
    BY <1>3 DEF ParseArmTaken, ParseSay
  <2>. QED BY <2>1, <2>2, <2>3 DEF HaltInv, ParsedEndsInHalt
<1>4. CASE ParseSkipped \/ ParseMatch \/ ParseArmPassed \/ ParseEmpty \/ (ParseEnd /\ hasHalt)
           \/ UNCHANGED parserVars
  BY <1>4 DEF HaltInv, ParsedEndsInHalt, ParseSkipped, ParseMatch, ParseArmPassed,
       ParseEmpty, ParseEnd, parserVars, AtLine
<1>. QED BY <1>2, <1>3, <1>4 DEF ParserNext, ParseLine

\* A parse that succeeds always leaves a HALT in the IR: the one of a halt line
\* or the one added at the end of Parser::parse.
THEOREM ParsedAlwaysEndsInHalt == ParserSpec => []ParsedEndsInHalt
<1>1. HaltInv => ParsedEndsInHalt
  BY DEF HaltInv
<1>. QED BY ParserTypes, InitHaltInv, StepHaltInv, <1>1, PTL DEF ParserSpec

------------------------------------------------------------------------------
\* The inductive invariant

\* The first halt of the IR: a program is the code of the prints before it and
\* of this halt, and never gets further.
IsStop(s, h) == h \in 1 .. Len(s) /\ s[h] = HALT /\ \A k \in 1 .. h - 1 : s[k] # HALT
FirstStop(s) == CHOOSE h : IsStop(s, h)
Stop == FirstStop(ir)

\* The phases come one after the other.
PhaseInv ==
  /\ phase \in {"parse", "generate", "link", "write", "run", "ended", "failed"}
  /\ phase = "parse" => parsed = "no"
  /\ phase \in {"generate", "link", "write", "run", "ended"} => parsed = "ok"
  /\ phase \in {"parse", "generate"} =>
       offsets = <<>> /\ running = 0 /\ patched = 0 /\ strings = <<>> /\ appended = 0
  /\ phase = "parse" => irNo = 1 /\ code = NoCode /\ pool = <<>> /\ fixups = <<>>
  /\ phase \in {"link", "write", "run", "ended"} => irNo = Len(ir) + 1
  /\ phase \in {"write", "run", "ended"} =>
       /\ Len(offsets) = Len(pool)
       /\ patched = Len(fixups)
       /\ appended = Len(pool)
  /\ phase \notin {"run", "ended"} => output = <<>> /\ reg \in [Registers -> Int]
  /\ phase # "ended" => ~exited
  /\ file \in {"absent", "empty", "partial", "complete"}

\* A piece of code: the instructions end within it.
IsCode(c) ==
  /\ c = [at |-> [a \in DOMAIN c.at |-> c.at[a]], size |-> c.size]
  /\ c.size \in Nat
  /\ \A a \in DOMAIN c.at :
       a \in Nat /\ c.at[a].size \in Nat \ {0} /\ a + c.at[a].size <= c.size

\* What the generator keeps: code, a pool, and one lea for each fixup.
CodeInv ==
  /\ irNo \in 1 .. Len(ir) + 1
  /\ IsCode(code)
  /\ pool \in Seq(Texts)
  /\ fixups \in Seq([at : Nat, index : Nat])
  /\ Len(fixups) = Len(pool)
  /\ \A k \in 1 .. Len(fixups) :
       /\ fixups[k].index = k
       /\ fixups[k].at - 3 \in DOMAIN code.at
       /\ code.at[fixups[k].at - 3].size = 7

\* What a piece of code has at an offset.
HasIn(c, a, m) == a \in DOMAIN c.at /\ c.at[a] = m
Has(a, m) == HasIn(code, a, m)

\* The displacement in the lea of print k.
DispOf(k) == IF k <= patched THEN Displacement(fixups[k]) ELSE 0

PrintIsAt(k) ==
  /\ Has(39 * (k - 1), MovImm("rax", 1))
  /\ Has(39 * (k - 1) + 10, MovImm("rdi", 1))
  /\ Has(39 * (k - 1) + 20, LeaRsi(DispOf(k)))
  /\ Has(39 * (k - 1) + 27, MovImm("rdx", TextSize[ir[k].text]))
  /\ Has(39 * (k - 1) + 37, Syscall)

HaltIsAt(k) ==
  /\ Has(39 * (k - 1), MovImm("rax", 60))
  /\ Has(39 * (k - 1) + 10, MovImm("rdi", 0))
  /\ Has(39 * (k - 1) + 20, Syscall)

\* The prints before the first halt lie in a row, then that halt; whatever
\* comes behind it has its fixups behind it too.
LayoutInv ==
  parsed = "ok" =>
    /\ irNo <= Stop => code.size = 39 * (irNo - 1) /\ Len(pool) = irNo - 1
    /\ irNo > Stop => code.size >= 39 * (Stop - 1) + 22 /\ Len(pool) >= Stop - 1 /\ HaltIsAt(Stop)
    /\ \A k \in 1 .. Stop - 1 :
         k < irNo => /\ PrintIsAt(k)
                     /\ pool[k] = ir[k].text
                     /\ fixups[k].at = 39 * (k - 1) + 23
    /\ \A k \in 1 .. Len(fixups) : k >= Stop => fixups[k].at - 3 >= 39 * (Stop - 1) + 22

\* The strings lie behind each other at their offsets.
StringsInv ==
  /\ offsets \in Seq(Nat) /\ running \in Nat
  /\ Len(offsets) <= Len(pool)
  /\ patched \in 0 .. Len(fixups)
  /\ appended \in 0 .. Len(pool)
  /\ patched > 0 => Len(offsets) = Len(pool)
  /\ appended > 0 => Len(offsets) = Len(pool)
  /\ offsets = <<>> => running = 0
  /\ offsets # <<>> => offsets[1] = 0
  /\ \A k \in 1 .. Len(offsets) :
       offsets[k] + TextSize[pool[k]] =
         IF k = Len(offsets) THEN running ELSE offsets[k + 1]
  /\ \A k \in 1 .. Len(offsets) : offsets[k] <= running
  /\ strings \in Seq(Texts \X Nat)
  /\ Len(strings) = IF appended < Len(offsets) THEN offsets[appended + 1] ELSE running
  /\ \A k \in 1 .. appended : \A j \in 1 .. TextSize[pool[k]] :
       offsets[k] + j \in 1 .. Len(strings) /\ strings[offsets[k] + j] = <<pool[k], j>>

\* The image is small enough for displacements of 32 bits.
ImageFits == code.size + running <= MaxDisp

\* The program is at an instruction of the next print, or of the halt, with the
\* registers as the instructions before it have set them.
Next39(n) == rip - CodeOffset - 39 * n

PrintingAt(n) ==
  /\ Next39(n) \in {0, 10, 20, 27, 37}
  /\ Next39(n) >= 10 => reg["rax"] = 1
  /\ Next39(n) >= 20 => reg["rdi"] = 1
  /\ Next39(n) >= 27 /\ ImageFits =>
       reg["rsi"] = CodeOffset + code.size + offsets[n + 1]
  /\ Next39(n) >= 37 => reg["rdx"] = TextSize[ir[n + 1].text]

HaltingAt(n) ==
  /\ Next39(n) \in {0, 10, 20}
  /\ Next39(n) >= 10 => reg["rax"] = 60
  /\ Next39(n) >= 20 => reg["rdi"] = 0

RunInv ==
  phase = "run" =>
    /\ rip \in Int
    /\ reg \in [Registers -> Int]
    /\ Len(output) \in 0 .. Stop - 1
    /\ output = [k \in 1 .. Len(output) |-> output[k]]
    /\ ImageFits => output = [k \in 1 .. Len(output) |-> TextBytes(ir[k].text)]
    /\ Len(output) < Stop - 1 => PrintingAt(Len(output))
    /\ Len(output) = Stop - 1 => HaltingAt(Len(output))

IInv == ParserInv /\ HaltInv /\ PhaseInv /\ CodeInv /\ LayoutInv /\ StringsInv /\ RunInv

\* The IR of a plain source begins with the prints it means, and a halt.
ScriptInv ==
  LET shown == Printed(source)[lineNo - 1]
  IN  /\ shown \in Seq(Texts) /\ Len(shown) <= Len(ir)
      /\ \A j \in 1 .. Len(shown) : ir[j] = PRINT(shown[j])
      /\ hasHalt <=> \E j \in 1 .. lineNo - 1 : Stops(source, j)
      /\ IF hasHalt \/ parsed = "ok"
           THEN Len(ir) > Len(shown) /\ ir[Len(shown) + 1] = HALT
           ELSE Len(ir) = Len(shown)
      /\ parsed = "ok" => lineNo = Len(source) + 1

------------------------------------------------------------------------------
\* Facts about naturals and about the parts of the state

\* A set of naturals has a least element.
LEMMA LeastElement ==
  ASSUME NEW T \in SUBSET Nat, T # {}
  PROVE  \E n \in T : \A m \in T : n <= m
<1>. DEFINE R == StrictSubsetOrdering(Nat)
            U == {0 .. m : m \in T}
<1>1. U \subseteq FiniteSubsetsOf(Nat) /\ U # {}
  <2>1. \A m \in Nat : IsFiniteSet(0 .. m)
    BY FS_Interval
  <2>2. \A m \in Nat : 0 .. m \in SUBSET Nat
    OBVIOUS
  <2>3. \A m \in Nat : 0 .. m \in FiniteSubsetsOf(Nat)
    BY <2>1, <2>2 DEF FiniteSubsetsOf
  <2>. QED BY <2>3
<1>2. \E x \in U : \A y \in U : <<y, x>> \notin R
  <2>1. IsWellFoundedOn(R, FiniteSubsetsOf(Nat))
    BY FS_StrictSubsetOrderingWellFounded
  <2>. HIDE DEF R, U
  <2>. QED BY <2>1, <1>1, WFMin
<1>3. PICK n \in T : \A m \in T : <<0 .. m, 0 .. n>> \notin R
  BY <1>2
<1>4. ASSUME NEW m \in T, m < n PROVE FALSE
  <2>1. 0 .. m \subseteq 0 .. n /\ 0 .. m # 0 .. n
    <3>1. n \in 0 .. n /\ n \notin 0 .. m
      BY <1>4
    <3>. QED BY <3>1, <1>4
  <2>2. 0 .. m \in SUBSET Nat /\ 0 .. n \in SUBSET Nat
    OBVIOUS
  <2>3. <<0 .. m, 0 .. n>> \in StrictSubsetOrdering(Nat)
    BY <2>1, <2>2, Zenon DEF StrictSubsetOrdering
  <2>. QED BY <2>3, <1>3
<1>. QED BY <1>4

\* Induction over the naturals, for a set.
LEMMA NatInduct ==
  ASSUME NEW S \in SUBSET Nat, 0 \in S, \A n \in S : n + 1 \in S
  PROVE  S = Nat
<1>1. ASSUME S # Nat PROVE FALSE
  <2>1. PICK n \in Nat \ S : \A m \in Nat \ S : n <= m
    <3>1. Nat \ S \in SUBSET Nat /\ Nat \ S # {}
      BY <1>1
    <3>. QED BY <3>1, LeastElement
  <2>2. n # 0 /\ n - 1 \in Nat /\ n - 1 < n
    BY <2>1
  <2>3. n - 1 \in S
    BY <2>1, <2>2
  <2>. QED BY <2>1, <2>2, <2>3
<1>. QED BY <1>1

\* What Append does to a sequence, whatever its elements.
LEMMA AppendAny ==
  ASSUME NEW n \in Nat, NEW s, s = [k \in 1 .. n |-> s[k]], NEW e
  PROVE  /\ Len(s) = n
         /\ Len(Append(s, e)) = n + 1
         /\ Append(s, e) = [k \in 1 .. n + 1 |-> IF k <= n THEN s[k] ELSE e]
<1>. DEFINE T == {s[k] : k \in 1 .. n} \cup {e}
<1>1. s \in [1 .. n -> T]
  <2>1. \A k \in 1 .. n : s[k] \in T
    OBVIOUS
  <2>. HIDE DEF T
  <2>. QED BY <2>1
<1>2. e \in T
  OBVIOUS
<1>. HIDE DEF T
<1>3. s \in Seq(T) /\ Len(s) = n
  BY <1>1
<1>. QED BY <1>2, <1>3

\* A sequence of instructions with a halt has a first one, behind prints.
LEMMA StopFacts ==
  ASSUME NEW s \in Seq(IRInstruction), \E i \in 1 .. Len(s) : s[i] = HALT
  PROVE  /\ FirstStop(s) \in 1 .. Len(s) /\ FirstStop(s) \in Nat \ {0} /\ Len(s) \in Nat
         /\ s[FirstStop(s)] = HALT
         /\ \A k \in 1 .. FirstStop(s) - 1 : s[k].text \in Texts /\ s[k] = PRINT(s[k].text)
<1>. DEFINE H == {i \in 1 .. Len(s) : s[i] = HALT}
<1>1. Len(s) \in Nat /\ H # {} /\ H \in SUBSET Nat
  OBVIOUS
<1>2. PICK h \in H : \A i \in H : h <= i
  BY <1>1, LeastElement
<1>3. \A k \in 1 .. h - 1 : k \notin H /\ k \in 1 .. Len(s)
  BY <1>1, <1>2
<1>4. IsStop(s, h)
  BY <1>2, <1>3 DEF IsStop
<1>5. IsStop(s, FirstStop(s))
  BY <1>4 DEF FirstStop
<1>6. \A x \in IRInstruction : x # HALT => x.text \in Texts /\ x = PRINT(x.text)
  BY DEF IRInstruction, PRINT
<1>7. \A k \in 1 .. FirstStop(s) - 1 : s[k] \in IRInstruction /\ s[k] # HALT
  BY <1>1, <1>5 DEF IsStop
<1>. QED BY <1>1, <1>5, <1>6, <1>7 DEF IsStop

\* The same of the IR of a parse that succeeded.
LEMMA IrFacts ==
  ASSUME ParserInv, HaltInv, parsed = "ok"
  PROVE  /\ Stop \in 1 .. Len(ir) /\ Stop \in Nat \ {0} /\ Len(ir) \in Nat
         /\ ir[Stop] = HALT
         /\ \A k \in 1 .. Stop - 1 : ir[k].text \in Texts /\ ir[k] = PRINT(ir[k].text)
  BY StopFacts DEF ParserInv, ParserTypeOK, HaltInv, ParsedEndsInHalt, Stop

\* After the parser nothing changes what it left.
LEMMA SameParser ==
  ASSUME ParserInv, HaltInv, UNCHANGED parserVars
  PROVE  ParserInv' /\ HaltInv' /\ Stop' = Stop /\ ir' = ir /\ parsed' = parsed
<1>1. ParserInv' /\ HaltInv'
  BY NextKeepsInv, StepHaltInv DEF ParserInv
<1>. QED BY <1>1 DEF Stop, parserVars

------------------------------------------------------------------------------
\* The pieces of code

\* An instruction appended is at the end of the code; the others stay.
LEMMA EmitFacts ==
  ASSUME NEW c, NEW m, IsCode(c), m.size \in Nat \ {0}
  PROVE  /\ IsCode(Emit(c, m))
         /\ Emit(c, m).size = c.size + m.size
         /\ HasIn(Emit(c, m), c.size, m)
         /\ \A a, i : HasIn(c, a, i) => HasIn(Emit(c, m), a, i)
<1>. DEFINE e == Emit(c, m)
<1>1. /\ e.size = c.size + m.size /\ e.size \in Nat
      /\ DOMAIN e.at = DOMAIN c.at \cup {c.size}
      /\ e.at[c.size] = m
      /\ \A a \in DOMAIN c.at : a # c.size => e.at[a] = c.at[a]
  BY DEF Emit, IsCode
<1>2. c.size \notin DOMAIN c.at
  BY DEF IsCode
<1>3. e = [at |-> [a \in DOMAIN e.at |-> e.at[a]], size |-> e.size]
  BY DEF Emit
<1>4. \A a \in DOMAIN e.at : a \in Nat /\ e.at[a].size \in Nat \ {0} /\ a + e.at[a].size <= e.size
  <2>1. TAKE a \in DOMAIN e.at
  <2>2. CASE a = c.size
    BY <1>1, <2>2 DEF IsCode
  <2>3. CASE a \in DOMAIN c.at /\ a # c.size
    <3>1. e.at[a] = c.at[a]
      BY <1>1, <2>3
    <3>2. a \in Nat /\ c.at[a].size \in Nat \ {0} /\ a + c.at[a].size <= c.size /\ c.size \in Nat
      BY <2>3 DEF IsCode
    <3>. HIDE DEF e
    <3>. QED BY <1>1, <3>1, <3>2
  <2>. HIDE DEF e
  <2>. QED BY <1>1, <2>2, <2>3
<1>. HIDE DEF e
<1>5. IsCode(e)
  BY <1>1, <1>3, <1>4 DEF IsCode
<1>6. HasIn(e, c.size, m) /\ \A a, i : HasIn(c, a, i) => HasIn(e, a, i)
  BY <1>1, <1>2 DEF HasIn
<1>. QED BY <1>1, <1>5, <1>6 DEF e

\* The code of a print.
LEMMA PrintFacts ==
  ASSUME NEW c, NEW t \in Texts, IsCode(c)
  PROVE  /\ IsCode(EmitPrint(c, t))
         /\ EmitPrint(c, t).size = c.size + 39
         /\ EmitBeforeLea(c).size = c.size + 20
         /\ HasIn(EmitPrint(c, t), c.size, MovImm("rax", 1))
         /\ HasIn(EmitPrint(c, t), c.size + 10, MovImm("rdi", 1))
         /\ HasIn(EmitPrint(c, t), c.size + 20, LeaRsi(0))
         /\ HasIn(EmitPrint(c, t), c.size + 27, MovImm("rdx", TextSize[t]))
         /\ HasIn(EmitPrint(c, t), c.size + 37, Syscall)
         /\ \A a, i : HasIn(c, a, i) => HasIn(EmitPrint(c, t), a, i)
<1>. DEFINE c1 == Emit(c, MovImm("rax", 1))
            c2 == Emit(c1, MovImm("rdi", 1))
            c3 == Emit(c2, LeaRsi(0))
            c4 == Emit(c3, MovImm("rdx", TextSize[t]))
            c5 == Emit(c4, Syscall)
<1>. DEFINE m1 == MovImm("rax", 1)
            m2 == MovImm("rdi", 1)
            m3 == LeaRsi(0)
            m4 == MovImm("rdx", TextSize[t])
<1>1. m1.size = 10 /\ m2.size = 10 /\ m3.size = 7 /\ m4.size = 10 /\ Syscall.size = 2
  BY DEF MovImm, LeaRsi, Syscall
<1>2. EmitBeforeLea(c) = c2 /\ EmitPrint(c, t) = c5
  BY DEF EmitBeforeLea, EmitPrint
<1>. HIDE DEF m1, m2, m3, m4
<1>3. IsCode(c1) /\ c1.size = c.size + 10 /\ HasIn(c1, c.size, m1)
      /\ \A a, i : HasIn(c, a, i) => HasIn(c1, a, i)
  BY <1>1, EmitFacts DEF m1
<1>. HIDE DEF c1
<1>4. IsCode(c2) /\ c2.size = c1.size + 10 /\ HasIn(c2, c1.size, m2)
      /\ \A a, i : HasIn(c1, a, i) => HasIn(c2, a, i)
  BY <1>1, <1>3, EmitFacts DEF m2
<1>. HIDE DEF c2
<1>5. IsCode(c3) /\ c3.size = c2.size + 7 /\ HasIn(c3, c2.size, m3)
      /\ \A a, i : HasIn(c2, a, i) => HasIn(c3, a, i)
  BY <1>1, <1>4, EmitFacts DEF m3
<1>. HIDE DEF c3
<1>6. IsCode(c4) /\ c4.size = c3.size + 10 /\ HasIn(c4, c3.size, m4)
      /\ \A a, i : HasIn(c3, a, i) => HasIn(c4, a, i)
  BY <1>1, <1>5, EmitFacts DEF m4
<1>. HIDE DEF c4
<1>7. IsCode(c5) /\ c5.size = c4.size + 2 /\ HasIn(c5, c4.size, Syscall)
      /\ \A a, i : HasIn(c4, a, i) => HasIn(c5, a, i)
  BY <1>1, <1>6, EmitFacts
<1>. HIDE DEF c5
<1>8. c.size \in Nat
  BY DEF IsCode
<1>9. c1.size = c.size + 10 /\ c2.size = c.size + 20 /\ c3.size = c.size + 27
      /\ c4.size = c.size + 37 /\ c5.size = c.size + 39
  BY <1>3, <1>4, <1>5, <1>6, <1>7, <1>8
<1>10. HasIn(c5, c.size, m1) /\ HasIn(c5, c.size + 10, m2) /\ HasIn(c5, c.size + 20, m3)
       /\ HasIn(c5, c.size + 27, m4) /\ HasIn(c5, c.size + 37, Syscall)
  BY <1>3, <1>4, <1>5, <1>6, <1>7, <1>9
<1>11. \A a, i : HasIn(c, a, i) => HasIn(c5, a, i)
  BY <1>3, <1>4, <1>5, <1>6, <1>7
<1>. QED BY <1>2, <1>7, <1>9, <1>10, <1>11 DEF m1, m2, m3, m4

\* The code of a halt.
LEMMA HaltFacts ==
  ASSUME NEW c, IsCode(c)
  PROVE  /\ IsCode(EmitHalt(c))
         /\ EmitHalt(c).size = c.size + 22
         /\ HasIn(EmitHalt(c), c.size, MovImm("rax", 60))
         /\ HasIn(EmitHalt(c), c.size + 10, MovImm("rdi", 0))
         /\ HasIn(EmitHalt(c), c.size + 20, Syscall)
         /\ \A a, i : HasIn(c, a, i) => HasIn(EmitHalt(c), a, i)
<1>. DEFINE m1 == MovImm("rax", 60)
            m2 == MovImm("rdi", 0)
            c1 == Emit(c, m1)
            c2 == Emit(c1, m2)
            c3 == Emit(c2, Syscall)
<1>1. m1.size = 10 /\ m2.size = 10 /\ Syscall.size = 2
  BY DEF MovImm, Syscall
<1>2. EmitHalt(c) = c3
  BY DEF EmitHalt
<1>. HIDE DEF m1, m2
<1>3. IsCode(c1) /\ c1.size = c.size + 10 /\ HasIn(c1, c.size, m1)
      /\ \A a, i : HasIn(c, a, i) => HasIn(c1, a, i)
  BY <1>1, EmitFacts
<1>. HIDE DEF c1
<1>4. IsCode(c2) /\ c2.size = c1.size + 10 /\ HasIn(c2, c1.size, m2)
      /\ \A a, i : HasIn(c1, a, i) => HasIn(c2, a, i)
  BY <1>1, <1>3, EmitFacts
<1>. HIDE DEF c2
<1>5. IsCode(c3) /\ c3.size = c2.size + 2 /\ HasIn(c3, c2.size, Syscall)
      /\ \A a, i : HasIn(c2, a, i) => HasIn(c3, a, i)
  BY <1>1, <1>4, EmitFacts
<1>. HIDE DEF c3
<1>6. c.size \in Nat
  BY DEF IsCode
<1>7. c1.size = c.size + 10 /\ c2.size = c.size + 20 /\ c3.size = c.size + 22
  BY <1>3, <1>4, <1>5, <1>6
<1>8. HasIn(c3, c.size, m1) /\ HasIn(c3, c.size + 10, m2) /\ HasIn(c3, c.size + 20, Syscall)
  BY <1>3, <1>4, <1>5, <1>7
<1>9. \A a, i : HasIn(c, a, i) => HasIn(c3, a, i)
  BY <1>3, <1>4, <1>5
<1>. QED BY <1>2, <1>5, <1>7, <1>8, <1>9 DEF m1, m2

\* A lea put in the place of a lea leaves everything else as it is.
Patched(c, b, n) == [c EXCEPT !.at[b] = LeaRsi(n)]

LEMMA PatchedFacts ==
  ASSUME NEW c, IsCode(c), NEW b \in DOMAIN c.at, c.at[b].size = 7, NEW n
  PROVE  /\ IsCode(Patched(c, b, n))
         /\ Patched(c, b, n).size = c.size
         /\ DOMAIN Patched(c, b, n).at = DOMAIN c.at
         /\ HasIn(Patched(c, b, n), b, LeaRsi(n))
         /\ \A a, i : a # b /\ HasIn(c, a, i) => HasIn(Patched(c, b, n), a, i)
         /\ \A a \in DOMAIN c.at : Patched(c, b, n).at[a].size = c.at[a].size
<1>. DEFINE d == Patched(c, b, n)
<1>1. /\ d.size = c.size
      /\ d.at = [a \in DOMAIN c.at |-> IF a = b THEN LeaRsi(n) ELSE c.at[a]]
      /\ d = [at |-> [a \in DOMAIN d.at |-> d.at[a]], size |-> d.size]
  BY DEF IsCode, Patched
<1>. HIDE DEF d
<1>2. LeaRsi(n).size = 7
  BY DEF LeaRsi
<1>3. DOMAIN d.at = DOMAIN c.at
  BY <1>1
<1>4. \A a \in DOMAIN c.at : d.at[a].size = c.at[a].size
  BY <1>1, <1>2
<1>5. IsCode(d)
  BY <1>1, <1>3, <1>4 DEF IsCode
<1>6. HasIn(d, b, LeaRsi(n)) /\ \A a, i : a # b /\ HasIn(c, a, i) => HasIn(d, a, i)
  BY <1>1, <1>3 DEF HasIn
<1>. QED BY <1>1, <1>3, <1>4, <1>5, <1>6 DEF d

\* A displacement that fits its 32 bits is what it is.
LEMMA Disp32Facts ==
  /\ \A d \in Int : Disp32(d) \in Int
  /\ \A d \in 0 .. MaxDisp - 1 : Disp32(d) = d
<1>1. MaxDisp \in Nat \ {0}
  BY DispAssumption
<1>2. \A x \in Int, y \in Nat \ {0} : x % y \in Int
  OBVIOUS
<1>3. \A x \in Nat, y \in Nat \ {0} : x < y => x % y = x
  OBVIOUS
<1>4. \A d \in Int : Disp32(d) \in Int
  <2>1. TAKE d \in Int
  <2>2. d + MaxDisp \in Int /\ 2 * MaxDisp \in Nat \ {0}
    BY <1>1
  <2>3. (d + MaxDisp) % (2 * MaxDisp) \in Int
    BY <1>2, <2>2
  <2>. QED BY <1>1, <2>3 DEF Disp32
<1>5. \A d \in 0 .. MaxDisp - 1 : Disp32(d) = d
  <2>1. TAKE d \in 0 .. MaxDisp - 1
  <2>2. d + MaxDisp \in Nat /\ 2 * MaxDisp \in Nat \ {0} /\ d + MaxDisp < 2 * MaxDisp
    BY <1>1
  <2>3. (d + MaxDisp) % (2 * MaxDisp) = d + MaxDisp
    BY <1>3, <2>2
  <2>. QED BY <1>1, <2>3 DEF Disp32
<1>. QED BY <1>4, <1>5

------------------------------------------------------------------------------
\* The steps

LEMMA InitIInv == Init => IInv
<1>. SUFFICES ASSUME Init PROVE IInv
  OBVIOUS
<1>1. ParserInv /\ HaltInv
  BY InitParserInv, InitHaltInv DEF Init
<1>2. ir = <<>> /\ parsed = "no"
  BY DEF Init, ParserInit
<1>3. PhaseInv
  BY <1>2 DEF Init, PhaseInv
<1>4. IsCode(NoCode) /\ NoCode.size = 0 /\ DOMAIN NoCode.at = {}
  BY DEF IsCode, NoCode
<1>5. CodeInv
  BY <1>2, <1>4 DEF Init, CodeInv
<1>6. LayoutInv
  BY <1>2 DEF LayoutInv
<1>7. StringsInv
  BY DEF Init, StringsInv
<1>8. RunInv
  BY DEF Init, RunInv
<1>. QED BY <1>1, <1>3, <1>5, <1>6, <1>7, <1>8 DEF IInv

\* The parser leaves everything else as it starts.
LEMMA ParseStep ==
  ASSUME IInv, Parse
  PROVE  IInv'
<1>1. /\ phase = "parse" /\ ParserNext
      /\ phase' = CASE parsed' = "no" -> "parse" [] parsed' = "ok" -> "generate" [] OTHER -> "failed"
      /\ irNo' = irNo /\ code' = code /\ pool' = pool /\ fixups' = fixups
      /\ offsets' = offsets /\ running' = running /\ patched' = patched
      /\ strings' = strings /\ appended' = appended /\ file' = file
      /\ output' = output /\ exited' = exited /\ reg' = reg
  BY DEF Parse, codeVars, linkVars, cpuVars
<1>2. /\ irNo = 1 /\ code = NoCode /\ pool = <<>> /\ fixups = <<>>
      /\ offsets = <<>> /\ running = 0 /\ patched = 0 /\ strings = <<>> /\ appended = 0
      /\ output = <<>> /\ reg \in [Registers -> Int] /\ ~exited /\ file \in {"absent", "empty", "partial", "complete"}
  BY <1>1 DEF IInv, PhaseInv
<1>3. ParserInv' /\ HaltInv'
  BY <1>1, NextKeepsInv, StepHaltInv DEF IInv, ParserInv
<1>4. parsed' \in {"no", "ok", "failed"} /\ ir' \in Seq(IRInstruction)
  BY <1>3 DEF ParserInv, ParserTypeOK
<1>5. /\ parsed' = "no" => phase' = "parse"
      /\ parsed' = "ok" => phase' = "generate"
      /\ parsed' = "failed" => phase' = "failed"
  BY <1>1, <1>4
<1>6. PhaseInv'
  BY <1>1, <1>2, <1>4, <1>5 DEF PhaseInv
<1>7. IsCode(NoCode) /\ NoCode.size = 0 /\ DOMAIN NoCode.at = {}
  BY DEF IsCode, NoCode
<1>8. CodeInv'
  BY <1>1, <1>2, <1>4, <1>7 DEF CodeInv
<1>9. LayoutInv'
  <2>1. ASSUME parsed' = "ok" PROVE Stop' \in Nat \ {0}
    BY <1>3, <1>4, <2>1, StopFacts DEF HaltInv, ParsedEndsInHalt, Stop
  <2>. QED BY <1>1, <1>2, <1>7, <2>1 DEF LayoutInv
<1>10. StringsInv'
  BY <1>1, <1>2 DEF StringsInv
<1>11. RunInv'
  BY <1>4, <1>5 DEF RunInv
<1>. QED BY <1>3, <1>6, <1>8, <1>9, <1>10, <1>11 DEF IInv

\* More code leaves a print where it is.
LEMMA PrintStays ==
  ASSUME NEW k, PrintIsAt(k), DispOf(k)' = DispOf(k), ir' = ir,
         \A a, i : Has(a, i) => Has(a, i)'
  PROVE  PrintIsAt(k)'
  BY DEF PrintIsAt

LEMMA HaltStays ==
  ASSUME NEW k, HaltIsAt(k), \A a, i : Has(a, i) => Has(a, i)'
  PROVE  HaltIsAt(k)'
  BY DEF HaltIsAt

LEMMA GeneratePrintStep ==
  ASSUME IInv, GeneratePrint
  PROVE  IInv'
<1>. DEFINE t == ir[irNo].text
<1>1. /\ phase = "generate" /\ irNo <= Len(ir) /\ ir[irNo].op = "PRINT"
      /\ code' = EmitPrint(code, t)
      /\ pool' = Append(pool, t)
      /\ fixups' = Append(fixups, [at |-> EmitBeforeLea(code).size + 3, index |-> Len(pool) + 1])
      /\ irNo' = irNo + 1
      /\ UNCHANGED <<parserVars, phase, offsets, running, patched, strings, appended, file,
                     rip, reg, output, exited>>
  BY DEF GeneratePrint, AtInstruction, linkVars, cpuVars
<1>2. ParserInv /\ HaltInv /\ PhaseInv /\ CodeInv /\ LayoutInv /\ StringsInv
  BY DEF IInv
<1>3. ParserInv' /\ HaltInv' /\ Stop' = Stop /\ ir' = ir /\ parsed' = parsed
  BY <1>1, <1>2, SameParser
<1>4. /\ parsed = "ok" /\ patched = 0 /\ strings = <<>> /\ appended = 0
      /\ offsets = <<>> /\ running = 0
  BY <1>1, <1>2 DEF PhaseInv
<1>5. /\ Stop \in 1 .. Len(ir) /\ Stop \in Nat \ {0} /\ Len(ir) \in Nat /\ ir[Stop] = HALT
      /\ \A k \in 1 .. Stop - 1 : ir[k].text \in Texts /\ ir[k] = PRINT(ir[k].text)
  BY <1>2, <1>4, IrFacts
<1>6. irNo \in 1 .. Len(ir) /\ irNo # Stop
  BY <1>1, <1>2, <1>5 DEF CodeInv, HALT
<1>7. t \in Texts
  BY <1>1, <1>2, <1>6 DEF ParserInv, ParserTypeOK, IRInstruction, PRINT, HALT
<1>8. IsCode(code) /\ code.size \in Nat /\ TextSize[t] \in Nat
  BY <1>2, <1>7, TextSizeAssumption DEF CodeInv, IsCode
<1>9. /\ IsCode(code') /\ code'.size = code.size + 39
      /\ fixups' = Append(fixups, [at |-> code.size + 23, index |-> Len(pool) + 1])
      /\ HasIn(code', code.size, MovImm("rax", 1))
      /\ HasIn(code', code.size + 10, MovImm("rdi", 1))
      /\ HasIn(code', code.size + 20, LeaRsi(0))
      /\ HasIn(code', code.size + 27, MovImm("rdx", TextSize[t]))
      /\ HasIn(code', code.size + 37, Syscall)
      /\ \A a, i : HasIn(code, a, i) => HasIn(code', a, i)
  <2>. HIDE DEF t
  <2>1. fixups' = Append(fixups, [at |-> code.size + 23, index |-> Len(pool) + 1])
    <3>1. EmitBeforeLea(code).size = code.size + 20
      BY <1>7, <1>8, PrintFacts
    <3>2. EmitBeforeLea(code).size + 3 = code.size + 23
      BY <1>8, <3>1
    <3>. QED BY <1>1, <3>2
  <2>. QED BY <1>1, <1>7, <1>8, <2>1, PrintFacts
<1>10. /\ pool \in Seq(Texts) /\ fixups \in Seq([at : Nat, index : Nat])
       /\ Len(fixups) = Len(pool) /\ Len(pool) \in Nat
  BY <1>2 DEF CodeInv
<1>11. /\ pool' \in Seq(Texts) /\ Len(pool') = Len(pool) + 1 /\ pool'[Len(pool) + 1] = t
       /\ \A k \in 1 .. Len(pool) : pool'[k] = pool[k]
  BY <1>1, <1>7, <1>10
<1>12. /\ fixups' \in Seq([at : Nat, index : Nat]) /\ Len(fixups') = Len(pool) + 1
       /\ fixups'[Len(pool) + 1] = [at |-> code.size + 23, index |-> Len(pool) + 1]
       /\ \A k \in 1 .. Len(pool) : fixups'[k] = fixups[k]
  <2>1. [at |-> code.size + 23, index |-> Len(pool) + 1] \in [at : Nat, index : Nat]
    BY <1>8, <1>10
  <2>. QED BY <1>9, <1>10, <2>1
<1>13. PhaseInv'
  BY <1>1, <1>2, <1>3, <1>4 DEF PhaseInv
<1>14. CodeInv'
  <2>1. irNo' \in 1 .. Len(ir') + 1
    BY <1>1, <1>3, <1>6
  <2>2. ASSUME NEW k \in 1 .. Len(fixups')
        PROVE  /\ fixups'[k].index = k
               /\ fixups'[k].at - 3 \in DOMAIN code'.at
               /\ code'.at[fixups'[k].at - 3].size = 7
    <3>1. CASE k = Len(pool) + 1
      <4>1. fixups'[k].at - 3 = code.size + 20 /\ fixups'[k].index = k
        BY <1>8, <1>12, <3>1
      <4>. QED BY <1>9, <4>1 DEF HasIn, LeaRsi
    <3>2. CASE k \in 1 .. Len(pool)
      <4>1. fixups'[k] = fixups[k] /\ fixups[k].index = k /\ fixups[k].at - 3 \in DOMAIN code.at
            /\ code.at[fixups[k].at - 3].size = 7
        BY <1>2, <1>10, <1>12, <3>2 DEF CodeInv
      <4>. QED BY <1>9, <4>1 DEF HasIn
    <3>. QED BY <1>10, <1>12, <2>2, <3>1, <3>2
  <2>. QED BY <1>9, <1>10, <1>11, <1>12, <2>1, <2>2 DEF CodeInv
<1>15. LayoutInv'
  <2>1. \A a, i : Has(a, i) => Has(a, i)'
    BY <1>9 DEF Has
  <2>2. \A k \in Nat \ {0} : DispOf(k)' = DispOf(k)
    BY <1>1, <1>4 DEF DispOf
  <2>3. ASSUME NEW k \in 1 .. Stop - 1, k < irNo
        PROVE  PrintIsAt(k)' /\ pool'[k] = ir[k].text /\ fixups'[k].at = 39 * (k - 1) + 23
    <3>1. PrintIsAt(k) /\ pool[k] = ir[k].text /\ fixups[k].at = 39 * (k - 1) + 23
      BY <1>2, <1>4, <2>3 DEF LayoutInv
    <3>2. k \in 1 .. Len(pool)
      BY <1>2, <1>4, <1>5, <1>6, <1>10, <2>3 DEF LayoutInv
    <3>3. DispOf(k)' = DispOf(k)
      BY <1>5, <2>2
    <3>4. PrintIsAt(k)'
      BY <1>3, <2>1, <3>1, <3>3, PrintStays
    <3>. QED BY <1>11, <1>12, <3>1, <3>2, <3>4
  <2>4. CASE irNo < Stop
    <3>1. code.size = 39 * (irNo - 1) /\ Len(pool) = irNo - 1
      BY <1>2, <1>4, <1>5, <1>6, <2>4 DEF LayoutInv
    <3>2. ASSUME NEW k \in Nat, k = irNo PROVE PrintIsAt(k)'
      <4>1. k \in Nat \ {0} /\ ir' = ir /\ 39 * (k - 1) = code.size /\ ir'[k].text = t
        BY <1>3, <1>5, <1>6, <3>1, <3>2
      <4>2. DispOf(k)' = 0
        BY <1>1, <1>4, <4>1 DEF DispOf
      <4>. HIDE DEF t
      <4>. QED BY <1>8, <1>9, <4>1, <4>2 DEF PrintIsAt, Has
    <3>3. pool'[irNo] = ir[irNo].text /\ fixups'[irNo].at = 39 * (irNo - 1) + 23
      BY <1>6, <1>11, <1>12, <3>1
    <3>4. irNo' <= Stop /\ code'.size = 39 * (irNo' - 1) /\ Len(pool') = irNo' - 1 /\ Len(fixups') < Stop
      BY <1>1, <1>5, <1>6, <1>9, <1>11, <1>12, <2>4, <3>1
    <3>5. \A k \in 1 .. Stop - 1 : k < irNo' => k < irNo \/ k = irNo
      BY <1>1, <1>5, <1>6
    <3>6. \A k \in 1 .. Len(fixups') : ~ (k >= Stop)
      BY <1>5, <1>12, <3>4, <1>10
    <3>7. ~ (irNo' > Stop)
      BY <1>1, <1>5, <1>6, <2>4
    <3>8. ASSUME NEW k \in 1 .. Stop - 1, k < irNo'
          PROVE  PrintIsAt(k)' /\ pool'[k] = ir[k].text /\ fixups'[k].at = 39 * (k - 1) + 23
      <4>1. CASE k < irNo
        BY <2>3, <4>1
      <4>2. CASE k = irNo
        BY <1>6, <3>2, <3>3, <4>2
      <4>. QED BY <3>5, <3>8, <4>1, <4>2
    <3>. QED BY <1>3, <3>4, <3>6, <3>7, <3>8 DEF LayoutInv
  <2>5. CASE irNo > Stop
    <3>1. code.size >= 39 * (Stop - 1) + 22 /\ Len(pool) >= Stop - 1 /\ HaltIsAt(Stop)
      BY <1>2, <1>4, <1>5, <1>6, <2>5 DEF LayoutInv
    <3>2. HaltIsAt(Stop)'
      BY <1>3, <2>1, <3>1, HaltStays
    <3>3. irNo' > Stop /\ code'.size >= 39 * (Stop - 1) + 22 /\ Len(pool') >= Stop - 1
      <4>1. code'.size = code.size + 39 /\ code.size \in Nat /\ Len(pool') = Len(pool) + 1
            /\ Len(pool) \in Nat /\ irNo' = irNo + 1 /\ irNo \in Nat
        BY <1>1, <1>6, <1>8, <1>9, <1>10, <1>11
      <4>. QED BY <1>5, <2>5, <3>1, <4>1
    <3>4. \A k \in 1 .. Stop - 1 : k < irNo' => k < irNo
      BY <1>1, <1>5, <1>6, <2>5
    <3>5. ASSUME NEW k \in 1 .. Len(fixups'), k >= Stop
          PROVE  fixups'[k].at - 3 >= 39 * (Stop - 1) + 22
      <4>1. CASE k = Len(pool) + 1
        <5>1. fixups'[k].at = code.size + 23
          BY <1>12, <4>1
        <5>. QED BY <1>5, <1>8, <3>1, <5>1
      <4>2. CASE k \in 1 .. Len(pool)
        BY <1>2, <1>4, <1>10, <1>12, <3>5, <4>2 DEF LayoutInv
      <4>. QED BY <1>10, <1>12, <3>5, <4>1, <4>2
    <3>6. ~ (irNo' <= Stop)
      BY <1>1, <1>5, <1>6, <2>5
    <3>. QED BY <1>3, <2>3, <3>2, <3>3, <3>4, <3>5, <3>6 DEF LayoutInv
  <2>. QED BY <1>5, <1>6, <2>4, <2>5
<1>16. StringsInv'
  BY <1>1, <1>4, <1>10, <1>12, <1>11 DEF StringsInv
<1>17. RunInv'
  BY <1>1 DEF RunInv
<1>. QED BY <1>3, <1>13, <1>14, <1>15, <1>16, <1>17 DEF IInv

\* Code that only grows behind the halt keeps the layout.
LEMMA LayoutGrows ==
  ASSUME LayoutInv, parsed = "ok", parsed' = parsed, ir' = ir,
         Stop \in Nat \ {0}, Stop' = Stop,
         irNo \in Nat, irNo >= Stop, irNo' \in Nat, irNo' > Stop,
         UNCHANGED <<pool, fixups>>, Len(pool) \in Nat, Len(pool) >= Stop - 1,
         \A k \in 1 .. Stop - 1 : DispOf(k)' = DispOf(k),
         \A a, i : Has(a, i) => Has(a, i)',
         code'.size >= 39 * (Stop - 1) + 22, HaltIsAt(Stop)'
  PROVE  LayoutInv'
<1>1. ASSUME NEW k \in 1 .. Stop - 1
      PROVE  PrintIsAt(k)' /\ pool'[k] = ir[k].text /\ fixups'[k].at = 39 * (k - 1) + 23
  <2>1. k < irNo
    OBVIOUS
  <2>2. PrintIsAt(k) /\ pool[k] = ir[k].text /\ fixups[k].at = 39 * (k - 1) + 23
    BY <2>1 DEF LayoutInv
  <2>3. PrintIsAt(k)'
    BY <2>2, PrintStays
  <2>. QED BY <2>2, <2>3
<1>2. \A k \in 1 .. Len(fixups') : k >= Stop => fixups'[k].at - 3 >= 39 * (Stop - 1) + 22
  BY DEF LayoutInv
<1>3. ~ (irNo' <= Stop)
  OBVIOUS
<1>. QED BY <1>1, <1>2, <1>3 DEF LayoutInv

\* It keeps the leas of the fixups too.
LEMMA CodeGrows ==
  ASSUME CodeInv, IsCode(code'), \A a, i : Has(a, i) => Has(a, i)',
         UNCHANGED <<pool, fixups>>, irNo' \in 1 .. Len(ir') + 1
  PROVE  CodeInv'
<1>1. \A k \in 1 .. Len(fixups) : fixups[k].at - 3 \in DOMAIN code'.at
                                  /\ code'.at[fixups[k].at - 3].size = 7
  <2>1. TAKE k \in 1 .. Len(fixups)
  <2>2. fixups[k].at - 3 \in DOMAIN code.at /\ code.at[fixups[k].at - 3].size = 7
    BY DEF CodeInv
  <2>3. Has(fixups[k].at - 3, code.at[fixups[k].at - 3])
    BY <2>2 DEF Has, HasIn
  <2>4. HasIn(code', fixups[k].at - 3, code.at[fixups[k].at - 3])
    BY <2>3 DEF Has
  <2>. QED BY <2>2, <2>4 DEF HasIn
<1>. QED BY <1>1 DEF CodeInv

LEMMA GenerateHaltStep ==
  ASSUME IInv, GenerateHalt
  PROVE  IInv'
<1>1. /\ phase = "generate" /\ irNo <= Len(ir) /\ ir[irNo].op = "HALT"
      /\ code' = EmitHalt(code)
      /\ irNo' = irNo + 1
      /\ UNCHANGED <<parserVars, phase, pool, fixups, offsets, running, patched, strings, appended,
                     file, rip, reg, output, exited>>
  BY DEF GenerateHalt, AtInstruction, linkVars, cpuVars
<1>2. ParserInv /\ HaltInv /\ PhaseInv /\ CodeInv /\ LayoutInv /\ StringsInv
  BY DEF IInv
<1>3. ParserInv' /\ HaltInv' /\ Stop' = Stop /\ ir' = ir /\ parsed' = parsed
  BY <1>1, <1>2, SameParser
<1>4. parsed = "ok" /\ patched = 0
  BY <1>1, <1>2 DEF PhaseInv
<1>5. /\ Stop \in 1 .. Len(ir) /\ Stop \in Nat \ {0} /\ Len(ir) \in Nat /\ ir[Stop] = HALT
      /\ \A k \in 1 .. Stop - 1 : ir[k].text \in Texts /\ ir[k] = PRINT(ir[k].text)
  BY <1>2, <1>4, IrFacts
<1>6. irNo \in 1 .. Len(ir)
  BY <1>1, <1>2, <1>5 DEF CodeInv
<1>7. ~ (irNo < Stop)
  <2>1. \A x, y : x = PRINT(y) => x.op = "PRINT"
    BY DEF PRINT
  <2>2. \A k \in 1 .. Stop - 1 : ir[k].op = "PRINT"
    BY <1>5, <2>1
  <2>. QED BY <1>1, <1>5, <1>6, <2>2
<1>8. IsCode(code) /\ code.size \in Nat
  BY <1>2 DEF CodeInv, IsCode
<1>9. /\ IsCode(code') /\ code'.size = code.size + 22
      /\ HasIn(code', code.size, MovImm("rax", 60))
      /\ HasIn(code', code.size + 10, MovImm("rdi", 0))
      /\ HasIn(code', code.size + 20, Syscall)
      /\ \A a, i : HasIn(code, a, i) => HasIn(code', a, i)
  BY <1>1, <1>8, HaltFacts
<1>10. \A a, i : Has(a, i) => Has(a, i)'
  BY <1>9 DEF Has
<1>11. PhaseInv'
  BY <1>1, <1>2, <1>3, <1>4 DEF PhaseInv
<1>12. irNo' \in 1 .. Len(ir') + 1
  BY <1>1, <1>3, <1>6
<1>13. CodeInv'
  BY <1>1, <1>2, <1>9, <1>10, <1>12, CodeGrows
<1>14. Len(pool) \in Nat
  BY <1>2 DEF CodeInv
<1>15. LayoutInv'
  <2>1. \A k \in 1 .. Stop - 1 : DispOf(k)' = DispOf(k)
    BY <1>1, <1>4, <1>5 DEF DispOf
  <2>2. CASE irNo = Stop
    <3>1. code.size = 39 * (irNo - 1) /\ Len(pool) = irNo - 1
      BY <1>2, <1>4, <1>5, <2>2 DEF LayoutInv
    <3>2. HaltIsAt(Stop)'
      BY <1>3, <1>9, <2>2, <3>1 DEF HaltIsAt, Has
    <3>3. code'.size >= 39 * (Stop - 1) + 22 /\ Len(pool) >= Stop - 1
      BY <1>5, <1>8, <1>9, <2>2, <3>1
    <3>4. irNo' > Stop /\ irNo' \in Nat /\ irNo >= Stop
      BY <1>1, <1>5, <1>6, <2>2
    <3>. QED BY <1>1, <1>2, <1>3, <1>4, <1>5, <1>6, <1>10, <1>14, <2>1, <3>2, <3>3, <3>4, LayoutGrows
  <2>3. CASE irNo > Stop
    <3>1. code.size >= 39 * (Stop - 1) + 22 /\ Len(pool) >= Stop - 1 /\ HaltIsAt(Stop)
      BY <1>2, <1>4, <1>5, <1>6, <2>3 DEF LayoutInv
    <3>2. HaltIsAt(Stop)'
      BY <1>3, <1>10, <3>1, HaltStays
    <3>3. code'.size >= 39 * (Stop - 1) + 22
      BY <1>5, <1>8, <1>9, <3>1
    <3>4. irNo' > Stop /\ irNo' \in Nat /\ irNo >= Stop
      BY <1>1, <1>5, <1>6, <2>3
    <3>. QED BY <1>1, <1>2, <1>3, <1>4, <1>5, <1>6, <1>10, <1>14, <2>1, <3>1, <3>2, <3>3, <3>4, LayoutGrows
  <2>. QED BY <1>5, <1>6, <1>7, <2>2, <2>3
<1>16. StringsInv'
  BY <1>1, <1>2 DEF StringsInv
<1>17. RunInv'
  BY <1>1 DEF RunInv
<1>. QED BY <1>3, <1>11, <1>13, <1>15, <1>16, <1>17 DEF IInv

\* From the end of the generator on.
LEMMA Generated ==
  ASSUME ParserInv, HaltInv, PhaseInv, CodeInv, LayoutInv, parsed = "ok", irNo = Len(ir) + 1
  PROVE  /\ Stop \in 1 .. Len(ir) /\ Stop \in Nat \ {0} /\ irNo \in Nat /\ irNo > Stop
         /\ \A k \in 1 .. Stop - 1 :
              PrintIsAt(k) /\ pool[k] = ir[k].text /\ fixups[k].at = 39 * (k - 1) + 23
         /\ code.size \in Nat /\ code.size >= 39 * (Stop - 1) + 22 /\ HaltIsAt(Stop)
         /\ Len(pool) \in Nat /\ Len(pool) >= Stop - 1 /\ Len(fixups) = Len(pool)
         /\ \A k \in 1 .. Len(fixups) : k >= Stop => fixups[k].at - 3 >= 39 * (Stop - 1) + 22
<1>1. /\ Stop \in 1 .. Len(ir) /\ Stop \in Nat \ {0} /\ Len(ir) \in Nat
  BY IrFacts
<1>2. irNo \in Nat /\ irNo > Stop /\ \A k \in 1 .. Stop - 1 : k < irNo
  BY <1>1
<1>3. code.size \in Nat /\ Len(pool) \in Nat /\ Len(fixups) = Len(pool)
  BY DEF CodeInv, IsCode
<1>. QED BY <1>1, <1>2, <1>3 DEF LayoutInv

LEMMA GenerateRetStep ==
  ASSUME IInv, GenerateRet
  PROVE  IInv'
<1>1. /\ phase = "generate" /\ irNo = Len(ir) + 1
      /\ code' = Emit(code, Ret)
      /\ phase' = "link"
      /\ UNCHANGED <<parserVars, irNo, pool, fixups, offsets, running, patched, strings, appended,
                     file, rip, reg, output, exited>>
  BY DEF GenerateRet, codeVars, linkVars, cpuVars
<1>2. ParserInv /\ HaltInv /\ PhaseInv /\ CodeInv /\ LayoutInv /\ StringsInv
  BY DEF IInv
<1>3. ParserInv' /\ HaltInv' /\ Stop' = Stop /\ ir' = ir /\ parsed' = parsed
  BY <1>1, <1>2, SameParser
<1>4. parsed = "ok" /\ patched = 0
  BY <1>1, <1>2 DEF PhaseInv
<1>5. /\ Stop \in Nat \ {0} /\ irNo \in Nat /\ irNo > Stop
      /\ code.size \in Nat /\ code.size >= 39 * (Stop - 1) + 22 /\ HaltIsAt(Stop)
      /\ Len(pool) \in Nat /\ Len(pool) >= Stop - 1
  BY <1>1, <1>2, <1>4, Generated
<1>6. /\ IsCode(code') /\ code'.size = code.size + 1
      /\ \A a, i : HasIn(code, a, i) => HasIn(code', a, i)
  <2>1. IsCode(code) /\ Ret.size = 1
    BY <1>2 DEF CodeInv, Ret
  <2>. QED BY <1>1, <2>1, EmitFacts
<1>7. \A a, i : Has(a, i) => Has(a, i)'
  BY <1>6 DEF Has
<1>8. PhaseInv'
  BY <1>1, <1>2, <1>3, <1>4 DEF PhaseInv
<1>9. irNo' \in 1 .. Len(ir') + 1
  BY <1>1, <1>2, <1>3 DEF CodeInv
<1>10. CodeInv'
  BY <1>1, <1>2, <1>6, <1>7, <1>9, CodeGrows
<1>11. LayoutInv'
  <2>1. \A k \in 1 .. Stop - 1 : DispOf(k)' = DispOf(k)
    BY <1>1, <1>4, <1>5 DEF DispOf
  <2>2. HaltIsAt(Stop)'
    BY <1>3, <1>5, <1>7, HaltStays
  <2>3. code'.size >= 39 * (Stop - 1) + 22
    BY <1>5, <1>6
  <2>. QED BY <1>1, <1>2, <1>3, <1>4, <1>5, <1>7, <2>1, <2>2, <2>3, LayoutGrows
<1>12. StringsInv'
  BY <1>1, <1>2 DEF StringsInv
<1>13. RunInv'
  BY <1>1 DEF RunInv
<1>. QED BY <1>3, <1>8, <1>10, <1>11, <1>12, <1>13 DEF IInv

LEMMA LayOutStringStep ==
  ASSUME IInv, LayOutString
  PROVE  IInv'
<1>. DEFINE n == Len(offsets)
<1>1. /\ phase = "link" /\ n < Len(pool)
      /\ offsets' = Append(offsets, running)
      /\ running' = running + TextSize[pool[n + 1]]
      /\ UNCHANGED <<parserVars, phase, code, irNo, pool, fixups, patched, strings, appended, file,
                     rip, reg, output, exited>>
  BY DEF LayOutString, codeVars, cpuVars
<1>2. ParserInv /\ HaltInv /\ PhaseInv /\ CodeInv /\ LayoutInv /\ StringsInv
  BY DEF IInv
<1>3. ParserInv' /\ HaltInv' /\ Stop' = Stop /\ ir' = ir /\ parsed' = parsed
  BY <1>1, <1>2, SameParser
<1>4. parsed = "ok" /\ irNo = Len(ir) + 1
  BY <1>1, <1>2 DEF PhaseInv
<1>5. /\ Stop \in Nat \ {0} /\ irNo \in Nat /\ irNo > Stop
      /\ code.size \in Nat /\ code.size >= 39 * (Stop - 1) + 22 /\ HaltIsAt(Stop)
      /\ Len(pool) \in Nat /\ Len(pool) >= Stop - 1
  BY <1>1, <1>2, <1>4, Generated
<1>6. /\ offsets \in Seq(Nat) /\ n \in Nat /\ running \in Nat
      /\ patched = 0 /\ appended = 0
      /\ offsets = <<>> => running = 0
      /\ offsets # <<>> => offsets[1] = 0
      /\ \A k \in 1 .. n : offsets[k] + TextSize[pool[k]] = IF k = n THEN running ELSE offsets[k + 1]
      /\ \A k \in 1 .. n : offsets[k] <= running
      /\ strings \in Seq(Texts \X Nat) /\ Len(strings) = IF 0 < n THEN offsets[1] ELSE running
  <2>1. patched \in Nat /\ appended \in Nat
    BY <1>2 DEF StringsInv, CodeInv
  <2>2. patched = 0 /\ appended = 0 /\ offsets \in Seq(Nat)
    BY <1>1, <1>2, <1>5, <2>1 DEF StringsInv
  <2>3. Len(strings) = IF 0 < n THEN offsets[1] ELSE running
    BY <1>2, <2>2 DEF StringsInv
  <2>. QED BY <1>2, <2>2, <2>3 DEF StringsInv
<1>7. TextSize[pool[n + 1]] \in Nat \ {0}
  <2>1. pool[n + 1] \in Texts
    <3>1. pool \in Seq(Texts)
      BY <1>2 DEF CodeInv
    <3>2. n + 1 \in 1 .. Len(pool)
      BY <1>1, <1>5, <1>6
    <3>. QED BY <3>1, <3>2
  <2>. QED BY <2>1, TextSizeAssumption
<1>8. Len(strings) = 0
  BY <1>6
<1>9. /\ offsets' \in Seq(Nat) /\ Len(offsets') = n + 1 /\ offsets'[n + 1] = running
      /\ \A k \in 1 .. n : offsets'[k] = offsets[k]
      /\ running' \in Nat /\ running' >= running
  BY <1>1, <1>6, <1>7
<1>10. PhaseInv'
  BY <1>1, <1>2, <1>3, <1>4 DEF PhaseInv
<1>11. IsCode(code') /\ \A a, i : Has(a, i) => Has(a, i)'
  BY <1>1, <1>2 DEF CodeInv, Has
<1>12. CodeInv'
  BY <1>1, <1>2, <1>3, <1>11, CodeGrows DEF CodeInv
<1>13. LayoutInv'
  <2>1. \A k \in 1 .. Stop - 1 : DispOf(k)' = DispOf(k)
    BY <1>1, <1>5, <1>6 DEF DispOf
  <2>2. HaltIsAt(Stop)'
    BY <1>3, <1>5, <1>11, HaltStays
  <2>. QED BY <1>1, <1>2, <1>3, <1>4, <1>5, <1>11, <2>1, <2>2, LayoutGrows
<1>14. StringsInv'
  <2>1. offsets'[1] = 0 /\ offsets' # <<>>
    <3>1. CASE n = 0
      <4>1. running = 0 /\ n + 1 = 1
        <5>1. offsets = <<>>
          BY <1>6, <3>1
        <5>. QED BY <1>6, <3>1, <5>1
      <4>2. Len(offsets') = 1
        BY <1>9, <4>1
      <4>3. offsets'[1] = 0
        BY <1>9, <4>1
      <4>. QED BY <4>2, <4>3
    <3>2. CASE n # 0
      <4>1. 1 \in 1 .. n /\ Len(offsets') # 0
        BY <1>6, <1>9, <3>2
      <4>2. offsets # <<>>
        BY <3>2
      <4>3. offsets'[1] = 0
        BY <1>6, <1>9, <4>1, <4>2
      <4>. QED BY <4>1, <4>3
    <3>. QED BY <3>1, <3>2
  <2>2. \A k \in 1 .. n + 1 : k = n + 1 \/ (k \in 1 .. n /\ k # n + 1)
    BY <1>6
  <2>3. \A k \in 1 .. n + 1 :
          offsets'[k] + TextSize[pool[k]] = IF k = n + 1 THEN running' ELSE offsets'[k + 1]
    <3>1. offsets'[n + 1] + TextSize[pool[n + 1]] = running'
      BY <1>1, <1>9
    <3>2. ASSUME NEW k \in 1 .. n PROVE offsets'[k] + TextSize[pool[k]] = offsets'[k + 1]
      <4>1. CASE k = n
        BY <1>6, <1>9, <4>1
      <4>2. CASE k # n
        <5>1. offsets[k] + TextSize[pool[k]] = offsets[k + 1] /\ k + 1 \in 1 .. n
          BY <1>6, <4>2
        <5>. QED BY <1>9, <5>1
      <4>. QED BY <4>1, <4>2
    <3>. QED BY <2>2, <3>1, <3>2
  <2>4. \A k \in 1 .. n + 1 : offsets'[k] <= running'
    <3>1. ASSUME NEW k \in 1 .. n PROVE offsets'[k] <= running'
      <4>1. offsets[k] <= running /\ offsets[k] \in Nat
        BY <1>6
      <4>. QED BY <1>6, <1>9, <4>1
    <3>2. offsets'[n + 1] <= running'
      BY <1>6, <1>9
    <3>. QED BY <2>2, <3>1, <3>2
  <2>5. Len(offsets') <= Len(pool') /\ patched' \in 0 .. Len(fixups') /\ appended' \in 0 .. Len(pool')
        /\ patched' = 0 /\ appended' = 0 /\ strings' = strings
    BY <1>1, <1>2, <1>6, <1>9, <1>5 DEF StringsInv
  <2>6. Len(strings') = IF appended' < Len(offsets') THEN offsets'[appended' + 1] ELSE running'
    <3>1. appended' < Len(offsets') /\ appended' + 1 = 1
      BY <1>6, <1>9, <2>5
    <3>. QED BY <1>8, <2>1, <2>5, <3>1
  <2>7. \A k \in 1 .. appended' : FALSE
    BY <2>5
  <2>8. pool' = pool
    BY <1>1
  <2>. QED BY <1>6, <1>9, <2>1, <2>3, <2>4, <2>5, <2>6, <2>7, <2>8 DEF StringsInv
<1>15. RunInv'
  BY <1>1 DEF RunInv
<1>. QED BY <1>3, <1>10, <1>12, <1>13, <1>14, <1>15 DEF IInv

LEMMA PatchFixupStep ==
  ASSUME IInv, PatchFixup
  PROVE  IInv'
<1>. DEFINE p == patched + 1
            f == fixups[p]
            b == f.at - 3
<1>1. /\ phase = "link" /\ Len(offsets) = Len(pool) /\ patched < Len(fixups)
      /\ code' = [code EXCEPT !.at[b] = LeaRsi(Displacement(f))]
      /\ patched' = p
      /\ UNCHANGED <<parserVars, phase, irNo, pool, fixups, offsets, running, strings, appended, file,
                     rip, reg, output, exited>>
  BY DEF PatchFixup, codeVars, cpuVars
<1>2. ParserInv /\ HaltInv /\ PhaseInv /\ CodeInv /\ LayoutInv /\ StringsInv
  BY DEF IInv
<1>3. ParserInv' /\ HaltInv' /\ Stop' = Stop /\ ir' = ir /\ parsed' = parsed
  BY <1>1, <1>2, SameParser
<1>4. parsed = "ok" /\ irNo = Len(ir) + 1
  BY <1>1, <1>2 DEF PhaseInv
<1>5. /\ Stop \in Nat \ {0} /\ irNo \in Nat /\ irNo > Stop
      /\ \A k \in 1 .. Stop - 1 :
           PrintIsAt(k) /\ pool[k] = ir[k].text /\ fixups[k].at = 39 * (k - 1) + 23
      /\ code.size \in Nat /\ code.size >= 39 * (Stop - 1) + 22 /\ HaltIsAt(Stop)
      /\ Len(pool) \in Nat /\ Len(pool) >= Stop - 1 /\ Len(fixups) = Len(pool)
      /\ \A k \in 1 .. Len(fixups) : k >= Stop => fixups[k].at - 3 >= 39 * (Stop - 1) + 22
  BY <1>1, <1>2, <1>4, Generated
<1>6. patched \in Nat /\ p \in 1 .. Len(fixups)
  <2>1. patched \in 0 .. Len(fixups) /\ Len(fixups) \in Nat
    BY <1>2, <1>5 DEF StringsInv
  <2>. QED BY <1>1, <2>1
<1>7. IsCode(code) /\ b \in DOMAIN code.at /\ code.at[b].size = 7
  BY <1>2, <1>6 DEF CodeInv
<1>8. /\ IsCode(code') /\ code'.size = code.size /\ DOMAIN code'.at = DOMAIN code.at
      /\ HasIn(code', b, LeaRsi(Displacement(f)))
      /\ \A a, i : a # b /\ HasIn(code, a, i) => HasIn(code', a, i)
      /\ \A a \in DOMAIN code.at : code'.at[a].size = code.at[a].size
  <2>. DEFINE n == Displacement(f)
  <2>. HIDE DEF b, f
  <2>1. code' = Patched(code, b, n)
    BY <1>1 DEF Patched
  <2>. HIDE DEF n
  <2>2. /\ IsCode(code') /\ code'.size = code.size /\ DOMAIN code'.at = DOMAIN code.at
        /\ HasIn(code', b, LeaRsi(n))
        /\ \A a, i : a # b /\ HasIn(code, a, i) => HasIn(code', a, i)
        /\ \A a \in DOMAIN code.at : code'.at[a].size = code.at[a].size
    BY <1>7, <2>1, PatchedFacts
  <2>. QED BY <2>2 DEF n
<1>9. IF p < Stop THEN b = 39 * (p - 1) + 20 ELSE b \in Int /\ b >= 39 * (Stop - 1) + 22
  <2>1. b \in Int
    <3>1. fixups \in Seq([at : Nat, index : Nat])
      BY <1>2 DEF CodeInv
    <3>2. f \in [at : Nat, index : Nat]
      <4>1. \A i \in 1 .. Len(fixups) : fixups[i] \in [at : Nat, index : Nat]
        BY <3>1, ElementOfSeq
      <4>. QED BY <1>6, <4>1
    <3>. QED BY <3>2
  <2>2. p \in Nat \ {0} /\ p <= Len(fixups)
    BY <1>5, <1>6
  <2>3. CASE p < Stop
    <3>1. p \in 1 .. Stop - 1
      BY <1>5, <2>2, <2>3
    <3>2. fixups[p].at = 39 * (p - 1) + 23
      BY <1>5, <3>1
    <3>. QED BY <2>2, <2>3, <3>2
  <2>4. CASE ~(p < Stop)
    <3>1. p \in 1 .. Len(fixups) /\ p >= Stop
      BY <1>5, <1>6, <2>2, <2>4
    <3>2. fixups[p].at - 3 >= 39 * (Stop - 1) + 22
      BY <1>5, <3>1
    <3>. QED BY <2>1, <2>4, <3>2
  <2>. QED BY <2>3, <2>4
<1>. HIDE DEF b
<1>10. PhaseInv'
  BY <1>1, <1>2, <1>3, <1>4 DEF PhaseInv
<1>11. CodeInv'
  <2>1. \A k \in 1 .. Len(fixups) :
          fixups[k].at - 3 \in DOMAIN code'.at /\ code'.at[fixups[k].at - 3].size = 7
    BY <1>2, <1>8 DEF CodeInv
  <2>. QED BY <1>1, <1>2, <1>3, <1>8, <2>1 DEF CodeInv
<1>12. LayoutInv'
  <2>1. ASSUME NEW k \in 1 .. Stop - 1 PROVE PrintIsAt(k)'
    <3>1. PrintIsAt(k) /\ k \in Nat \ {0}
      BY <1>5
    <3>2. 39 * (k - 1) # b /\ 39 * (k - 1) + 10 # b /\ 39 * (k - 1) + 27 # b /\ 39 * (k - 1) + 37 # b
      BY <1>5, <1>6, <1>9
    <3>3. HasIn(code', 39 * (k - 1) + 20, LeaRsi(DispOf(k)'))
      <4>1. \A x : Displacement(x)' = Displacement(x')
        BY <1>1, <1>8 DEF Displacement
      <4>2. CASE k = p
        <5>1. b = 39 * (k - 1) + 20
          BY <1>5, <1>6, <1>9, <4>2
        <5>2. DispOf(k)' = Displacement(f)
          <6>1. k <= patched'
            BY <1>1, <1>6, <4>2
          <6>. QED BY <1>1, <1>8, <4>2, <6>1 DEF DispOf, Displacement
        <5>. QED BY <1>8, <5>1, <5>2
      <4>3. CASE k # p
        <5>1. b # 39 * (k - 1) + 20
          BY <1>5, <1>6, <1>9, <4>3
        <5>2. DispOf(k)' = DispOf(k)
          <6>1. k <= patched' <=> k <= patched
            BY <1>1, <1>6, <4>3
          <6>. QED BY <1>1, <1>8, <6>1 DEF DispOf, Displacement
        <5>. QED BY <1>8, <3>1, <5>1, <5>2 DEF PrintIsAt, Has
      <4>. QED BY <4>2, <4>3
    <3>. QED BY <1>3, <1>8, <3>1, <3>2, <3>3 DEF PrintIsAt, Has
  <2>2. HaltIsAt(Stop)'
    <3>1. 39 * (Stop - 1) # b /\ 39 * (Stop - 1) + 10 # b /\ 39 * (Stop - 1) + 20 # b
      BY <1>5, <1>6, <1>9
    <3>2. /\ HasIn(code, 39 * (Stop - 1), MovImm("rax", 60))
          /\ HasIn(code, 39 * (Stop - 1) + 10, MovImm("rdi", 0))
          /\ HasIn(code, 39 * (Stop - 1) + 20, Syscall)
      BY <1>5, Zenon DEF HaltIsAt, Has
    <3>3. \A a, i : a # b /\ HasIn(code, a, i) => HasIn(code', a, i)
      BY <1>8, Zenon
    <3>4. /\ HasIn(code', 39 * (Stop - 1), MovImm("rax", 60))
          /\ HasIn(code', 39 * (Stop - 1) + 10, MovImm("rdi", 0))
          /\ HasIn(code', 39 * (Stop - 1) + 20, Syscall)
      BY <3>1, <3>2, <3>3, Zenon
    <3>. QED BY <1>3, <3>4 DEF HaltIsAt, Has
  <2>3. ~ (irNo' <= Stop)
    BY <1>1, <1>5
  <2>. QED BY <1>1, <1>3, <1>5, <1>8, <2>1, <2>2, <2>3 DEF LayoutInv
<1>13. StringsInv'
  <2>1. patched' \in 0 .. Len(fixups')
    BY <1>1, <1>6
  <2>. QED BY <1>1, <1>2, <2>1 DEF StringsInv
<1>14. RunInv'
  BY <1>1 DEF RunInv
<1>. QED BY <1>3, <1>10, <1>11, <1>12, <1>13, <1>14 DEF IInv

LEMMA AppendStringStep ==
  ASSUME IInv, AppendString
  PROVE  IInv'
<1>. DEFINE k0 == appended + 1
            t == pool[k0]
<1>1. /\ phase = "link" /\ Len(offsets) = Len(pool) /\ patched = Len(fixups) /\ appended < Len(pool)
      /\ strings' = strings \o TextBytes(t)
      /\ appended' = k0
      /\ UNCHANGED <<parserVars, phase, code, irNo, pool, fixups, offsets, running, patched, file,
                     rip, reg, output, exited>>
  BY DEF AppendString, codeVars, cpuVars
<1>2. ParserInv /\ HaltInv /\ PhaseInv /\ CodeInv /\ LayoutInv /\ StringsInv
  BY DEF IInv
<1>3. ParserInv' /\ HaltInv' /\ Stop' = Stop /\ ir' = ir /\ parsed' = parsed
  BY <1>1, <1>2, SameParser
<1>4. parsed = "ok" /\ irNo = Len(ir) + 1
  BY <1>1, <1>2 DEF PhaseInv
<1>5. /\ Stop \in Nat \ {0} /\ irNo \in Nat /\ irNo > Stop
      /\ code.size \in Nat /\ code.size >= 39 * (Stop - 1) + 22 /\ HaltIsAt(Stop)
      /\ Len(pool) \in Nat /\ Len(pool) >= Stop - 1
  BY <1>1, <1>2, <1>4, Generated
<1>6. appended \in Nat /\ k0 \in 1 .. Len(pool) /\ k0 \in 1 .. Len(offsets)
  <2>1. appended \in 0 .. Len(pool)
    BY <1>2 DEF StringsInv
  <2>. QED BY <1>1, <1>5, <2>1
<1>7. /\ Len(strings) = offsets[k0]
      /\ offsets[k0] \in Nat
      /\ offsets[k0] + TextSize[t] = IF k0 = Len(offsets) THEN running ELSE offsets[k0 + 1]
      /\ strings \in Seq(Texts \X Nat)
      /\ \A k \in 1 .. appended : \A j \in 1 .. TextSize[pool[k]] :
           offsets[k] + j \in 1 .. Len(strings) /\ strings[offsets[k] + j] = <<pool[k], j>>
  <2>1. appended < Len(offsets) /\ offsets \in Seq(Nat)
    BY <1>1, <1>2 DEF StringsInv
  <2>2. Len(strings) = offsets[k0]
    BY <1>2, <2>1 DEF StringsInv
  <2>3. offsets[k0] \in Nat
    BY <1>6, <2>1, ElementOfSeq
  <2>. QED BY <1>2, <1>6, <2>2, <2>3 DEF StringsInv
<1>8. t \in Texts /\ TextSize[t] \in Nat \ {0}
  <2>1. pool \in Seq(Texts)
    BY <1>2 DEF CodeInv
  <2>2. t \in Texts
    BY <1>6, <2>1, ElementOfSeq
  <2>. HIDE DEF t
  <2>. QED BY <2>2, TextSizeAssumption
<1>9. /\ TextBytes(t) \in Seq(Texts \X Nat) /\ Len(TextBytes(t)) = TextSize[t]
      /\ \A j \in 1 .. TextSize[t] : TextBytes(t)[j] = <<t, j>>
  <2>. HIDE DEF t
  <2>. QED BY <1>8 DEF TextBytes
<1>. HIDE DEF t
<1>10. /\ strings' \in Seq(Texts \X Nat)
       /\ Len(strings') = offsets[k0] + TextSize[t]
       /\ \A i \in 1 .. Len(strings) : strings'[i] = strings[i]
       /\ \A j \in 1 .. TextSize[t] : strings'[offsets[k0] + j] = <<t, j>>
  <2>. DEFINE B == Texts \X Nat
              u == TextBytes(t)
  <2>1. strings \in Seq(B) /\ u \in Seq(B) /\ strings' = strings \o u
    BY <1>1, <1>7, <1>9
  <2>. HIDE DEF B, u
  <2>2. /\ strings' \in Seq(B) /\ Len(strings') = Len(strings) + Len(u)
        /\ \A i \in 1 .. Len(strings) : strings'[i] = strings[i]
        /\ \A j \in 1 .. Len(u) : strings'[Len(strings) + j] = u[j]
    BY <2>1
  <2>. QED BY <1>7, <1>8, <1>9, <2>2 DEF u, B
<1>11. PhaseInv'
  BY <1>1, <1>2, <1>3, <1>4 DEF PhaseInv
<1>12. IsCode(code') /\ \A a, i : Has(a, i) => Has(a, i)'
  BY <1>1, <1>2 DEF CodeInv, Has
<1>13. CodeInv'
  BY <1>1, <1>2, <1>3, <1>12, CodeGrows DEF CodeInv
<1>14. LayoutInv'
  <2>1. \A k \in 1 .. Stop - 1 : DispOf(k)' = DispOf(k)
    BY <1>1 DEF DispOf, Displacement
  <2>2. HaltIsAt(Stop)'
    BY <1>3, <1>5, <1>12, HaltStays
  <2>. QED BY <1>1, <1>2, <1>3, <1>4, <1>5, <1>12, <2>1, <2>2, LayoutGrows
<1>15. StringsInv'
  <2>1. appended' \in 0 .. Len(pool') /\ Len(offsets') = Len(pool')
    BY <1>1, <1>5, <1>6
  <2>2. Len(strings') = IF appended' < Len(offsets') THEN offsets'[appended' + 1] ELSE running'
    BY <1>1, <1>5, <1>6, <1>7, <1>10
  <2>3. ASSUME NEW k \in 1 .. k0, NEW j \in 1 .. TextSize[pool[k]]
        PROVE  offsets[k] + j \in 1 .. Len(strings') /\ strings'[offsets[k] + j] = <<pool[k], j>>
    <3>1. CASE k = k0
      <4>1. pool[k] = t
        BY <3>1 DEF t
      <4>2. offsets[k0] + j \in 1 .. offsets[k0] + TextSize[t]
        BY <1>7, <1>8, <4>1
      <4>. QED BY <1>10, <3>1, <4>1, <4>2
    <3>2. CASE k # k0
      <4>1. k \in 1 .. appended
        BY <1>6, <3>2
      <4>2. offsets[k] + j \in 1 .. Len(strings) /\ strings[offsets[k] + j] = <<pool[k], j>>
        BY <1>7, <4>1
      <4>3. offsets[k] + j \in 1 .. Len(strings')
        BY <1>7, <1>8, <1>10, <4>2
      <4>. QED BY <1>10, <4>2, <4>3
    <3>. QED BY <3>1, <3>2
  <2>4. \A k \in 1 .. appended' : \A j \in 1 .. TextSize[pool'[k]] :
          offsets'[k] + j \in 1 .. Len(strings') /\ strings'[offsets'[k] + j] = <<pool'[k], j>>
    BY <1>1, <2>3
  <2>. QED BY <1>1, <1>2, <1>10, <2>1, <2>2, <2>4 DEF StringsInv
<1>16. RunInv'
  BY <1>1 DEF RunInv
<1>. QED BY <1>3, <1>11, <1>13, <1>14, <1>15, <1>16 DEF IInv

\* From the linked image on only the processor and the output file change.
LEMMA SameImage ==
  ASSUME IInv, UNCHANGED <<parserVars, code, codeVars, linkVars>>
  PROVE  /\ ParserInv' /\ HaltInv' /\ CodeInv' /\ LayoutInv' /\ StringsInv'
         /\ Stop' = Stop /\ ir' = ir /\ parsed' = parsed
<1>1. ParserInv' /\ HaltInv' /\ Stop' = Stop /\ ir' = ir /\ parsed' = parsed
  BY SameParser DEF IInv
<1>2. UNCHANGED <<code, irNo, pool, fixups, offsets, running, patched, strings, appended>>
  BY DEF codeVars, linkVars
<1>3. CodeInv'
  BY <1>1, <1>2 DEF IInv, CodeInv
<1>4. StringsInv'
  BY <1>2 DEF IInv, StringsInv
<1>5. LayoutInv'
  <2>1. \A k : DispOf(k)' = DispOf(k)
    BY <1>2 DEF DispOf, Displacement
  <2>2. \A k : PrintIsAt(k)' = PrintIsAt(k) /\ HaltIsAt(k)' = HaltIsAt(k)
    BY <1>1, <1>2, <2>1 DEF PrintIsAt, HaltIsAt, Has
  <2>. QED BY <1>1, <1>2, <2>2 DEF IInv, LayoutInv
<1>. QED BY <1>1, <1>3, <1>4, <1>5

LEMMA OutputStep ==
  ASSUME IInv, Linked \/ OpenFails \/ Open \/ WriteFails \/ Write \/ UNCHANGED vars
  PROVE  IInv'
<1>1. UNCHANGED <<parserVars, code, codeVars, linkVars>>
  BY DEF Linked, OpenFails, Open, WriteFails, Write, vars, backVars
<1>2. /\ ParserInv' /\ HaltInv' /\ CodeInv' /\ LayoutInv' /\ StringsInv'
      /\ Stop' = Stop /\ ir' = ir /\ parsed' = parsed
  BY <1>1, SameImage
<1>3. PhaseInv'
  <2>1. PhaseInv /\ irNo' = irNo /\ ir' = ir /\ parsed' = parsed
        /\ UNCHANGED <<code, pool, fixups, offsets, running, patched, strings, appended>>
    BY <1>1, <1>2 DEF IInv, codeVars, linkVars
  <2>2. \/ phase = "link" /\ phase' = "write" /\ Linked
        \/ phase = "write" /\ phase' \in {"failed", "write", "run"}
        \/ phase' = phase
    BY DEF Linked, OpenFails, Open, WriteFails, Write, vars, backVars
  <2>3. output' = output /\ exited' = exited /\ reg' = reg /\ file' \in {"absent", "empty", "partial", "complete"}
    BY <2>1 DEF PhaseInv, Linked, OpenFails, Open, WriteFails, Write, vars, backVars, cpuVars
  <2>. QED BY <2>1, <2>2, <2>3 DEF PhaseInv, Linked
<1>4. RunInv'
  <2>1. CASE Write
    <3>1. rip' = CodeOffset /\ rip' \in Int /\ output' = <<>> /\ Len(output') = 0 /\ reg' \in [Registers -> Int]
      BY <2>1 DEF Write, IInv, PhaseInv, CodeOffset
    <3>2. Stop' \in Nat \ {0}
      BY <1>2, <2>1, IrFacts DEF Write, IInv, PhaseInv
    <3>3. output' = [k \in 1 .. Len(output') |-> TextBytes(ir'[k].text)]
      BY <3>1
    <3>4. PrintingAt(Len(output))' /\ HaltingAt(Len(output))'
      BY <3>1 DEF PrintingAt, HaltingAt, Next39
    <3>5. Len(output') \in 0 .. Stop' - 1
      <4>1. \A x \in Nat \ {0} : 0 \in 0 .. x - 1
        OBVIOUS
      <4>2. Len(output') = 0
        BY <3>1
      <4>. QED BY <3>2, <4>1, <4>2, Zenon
    <3>. QED BY <3>1, <3>3, <3>4, <3>5 DEF RunInv
  <2>2. CASE phase' = "run" /\ ~Write
    <3>1. phase = "run" /\ UNCHANGED <<rip, reg, output, code, offsets, running, ir>>
      BY <1>2, <2>2 DEF Linked, OpenFails, Open, WriteFails, vars, backVars, cpuVars, linkVars
    <3>2. \A n : PrintingAt(n)' = PrintingAt(n) /\ HaltingAt(n)' = HaltingAt(n)
      BY <3>1 DEF PrintingAt, HaltingAt, Next39, ImageFits
    <3>. QED BY <1>2, <3>1, <3>2 DEF IInv, RunInv, ImageFits
  <2>. QED BY <2>1, <2>2 DEF RunInv
<1>. QED BY <1>2, <1>3, <1>4 DEF IInv

\* The instructions under a running program.
LEMMA Running ==
  ASSUME IInv, phase = "run"
  PROVE  /\ Stop \in Nat \ {0} /\ Len(output) \in 0 .. Stop - 1
         /\ \A k \in 1 .. Stop - 1 :
              /\ PrintIsAt(k) /\ pool[k] = ir[k].text /\ fixups[k].at = 39 * (k - 1) + 23
              /\ ir[k].text \in Texts /\ TextSize[ir[k].text] \in Nat
         /\ HaltIsAt(Stop)
         /\ rip \in Int /\ reg \in [Registers -> Int]
         /\ code.size \in Nat /\ code.size >= 39 * (Stop - 1) + 22
         /\ Len(pool) \in Nat /\ Len(pool) >= Stop - 1 /\ Len(fixups) = Len(pool)
         /\ Len(offsets) = Len(pool) /\ patched = Len(fixups) /\ appended = Len(pool)
<1>1. ParserInv /\ HaltInv /\ PhaseInv /\ CodeInv /\ LayoutInv /\ parsed = "ok" /\ irNo = Len(ir) + 1
  BY DEF IInv, PhaseInv
<1>2. \A k \in 1 .. Stop - 1 : ir[k].text \in Texts
  BY <1>1, IrFacts
<1>3. \A t \in Texts : TextSize[t] \in Nat
  BY TextSizeAssumption
<1>4. rip \in Int /\ reg \in [Registers -> Int] /\ Len(output) \in 0 .. Stop - 1
  BY DEF IInv, RunInv
<1>5. Len(offsets) = Len(pool) /\ patched = Len(fixups) /\ appended = Len(pool)
  BY <1>1 DEF PhaseInv
<1>. QED BY <1>1, <1>2, <1>3, <1>4, <1>5, Generated

LEMMA PrintInstruction ==
  ASSUME IInv, phase = "run", NEW n, n = Len(output), n < Stop - 1
  PROVE  /\ n \in Nat /\ n + 1 \in 1 .. Stop - 1 /\ PrintingAt(n)
         /\ rip - CodeOffset \in DOMAIN code.at
         /\ Next39(n) = 0 => Instruction = MovImm("rax", 1)
         /\ Next39(n) = 10 => Instruction = MovImm("rdi", 1)
         /\ Next39(n) = 20 => Instruction = LeaRsi(DispOf(n + 1))
         /\ Next39(n) = 27 => Instruction = MovImm("rdx", TextSize[ir[n + 1].text])
         /\ Next39(n) = 37 => Instruction = Syscall
<1>. DEFINE o == rip - CodeOffset
<1>1. n \in Nat /\ n + 1 \in 1 .. Stop - 1 /\ 39 * ((n + 1) - 1) = 39 * n /\ o \in Int
  BY Running DEF CodeOffset
<1>2. PrintingAt(n)
  BY DEF IInv, RunInv
<1>3. PrintIsAt(n + 1)
  BY <1>1, Running
<1>4. /\ Next39(n) \in {0, 10, 20, 27, 37}
      /\ o = 39 * n + Next39(n)
  BY <1>1, <1>2 DEF PrintingAt, Next39
<1>5. /\ Has(39 * n, MovImm("rax", 1))
      /\ Has(39 * n + 10, MovImm("rdi", 1))
      /\ Has(39 * n + 20, LeaRsi(DispOf(n + 1)))
      /\ Has(39 * n + 27, MovImm("rdx", TextSize[ir[n + 1].text]))
      /\ Has(39 * n + 37, Syscall)
  BY <1>1, <1>3 DEF PrintIsAt
<1>6. Next39(n) = 0 => o = 39 * n
  BY <1>1, <1>4
<1>. HIDE DEF o
<1>. QED BY <1>1, <1>2, <1>4, <1>5, <1>6 DEF Has, HasIn, Instruction, o

LEMMA HaltInstruction ==
  ASSUME IInv, phase = "run", NEW n, n = Len(output), n = Stop - 1
  PROVE  /\ n \in Nat /\ HaltingAt(n)
         /\ rip - CodeOffset \in DOMAIN code.at
         /\ Next39(n) = 0 => Instruction = MovImm("rax", 60)
         /\ Next39(n) = 10 => Instruction = MovImm("rdi", 0)
         /\ Next39(n) = 20 => Instruction = Syscall
<1>. DEFINE o == rip - CodeOffset
<1>1. n \in Nat /\ n + 1 = Stop /\ 39 * (Stop - 1) = 39 * n /\ o \in Int
  BY Running DEF CodeOffset
<1>2. HaltingAt(n)
  BY DEF IInv, RunInv
<1>3. HaltIsAt(Stop)
  BY Running
<1>4. /\ Next39(n) \in {0, 10, 20}
      /\ o = 39 * n + Next39(n)
  BY <1>1, <1>2 DEF HaltingAt, Next39
<1>5. /\ Has(39 * n, MovImm("rax", 60))
      /\ Has(39 * n + 10, MovImm("rdi", 0))
      /\ Has(39 * n + 20, Syscall)
  BY <1>1, <1>3 DEF HaltIsAt
<1>6. Next39(n) = 0 => o = 39 * n
  BY <1>1, <1>4
<1>. HIDE DEF o
<1>. QED BY <1>1, <1>2, <1>4, <1>5, <1>6 DEF Has, HasIn, Instruction, o

\* A program prints or halts.
LEMMA PrintsOrHalts ==
  ASSUME IInv, phase = "run"
  PROVE  Len(output) < Stop - 1 \/ Len(output) = Stop - 1
  BY Running

\* In an image that fits, the lea of a print gets the address of its string.
LEMMA LeaReaches ==
  ASSUME IInv, phase = "run", NEW k \in 1 .. Stop - 1
  PROVE  /\ DispOf(k) \in Int
         /\ ImageFits => 39 * (k - 1) + 27 + DispOf(k) = code.size + offsets[k]
<1>1. /\ k \in 1 .. Len(offsets) /\ k <= patched /\ k \in 1 .. Len(fixups)
      /\ fixups[k].at = 39 * (k - 1) + 23
      /\ code.size \in Nat /\ code.size >= 39 * (Stop - 1) + 22
      /\ Stop \in Nat \ {0} /\ k \in Nat \ {0}
  BY Running
<1>2. fixups[k].index = k
  BY <1>1 DEF IInv, CodeInv
<1>3. offsets[k] \in Nat /\ running \in Nat /\ offsets[k] <= running
  <2>1. offsets \in Seq(Nat)
    BY DEF IInv, StringsInv
  <2>2. offsets[k] \in Nat
    BY <1>1, <2>1, ElementOfSeq
  <2>. QED BY <1>1, <2>2 DEF IInv, StringsInv
<1>. DEFINE d == code.size + offsets[k] - (39 * (k - 1) + 27)
<1>4. DispOf(k) = Disp32(d)
  BY <1>1, <1>2 DEF DispOf, Displacement
<1>5. d \in Nat
  <2>1. k - 1 <= Stop - 2 /\ k - 1 \in Nat /\ Stop - 2 \in Int
    BY <1>1
  <2>2. 39 * (k - 1) + 27 <= 39 * (Stop - 1) + 22 /\ 39 * (k - 1) + 27 \in Nat
    BY <1>1, <2>1
  <2>. QED BY <1>1, <1>3, <2>2
<1>6. ASSUME ImageFits PROVE d \in 0 .. MaxDisp - 1
  <2>1. 39 * (k - 1) + 27 \in Nat \ {0} /\ code.size \in Nat
    BY <1>1
  <2>2. code.size + running <= MaxDisp /\ MaxDisp \in Nat
    BY <1>6, DispAssumption DEF ImageFits
  <2>3. code.size + offsets[k] <= MaxDisp
    BY <1>3, <2>1, <2>2
  <2>4. d < MaxDisp
    BY <1>3, <2>1, <2>2, <2>3
  <2>. QED BY <1>5, <2>2, <2>4
<1>7. 39 * (k - 1) + 27 + d = code.size + offsets[k]
  BY <1>1, <1>3
<1>. HIDE DEF d
<1>. QED BY <1>4, <1>5, <1>6, <1>7, Disp32Facts

\* A step of the processor within the code of a print.
LEMMA MovStep ==
  ASSUME IInv, ExecuteMov
  PROVE  RunInv'
<1>. DEFINE n == Len(output)
<1>1. /\ phase = "run" /\ Instruction.op = "mov"
      /\ reg' = [reg EXCEPT ![Instruction.reg] = Instruction.imm]
      /\ rip' = rip + Instruction.size
      /\ output' = output
      /\ UNCHANGED <<parserVars, code, codeVars, linkVars, offsets, running, ir>>
  BY DEF ExecuteMov, Fetched, Instruction, backVars, linkVars, parserVars
<1>2. /\ Stop \in Nat \ {0} /\ n \in 0 .. Stop - 1
      /\ rip \in Int /\ reg \in [Registers -> Int]
      /\ ImageFits => output = [k \in 1 .. n |-> TextBytes(ir[k].text)]
  BY <1>1, Running DEF IInv, RunInv
<1>3. output = [k \in 1 .. n |-> output[k]]
  BY <1>1 DEF IInv, RunInv
<1>4. Stop' = Stop /\ ir' = ir /\ n' = n
  BY <1>1, SameImage
<1>5. ImageFits' = ImageFits /\ offsets' = offsets /\ code' = code
  BY <1>1 DEF ImageFits, linkVars
<1>6. "rax" \in Registers /\ "rdi" \in Registers /\ "rsi" \in Registers /\ "rdx" \in Registers
  BY DEF Registers
<1>. HIDE DEF n
<1>7. CASE n < Stop - 1
  <2>1. /\ n \in Nat /\ n + 1 \in 1 .. Stop - 1 /\ PrintingAt(n)
        /\ Next39(n) = 0 => Instruction = MovImm("rax", 1)
        /\ Next39(n) = 10 => Instruction = MovImm("rdi", 1)
        /\ Next39(n) = 20 => Instruction = LeaRsi(DispOf(n + 1))
        /\ Next39(n) = 27 => Instruction = MovImm("rdx", TextSize[ir[n + 1].text])
        /\ Next39(n) = 37 => Instruction = Syscall
    BY <1>1, <1>7, PrintInstruction DEF n
  <2>2. Next39(n) \in {0, 10, 27}
    BY <1>1, <2>1 DEF PrintingAt, LeaRsi, Syscall
  <2>3. TextSize[ir[n + 1].text] \in Int
    <3>1. \A k \in 1 .. Stop - 1 : TextSize[ir[k].text] \in Nat
      BY <1>1, Running, Zenon
    <3>2. TextSize[ir[n + 1].text] \in Nat
      BY <2>1, <3>1, Zenon
    <3> QED
      BY <3>2
  <2>4. Instruction.size = 10 /\ Instruction.imm \in Int /\ Instruction.reg \in Registers
    BY <1>6, <2>1, <2>2, <2>3 DEF MovImm
  <2>5. rip' \in Int /\ reg' \in [Registers -> Int]
        /\ rip' - CodeOffset - 39 * n = Next39(n) + 10
    BY <1>1, <1>2, <2>1, <2>4 DEF Next39, CodeOffset
  <2>6. PrintingAt(n)'
    <3>1. CASE Next39(n) = 0
      BY <1>1, <1>2, <1>4, <1>6, <2>1, <2>5, <3>1 DEF PrintingAt, Next39, MovImm
    <3>2. CASE Next39(n) = 10
      BY <1>1, <1>2, <1>4, <1>6, <2>1, <2>5, <3>2 DEF PrintingAt, Next39, MovImm
    <3>3. CASE Next39(n) = 27
      BY <1>1, <1>2, <1>4, <1>5, <1>6, <2>1, <2>5, <3>3 DEF PrintingAt, Next39, MovImm
    <3>. QED BY <2>2, <3>1, <3>2, <3>3
  <2>. QED BY <1>3, <1>1, <1>2, <1>4, <1>5, <1>7, <2>5, <2>6 DEF RunInv, n
<1>8. CASE n = Stop - 1
  <2>1. /\ n \in Nat /\ HaltingAt(n)
        /\ Next39(n) = 0 => Instruction = MovImm("rax", 60)
        /\ Next39(n) = 10 => Instruction = MovImm("rdi", 0)
        /\ Next39(n) = 20 => Instruction = Syscall
    BY <1>1, <1>8, HaltInstruction DEF n
  <2>2. Next39(n) \in {0, 10}
    BY <1>1, <2>1 DEF HaltingAt, Syscall
  <2>3. Instruction.size = 10 /\ Instruction.imm \in Int /\ Instruction.reg \in Registers
    BY <1>6, <2>1, <2>2 DEF MovImm
  <2>4. rip' \in Int /\ reg' \in [Registers -> Int]
        /\ rip' - CodeOffset - 39 * n = Next39(n) + 10
    BY <1>1, <1>2, <2>1, <2>3 DEF Next39, CodeOffset
  <2>5. HaltingAt(n)'
    <3>1. CASE Next39(n) = 0
      BY <1>1, <1>2, <1>4, <1>6, <2>1, <2>4, <3>1 DEF HaltingAt, Next39, MovImm
    <3>2. CASE Next39(n) = 10
      BY <1>1, <1>2, <1>4, <1>6, <2>1, <2>4, <3>2 DEF HaltingAt, Next39, MovImm
    <3>. QED BY <2>2, <3>1, <3>2
  <2>. QED BY <1>3, <1>1, <1>2, <1>4, <1>5, <1>8, <2>4, <2>5 DEF RunInv, n
<1>. QED BY <1>2, <1>7, <1>8

LEMMA LeaStep ==
  ASSUME IInv, ExecuteLea
  PROVE  RunInv'
<1>. DEFINE n == Len(output)
<1>1. /\ phase = "run" /\ Instruction.op = "lea"
      /\ reg' = [reg EXCEPT !["rsi"] = rip + Instruction.size + Instruction.imm]
      /\ rip' = rip + Instruction.size
      /\ output' = output
      /\ UNCHANGED <<parserVars, code, codeVars, linkVars, offsets, running, ir>>
  BY DEF ExecuteLea, Fetched, Instruction, backVars, linkVars, parserVars
<1>2. /\ Stop \in Nat \ {0} /\ n \in 0 .. Stop - 1
      /\ rip \in Int /\ reg \in [Registers -> Int]
      /\ ImageFits => output = [k \in 1 .. n |-> TextBytes(ir[k].text)]
  BY <1>1, Running DEF IInv, RunInv
<1>3. output = [k \in 1 .. n |-> output[k]]
  BY <1>1 DEF IInv, RunInv
<1>4. Stop' = Stop /\ ir' = ir /\ n' = n
  BY <1>1, SameImage
<1>5. ImageFits' = ImageFits /\ offsets' = offsets /\ code' = code
  BY <1>1 DEF ImageFits, linkVars
<1>. HIDE DEF n
<1>6. n < Stop - 1
  <2>1. CASE n = Stop - 1
    BY <1>1, <2>1, HaltInstruction DEF n, HaltingAt, MovImm, Syscall
  <2>. QED BY <1>2, <2>1
<1>7. /\ n \in Nat /\ n + 1 \in 1 .. Stop - 1 /\ PrintingAt(n)
      /\ Next39(n) = 0 => Instruction = MovImm("rax", 1)
      /\ Next39(n) = 10 => Instruction = MovImm("rdi", 1)
      /\ Next39(n) = 20 => Instruction = LeaRsi(DispOf(n + 1))
      /\ Next39(n) = 27 => Instruction = MovImm("rdx", TextSize[ir[n + 1].text])
      /\ Next39(n) = 37 => Instruction = Syscall
  BY <1>1, <1>6, PrintInstruction DEF n
<1>8. Next39(n) = 20
  BY <1>1, <1>7 DEF PrintingAt, MovImm, Syscall
<1>9. Instruction.size = 7 /\ Instruction.imm = DispOf(n + 1)
  BY <1>7, <1>8 DEF LeaRsi
<1>10. /\ DispOf(n + 1) \in Int
       /\ ImageFits => 39 * n + 27 + DispOf(n + 1) = code.size + offsets[n + 1]
  <2>1. 39 * ((n + 1) - 1) = 39 * n
    BY <1>7
  <2>. QED BY <1>1, <1>7, <2>1, LeaReaches
<1>11. /\ rip' \in Int /\ reg' \in [Registers -> Int]
       /\ rip' - CodeOffset - 39 * n = 27
       /\ reg'["rax"] = reg["rax"] /\ reg'["rdi"] = reg["rdi"]
       /\ reg'["rsi"] = CodeOffset + (39 * n + 27 + DispOf(n + 1))
  <2>1. rip' = rip + 7 /\ reg' = [reg EXCEPT !["rsi"] = rip + 7 + DispOf(n + 1)]
    BY <1>1, <1>9
  <2>2. rip \in Int /\ reg \in [Registers -> Int] /\ DispOf(n + 1) \in Int /\ n \in Nat
    <3>1. rip \in Int /\ reg \in [Registers -> Int]
      BY <1>2, Zenon
    <3>2. n \in Nat
      BY <1>7, Zenon
    <3>3. DispOf(n + 1) \in Int
      BY <1>10, Zenon
    <3>. QED BY <3>1, <3>2, <3>3, Zenon
  <2>3. rip - CodeOffset - 39 * n = 20 /\ CodeOffset \in Nat
    BY <1>8 DEF Next39, CodeOffset
  <2>4. rip + 7 = CodeOffset + (39 * n + 27)
    BY <2>2, <2>3
  <2>5. reg' \in [Registers -> Int] /\ reg'["rsi"] = rip + 7 + DispOf(n + 1)
        /\ reg'["rax"] = reg["rax"] /\ reg'["rdi"] = reg["rdi"]
    BY <2>1, <2>2 DEF Registers
  <2>. QED BY <2>1, <2>2, <2>3, <2>4, <2>5
<1>12. reg["rax"] = 1 /\ reg["rdi"] = 1
  BY <1>7, <1>8 DEF PrintingAt
<1>13. code.size \in Nat /\ offsets[n + 1] \in Int
  <2>1. offsets \in Seq(Nat)
    BY DEF IInv, StringsInv
  <2>2. n + 1 \in 1 .. Len(offsets)
    BY <1>1, <1>7, Running
  <2>3. offsets[n + 1] \in Nat
    BY <2>1, <2>2, ElementOfSeq
  <2>. QED BY <1>1, <2>3, Running
<1>14. ImageFits => reg'["rsi"] = CodeOffset + code.size + offsets[n + 1]
  <2>1. ASSUME ImageFits PROVE 39 * n + 27 + DispOf(n + 1) = code.size + offsets[n + 1]
    BY <1>10, <2>1
  <2>2. reg'["rsi"] = CodeOffset + (39 * n + 27 + DispOf(n + 1)) /\ CodeOffset \in Nat
    BY <1>11 DEF CodeOffset
  <2>3. ASSUME ImageFits PROVE reg'["rsi"] = CodeOffset + (code.size + offsets[n + 1])
    <3>1. 39 * n + 27 + DispOf(n + 1) = code.size + offsets[n + 1]
      BY <2>1, <2>3
    <3>. QED BY <2>2, <3>1
  <2>. QED BY <1>13, <2>2, <2>3
<1>15. PrintingAt(n)'
  BY <1>4, <1>5, <1>11, <1>12, <1>14 DEF PrintingAt, Next39
<1>. QED BY <1>3, <1>1, <1>2, <1>4, <1>5, <1>6, <1>11, <1>15 DEF RunInv, n

\* The write of a print: it is only done at the end of one, and in an image
\* that fits it writes the text of that print.
LEMMA WriteFacts ==
  ASSUME IInv, ExecuteWrite, NEW n, n = Len(output)
  PROVE  /\ phase = "run" /\ n < Stop - 1 /\ n \in Nat /\ n + 1 \in 1 .. Stop - 1
         /\ Next39(n) = 37 /\ Instruction = Syscall
         /\ Len(output') = n + 1
         /\ ImageFits => output' = Append(output, TextBytes(ir[n + 1].text))
<1>1. /\ phase = "run" /\ Instruction.op = "syscall" /\ reg["rax"] = 1
      /\ output' = Append(output, [j \in 1 .. reg["rdx"] |-> ByteAt(reg["rsi"] + j - 1)])
  BY DEF ExecuteWrite, Fetched, Instruction
<1>2. /\ Stop \in Nat \ {0} /\ n \in 0 .. Stop - 1 /\ code.size \in Nat
      /\ ImageFits => output = [k \in 1 .. n |-> TextBytes(ir[k].text)]
  BY <1>1, Running DEF IInv, RunInv
<1>3. n < Stop - 1
  <2>1. CASE n = Stop - 1
    <3>1. /\ HaltingAt(n)
          /\ Next39(n) = 0 => Instruction = MovImm("rax", 60)
          /\ Next39(n) = 10 => Instruction = MovImm("rdi", 0)
          /\ Next39(n) = 20 => Instruction = Syscall
      BY <1>1, <2>1, HaltInstruction
    <3>2. Next39(n) = 20
      BY <1>1, <3>1 DEF HaltingAt, MovImm
    <3>3. reg["rax"] = 60
      BY <3>1, <3>2 DEF HaltingAt
    <3>. QED BY <1>1, <3>3
  <2>. QED BY <1>2, <2>1
<1>4. /\ n \in Nat /\ n + 1 \in 1 .. Stop - 1 /\ PrintingAt(n)
      /\ Next39(n) = 0 => Instruction = MovImm("rax", 1)
      /\ Next39(n) = 10 => Instruction = MovImm("rdi", 1)
      /\ Next39(n) = 20 => Instruction = LeaRsi(DispOf(n + 1))
      /\ Next39(n) = 27 => Instruction = MovImm("rdx", TextSize[ir[n + 1].text])
      /\ Next39(n) = 37 => Instruction = Syscall
  BY <1>1, <1>3, PrintInstruction
<1>5. Next39(n) = 37
  BY <1>1, <1>4 DEF PrintingAt, MovImm, LeaRsi
<1>. DEFINE t == ir[n + 1].text
<1>6. reg["rdx"] = TextSize[t] /\ (ImageFits => reg["rsi"] = CodeOffset + code.size + offsets[n + 1])
  BY <1>4, <1>5 DEF PrintingAt
<1>7. ASSUME ImageFits
      PROVE  [j \in 1 .. reg["rdx"] |-> ByteAt(reg["rsi"] + j - 1)] = TextBytes(t)
  <2>1. pool[n + 1] = t /\ n + 1 \in 1 .. appended /\ n + 1 \in 1 .. Len(offsets) /\ TextSize[t] \in Nat
    BY <1>1, <1>4, Running
  <2>2. offsets[n + 1] \in Nat
    <3>1. offsets \in Seq(Nat)
      BY DEF IInv, StringsInv
    <3>. QED BY <2>1, <3>1, ElementOfSeq
  <2>3. \A j \in 1 .. TextSize[t] :
          offsets[n + 1] + j \in 1 .. Len(strings) /\ strings[offsets[n + 1] + j] = <<t, j>>
    BY <2>1 DEF IInv, StringsInv
  <2>. HIDE DEF t
  <2>4. strings \in Seq(Texts \X Nat)
    BY DEF IInv, StringsInv
  <2>5. DOMAIN strings = 1 .. Len(strings)
    BY <2>4
  <2>6. ASSUME NEW j \in 1 .. TextSize[t] PROVE ByteAt(reg["rsi"] + j - 1) = <<t, j>>
    <3>. DEFINE a == reg["rsi"] + j - 1
                i == a - (CodeOffset + code.size) + 1
    <3>1. i = offsets[n + 1] + j
      BY <1>2, <1>6, <1>7, <2>2 DEF CodeOffset
    <3>2. ByteAt(a) = IF i \in DOMAIN strings THEN strings[i] ELSE <<NoText, a>>
      BY DEF ByteAt
    <3>3. i \in DOMAIN strings /\ strings[i] = <<t, j>>
      <4>. HIDE DEF i
      <4>. QED BY <2>3, <2>5, <3>1
    <3>. QED BY <3>2, <3>3, Zenon
  <2>. QED BY <1>6, <2>6 DEF TextBytes
<1>8. Len(output') = n + 1
  <2>1. output = [k \in 1 .. n |-> output[k]]
    BY <1>1 DEF IInv, RunInv
  <2>. QED BY <1>1, <1>4, <2>1, AppendAny
<1>. QED BY <1>1, <1>3, <1>4, <1>5, <1>7, <1>8

\* It leaves the program at the next print, or at the halt.
LEMMA WriteStep ==
  ASSUME IInv, ExecuteWrite
  PROVE  RunInv'
<1>1. PICK n : n = Len(output)
  OBVIOUS
<1>2. /\ phase = "run"
      /\ output' = Append(output, [j \in 1 .. reg["rdx"] |-> ByteAt(reg["rsi"] + j - 1)])
      /\ reg' = [reg EXCEPT !["rax"] = reg["rdx"]]
      /\ rip' = rip + Instruction.size
      /\ UNCHANGED <<parserVars, code, codeVars, linkVars>>
  BY DEF ExecuteWrite, Fetched, Instruction, backVars
<1>3. /\ n < Stop - 1 /\ n \in Nat /\ n + 1 \in 1 .. Stop - 1
      /\ Next39(n) = 37 /\ Instruction.size = 2
      /\ Len(output') = n + 1
      /\ ImageFits => output' = Append(output, TextBytes(ir[n + 1].text))
  BY <1>1, WriteFacts DEF Syscall
<1>4. /\ Stop \in Nat \ {0} /\ rip \in Int /\ reg \in [Registers -> Int]
  BY <1>2, Running
<1>5. output = [k \in 1 .. n |-> output[k]]
  BY <1>1, <1>2 DEF IInv, RunInv
<1>6. ImageFits => output = [k \in 1 .. n |-> TextBytes(ir[k].text)]
  BY <1>1, <1>2 DEF IInv, RunInv
<1>7. Stop' = Stop /\ ir' = ir
  BY <1>2, SameImage
<1>8. ImageFits' = ImageFits
  BY <1>2 DEF ImageFits, linkVars
<1>9. rip' \in Int /\ reg' \in [Registers -> Int]
  BY <1>2, <1>3, <1>4 DEF Registers
<1>10. rip' - CodeOffset - 39 * (n + 1) = 0
  BY <1>2, <1>3, <1>4 DEF Next39, CodeOffset
<1>11. PrintingAt(n + 1)' /\ HaltingAt(n + 1)'
  BY <1>10 DEF PrintingAt, HaltingAt, Next39
<1>12. output' = [k \in 1 .. n + 1 |-> output'[k]]
  BY <1>2, <1>3, <1>5, AppendAny
<1>13. ASSUME ImageFits PROVE output' = [k \in 1 .. n + 1 |-> TextBytes(ir[k].text)]
  <2>1. output' = [k \in 1 .. n + 1 |-> IF k <= n THEN output[k] ELSE TextBytes(ir[n + 1].text)]
    BY <1>3, <1>5, <1>13, AppendAny
  <2>2. \A k \in 1 .. n + 1 : (k <= n /\ k \in 1 .. n) \/ (~(k <= n) /\ k = n + 1)
    BY <1>3
  <2>3. \A k \in 1 .. n + 1 :
          (IF k <= n THEN output[k] ELSE TextBytes(ir[n + 1].text)) = TextBytes(ir[k].text)
    BY <1>6, <1>13, <2>2
  <2>. QED BY <2>1, <2>3
<1>14. n + 1 \in 0 .. Stop - 1
  BY <1>3, <1>4
<1>. QED BY <1>3, <1>7, <1>8, <1>9, <1>11, <1>12, <1>13, <1>14 DEF RunInv

LEMMA ExecuteStep ==
  ASSUME IInv, Execute
  PROVE  IInv'
<1>1. UNCHANGED <<parserVars, code, codeVars, linkVars, file>> /\ phase = "run" /\ phase' \in {"run", "ended"}
      /\ (phase' = "run" => exited' = exited)
  BY DEF Execute, ExecuteMov, ExecuteLea, ExecuteWrite, ExecuteExit, Fetched, backVars
<1>2. /\ ParserInv' /\ HaltInv' /\ CodeInv' /\ LayoutInv' /\ StringsInv'
      /\ Stop' = Stop /\ ir' = ir /\ parsed' = parsed
  BY <1>1, SameImage
<1>3. PhaseInv'
  BY <1>1, <1>2 DEF IInv, PhaseInv, codeVars, linkVars
<1>4. RunInv'
  <2>1. CASE ExecuteExit
    BY <2>1 DEF ExecuteExit, RunInv
  <2>. QED BY <2>1, MovStep, LeaStep, WriteStep DEF Execute
<1>. QED BY <1>2, <1>3, <1>4 DEF IInv

LEMMA StepIInv == IInv /\ [Next]_vars => IInv'
<1>. SUFFICES ASSUME IInv, [Next]_vars PROVE IInv'
  OBVIOUS
<1>1. CASE Parse
  BY <1>1, ParseStep
<1>2. CASE Generate
  BY <1>2, GeneratePrintStep, GenerateHaltStep, GenerateRetStep DEF Generate
<1>3. CASE Link
  BY <1>3, LayOutStringStep, PatchFixupStep, AppendStringStep, OutputStep DEF Link
<1>4. CASE Output
  BY <1>4, OutputStep DEF Output
<1>5. CASE Execute
  BY <1>5, ExecuteStep
<1>6. CASE UNCHANGED vars
  BY <1>6, OutputStep
<1>. QED BY <1>1, <1>2, <1>3, <1>4, <1>5, <1>6 DEF Next

LEMMA InvariantHolds == Spec => []IInv
  BY InitIInv, StepIInv, PTL DEF Spec

------------------------------------------------------------------------------
\* What holds for every source

\* The variables of the compiler and of the processor keep to their types, and
\* the loops of the linker stay within the pool.
THEOREM CompilerTypes == Spec => []TypeOK
<1>1. IInv => TypeOK
  <2>. SUFFICES ASSUME IInv PROVE TypeOK
    OBVIOUS
  <2>1. ParserTypeOK /\ file \in {"absent", "empty", "partial", "complete"}
        /\ phase \in {"parse", "generate", "link", "write", "run", "ended", "failed"}
    BY DEF IInv, ParserInv, PhaseInv
  <2>2. irNo \in 1 .. Len(ir) + 1 /\ pool \in Seq(Texts) /\ Len(pool) \in Nat /\ Len(fixups) = Len(pool)
        /\ \A a \in DOMAIN code.at : a \in Nat /\ a + code.at[a].size <= code.size
    BY DEF IInv, CodeInv, IsCode
  <2>3. Len(offsets) <= Len(pool) /\ patched <= Len(fixups) /\ appended <= Len(pool)
    BY <2>2 DEF IInv, StringsInv
  <2>. QED BY <2>1, <2>2, <2>3 DEF TypeOK
<1>. QED BY InvariantHolds, <1>1, PTL

\* Whatever the source, the program the compiler makes only runs instructions
\* emitted for it, and stops before main's ret and the strings behind it.
THEOREM AlwaysRunsOnlyItsCode == Spec => []RunsOnlyItsCode
<1>1. IInv => RunsOnlyItsCode
  <2>. SUFFICES ASSUME IInv, phase = "run"
                PROVE  rip - CodeOffset \in DOMAIN code.at /\ Instruction.op # "ret"
    BY DEF RunsOnlyItsCode
  <2>1. CASE Len(output) < Stop - 1
    BY <2>1, PrintInstruction DEF PrintingAt, MovImm, LeaRsi, Syscall
  <2>2. CASE Len(output) = Stop - 1
    BY <2>2, HaltInstruction DEF HaltingAt, MovImm, Syscall
  <2>. QED BY <2>1, <2>2, PrintsOrHalts
<1>. QED BY InvariantHolds, <1>1, PTL

\* What Spec keeps of the parser: the theorems about it hold in the compiler.
THEOREM CompilerKeepsParser == Spec => [](MatchStateIsTrue /\ ParsedEndsInHalt)
<1>1. IInv => MatchStateIsTrue /\ ParsedEndsInHalt
  BY DEF IInv, ParserInv, HaltInv
<1>. QED BY InvariantHolds, <1>1, PTL

------------------------------------------------------------------------------
\* What holds for the sources that keep their meaning

\* The recursion equation of Printed, up to a line n.
IsPrinted(g, s, n) ==
  g = [i \in 0 .. n |->
        IF i = 0 THEN <<>>
        ELSE IF Shown(s, i) THEN Append(g[i - 1], s[i].text) ELSE g[i - 1]]

\* It has a solution for every n, so that Printed is one.
LEMMA PrintedExists == ASSUME NEW s PROVE \A n \in Nat : \E g : IsPrinted(g, s, n)
<1>. DEFINE S == {n \in Nat : \E g : IsPrinted(g, s, n)}
<1>1. 0 \in S
  <2>1. IsPrinted([i \in 0 .. 0 |-> <<>>], s, 0)
    BY DEF IsPrinted
  <2>. QED BY <2>1
<1>2. ASSUME NEW n \in S PROVE n + 1 \in S
  <2>1. PICK g : IsPrinted(g, s, n)
    OBVIOUS
  <2>. DEFINE next == IF Shown(s, n + 1) THEN Append(g[n], s[n + 1].text) ELSE g[n]
              h == [i \in 0 .. n + 1 |-> IF i = n + 1 THEN next ELSE g[i]]
  <2>2. (\A i \in 0 .. n : h[i] = g[i]) /\ \A i \in 1 .. n : h[i - 1] = g[i - 1]
    OBVIOUS
  <2>3. h[n + 1] = IF Shown(s, n + 1) THEN Append(h[n], s[n + 1].text) ELSE h[n]
    OBVIOUS
  <2>4. h = [i \in 0 .. n + 1 |-> h[i]]
    OBVIOUS
  <2>. HIDE DEF h, next
  <2>5. \A i \in 0 .. n :
          h[i] = IF i = 0 THEN <<>>
                 ELSE IF Shown(s, i) THEN Append(h[i - 1], s[i].text) ELSE h[i - 1]
    <3>1. \A i \in 0 .. n :
            g[i] = IF i = 0 THEN <<>>
                   ELSE IF Shown(s, i) THEN Append(g[i - 1], s[i].text) ELSE g[i - 1]
      BY <2>1 DEF IsPrinted
    <3>. QED BY <2>2, <3>1
  <2>6. \A i \in 0 .. n + 1 :
          h[i] = IF i = 0 THEN <<>>
                 ELSE IF Shown(s, i) THEN Append(h[i - 1], s[i].text) ELSE h[i - 1]
    BY <2>3, <2>5
  <2>7. IsPrinted(h, s, n + 1)
    BY <2>4, <2>6 DEF IsPrinted
  <2>. QED BY <2>7
<1>3. S \in SUBSET Nat
  OBVIOUS
<1>. HIDE DEF S
<1>4. S = Nat
  BY <1>1, <1>2, <1>3, NatInduct
<1>. QED BY <1>4 DEF S

LEMMA PrintedStep ==
  ASSUME NEW s, Len(s) \in Nat
  PROVE  /\ Printed(s)[0] = <<>>
         /\ \A i \in 1 .. Len(s) :
              Printed(s)[i] = IF Shown(s, i) THEN Append(Printed(s)[i - 1], s[i].text)
                                             ELSE Printed(s)[i - 1]
<1>1. \E g : IsPrinted(g, s, Len(s))
  BY PrintedExists
<1>2. IsPrinted(Printed(s), s, Len(s))
  BY <1>1 DEF Printed, IsPrinted
<1>. DEFINE p == Printed(s)
<1>. HIDE DEF p
<1>3. p = [i \in 0 .. Len(s) |->
            IF i = 0 THEN <<>>
            ELSE IF Shown(s, i) THEN Append(p[i - 1], s[i].text) ELSE p[i - 1]]
  BY <1>2 DEF IsPrinted, p
<1>4. \A i \in 0 .. Len(s) :
        p[i] = IF i = 0 THEN <<>>
               ELSE IF Shown(s, i) THEN Append(p[i - 1], s[i].text) ELSE p[i - 1]
  BY <1>3
<1>. QED BY <1>4 DEF p

\* The part of a parse's source that its lines so far stand for.
LEMMA InitScriptInv == ParserInit => ScriptInv
<1>. SUFFICES ASSUME ParserInit PROVE ScriptInv
  OBVIOUS
<1>1. Len(source) \in Nat
  BY SourcesAssumption DEF ParserInit
<1>2. Printed(source)[lineNo - 1] = <<>>
  BY <1>1, PrintedStep DEF ParserInit
<1>. QED BY <1>2 DEF ParserInit, ScriptInv

LEMMA LineScriptInv ==
  ASSUME ParserInv, ScriptInv, ParseLine, Plain(source)
  PROVE  ScriptInv'
<1>. DEFINE i == lineNo
            old == Printed(source)[i - 1]
            new == Printed(source)[i]
<1>1. ParserTypeOK /\ AtLine
  BY DEF ParserInv, ParseLine, ParseSkipped, ParseMatch, ParseArmPassed, ParseArmTaken,
         ParseSay, ParseHalt
<1>2. /\ line = source[i] /\ i \in 1 .. Len(source) /\ i \in Nat \ {0} /\ line \in AllLines
      /\ source \in Seq(AllLines) /\ Len(source) \in Nat
  BY <1>1, LineAt
<1>3. source' = source /\ lineNo' = i + 1 /\ parsed = "no" /\ parsed' = "no" /\ i = (i + 1) - 1
  BY <1>1, <1>2 DEF ParseLine, ParseSkipped, ParseMatch, ParseArmPassed, ParseArmTaken, ParseSay,
         ParseHalt, AtLine
<1>4. ir' = ir \o Meant(i)
  BY LineEmitsItsMeaning
<1>5. new = IF Shown(source, i) THEN Append(old, line.text) ELSE old
  BY <1>2, PrintedStep
<1>6. Stops(source, i) <=> line.kind = "halt"
  BY <1>2 DEF Plain, Stops
<1>7. hasHalt' <=> hasHalt \/ Stops(source, i)
  <2>1. CASE ParseHalt
    BY <1>6, <2>1 DEF ParseHalt
  <2>2. CASE ~ParseHalt
    <3>1. line.kind # "halt"
      BY <1>2, <2>2, StatementFacts DEF ParseLine, ParseSkipped, ParseMatch, ParseArmPassed,
                      ParseArmTaken, ParseSay, ConditionHolds
    <3>2. hasHalt' = hasHalt
      BY <2>2 DEF ParseLine, ParseSkipped, ParseMatch, ParseArmPassed, ParseArmTaken, ParseSay
    <3>. QED BY <1>6, <3>1, <3>2
  <2>. QED BY <2>1, <2>2
<1>8. Prints(source, i) => ~Stops(source, i) /\ line.text \in Texts
  BY <1>2, <1>6, StatementFacts, ArmFacts DEF Prints, Taken, Fits
<1>9. /\ old \in Seq(Texts) /\ Len(old) <= Len(ir)
      /\ \A j \in 1 .. Len(old) : ir[j] = PRINT(old[j])
      /\ hasHalt <=> \E j \in 1 .. i - 1 : Stops(source, j)
      /\ IF hasHalt THEN Len(ir) > Len(old) /\ ir[Len(old) + 1] = HALT ELSE Len(ir) = Len(old)
  BY <1>3 DEF ScriptInv
<1>10. ir \in Seq(IRInstruction)
  BY <1>1 DEF ParserTypeOK
<1>11. hasHalt' <=> \E j \in 1 .. i : Stops(source, j)
  BY <1>2, <1>7, <1>9
<1>12. Shown(source, i) <=> ~hasHalt /\ Prints(source, i)
  BY <1>9 DEF Shown
<1>. HIDE DEF old, new
<1>13. /\ new \in Seq(Texts) /\ Len(new) <= Len(ir')
       /\ \A j \in 1 .. Len(new) : ir'[j] = PRINT(new[j])
       /\ IF hasHalt' THEN Len(ir') > Len(new) /\ ir'[Len(new) + 1] = HALT ELSE Len(ir') = Len(new)
  <2>1. CASE Stops(source, i)
    <3>1. ir' = Append(ir, HALT) /\ new = old /\ hasHalt'
      BY <1>4, <1>5, <1>7, <1>8, <1>10, <1>12, <2>1 DEF Meant
    <3>. QED BY <1>9, <1>10, <3>1
  <2>2. CASE Prints(source, i) /\ ~hasHalt
    <3>1. ir' = Append(ir, PRINT(line.text)) /\ new = Append(old, line.text) /\ ~hasHalt'
          /\ line.text \in Texts
      BY <1>2, <1>4, <1>5, <1>7, <1>8, <1>10, <1>12, <2>2 DEF Meant
    <3>2. PRINT(line.text) \in IRInstruction
      BY <3>1 DEF IRInstruction
    <3>3. /\ Len(ir') = Len(ir) + 1 /\ ir'[Len(ir) + 1] = PRINT(line.text)
          /\ \A j \in 1 .. Len(ir) : ir'[j] = ir[j]
      BY <1>10, <3>1, <3>2
    <3>4. /\ new \in Seq(Texts) /\ Len(new) = Len(old) + 1 /\ new[Len(old) + 1] = line.text
          /\ \A j \in 1 .. Len(old) : new[j] = old[j]
      BY <1>9, <3>1
    <3>5. Len(ir) = Len(old) /\ Len(old) \in Nat
      BY <1>9, <2>2
    <3>6. \A j \in 1 .. Len(new) : ir'[j] = PRINT(new[j])
      BY <1>9, <3>3, <3>4, <3>5
    <3>. QED BY <3>1, <3>3, <3>4, <3>5, <3>6
  <2>3. CASE Prints(source, i) /\ hasHalt
    <3>1. ir' = Append(ir, PRINT(line.text)) /\ new = old /\ hasHalt'
      BY <1>2, <1>4, <1>5, <1>7, <1>8, <1>10, <1>12, <2>3 DEF Meant
    <3>. QED BY <1>9, <1>10, <2>3, <3>1
  <2>4. CASE ~Stops(source, i) /\ ~Prints(source, i)
    <3>1. ir' = ir /\ new = old /\ hasHalt' = hasHalt
      BY <1>4, <1>5, <1>7, <1>10, <1>12, <2>4, <1>1 DEF Meant, ParserTypeOK, ParseLine, ParseSkipped, ParseMatch, ParseArmPassed, ParseArmTaken, ParseSay,
         ParseHalt
    <3>. QED BY <1>9, <3>1
  <2>. QED BY <1>8, <2>1, <2>2, <2>3, <2>4
<1>. QED BY <1>3, <1>11, <1>13 DEF ScriptInv, new

LEMMA StepScriptInv ==
  ASSUME ParserInv, ScriptInv, [ParserNext]_parserVars, Plain(source)
  PROVE  ScriptInv'
<1>1. CASE ParseLine
  BY <1>1, LineScriptInv
<1>2. CASE ParseEnd
  <2>. DEFINE shown == Printed(source)[lineNo - 1]
  <2>1. /\ source' = source /\ lineNo' = lineNo /\ hasHalt' = hasHalt /\ parsed = "no" /\ parsed' = "ok"
        /\ lineNo = Len(source) + 1
        /\ ir' = IF hasHalt THEN ir ELSE Append(ir, HALT)
    BY <1>2 DEF ParseEnd
  <2>2. ir \in Seq(IRInstruction) /\ HALT \in IRInstruction /\ hasHalt \in BOOLEAN
    BY DEF ParserInv, ParserTypeOK, IRInstruction
  <2>3. /\ shown \in Seq(Texts) /\ Len(shown) <= Len(ir)
        /\ \A j \in 1 .. Len(shown) : ir[j] = PRINT(shown[j])
        /\ hasHalt <=> \E j \in 1 .. lineNo - 1 : Stops(source, j)
        /\ IF hasHalt THEN Len(ir) > Len(shown) /\ ir[Len(shown) + 1] = HALT
                      ELSE Len(ir) = Len(shown)
    BY <2>1 DEF ScriptInv
  <2>. HIDE DEF shown
  <2>4. /\ Len(shown) <= Len(ir') /\ \A j \in 1 .. Len(shown) : ir'[j] = PRINT(shown[j])
        /\ Len(ir') > Len(shown) /\ ir'[Len(shown) + 1] = HALT
    <3>1. CASE hasHalt
      BY <2>1, <2>3, <3>1
    <3>2. CASE ~hasHalt
      <4>1. ir' = Append(ir, HALT) /\ Len(ir) = Len(shown) /\ Len(shown) \in Nat
        BY <2>1, <2>3, <3>2
      <4>2. /\ Len(ir') = Len(ir) + 1 /\ ir'[Len(ir) + 1] = HALT
            /\ \A j \in 1 .. Len(ir) : ir'[j] = ir[j]
        BY <2>2, <4>1
      <4>. QED BY <2>3, <4>1, <4>2
    <3>. QED BY <2>2, <3>1, <3>2
  <2>. QED BY <2>1, <2>3, <2>4 DEF ScriptInv, shown
<1>3. CASE ParseEmpty \/ UNCHANGED parserVars
  <2>1. /\ source' = source /\ lineNo' = lineNo /\ hasHalt' = hasHalt /\ ir' = ir
        /\ parsed' = parsed \/ (parsed = "no" /\ parsed' = "failed")
    BY <1>3 DEF ParseEmpty, parserVars
  <2>. QED BY <2>1 DEF ScriptInv
<1>. QED BY <1>1, <1>2, <1>3 DEF ParserNext

LEMMA ScriptHolds ==
  ASSUME \A s \in Sources : Plain(s)
  PROVE  Spec => []ScriptInv
<1>1. Init => ScriptInv
  BY InitScriptInv DEF Init
<1>2. IInv /\ ScriptInv /\ [Next]_vars => ScriptInv'
  <2>. SUFFICES ASSUME IInv, ScriptInv, [Next]_vars PROVE ScriptInv'
    OBVIOUS
  <2>1. ParserInv /\ Plain(source)
    BY DEF IInv, ParserInv, ParserTypeOK
  <2>2. [ParserNext]_parserVars
    BY DEF Next, Parse, Generate, GeneratePrint, GenerateHalt, GenerateRet, Link, LayOutString,
           PatchFixup, AppendString, Linked, Output, OpenFails, Open, WriteFails, Write,
           Execute, ExecuteMov, ExecuteLea, ExecuteWrite, ExecuteExit, vars
  <2>. QED BY <2>1, <2>2, StepScriptInv
<1>. QED BY InvariantHolds, <1>1, <1>2, PTL DEF Spec

\* The prints before the first halt are those the source means.
LEMMA ScriptFacts ==
  ASSUME IInv, ScriptInv, parsed = "ok"
  PROVE  /\ Meaning(source) \in Seq(Texts) /\ Stop = Len(Meaning(source)) + 1
         /\ \A k \in 1 .. Len(Meaning(source)) : ir[k].text = Meaning(source)[k]
<1>. DEFINE m == Meaning(source)
<1>1. lineNo - 1 = Len(source)
  <2>1. source \in Seq(AllLines)
    BY SourcesAssumption DEF IInv, ParserInv, ParserTypeOK
  <2>. QED BY <2>1 DEF ScriptInv
<1>2. /\ m \in Seq(Texts) /\ Len(m) < Len(ir) /\ ir[Len(m) + 1] = HALT
      /\ \A j \in 1 .. Len(m) : ir[j] = PRINT(m[j])
  BY <1>1 DEF ScriptInv, Meaning
<1>3. /\ Stop \in 1 .. Len(ir) /\ Stop \in Nat \ {0} /\ Len(ir) \in Nat
      /\ ir[Stop] = HALT
      /\ \A k \in 1 .. Stop - 1 : ir[k].text \in Texts /\ ir[k] = PRINT(ir[k].text)
  BY IrFacts DEF IInv
<1>. HIDE DEF m
<1>4. \A t : PRINT(t) # HALT /\ PRINT(t).text = t
  BY DEF PRINT, HALT
<1>5. Len(m) \in Nat /\ ~(Stop <= Len(m)) /\ ~(Len(m) + 1 <= Stop - 1)
  <2>1. Len(m) \in Nat
    BY <1>2
  <2>2. ASSUME Stop <= Len(m) PROVE FALSE
    <3>1. Stop \in 1 .. Len(m)
      BY <1>3, <2>1, <2>2
    <3>. QED BY <1>2, <1>3, <1>4, <3>1
  <2>3. ASSUME Len(m) + 1 <= Stop - 1 PROVE FALSE
    <3>1. Len(m) + 1 \in 1 .. Stop - 1
      BY <1>3, <2>1, <2>3
    <3>. QED BY <1>2, <1>3, <1>4, <3>1
  <2>. QED BY <2>1, <2>2, <2>3
<1>6. Stop = Len(m) + 1
  BY <1>3, <1>5
<1>. QED BY <1>2, <1>4, <1>6 DEF m

\* When no source has a form that the parser loses and the image is within
\* the reach of 32 bits, the compiler and the processor implement the program
\* that writes, message by message, what the source means, and then exits.
THEOREM CompilerImplementsProgram ==
  ASSUME \A s \in Sources : Plain(s)
  PROVE  Spec /\ []ImageFits => ImplementsProgram
<1>. DEFINE script == [k \in 1 .. Len(Meaning(source)) |-> TextBytes(Meaning(source)[k])]
<1>1. Init => Program!Init
  BY DEF Init, Program!Init
<1>2. IInv /\ ScriptInv /\ ImageFits /\ [Next]_vars => [Program!Next]_(Program!vars)
  <2>. SUFFICES ASSUME IInv, ScriptInv, ImageFits, [Next]_vars
                PROVE  [Program!Next]_(Program!vars)
    OBVIOUS
  <2>1. CASE ExecuteWrite
    <3>1. PICK n : n = Len(output)
      OBVIOUS
    <3>2. /\ phase = "run" /\ n < Stop - 1 /\ n \in Nat /\ n + 1 \in 1 .. Stop - 1
          /\ output' = Append(output, TextBytes(ir[n + 1].text))
      BY <2>1, <3>1, WriteFacts
    <3>3. parsed = "ok" /\ ~exited
      BY <3>2 DEF IInv, PhaseInv
    <3>4. /\ Meaning(source) \in Seq(Texts) /\ Stop = Len(Meaning(source)) + 1
          /\ \A k \in 1 .. Len(Meaning(source)) : ir[k].text = Meaning(source)[k]
      BY <3>3, ScriptFacts
    <3>5. n + 1 \in 1 .. Len(Meaning(source)) /\ ir[n + 1].text = Meaning(source)[n + 1]
      BY <3>2, <3>4
    <3>6. source' = source /\ exited' = exited
      BY <2>1 DEF ExecuteWrite, parserVars
    <3>7. Len(script) = Len(Meaning(source)) /\ script[n + 1] = TextBytes(ir[n + 1].text)
      BY <3>4, <3>5
    <3>8. script' = script
      BY <3>6
    <3>. HIDE DEF script
    <3>9. Len(output) < Len(script) /\ output' = Append(output, script[Len(output) + 1])
      BY <3>1, <3>2, <3>4, <3>7
    <3>. QED BY <3>3, <3>6, <3>8, <3>9 DEF Program!Next, Program!Write, script
  <2>2. CASE ExecuteExit
    <3>1. PICK n : n = Len(output)
      OBVIOUS
    <3>2. /\ phase = "run" /\ Instruction.op = "syscall" /\ reg["rax"] = 60
          /\ exited' = (reg["rdi"] = 0) /\ source' = source /\ output' = output
      BY <2>2 DEF ExecuteExit, Fetched, Instruction, parserVars
    <3>3. n = Stop - 1
      <4>1. CASE n < Stop - 1
        <5>1. Next39(n) = 37 /\ PrintingAt(n)
          BY <3>1, <3>2, <4>1, PrintInstruction DEF PrintingAt, MovImm, LeaRsi
        <5>2. reg["rax"] = 1
          BY <5>1 DEF PrintingAt
        <5>. QED BY <3>2, <5>2
      <4>. QED BY <3>1, <3>2, <4>1, PrintsOrHalts
    <3>4. reg["rdi"] = 0
      <4>1. Next39(n) = 20 /\ HaltingAt(n)
        BY <3>1, <3>2, <3>3, HaltInstruction DEF HaltingAt, MovImm
      <4>. QED BY <4>1 DEF HaltingAt
    <3>5. parsed = "ok" /\ ~exited
      BY <3>2 DEF IInv, PhaseInv
    <3>6. Meaning(source) \in Seq(Texts) /\ Stop = Len(Meaning(source)) + 1
      BY <3>5, ScriptFacts
    <3>7. Len(output) = Len(script) /\ script' = script
      BY <3>1, <3>2, <3>3, <3>6
    <3>8. exited' = TRUE
      BY <3>2, <3>4
    <3>. HIDE DEF script
    <3>. QED BY <3>2, <3>5, <3>7, <3>8 DEF Program!Next, Program!Exit, script
  <2>3. CASE ~ExecuteWrite /\ ~ExecuteExit
    <3>1. source' = source /\ output' = output /\ exited' = exited
      BY <2>3 DEF Next, Parse, ParserNext, ParseEmpty, ParseLine, ParseEnd, ParseSkipped, ParseMatch,
           ParseArmPassed, ParseArmTaken, ParseSay, ParseHalt,
           Generate, GeneratePrint, GenerateHalt, GenerateRet, Link, LayOutString,
           PatchFixup, AppendString, Linked, Output, OpenFails, Open, WriteFails, Write,
           Execute, ExecuteMov, ExecuteLea, vars, parserVars, cpuVars
    <3>. QED BY <3>1 DEF Program!vars
  <2>. QED BY <2>1, <2>2, <2>3
<1>. QED BY InvariantHolds, ScriptHolds, <1>1, <1>2, PTL DEF Spec, ImplementsProgram
==============================================================================
