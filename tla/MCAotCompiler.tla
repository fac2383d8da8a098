---------------------------- MODULE MCAotCompiler ----------------------------
(***************************************************************************)
(* The compiler on every well-formed source of up to MaxLines lines.       *)
(***************************************************************************)
EXTENDS AotCompiler, SequencesExt

CONSTANTS a, b,      \* two texts, of different sizes
          one, two,  \* two match values
          MaxLines

MCTextSize == (a :> 2) @@ (b :> 3)

\* The lines whose meaning the compiler keeps.
PlainLines ==
  {Say(a), Halt, Other, Close, Match(one)}
    \cup {ArmSay(one, a), ArmSay(two, b), ArmSay(Wildcard, b), ArmOther(one)}

\* Also a text with an arrow in it.
ArrowLines == {Say(a), Halt, SayArrow(b)}

\* Also arms that halt.
HaltingArms == {Say(a), Match(one), ArmHalt(one), Close}

SourcesOf(lines) == {s \in BoundedSeq(lines, MaxLines) : WellFormed(s)}

PlainSources == SourcesOf(PlainLines)
ArrowSources == SourcesOf(ArrowLines)
HaltingArmSources == SourcesOf(HaltingArms)
==============================================================================
