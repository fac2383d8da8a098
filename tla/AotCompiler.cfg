\* Up to five lines: a match with three arms fits, between or after other lines.
CONSTANTS
  a = a
  b = b
  one = one
  two = two
  MaxLines = 5
  Texts = {a, b}
  NoText = NoText
  Values = {one, two}
  Wildcard = Wildcard
  NoValue = NoValue
  TextSize <- MCTextSize
  MaxDisp = 256
  Sources <- PlainSources
SPECIFICATION Spec
INVARIANTS
  TypeOK
  MatchStateIsTrue
  ParsedEndsInHalt
  RunsOnlyItsCode
PROPERTIES
  LinesEmitTheirMeaning
  ImplementsProgram
  
\* The program ends.
CHECK_DEADLOCK FALSE
