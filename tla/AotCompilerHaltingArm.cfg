\* Sources whose match has an arm that halts.
CONSTANTS
  a = a
  b = b
  one = one
  two = two
  MaxLines = 4
  Texts = {a, b}
  NoText = NoText
  Values = {one, two}
  Wildcard = Wildcard
  NoValue = NoValue
  TextSize <- MCTextSize
  MaxDisp = 256
  Sources <- HaltingArmSources
SPECIFICATION Spec
PROPERTIES
  ImplementsProgram
CHECK_DEADLOCK FALSE
