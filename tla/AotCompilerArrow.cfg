\* Sources that print a text with an arrow in it.
CONSTANTS
  a = a
  b = b
  one = one
  two = two
  MaxLines = 4
  Texts = {a, b}
  NoText = NoText
  Values = {one, two}
  Wildcard = Wildcard
  NoValue = NoValue
  TextSize <- MCTextSize
  MaxDisp = 256
  Sources <- ArrowSources
SPECIFICATION Spec
PROPERTIES
  ImplementsProgram
CHECK_DEADLOCK FALSE
