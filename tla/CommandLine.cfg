\* Every line of up to eight characters, and what becomes of it.
SPECIFICATION LineSpec
CONSTANTS
  space = space
  slash = slash
  a = a
  e = e
  digit = digit
  Char <- Chars
  Width <- Widths
  MaxLength = 8
  Space = space
  Blank <- Blanks
  Slash = slash
  Keyword <- Spelling
  Number <- Numbers
  NoName <- Empty
  Usernames <- Names
  SessionIds <- Numbers
  ServerTexts <- Texts
INVARIANTS
  OnBoundary
  ArrivesAsTyped
  NeverLost
  NeverPanics
PROPERTIES
  EditorSpec
