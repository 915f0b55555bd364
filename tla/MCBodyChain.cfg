CONSTANTS
  a = a
  b = b
  h = h
  Frames <- SomeFrames
  MaxFrames = 3
  Hello <- HelloWorld
  ReadSizes = {1, 2, 3}
  Matches <- Pattern
SPECIFICATION ChainSpec
INVARIANTS
  ChainTypeOK
  BodyPreserved
  PanicsExplained
  ReaderValid
  VerdictOnBody
PROPERTY HooksReturn
CHECK_DEADLOCK FALSE
