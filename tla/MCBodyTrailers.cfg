CONSTANTS
  a = a
  b = b
  h = h
  Frames <- SomeFrames
  MaxFrames = 3
  Hello <- HelloWorld
  ReadSizes = {1, 2}
  Matches <- Pattern
SPECIFICATION ChainSpec
INVARIANT MatchRefused
CHECK_DEADLOCK FALSE
