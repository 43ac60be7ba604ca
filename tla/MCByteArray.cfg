SPECIFICATION Spec
CONSTANTS
  Bases <- MCBases
  MaxSize = 4
  Width = 3
  Group = 2
  Uints <- MCUints
  Ints <- MCInts
  Shorts <- MCShorts
  Buffers <- MCBuffers
  Leftovers <- MCLeftovers
INVARIANTS
  CurAtPosition
  ContentsExact
  ReadsExact
  CrashesExplained
CHECK_DEADLOCK FALSE
