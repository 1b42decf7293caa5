SPECIFICATION FairSpec
CONSTANTS
  a = a
  NL = NL
  Chars <- OneChar
  MaxText = 3
  PipeSize = 2
INVARIANTS NothingLost OutputComplete
PROPERTY RunEnds
