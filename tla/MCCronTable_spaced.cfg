SPECIFICATION Spec
CONSTANTS
  p1 = p1
  p2 = p2
  d1 = d1
  d2 = d2
  Nobody = Nobody
  Stray = Stray
  Clients <- OneClient
  Commands <- SpacedOrPlain
  Exprs <- GoodExprs
  Tables <- EmptyTable
  Daemons <- OneDaemon
  Kills = FALSE
  Faults = FALSE
CHECK_DEADLOCK FALSE
INVARIANT ZeroMeansAdded
