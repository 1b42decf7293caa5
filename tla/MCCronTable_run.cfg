SPECIFICATION Spec
CONSTANTS
  p1 = p1
  p2 = p2
  d1 = d1
  d2 = d2
  Nobody = Nobody
  Stray = Stray
  Clients <- TwoClients
  Commands <- SomeCommands
  Exprs <- GoodExprs
  Tables <- SomeTables
  Daemons <- TwoDaemons
  Kills = TRUE
  Faults = TRUE
SYMMETRY Symmetry
CHECK_DEADLOCK FALSE
INVARIANTS Durable NothingTorn DaemonSurvives OnlyStartsDeafen
PROPERTY PoisonStays
