SPECIFICATION FairSpec
CONSTANTS
  e1 = e1
  e2 = e2
  NoEntry = NoEntry
  Entries <- TwoEntries
  MaxRuns = 2
  MaxQueue = 3
  Signals = TRUE
  Spurious = TRUE
CHECK_DEADLOCK FALSE
INVARIANTS TypeOK EveryTimerRunsOnce
PROPERTIES FollowsTable SignalEnds
