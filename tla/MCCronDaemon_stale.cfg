SPECIFICATION Spec
CONSTANTS
  e1 = e1
  e2 = e2
  NoEntry = NoEntry
  Entries <- OneEntry
  MaxRuns = 1
  MaxQueue = 2
  Signals = FALSE
  Spurious = FALSE
CHECK_DEADLOCK FALSE
INVARIANT CancelledStaysSilent
