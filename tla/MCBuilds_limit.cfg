SPECIFICATION FairSpec
CONSTANTS
  p1 = p1
  p2 = p2
  p3 = p3
  None = None
  Earlier = Earlier
  Procs <- ThreeProcs
  Existing <- FirstBuild
  KeepSuccess = 1
  KeepBroken = 0
  MaxBuild = 1
  Errors = FALSE
INVARIANTS TypeOK FailureMeansContention
PROPERTIES ImplementsSlots EventuallyTrimmed
