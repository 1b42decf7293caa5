SPECIFICATION Spec
CONSTANTS
  p1 = p1
  p2 = p2
  p3 = p3
  None = None
  Earlier = Earlier
  Procs <- ThreeProcs
  Existing <- NoBuilds
  KeepSuccess = 1
  KeepBroken = 1
  MaxBuild = 3
  Errors = TRUE
SYMMETRY ProcSymmetry
INVARIANT ExclusiveBuild
PROPERTIES RemovesFinishedOnly KeepsNewest OutcomeIsFinal
