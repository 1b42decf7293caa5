SPECIFICATION FairSpec
CONSTANTS
  build_all = build_all
  unit_tests = unit_tests
  branch = branch
  None = None
  Jobs <- TwoJobs
  Params <- OneParam
  JobParams <- Declared
  Invocations <- Calls
  N = 3
  MaxRoots = 1
  MaxFailures = 1
INVARIANTS TypeOK SessionClosesLast ScriptKnowsItsPlace ParamsStayInSession LastJobIsTheScripts
PROPERTY SessionsClose
