\* Two processes, a webui that may answer, close or fail, a kill of either.
SPECIFICATION FairSpec
CONSTANTS
    root = root
    child = child
    Procs <- Both
    Root = root
    Starts <- AllStarts
    MaxLinks = 1
    MaxKills = 1
INVARIANTS SameStory AuthComesFirst SessionFramed FailuresReported ObjectOutlivesThread
PROPERTY EveryProcessEnds
CHECK_DEADLOCK FALSE
