\* Two runs of deploy.py for one directory, one of them inside a session, and up to three calls that fail.
SPECIFICATION FairSpec
CONSTANTS
    d1 = d1
    d2 = d2
    Deployers <- Two
    Inside <- Second
    Nobody = Nobody
    MaxFaults = 3
INVARIANTS SuccessMeansTested FailureHasCause OneFills
PROPERTY DeployEnds
CHECK_DEADLOCK FALSE
