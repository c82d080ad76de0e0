\* A run, its children and theirs, three subagents in all.
SPECIFICATION FairSpec
CONSTANTS
    Runs = {r1}
    MaxKids = 3
    MaxRetries = 1
    MaxSteps = 2
    Limited = TRUE
INVARIANTS
    ForegroundIsHeld
    EndsAreTold
PROPERTY
    SpawnEnds
CHECK_DEADLOCK FALSE
