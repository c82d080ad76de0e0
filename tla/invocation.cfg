\* Two calls at a time, as a run and a background subagent make them.
SPECIFICATION FairSpec
CONSTANTS
    Calls = {c1, c2}
    MaxRetries = 2
    Cancellable = TRUE
INVARIANTS
    OneConsentBoundsEffects
    LogTellsTheResult
PROPERTIES
    CallEnds
CHECK_DEADLOCK FALSE
