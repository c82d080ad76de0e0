\* Two messages on a session whose runs fill their context: can the thread be replayed?
SPECIFICATION Spec
CONSTANTS
    UserMessages = {m1, m2}
    NoMessage = NoMessage
    MaxSteps = 3
    MaxCalls = 1
    MaxStreams = 2
    Compacting = {m1, m2}
    Cancellable = {}
    AppendMayFail = FALSE
INVARIANTS
    ThreadReplayable
CHECK_DEADLOCK FALSE
