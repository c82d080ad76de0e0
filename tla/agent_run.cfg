\* Two messages on a session: the first run may be cancelled and fills no
\* context, the second may; rows may be lost.
SPECIFICATION FairSpec
CONSTANTS
    UserMessages = {m1, m2}
    NoMessage = NoMessage
    MaxSteps = 3
    MaxCalls = 2
    MaxStreams = 2
    Compacting = {m2}
    Cancellable = {m1}
    AppendMayFail = TRUE
INVARIANTS
    RequestsWellFormed
    RunSeesItsMessage
    EndTurnWins
    CompactsBetweenSteps
PROPERTIES
    ProducedIsKept
    RunEnds
CHECK_DEADLOCK FALSE
