\* Commands on a session of either mode; commands may be cancelled, files fail
\* and the daemon die.
SPECIFICATION FairSpec
CONSTANTS
    Commands = {1, 2, 3, 4}
    Nobody = 0
    MayFail = TRUE
ACTION_CONSTRAINT InOrder
INVARIANTS
    OneAtATime
    AnswersFollowMessages
    NothingForgotten
    RunsRecordedFirst
    MetaAgrees
    OneAnswer
PROPERTIES
    ClosedIsFinal
    SessionComesFree
    TurnsSpec
CHECK_DEADLOCK FALSE
