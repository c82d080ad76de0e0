\* Two runs on one bus and a client that comes, replays and goes.
SPECIFICATION FairSpec
CONSTANTS
    Runs = {r1, r2}
    Clients = {k1}
    Finished = 3
    NoRun = NoRun
INVARIANTS
    FileComplete
    SeenInOrder
    OnlyRacingMissed
PROPERTY
    EndIsTold
CHECK_DEADLOCK FALSE
