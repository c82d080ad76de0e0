\* Three tasks that may depend on each other, on themselves, or on nothing.
SPECIFICATION TaskSpec
CONSTANTS
    MaxTasks = 3
    Lists = {{}, {1}, {2}, {3}}
INVARIANTS
    NobodyForgotten
PROPERTY
    NothingLost
CHECK_DEADLOCK FALSE
