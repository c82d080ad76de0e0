\* Two calls of two sessions, one client, saves that may fail.
SPECIFICATION FairSpec
CONSTANTS
    Calls = {c1, c2}
    Clients = {k1}
    Sessions = {"s1", "s2"}
    Tools <- MCTools
    Bash = "bash"
    Policy <- MCPolicy
    DefaultPolicy <- MCDefault
    Requests <- MCRequests
    TimeoutOn = TRUE
    SaveMayFail = TRUE
INVARIANTS
    PendingIsAnswerable
    NothingBeyondConsent
    DecisionSource
    RulesAreSound
    TiersAgree
PROPERTIES
    RulesOnlyFromTimelyAnswers
    GateSpec
    AskedCallEnds
