\* timeout_s = 0 (no deadline): do requests end when the last client is gone?
SPECIFICATION FairSpec
CONSTANTS
    Calls = {c1, c2}
    Clients = {k1}
    Sessions = {"s1", "s2"}
    Tools <- MCTools
    Bash = "bash"
    Policy <- MCPolicy
    DefaultPolicy <- MCDefault
    Requests <- MCFewRequests
    TimeoutOn = FALSE
    SaveMayFail = FALSE
PROPERTIES
    NoHangWhenClientsGone
