\* A handshake and three tool calls on one stream.
SPECIFICATION FairSpec
CONSTANTS
    ToolCalls = {c1, c2, c3}
    Initialize = Initialize
    ListTools = ListTools
    Nobody = Nobody
    ServerIds = {4}
    MaxLines = 2
INVARIANTS
    OwnAnswer
    NoAnswerStolen
PROPERTIES
    CallEnds
CHECK_DEADLOCK FALSE
