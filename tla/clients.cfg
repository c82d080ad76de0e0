\* The terminal interface with a daemon that other sessions use too.
SPECIFICATION Spec
CONSTANTS
    MaxRequests = 3
    MaxSends = 1
    MaxCompacts = 1
    MaxLosses = 1
    MaxOthers = 1
    MaxBacklog = 1
 
PROPERTY PromptComesBack
CHECK_DEADLOCK FALSE
