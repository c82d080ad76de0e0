\* The line-oriented client and a request of its own run.
SPECIFICATION Spec
CONSTANTS
    MaxRequests = 2
    MaxMessages = 2
INVARIANT OwnRequestsDecidable
CHECK_DEADLOCK FALSE
