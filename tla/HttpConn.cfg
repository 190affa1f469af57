SPECIFICATION Spec
CHECK_DEADLOCK FALSE
CONSTANTS
    MAX_REQ_SIZE = 26
    LowerCase <- MCLowerCase
    Chr <- MCChr
    Requests <- MCRequests
    Resources <- MCResources
    SS_READ_BUFFER_SIZE = 5
    SS_WRITE_BUFFER_SIZE = 4
    MaxRequests = 2
INVARIANTS
    Safe
    HandlerSeesRequest
    RightAnswer
    ResponsesWhole
PROPERTIES
    Answered
