SPECIFICATION Spec
CONSTANTS
    Timeout = 2
    Limit = 2
    MaxEvents = 2
    MaxDrops = 0
    MaxCalls = 1
PROPERTY SuccessIsReturned
CHECK_DEADLOCK FALSE
