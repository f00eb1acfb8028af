SPECIFICATION Spec
CONSTANTS
    MaxCreates = 2
    MaxCalls = 2
PROPERTY UnsubscribeCloses
CHECK_DEADLOCK FALSE
