SPECIFICATION NetSpec
CONSTANTS
    MaxCreates = 2
    MaxCalls = 2
    ApTasks = {"a1", "a2"}
    JoinTasks = {"j1"}
    Stations = {"s1", "s2"}
    BufSize = 3
    MaxJoins = 0
    ClientTasks = {"c1", "c2"}
    NumFds = 2
INVARIANTS TypeOK FlagsMatchConnection HoldsOnlyCurrent OneServer EchoIsOwn ClientCleansUp
PROPERTIES PeerCloseNoticed EchoAnswered ClientEnds
CHECK_DEADLOCK FALSE
