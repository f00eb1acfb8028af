SPECIFICATION FairSpec
CONSTANTS
    c1 = c1
    c2 = c2
    Conns = {c1, c2}
    Free = Free
    Unbound = Unbound
    Listener = Listener
    NumFds = 2
    Backlog = 2
    StreamCap = 2
    MaxCmds = 1
    MaxLaunches = 1
    Faults <- NoFaults
PROPERTIES DeadClientReleased BacklogDrains EventuallyConsistent
