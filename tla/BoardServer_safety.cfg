SPECIFICATION Spec
CONSTANTS
    c1 = c1
    c2 = c2
    Conns = {c1, c2}
    Free = Free
    Unbound = Unbound
    Listener = Listener
    NumFds = 3
    Backlog = 2
    StreamCap = 2
    MaxCmds = 1
    MaxLaunches = 2
    Faults <- AllFaults
SYMMETRY ConnSymmetry
INVARIANTS TypeOK NoOrphanSocket ListenerKept
PROPERTY OnlyReportDropsHealthy
CHECK_DEADLOCK FALSE
