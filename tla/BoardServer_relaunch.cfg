SPECIFICATION Spec
CONSTANTS
    c1 = c1
    c2 = c2
    Conns = {c1}
    Free = Free
    Unbound = Unbound
    Listener = Listener
    NumFds = 2
    Backlog = 2
    StreamCap = 2
    MaxCmds = 1
    MaxLaunches = 2
    Faults <- NoFaults
INVARIANT SockFdListens
