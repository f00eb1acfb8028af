SPECIFICATION Spec
CONSTANTS
    c1 = c1
    c2 = c2
    Conns = {c1}
    Free = Free
    Unbound = Unbound
    Listener = Listener
    NumFds = 2
    Backlog = 2
    StreamCap = 4
    MaxCmds = 2
    MaxLaunches = 1
    Faults <- NoFaults
INVARIANT SwitchedByCommand
