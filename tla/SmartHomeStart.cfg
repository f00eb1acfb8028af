SPECIFICATION Spec
CONSTANTS
    NKv = 1
    NProperties = 2
    NCommands = 1
    PoolSize = 20
    LastPage = 4
    TextBase = 54
    IpLengths = {8}
    MaxLaunches = 2
    MaxReports = 1
    MaxPowerLosses = 1
INVARIANTS StartTypeOK HeapAccounted MissingOnlyOptional CleanStart
CHECK_DEADLOCK FALSE
