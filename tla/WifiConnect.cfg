SPECIFICATION FairSpec
CONSTANTS
    Timeout = 2
    Limit = 2
    MaxEvents = 2
    MaxDrops = 1
    MaxCalls = 2
INVARIANTS TypeOK FlagTracksLink EntriesAreReal DhcpHasNetif
PROPERTY ConnectsInTime
CHECK_DEADLOCK FALSE
