SPECIFICATION Spec
CONSTANTS
    LastPage = 25
    OldRecords <- FirstTexts
    NewRecords <- AllRecords
    Words = {48879, 25000}
    MaxBurst = 8
    FileTasks = {1, 2}
    FileLength = 6
    MaxHandles = 2
    ApTasks = {"a1", "a2"}
    JoinTasks = {"j1", "j2"}
    Stations = {"s1", "s2"}
    BufSize = 3
    MaxJoins = 2
INVARIANTS ReadsBack FirstRecordSurvives OnlyMeasured FreshWhenIntact KvSurvives FileRunIsClean
           CountsStations
CHECK_DEADLOCK FALSE
