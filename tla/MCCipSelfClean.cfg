\* Two lines of a washing station, a program is chosen while a line runs.
SPECIFICATION PlantSpec
CONSTANTS
    OffDelay = 1
    BottomDelay = 1
    OnTime = 1
    MaxAge = 2
    MaxQueue = 2
    Valves = {v1}
    ValveKinds = {"shutoff", "bistable", "mixproof", "bottom", "miniflush"}
    WashValves = {1, 2}
    Groups <- MCGroups
    KeptOff = {1, 2}
    FlipTime <- MCFlipTime
    Totals = {0, 12}
    WordSize = 64
    WashMaxAge = 6
    AsNumbers = {2, 33, 34}
    Reversed = {33}
    Nodes = {1}
    Values = {0, 1}
    MaxWait = 2
    FirstDelay = 1
    MaxDelay = 3
    MaxSilence = 6
    Lines = {1, 2}
    Plans <- ReselectPlans
    Programs = {"a", "b"}
    SizeOf <- MCSizeOf
    SlotCount = 2
    UserValues = {1}
    MaxRaw = 4
    MaxOverflow = 2
    PulsesPerScan = 1
    StandTime = 1
    MaxTotal = 7
    Settings <- MCSettings
    DriveCommands = {"on", "off", "disable"}
    SendTimeout = 1
    FirstRetry = 1
    LastRetry = 1
    QueryInterval = 0
    LostTime = 1
INVARIANTS SelfCleanAlone
