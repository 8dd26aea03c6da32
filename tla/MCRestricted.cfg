SPECIFICATION Spec
CONSTANTS
    MaxTick = 1
    MaxCopies = 1
    Debug = FALSE
    N = 3
    SetDur = {}
    Restricting = TRUE
    AutoPause = TRUE
    StepCalls = FALSE
    FollowUps <- PlainFollowUps
    Restrictions <- PlainRestrictions
    Desc <- PlainDesc
    InitialDur <- PlainDur
    Request <- PlainRequest
    Commands <- OnCommands
INVARIANTS
    ActiveHasBit
    MutualExclusion
    AvailableCounts
PROPERTIES
    NoAutoStartAfterFailure
