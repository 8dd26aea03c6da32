SPECIFICATION Spec
CONSTANTS
    MaxTick = 1
    MaxCopies = 1
    Debug = FALSE
    N = 2
    SetDur = {}
    FollowUps = {}
    Restricting = TRUE
    AutoPause = TRUE
    StepCalls = FALSE
    Restrictions <- MutualRestrictions
    Desc <- PlainDesc
    InitialDur <- PlainDur
    Request <- PlainRequest
    Commands <- AnyCommand
INVARIANTS
    MutualExclusion
