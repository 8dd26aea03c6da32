SPECIFICATION Spec
CONSTANTS
    MaxTick = 2
    MaxCopies = 2
    Debug = FALSE
    N = 1
    SetDur = {0}
    Restrictions = {}
    FollowUps = {}
    Restricting = TRUE
    AutoPause = TRUE
    StepCalls = FALSE
    Desc <- TimedDesc
    InitialDur <- TimedDur
    Request <- TimedRequest
    Commands <- ResumeCommand
INVARIANTS
    OwnMaxTime
