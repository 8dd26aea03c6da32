SPECIFICATION Spec
CONSTANTS
    MaxTick = 2
    MaxCopies = 2
    Debug = FALSE
    N = 1
    SetDur = {}
    Restrictions = {}
    FollowUps = {}
    Restricting = TRUE
    AutoPause = TRUE
    StepCalls = FALSE
    Desc <- UnpausingDesc
    InitialDur <- UnpausingDur
    Request <- StepsRequest
    Commands <- AnyCommand
INVARIANTS
    OneActiveStep
