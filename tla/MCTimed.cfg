SPECIFICATION FairSpec
CONSTANTS
    MaxTick = 2
    MaxCopies = 2
    Debug = FALSE
    N = 1
    SetDur = {0, 1}
    Restrictions = {}
    FollowUps = {}
    Restricting = TRUE
    AutoPause = TRUE
    StepCalls = FALSE
    Desc <- TimedDesc
    InitialDur <- TimedDur
    Request <- TimedRequest
    Commands <- ResumeCommand
PROPERTIES
    TimedStepEnds
