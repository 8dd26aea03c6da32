SPECIFICATION Spec
CONSTANTS
    MaxTick = 2
    MaxCopies = 2
    Debug = FALSE
    N = 1
    SetDur = {}
    Restrictions = {}
    FollowUps = {}
    Restricting = TRUE
    AutoPause = TRUE
    StepCalls = TRUE
    Desc <- StepsDesc
    InitialDur <- StepsDur
    Request <- StepsRequest
    Commands <- AnyCommand
INVARIANTS
    TypeOK
    NothingLeftRunning
    ResumeRestoresRun
    ActiveStepRuns
PROPERTIES
    ResumePointKept
    KeepsLifecycle
