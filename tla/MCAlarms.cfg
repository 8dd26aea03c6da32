SPECIFICATION Spec
CONSTANTS
    NDev = 3
    Objects = {}
    MaxErrors = 1
    CriticalErrors = {k1}
    MaxId = 4
    MaxCritId = 2
    MaxNumber = 0
INVARIANTS
    RedFollowsAlarms
PROPERTIES
    SirenFollowsAlarms
    KeepsAlarmLifecycle
