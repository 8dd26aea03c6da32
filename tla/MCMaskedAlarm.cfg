SPECIFICATION Spec
CONSTANTS
    NDev = 2
    Objects = {}
    MaxErrors = 1
    CriticalErrors = {k1}
    MaxId = 3
    MaxCritId = 2
    MaxNumber = 0
INVARIANTS
    RedShowsEveryAlarm
