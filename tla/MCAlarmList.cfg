SPECIFICATION FairListSpec
CONSTANTS
    NDev = 1
    Objects = {o1}
    MaxErrors = 1
    CriticalErrors = {k1}
    Clients = {c1}
    MaxId = 3
    MaxCritId = 2
    MaxNumber = 2
INVARIANTS
    ClientsShowAlarms
PROPERTIES
    FailureIsShown
