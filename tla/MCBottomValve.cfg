\* A bottom valve that is closed with a delay.
SPECIFICATION FairValveSpec
CONSTANTS
    OffDelay = 1
    BottomDelay = 1
    OnTime = 1
    MaxAge = 2
    MaxQueue = 2
    Valves = {v1}
    ValveKinds = {"bottom"}
PROPERTIES EveryOffCompletes
