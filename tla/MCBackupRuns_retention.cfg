SPECIFICATION Spec
CONSTANTS
    Instances <- RetentionInstances
    Keep = 1
    MaxRuns = 3
    MaxQueue = 1
INVARIANTS
    TypeOK
    KeptHasObject
    RetentionRespected
    OneScheduled
    TornIsNotServed
PROPERTIES
    NewestKept
CHECK_DEADLOCK FALSE
