SPECIFICATION Spec
CONSTANTS
    Instances <- SourceInstances
    Keep = 1
    MaxRuns = 3
    MaxQueue = 1
INVARIANTS
    SourceSurvives
CHECK_DEADLOCK FALSE
