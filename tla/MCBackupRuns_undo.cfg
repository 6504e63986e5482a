SPECIFICATION FairSpec
CONSTANTS
    Instances <- UndoInstances
    Keep = 1
    MaxRuns = 3
    MaxQueue = 1
INVARIANTS
    RestoreIsReversible
    SourceSurvives
PROPERTIES
    CaptureSettles
CHECK_DEADLOCK FALSE
