SPECIFICATION Spec
CONSTANTS
    p1 = p1
    p2 = p2
    PREVIEW_LIMIT = 2
    PullRequests <- TwoRequests
    NoRequest = NoRequest
    MaxServices = 2
    MaxEvents = 4
    MaxQueue = 1
    MaxCrashes = 0
    Instances <- NestedInstances
SYMMETRY AnyTwo
INVARIANTS
    OnePreview
CHECK_DEADLOCK FALSE
