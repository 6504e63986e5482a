SPECIFICATION Spec
CONSTANTS
    p1 = p1
    p2 = p2
    PREVIEW_LIMIT = 1
    PullRequests <- TwoRequests
    NoRequest = NoRequest
    MaxServices = 2
    MaxEvents = 4
    MaxQueue = 1
    MaxCrashes = 0
    Instances <- IntakeInstances
SYMMETRY AnyTwo
INVARIANTS
    CapHolds
    PreviewsFollowRequests
CHECK_DEADLOCK FALSE
