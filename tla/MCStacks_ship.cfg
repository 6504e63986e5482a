SPECIFICATION Spec
CONSTANTS
    web = web
    db = db
    Services <- TwoServices
    Files <- OneFile
    MaxDeployments = 3
    MaxQueue = 1
    MaxCrashes = 1
    Requests = {"deploy", "rollback", "delete"}
SYMMETRY AnyService
INVARIANTS
    TypeOK
    ServedIsCurrent
    InFlightHasOwner
    GoneLeavesNothing
    NothingForgotten
CHECK_DEADLOCK FALSE
