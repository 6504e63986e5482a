SPECIFICATION FairSpec
CONSTANTS
    MaxDeployments = 1
    MaxQueue = 1
    MaxCrashes = 1
    Requests = {"deploy", "delete", "start", "restart", "rollback", "lose"}
INVARIANTS
    BuildingHasOwner
PROPERTIES
    BuildingSettles
    DeleteSettles
    CrashLoopAnswered
CHECK_DEADLOCK FALSE
