SPECIFICATION Spec
CONSTANTS
    MaxDeployments = 3
    MaxQueue = 1
    MaxCrashes = 0
    Requests = {"deploy", "delete"}
INVARIANTS
    NoOrphan
CHECK_DEADLOCK FALSE
