SPECIFICATION Spec
CONSTANTS
    MaxDeployments = 1
    MaxPasswords = 2
    MaxQueue = 1
    MaxCrashes = 1
    Requests = {"rebuild", "change", "stop", "delete"}
    Engines = {"postgres", "mysql", "redis"}
INVARIANTS
    TypeOK
    CredentialsOpen
    RunningIsServed
    GoneLeavesNothing
    DeployingHasOwner
    NothingForgotten
CHECK_DEADLOCK FALSE
