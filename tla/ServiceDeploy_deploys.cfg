SPECIFICATION Spec
CONSTANTS
    MaxDeployments = 3
    MaxQueue = 1
    MaxCrashes = 0
    Requests = {"deploy", "stop"}
INVARIANTS
    TypeOK
    CurrentWasAccepted
    OneWatched
    ServedIsRecorded
PROPERTIES
    SettledIsFinal
CHECK_DEADLOCK FALSE
