SPECIFICATION Spec
CONSTANTS
    h1 = h1
    h2 = h2
    Hosts <- TwoHosts
    Instances <- RetentionInstances
    KEEP_PER_SERVICE = 1
    MaxDeployments = 4
    MaxTags = 3
    MaxQueue = 1
    MaxCrashes = 1
SYMMETRY AnyHost
INVARIANTS
    TypeOK
    PurgedIsGone
    OfferedIsThere
PROPERTIES
    CurrentSpared
    WindowSpared
CHECK_DEADLOCK FALSE
