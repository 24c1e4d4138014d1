SPECIFICATION Spec
CONSTANTS
    Locks = {door, gate}
    MaxInstances = 1
PROPERTY
    UnloadReportsFailure
CHECK_DEADLOCK FALSE
