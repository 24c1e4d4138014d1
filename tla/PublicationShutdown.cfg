SPECIFICATION Spec
CONSTANTS
    Commands = {1}
    MaxTurns = 0
    MaxPushes = 0
INVARIANTS
    ShutdownEndsRetries
CHECK_DEADLOCK FALSE
