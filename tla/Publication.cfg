SPECIFICATION FairSpec
CONSTANTS
    Commands = {1, 2}
    MaxTurns = 1
    MaxPushes = 1
INVARIANTS
    MovingIsTruthful
    SettledOnCommand
PROPERTIES
    NeverGoesBack
    ActivityIsQueried
    ShowsTheBolt
CHECK_DEADLOCK FALSE
