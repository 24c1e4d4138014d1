SPECIFICATION FairSpec
CONSTANTS
    Locks = {door, gate}
    MaxInstances = 3
INVARIANTS
    LeftoversAreAccountedFor
    OnlyTheLatestTracks
    DevicesFollowKeys
PROPERTIES
    KeysTakeEffect
CHECK_DEADLOCK FALSE
