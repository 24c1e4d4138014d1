SPECIFICATION Spec
CONSTANTS
    Controls = {control}
    Queries = {query}
    Inventories = {inventory}
    Loggers = {}
    Maintain = Maintain
    Stop = Stop
    NoTask = NoTask
    MaxClients = 2
INVARIANTS
    EveryHandleIsOwned
    AnnouncedUpIsAccountedFor
    StopLeavesNothing
PROPERTIES
    SlotSpec
    ReadSpec
    WaitersGetCloser
    StopSettles
    ControlsAnswered
