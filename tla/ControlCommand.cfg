SPECIFICATION FairSpec
CONSTANTS
    Requests = {lockIt, unlockIt}
    LockRequests = {lockIt}
    Nobody = Nobody
    MaxCancels = 3
INVARIANTS
    NoTaskOutlivesItsCaller
    SuccessIsConfirmed
PROPERTIES
    CancellationStopsUncommitted
    ClosingStartsNoControl
    EveryCallerAnswered
    PromiseSpec
