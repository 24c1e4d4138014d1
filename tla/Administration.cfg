SPECIFICATION FairSpec
CONSTANTS
    Requests = {r1, r2, r3}
    None = None
INVARIANTS
    CertifiedByOwnTeardown
    OptOutStopsLaterWrites
PROPERTIES
    ReadSpec
    ReadsAreAnswered
