SPECIFICATION Spec
CONSTANTS
    Handlers = {h1, h2}
    Nobody = Nobody
    Credentials = {cA, cB}
    MaxRecords = 2
    MaxTickets = 4
    MaxFailures = 1
    MaxRestarts = 1
SYMMETRY Symmetry
INVARIANTS
    FreshIsNewest
    RetiredStaysRetired
    ForgottenStaysForgotten
    ConfirmedIsCurrent
    OneReferencePerCredential
PROPERTIES
    BookSpec
CHECK_DEADLOCK FALSE
