SPECIFICATION Spec
CONSTANTS
    Handlers = {h1, h2}
    Nobody = Nobody
    Credentials = {slot}
    MaxRecords = 2
    MaxTickets = 2
    MaxFailures = 1
    MaxRestarts = 1
INVARIANT
    RemovalForgets
CHECK_DEADLOCK FALSE
