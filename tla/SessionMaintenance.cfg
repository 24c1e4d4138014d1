SPECIFICATION MaintenanceSpec
CONSTANTS
    Controls = {}
    Queries = {query}
    Inventories = {}
    Loggers = {}
    Maintain = Maintain
    Stop = Stop
    NoTask = NoTask
    MaxClients = 2
PROPERTY
    MaintenanceResumes
