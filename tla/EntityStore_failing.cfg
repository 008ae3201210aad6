CONSTANTS
    x = x  y = y  z = z
    NoHost = NoHost  NoPort = NoPort  NoName = NoName
    Host = {x, y, z}
    Feature <- Conversations
    Alert <- Findings
    MaxEntities = 2  MaxPartners = 1  MaxPorts = 1  MaxDomains = 1  MaxRefs = 1
    FlushEvery = 2  MaxFlows = 2  MaxAlerts = 1  MaxNow = 3
SPECIFICATION Spec
INVARIANT NoteAlertSucceeds
