CONSTANTS
    Peer <- Callers  Sites <- Networks
    MinIntervals = 2  WebMinIntervals = 3  MaxJitter = 40  WebMaxJitter = 25
    MinGap = 1  MaxGap = 3  History = 4
    Cooldown = 4  IdleEvict = 5  SwarmMin = 3  Slack = 25
    Start = 10
    IncidentWindow = 4  QuietPeriod = 4  MaxIncidents = 9  NoId = NoId
SPECIFICATION JoinedSpec
CHECK_DEADLOCK FALSE
INVARIANTS
    SwarmInStepDropped
    RaiseIsAnnounced
PROPERTIES
    NoRepeatWithinCooldown
    EveryBeaconRaised
    ContinuesOnlyOnTheDot
