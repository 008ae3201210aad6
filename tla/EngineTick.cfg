CONSTANTS
    Cfg <- Config
    Kind <- Kinds
    NoQuery = NoQuery
    Scenarios <- Networks
    MaxScorePerTick = 4
    MinSamples = 3  MinMinorityShare = 30
    MaxFlows = 5  MaxTicks = 2
SPECIFICATION Spec
CHECK_DEADLOCK FALSE
INVARIANTS
    SpoofingNotLost
    OrderIrrelevant
    HealthIsTrue
PROPERTIES
    AttackNotHidden
