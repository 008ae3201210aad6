CONSTANTS
    victim = victim  attacker = attacker  relay = relay  f1 = f1  f2 = f2  f3 = f3  f4 = f4  f5 = f5  f6 = f6  f7 = f7  f8 = f8
    NoHost = NoHost  AnyHost = AnyHost  NoId = NoId
    Host = {victim, attacker, relay}
    Threats <- AnyThreat
    Window = 3  Quiet = 3  MaxOpen = 2  MaxRelated = 1  MaxPartners = 1
    MaxBatch = 2  MaxNow = 5  MaxSeq = 4
SPECIFICATION Spec
INVARIANTS
    IdsNeverReissued
    IndexCoherent
    SilenceIsAccounted
PROPERTIES
    LinksAreRight
    QuietBetweenLines
