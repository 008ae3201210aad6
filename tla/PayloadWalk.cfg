CONSTANTS
    Messages <- AllMessages
    Cap = 100
SPECIFICATION PayloadSpec
INVARIANTS
    CutOnlyHides
    ReadAsMeant
