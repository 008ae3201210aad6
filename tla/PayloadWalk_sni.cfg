CONSTANTS
    Messages <- AllMessages
    Cap = 100
SPECIFICATION PayloadSpec
INVARIANT AbsenceIsReal
