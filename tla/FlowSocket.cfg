CONSTANTS
    k1 = k1  k2 = k2  k3 = k3
    Conn = {k1, k2, k3}
    NoConn = NoConn
    Cap = 3  Access = {TRUE, FALSE}  Stranger = TRUE  MaxBatch = 2
SPECIFICATION Spec
INVARIANTS
    NeverMisframed
    EveryStreamOwnedOnce
PROPERTIES
    BatchesInOrder
    EngineIsFed
