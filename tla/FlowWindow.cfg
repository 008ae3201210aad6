CONSTANTS
    x = x  y = y  z = z
    Flow = {x, y, z}
    MapSize = 2  MaxTracked = 2  IdleEvict = 1
    MaxPackets = 3  MaxTraffic = 7  MaxNow = 2
SYMMETRY FlowSymmetry
SPECIFICATION Spec
INVARIANTS
    WindowCoherent
    EveryPacketOnce
    RateWithinBacklog
PROPERTIES
    ImplementsAccount
