CONSTANTS
    c1 = c1  c2 = c2
    Cpu = {c1, c2}
    NoEntry = NoEntry
    MaxPackets = 4  MaxEpoch = 2
SYMMETRY CpuSymmetry
SPECIFICATION MapSpec
CHECK_DEADLOCK FALSE
INVARIANTS
    NoLeftoverWhenSettled
    CountsPackets
PROPERTIES
    SampleKept
    DecreaseMeansRecycled
