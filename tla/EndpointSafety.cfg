SPECIFICATION Spec
CONSTANTS
    Links = {l1, l2}
    Apps = {a1, a2}
    Pump = pump
    None = none
    MaxBatch = 1
SYMMETRY Interchangeable
INVARIANTS
    TornDownOnce
    ClosersRun
    NoResurrection
    NoDroppedPacket
    WaitsEnd
PROPERTY Contract
