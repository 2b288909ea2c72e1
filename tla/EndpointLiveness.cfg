SPECIFICATION FairSpec
CONSTANTS
    Links = {l1}
    Apps = {a1}
    Pump = pump
    None = none
    MaxBatch = 1
PROPERTIES
    CloseReturns
    WindsDown
