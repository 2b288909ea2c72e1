SPECIFICATION FairSpec
CONSTANTS
    Conns = {k1, k2}
    MaxPending = 1
    MaxLinks = 1
INVARIANTS
    Conserved
    OverflowStaysOut
    DeadlineKept
PROPERTIES
    TokensRecover
