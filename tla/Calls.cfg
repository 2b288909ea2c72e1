SPECIFICATION FairSpec
CONSTANTS
    Calls = {c1, c2, n1}
    Nested = {n1}
    None = none
INVARIANTS
    PumpNeverBlocks
    WaiterReachable
    PolledAreRegistered
    NoPendingLeak
    NestedStarve
PROPERTIES
    Promise
    AnswerWakes
    CallReturns
    PumpResumes
