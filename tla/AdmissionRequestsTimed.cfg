SPECIFICATION Spec
CONSTANTS
    Conns = {k1, k2}
    MaxPending = 1
    MaxLinks = 1
SYMMETRY Interchangeable
INVARIANTS
    RequestsTimed
