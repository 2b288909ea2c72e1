SPECIFICATION Spec
CONSTANTS
    Installers = {i1, i2}
    Required = {header, library}
INVARIANTS
    OnlyWhole
PROPERTIES
    NothingLost
    Recovers
