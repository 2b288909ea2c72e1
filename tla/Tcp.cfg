SPECIFICATION Spec
CONSTANTS
    Conns = {c1}
    Capacity = 1
INVARIANTS
    SocketsEnd
PROPERTIES
    PumpsResume
    WindsDown
