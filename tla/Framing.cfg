SPECIFICATION StreamSpec
CONSTANTS
    Base = 2
    MaxFrame = 5
    Room = 9
    Packets <- FewPackets
PROPERTIES
    Reassembles
