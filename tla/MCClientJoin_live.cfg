\* Both sessions use the same name.
SPECIFICATION Spec

CONSTANTS
    Peers = {p1, p2}
    NoPeer = NoPeer
    Names = {n1}
    MaxUsers = 1
    Readers = {}
    LatePackets = FALSE

PROPERTIES
    EveryoneIsServed

CHECK_DEADLOCK FALSE
