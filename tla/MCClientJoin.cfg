\* With one name or two.
SPECIFICATION Spec

CONSTANTS
    Peers = {p1, p2}
    NoPeer = NoPeer
    Names = {n1, n2}
    MaxUsers = 2
    Readers = {p1, p2}
    LatePackets = TRUE

SYMMETRY MCSymmetry

INVARIANTS
    TypeOK
    SessionOwnsName
    KnownIsThere
    NoLooseEnds

CHECK_DEADLOCK FALSE
