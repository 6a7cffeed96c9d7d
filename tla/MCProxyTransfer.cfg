\* One transfer to one server is enough.
SPECIFICATION Spec
CONSTANTS
    PlayerNames = {"n1", "n2"}
    Nobody = "nobody"
    SlaveServers = {"s1"}
    MainServer = "proxy"
    PeerIds = {2, 3}
    PlayerIds = {7, 8}
    MaxTransfers = 1

INVARIANTS
    SaoIsThere

CHECK_DEADLOCK FALSE
