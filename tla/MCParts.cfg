\* One part at a time, each with the smallest numbers at which its hazards arise.
SPECIFICATION PartsSpec
CONSTANTS
    MAX_RELIABLE_WINDOW_SIZE = 5
    SEQNUM_MAX = 9
    MaxList = 4
    SPLIT_SIZE = 2
    MaxChunks = 3
    MaxMessages = 3
    wood = wood
    plank = plank
    Items = {wood, plank}
    NoItem = NoItem
    stack_max = 2
    PlayerLists = {"main", "craft", "result"}
    OtherLists = {"chest"}
    CraftList = "craft"
    ResultList = "result"
    Ingredient = wood
    Product = plank
    InitialInventories <- MCInventories
    Allowed <- MCAllowed
    MaySee = {"hurry", "dead", "mod"}
    MaxMoves = 2
    EmergeThreads = {0, 1}
    Positions = {1, 2}
    Chunks = {"c1", "c2"}
    Chunk <- MCChunk
    FullArea <- MCFullArea
    EmergePeers = {p1}
    PEER_ID_INEXISTENT = p0
    NoPosition = 0
    m_qlimit_total = 2
    m_qlimit_diskonly = 1
    m_qlimit_generate = 1
    COUNT_SIZE = 2
    Worlds <- MCWorlds
    MaxRequests = 2
    Editable = {1}
    PlayerNames = {"n1", "n2"}
    Nobody = "nobody"
    SlaveServers = {"s1", "s2"}
    MainServer = "proxy"
    PeerIds = {2, 3}
    PlayerIds = {3, 8}
    MaxTransfers = 2
    MAX_UDP_PEERS = 3
    Addresses = {"a1", "a2"}
    ChannelClients = {"c1", "c2"}
    SessionIds = {2, 3}
    NoSession = 0
    MaxWaiting <- MCWaiting

INVARIANTS
    PartsTypeOK
    ListInWindowOrder
    InsertAddsOne
    MessagesAreWhole
    
    
    
    IdsAgree


    

CHECK_DEADLOCK FALSE
