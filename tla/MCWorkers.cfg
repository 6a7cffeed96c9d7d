\* One part at a time, each with the smallest numbers at which its threads meet.
SPECIFICATION WorkersSpec
CONSTANTS
    Parts = {"abm", "async", "http", "mesh", "media", "emerge", "peers"}
    AbmWorkers = {w1, w2}
    FirstWorker = w1
    AbmBlocks = {1, 2}
    DEQUE_NODE = 2
    MaxBatches = 1
    AsyncWorkers = {w1, w2}
    FirstAsyncWorker = w1
    MaxJobs = 3
    HttpUsers = {u1, u2}
    CallerIds = {1, 2}
    Fetches = {f1, f2}
    NoFetch = NoFetch
    m_parallel_limit = 1
    MaxSessions = 2
    MeshBlocks = {1, 2, 3}
    NoMeshBlock = 0
    FacesOf <- MCFacesOf
    AroundOf <- MCAroundOf
    MAX_GOT_BLOCKS = 1
    MaxChanges = 2
    MaxFiles = 2
    MaxRemotes = 2
    m_httpfetch_active_limit = 2
    Unreadable = {}
    EmergeThreads = {0}
    Positions = {1, 2}
    Chunks = {"c1", "c2"}
    Chunk <- MCChunk
    FullArea <- MCFullArea
    EmergePeers = {p1}
    PEER_ID_INEXISTENT = p0
    NoPosition = 0
    m_qlimit_total = 2
    m_qlimit_diskonly = 1
    m_qlimit_generate = 1
    COUNT_SIZE = 2
    Worlds <- MCWorlds
    MaxRequests = 2
    Editable = {1}
    Peers = {peer1}
    AppThreads = {a1, a2}
    None = None
    MaxData = 3

INVARIANTS
    WorkersTypeOK
    BooksAgree
    MeshesFollowTheMap
    PeersAreCounted
    EventsAreTrue

PROPERTIES
    
    
    ThreadsStop
    EventuallyDeleted
    NoReferenceCountingFailure

CHECK_DEADLOCK FALSE
