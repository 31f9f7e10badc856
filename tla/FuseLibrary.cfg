SPECIFICATION Spec
CONSTANTS
    \* FuseInit
    Flags = {"ASYNC_READ", "PASSTHROUGH", "SPLICE_READ"}
    InitMinors = {5, 38}
    MaxTouches = 2
    PageSize = 2
    HeaderSize = 2
    FUSE_MIN_READ_BUFFER = 4
    UINT_MAX = 63
    MaxPages = 8
    DefaultPages = 4
    PagesPerReq = 2
    WriteSizes = {0, 1, 3, 4, 7, 13, 20}
    InitWorkers = {1}
    BackgroundMax = 3
    Backgrounds = {0, 2, 5}
    FsOps = {"write_buf"}
    \* FusePipe
    MaxMessages = 3
    PipeFaults = 2
    \* FuseBuf
    Vectors <- MCVectors
    SizeMax = 3
    \* FuseOpt
    CommandLines <- MCCommandLines
    KnownOptions <- MCKnownOptions
    \* FuseHandles
    Handles = {h1, h2}
    Builtin = {"subdir"}
    Shared = {"so"}
    MaxNews = 3
    HandleFaults = 1
    \* FuseSlab
    Pages = {p1, p2, p3}
    SlabNodes = 2
    \* FuseDirBuf
    Entries = {a, b, c}
    Room = 2
    MaxChanges = 1
    DirFaults = 1
    MaxScans = 1
    \* FuseAutoCache
    CacheThreads = {t, u}
    MaxVersion = 2
    StatFaults = 1
    OpenInterrupts = 0
    \* CuseDevice
    CuseWorkers = {1, 2}
    CuseFaults = 1
    MaxCuseOps = 3
    \* PassthroughLl
    LoThreads = {t, u}
    LoFiles = {f}
    LoSlots = {1, 2}
    LoFds = {3, 4, 5}
    LoMaxKnown = 2
    LoRequests = 3
    LoFaults = 1
    \* PassthroughHp
    HpThreads = {t, u}
    NoCache = TRUE
    HpRequests = 6
    HpMaxKnown = 2
    \* FuseRecordLocks
    Owners = {p, q}
    OFFSET_MAX = 2
    LockFaults = 1
    MaxLockRequests = 3
    \* FuseTables
    Keys = {0, 1, 3}
    IdRange = 7
    MinSize = 4
    Multiplier = 5
    MaxIssued = 6
    MaxNodes = 4
    TableFaults = 1
INVARIANTS InitAgrees PipeClean CopyExact ArgumentsKept HandlesBacked SlabsExact
    ReaddirExact KeptPagesFresh CuseSound LoExact  LockAnswers
PROPERTIES LocksRefineBytes TablesImplementMap
SYMMETRY Sym
CHECK_DEADLOCK FALSE
