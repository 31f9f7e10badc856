SPECIFICATION Spec
CONSTANTS
    c1 = c1
    c2 = c2
    \* FuseRequests
    Workers = {w1, w2}
    NoWorker = NoWorker
    Requests = {r1, r2}
    Blocking = {r1}
    FUSE_INIT = FUSE_INIT
    FUSE_DESTROY = FUSE_DESTROY
    Retrieves = {n1}
    \* FuseNodeCache
    Dir = d
    Files = {f, g}
    PartialForgets = FALSE
    MaxKnown = 2
    \* FusePoll
    FSEL_FILES = 4
    FSEL_CNT_MAX = 1
    FselOpened <- MCFselOpened
    FselClients = {c1, c2}
    FselModes = {TRUE, FALSE}
    FselFaults <- MCFselFaults
    \* FuseStudy
    StudyClients = {c1, c2}
    StudyThreads <- MCStudyThreads
    StudyRequests <- MCStudyRequests
    StudyLoad <- MCStudyLoad
INVARIANTS RequestsLive CacheCounts PollHandlesSound 
PROPERTIES InterruptEnds RememberedFreed PollersWoken 
CHECK_DEADLOCK FALSE
