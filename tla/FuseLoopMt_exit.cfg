SPECIFICATION LiveSpec
CONSTANTS
    Workers = {w1, w2}
    NoWorker = NoWorker
    Chans = {c1, c2}
    NoChan = NoChan
    MaxThreads = 2
    MaxIdle <- NoLimit
    CloneFd = TRUE
    StartFails = TRUE
    Signals = TRUE
    MaxInflight = 1
PROPERTIES WorkerExitEnds ExitOnRequest
CHECK_DEADLOCK FALSE
