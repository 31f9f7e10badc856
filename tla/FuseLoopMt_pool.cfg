SPECIFICATION Spec
CONSTANTS
    Workers = {w1, w2, w3, w4}
    NoWorker = NoWorker
    Chans = {c1, c2}
    NoChan = NoChan
    MaxThreads = 3
    MaxIdle = 1
    CloneFd = TRUE
    StartFails = FALSE
    Signals = TRUE
    MaxInflight = 1
INVARIANTS PoolCounts ReaderLeft JoinedOnce
SYMMETRY Sym
CHECK_DEADLOCK FALSE
