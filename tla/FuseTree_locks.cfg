SPECIFICATION FairBurstSpec
CONSTANTS
    a = a
    b = b
    c = c
    x = x
    y = y
    h1 = h1
    Root = Root
    NoNode = NoNode
    NoName = NoName
    NoThread = NoThread
    Nodes = {a, b, c}
    Names = {x, y}
    HiddenNames = {h1}
    Threads = {t1, t2, t3}
    Requests <- LockRequests
    InitParent <- ForkParent
    InitName <- ForkName
    NullpathOk = FALSE
    HardRemove = FALSE
    Interrupts = FALSE
    MaxLookup = 1
    MaxOpen = 1
    MaxRequests = 3
INVARIANTS PathLocks NoLoops
PROPERTIES HeldEntriesFixed RequestsFinish
CHECK_DEADLOCK FALSE
