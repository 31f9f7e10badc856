SPECIFICATION BurstSpec
CONSTANTS
    a = a
    b = b
    c = c
    x = x
    y = y
    h1 = h1
    Root = Root
    NoNode = NoNode
    NoName = NoName
    NoThread = NoThread
    Nodes = {a, b}
    Names = {x, y}
    HiddenNames = {h1}
    Threads = {t1, t2}
    Requests <- NodeRequests
    InitParent <- ChainParent
    InitName <- ChainName
    NullpathOk = FALSE
    HardRemove = FALSE
    Interrupts = TRUE
    MaxLookup = 2
    MaxOpen = 1
    MaxRequests = 4
INVARIANTS NodeCounts SomebodyWakes
SYMMETRY Sym
CHECK_DEADLOCK FALSE
