SPECIFICATION BurstSpec
CONSTANTS
    a = a
    b = b
    c = c
    x = x
    y = y
    h1 = h1
    Root = Root
    NoNode = NoNode
    NoName = NoName
    NoThread = NoThread
    Nodes = {a, b}
    Names = {x, y}
    HiddenNames = {h1}
    Threads = {t1, t2, t3}
    Requests <- NullpathRequests
    InitParent <- FlatParent
    InitName <- FlatName
    NullpathOk = TRUE
    HardRemove = FALSE
    Interrupts = FALSE
    MaxLookup = 1
    MaxOpen = 1
    MaxRequests = 6
INVARIANTS HiddenIsOwned
SYMMETRY Sym
CHECK_DEADLOCK FALSE
