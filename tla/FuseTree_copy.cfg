SPECIFICATION FairBurstSpec
CONSTANTS
    a = a
    b = b
    c = c
    x = x
    y = y
    h1 = h1
    Root = Root
    NoNode = NoNode
    NoName = NoName
    NoThread = NoThread
    Nodes = {a, b, c}
    Names = {x, y}
    HiddenNames = {h1}
    Threads = {t1, t2}
    Requests <- CopyRequests
    InitParent <- DirParent
    InitName <- DirName
    NullpathOk = FALSE
    HardRemove = FALSE
    Interrupts = FALSE
    MaxLookup = 1
    MaxOpen = 1
    MaxRequests = 2
PROPERTIES RequestsFinish
CHECK_DEADLOCK FALSE
