----------------------------- MODULE MCFuseTree -----------------------------
(* Instances of FuseTree: trees the kernel has looked up, and workloads of   *)
(* at most MaxRequests requests, after which the kernel is quiet.            *)
EXTENDS FuseTreeInv, TLC

CONSTANTS a, b, c, x, y, h1, MaxRequests
VARIABLE left

Rq(op, d1, n1, d2, n2) ==
    [op |-> op, d1 |-> d1, n1 |-> n1, d2 |-> d2, n2 |-> n2, k |-> 0,
     h |-> NoName, v |-> {}]
Ino(ops) == {Rq(op, n, NoName, NoNode, NoName) : op \in ops, n \in Nodes}
Entry(ops) ==
    {Rq(op, d, nm, NoNode, NoName) : op \in ops, d \in Dirs, nm \in Names}
Pair(ops) ==
    {Rq(op, d1, n1, d2, n2) : op \in ops, d1 \in Dirs, n1 \in Names,
                              d2 \in Dirs, n2 \in Names}

(* /x is a directory with one entry /x/y.                                   *)
ChainParent == [n \in Nodes |-> IF n = a THEN Root ELSE IF n = b THEN a ELSE NoNode]
ChainName == [n \in Nodes |-> IF n = a THEN x ELSE IF n = b THEN y ELSE NoName]

(* /x with /x/y, and /y.                                                    *)
ForkParent == [n \in Nodes |-> IF n = b THEN a ELSE Root]
ForkName == [n \in Nodes |-> IF n = a THEN x ELSE y]

(* /x with the files /x/x and /x/y.                                         *)
DirParent == [n \in Nodes |-> IF n = a THEN Root ELSE a]
DirName == [n \in Nodes |-> IF n = c THEN y ELSE x]

(* /x and /y are files.                                                     *)
FlatParent == [n \in Nodes |-> IF n \in {a, b} THEN Root ELSE NoNode]
FlatName == [n \in Nodes |-> IF n = a THEN x ELSE IF n = b THEN y ELSE NoName]

(* A reader of a deep path and forgets of its nodes against every way of    *)
(* changing an entry on it.                                                  *)
LockRequests ==
    {Rq("getattr", b, NoName, NoNode, NoName)}
    \cup {r \in Ino({"forget"}) : r.d1 # a} \cup Entry({"rmdir"})
    \cup {r \in Pair({"rename", "exchange"}) : r.n2 = y}

(* A copy between two files of a directory that is being renamed.           *)
CopyRequests ==
    {Rq("copy_file_range", b, NoName, c, NoName),
     Rq("copy_file_range", c, NoName, b, NoName),
     Rq("rename", Root, x, Root, y), Rq("rename", Root, y, Root, x)}

(* The life of a node: found, made, opened, linked, removed, forgotten.      *)
NodeRequests ==
    Ino({"forget", "open", "release"})
    \cup Entry({"lookup", "rmdir", "create"})
    \cup {r \in Entry({"mkdir", "unlink"}) : r.d1 = a /\ r.n1 = y}
    \cup {r \in Pair({"link"}) : r.d1 = b /\ r.n1 = x}

(* Open files that are unlinked, replaced and released.                     *)
Files(ops) == {r \in Entry(ops) : r.d1 = Root}
Renames == {r \in Pair({"rename"}) : r.d1 = Root /\ r.d2 = Root}
UnlinkRequests == Ino({"open", "release"}) \cup Files({"unlink", "lookup"})
Copy == Rq("copy_file_range", a, NoName, b, NoName)
HideRequests == UnlinkRequests \cup Renames \cup {Copy}
NullpathRequests ==
    UnlinkRequests \cup {Copy, Rq("read", a, NoName, NoNode, NoName)}

Sym == Permutations(Threads)

-----------------------------------------------------------------------------
BurstInit == Init /\ left = MaxRequests
BurstNext ==
    \E t \in Threads :
       \/ left > 0 /\ left' = left - 1 /\ Receive(t)
       \/ left' = left /\ Work(t)
BurstSpec == BurstInit /\ [][BurstNext]_<<vars, left>>

(* Some thread that can go on is scheduled; the file system's calls return.  *)
FairBurstSpec ==
    /\ BurstSpec
    /\ WF_<<vars, left>>(left' = left /\ \E t \in Threads : Work(t))

(* "This handle must be passed to one of the specified reply functions"      *)
(* (fuse_lowlevel.h): every request received is answered, its paths are      *)
(* freed and its thread returns to the loop, whatever waits for what.        *)
RequestsFinish == <>[](\A t \in Threads : pc[t] = "idle")
=============================================================================
