------------------------------ MODULE FuseTree ------------------------------
(***************************************************************************)
(* The inode tree of the high-level library (lib/fuse.c): the node table   *)
(* with its lookup and reference counts, the path locks (treelock), the    *)
(* queue of requests that wait for a path (lockq), and the handlers that   *)
(* the worker threads run on them.                                         *)
(*                                                                         *)
(* A step is one critical section of f->lock, or one call of the user's    *)
(* file system together with the critical section that follows it.  Only   *)
(* the two loops that run under f->lock, waking the queue and dropping the *)
(* last references, take several steps; "mutex" is held across them.       *)
(*                                                                         *)
(* The user's file system is external: its calls succeed or fail freely.   *)
(* The kernel is external too: which requests it may send is KernelMay.    *)
(* Memory exhaustion is modelled where a bound stands for it (find_node).  *)
(***************************************************************************)
EXTENDS Integers, Sequences, FiniteSets

CONSTANTS
    Nodes,        \* node ids other than the root's
    Root,         \* FUSE_ROOT_ID
    NoNode,       \* the NULL node
    Names,        \* names of directory entries
    HiddenNames,  \* the names hidden_name() can generate
    NoName,       \* the NULL name
    Threads,      \* worker threads
    NoThread,     \* f->lock is free
    Requests,     \* the requests the kernel sends in this instance
    NullpathOk,   \* conf.nullpath_ok
    HardRemove,   \* conf.hard_remove
    Interrupts,   \* the kernel may drop a request: its reply gets -ENOENT
    InitParent,   \* parents and names of the nodes known at the start
    InitName,
    MaxLookup,    \* bound on a node's lookup count when a lookup is sent
    MaxOpen       \* bound on a node's open count when an open is sent

Dirs == Nodes \cup {Root}
AllNames == Names \cup HiddenNames

Ops == {"lookup", "mkdir", "link", "unlink", "rmdir", "rename", "exchange",
        "create", "open", "read", "release", "copy_file_range", "getattr",
        "forget"}
RequestType(ops) ==
    [op : ops, d1 : Dirs \cup {NoNode}, n1 : AllNames \cup {NoName},
     d2 : Dirs \cup {NoNode}, n2 : AllNames \cup {NoName},
     k : Int, h : HiddenNames \cup {NoName}, v : SUBSET Nodes]

ASSUME NodesAssumption ==
    IsFiniteSet(Nodes) /\ Root \notin Nodes /\ NoNode \notin Dirs
ASSUME NamesAssumption == NoName \notin AllNames

TREELOCK_WRITE == -1
TREELOCK_WAIT_OFFSET == -2147483647 - 1

(* Two paths per thread: their number never makes up for the wait offset.   *)
ASSUME ThreadsAssumption ==
    /\ IsFiniteSet(Threads) /\ NoThread \notin Threads
    /\ TREELOCK_WAIT_OFFSET + 2 * Cardinality(Threads) < TREELOCK_WRITE

ASSUME RequestsAssumption == Requests \subseteq RequestType(Ops)
ASSUME SettingsAssumption ==
    /\ NullpathOk \in BOOLEAN /\ HardRemove \in BOOLEAN
    /\ Interrupts \in BOOLEAN /\ MaxLookup \in Nat /\ MaxOpen \in Nat

(* The initial tree: entries have names, no two of a directory the same.    *)
ASSUME TreeAssumption ==
    /\ InitParent \in [Nodes -> Dirs \cup {NoNode}]
    /\ InitName \in [Nodes -> AllNames \cup {NoName}]
    /\ \A m, n \in Nodes :
          /\ InitParent[m] # NoNode => InitName[m] # NoName
          /\ InitParent[m] # NoNode /\ InitParent[m] = InitParent[n]
             /\ InitName[m] = InitName[n] => m = n

VARIABLES
    ids,                      \* id_table: the nodes that exist
    parent, name,             \* struct node: the entry in the name table
    nlookup, refctr,          \* struct node: lookup and reference counts
    treelock,                 \* struct node: the path lock
    open_count, is_hidden,    \* struct node: open handles, hidden by an unlink
    lockq,                    \* struct fuse: the queue of waiting threads
    mutex, wake,              \* f->lock held by a loop, and the loop's cursor
    pc, req,                  \* per thread: control state and request
    slots, got, path, wnode,  \* per thread: the path1/path2 variables
    qdone,                    \* per thread: the queue element's done and err
    ino,                      \* per thread: the node of e.ino or of a forget
    klookup, kopen,           \* the kernel's lookup counts and open handles
    fshidden                  \* nodes whose hidden file exists

tree == <<parent, name>>
counts == <<ids, nlookup, refctr>>
opens == <<open_count, is_hidden, fshidden>>
kernel == <<klookup, kopen>>
held == <<got, path, wnode>>
queue == <<lockq, mutex, wake, qdone>>
vars == <<tree, counts, treelock, opens, queue, pc, req, slots, held, ino,
          kernel>>

-----------------------------------------------------------------------------
(* Requests.  d1/n1 and d2/n2 are the nodeid and name arguments; k is the   *)
(* count of a forget; h is the name an open victim is hidden under; v are   *)
(* the inodes the kernel keeps because it has their entries in hand.        *)

NoReq == [op |-> "none", d1 |-> NoNode, n1 |-> NoName,
          d2 |-> NoNode, n2 |-> NoName, k |-> 0, h |-> NoName, v |-> {}]

EntryOps == {"lookup", "mkdir", "link"}      \* answered by reply_entry
WriteOps == {"unlink", "rmdir", "rename", "exchange"}
TwoPathOps == {"rename", "exchange", "link"}

(* A request that was answered while its handler still runs.                *)
Answered == {"none", "answered", "interrupted_open", "interrupted_create",
             "interrupted_entry", "forget"}

Dir(t, i) == IF i = 1 THEN req[t].d1 ELSE req[t].d2
NameArg(t, i) == IF i = 1 THEN req[t].n1 ELSE req[t].n2

-----------------------------------------------------------------------------
(* The name table and paths.                                                *)

lookup_node(d, nm) ==
    IF \E n \in Nodes : parent[n] = d /\ name[n] = nm
    THEN CHOOSE n \in Nodes : parent[n] = d /\ name[n] = nm
    ELSE NoNode

(* The nodes the loops of try_get_path and unlock_path visit: from d up to  *)
(* the root, which is never locked, or to a node that has lost its name.    *)
Above(up, d) ==
    {S \in SUBSET Nodes : /\ d \in Nodes => d \in S
                          /\ \A m \in S : up[m] \in Nodes => up[m] \in S}
ChainOf(up, d) == {m \in Nodes : \A S \in Above(up, d) : m \in S}
Chain(d) == ChainOf(parent, d)

Stale(d) == \E m \in Chain(d) : parent[m] = NoNode

-----------------------------------------------------------------------------
(* Path locks.                                                              *)

(* Mutant: a reader does not look at the locks on its way up.               *)
Outcome_unchecked(tl, d, w) ==
    IF w \in Nodes /\ tl[w] # 0 THEN "again"
    ELSE IF Stale(d) THEN "stale" ELSE "ok"

(* try_get_path for the chain of d and the write lock on w (or on no node). *)
(* A stale node ends the chain, so a lock held below it is met first.       *)
Outcome(tl, d, w) ==
    IF \/ w \in Nodes /\ tl[w] # 0
       \/ \E m \in Chain(d) : parent[m] # NoNode /\ (tl[m] < 0 \/ m = w)
    THEN "again"
    ELSE IF Stale(d) THEN "stale" ELSE "ok"

(* What it leaves in the locks.  A failed attempt gives back what it took;  *)
(* one that finds w locked by readers leaves the wait offset on w.          *)
try_get_path(tl, d, w) ==
    IF Outcome(tl, d, w) = "ok"
    THEN [n \in Nodes |-> IF n = w THEN TREELOCK_WRITE
                          ELSE IF n \in Chain(d) THEN tl[n] + 1 ELSE tl[n]]
    ELSE [n \in Nodes |-> IF n = w /\ tl[n] > 0
                          THEN tl[n] + TREELOCK_WAIT_OFFSET ELSE tl[n]]

(* Mutant: the last reader leaves the wait offset.                          *)
unlock_path_offset(tl, d, w) ==
    [n \in Nodes |-> IF n = w THEN 0 ELSE IF n \in Chain(d) THEN tl[n] - 1 ELSE tl[n]]

unlock_path(tl, d, w) ==
    [n \in Nodes |-> IF n = w THEN 0
                     ELSE IF n \notin Chain(d) THEN tl[n]
                     ELSE IF tl[n] - 1 = TREELOCK_WAIT_OFFSET THEN 0
                     ELSE tl[n] - 1]

(* The node a request wants to write-lock in path i.                        *)
Victim(t, i) ==
    IF req[t].op \in WriteOps THEN lookup_node(Dir(t, i), NameArg(t, i))
    ELSE NoNode

(* try_get_path2 for a request that wants both paths, try_get_path else.    *)
Outcome1(t, i) == Outcome(treelock, Dir(t, i), Victim(t, i))
Locks1(t, i) == try_get_path(treelock, Dir(t, i), Victim(t, i))

GetOutcome(t) ==
    IF slots[t] # {1, 2} THEN Outcome1(t, CHOOSE i \in {1, 2} : i \in slots[t])
    ELSE IF Outcome1(t, 1) # "ok" THEN Outcome1(t, 1)
    ELSE Outcome(Locks1(t, 1), Dir(t, 2), Victim(t, 2))

(* Mutant: the first path is not given back when the second is not free.    *)
try_get_path2_keeps(t) ==
    IF slots[t] # {1, 2} THEN Locks1(t, CHOOSE i \in {1, 2} : i \in slots[t])
    ELSE IF Outcome1(t, 1) # "ok" THEN Locks1(t, 1)
    ELSE try_get_path(Locks1(t, 1), Dir(t, 2), Victim(t, 2))

try_get_path2(t) ==
    IF slots[t] # {1, 2} THEN Locks1(t, CHOOSE i \in {1, 2} : i \in slots[t])
    ELSE IF Outcome1(t, 1) # "ok" THEN Locks1(t, 1)
    ELSE LET both == try_get_path(Locks1(t, 1), Dir(t, 2), Victim(t, 2))
         IN  IF GetOutcome(t) = "ok" THEN both
             ELSE unlock_path(both, Dir(t, 1), Victim(t, 1))

(* The path variables of t after a successful attempt.                      *)
SetPaths(t) ==
    /\ got' = [got EXCEPT ![t] = @ \cup slots[t]]
    /\ path' = [path EXCEPT ![t] = [i \in {1, 2} |->
                   IF i \in slots[t] THEN Chain(Dir(t, i)) ELSE path[t][i]]]
    /\ wnode' = [wnode EXCEPT ![t] = [i \in {1, 2} |->
                   IF i \in slots[t] THEN Victim(t, i) ELSE wnode[t][i]]]

-----------------------------------------------------------------------------
(* Control.                                                                 *)

(* Continue at l; a thread that becomes idle forgets its request.           *)
Goto(t, l) ==
    /\ pc' = [pc EXCEPT ![t] = l]
    /\ req' = IF l = "idle" THEN [req EXCEPT ![t] = NoReq] ELSE req
    /\ ino' = IF l = "idle" THEN [ino EXCEPT ![t] = NoNode] ELSE ino
    /\ slots' = IF l = "idle" THEN [slots EXCEPT ![t] = {}] ELSE slots

(* Continue at l as a request of kind op.                                   *)
GotoAs(t, l, op) ==
    /\ pc' = [pc EXCEPT ![t] = l]
    /\ req' = [req EXCEPT ![t].op = op]
    /\ UNCHANGED <<ino, slots>>

(* Where a handler goes on when get_path or get_path2 has returned.         *)
AfterGet(t, outcome) ==
    CASE req[t].op = "release" -> "rel"
      [] outcome = "stale" /\ req[t].op # "copy_file_range" -> "idle"
      [] req[t].op \in {"getattr", "read"} -> "free"
      [] req[t].op = "unlink_hidden" -> "unl"
      [] OTHER -> "op"

GetReturns(t, outcome) ==
    IF req[t].op = "copy_file_range" /\ slots[t] = {1}
    THEN /\ slots' = [slots EXCEPT ![t] = {2}]
         /\ pc' = [pc EXCEPT ![t] = "get"]
         /\ UNCHANGED <<req, ino>>
    ELSE Goto(t, AfterGet(t, outcome))

-----------------------------------------------------------------------------
(* The kernel: the VFS keeps a directory locked while it changes an entry   *)
(* of it, shared while it looks one up; it serialises the renames between   *)
(* directories and refuses the ones that would make a loop; it names only   *)
(* inodes it has looked up and has not forgotten, and has looked up the     *)
(* entries it removes or replaces.  It forgets an inode when no open file   *)
(* and no request in flight uses it.                                        *)

Live(t) == req[t].op \notin Answered

Excl(r) ==
    CASE r.op \in {"mkdir", "create", "unlink", "rmdir"} -> {r.d1}
      [] r.op \in {"rename", "exchange"} -> {r.d1, r.d2}
      [] r.op = "link" -> {r.d2}
      [] OTHER -> {}
Shared(r) == IF r.op = "lookup" THEN {r.d1} ELSE {}
CrossDir(r) == r.op \in {"rename", "exchange"} /\ r.d1 # r.d2

Conflict(r, s) ==
    \/ Excl(r) \cap (Excl(s) \cup Shared(s)) # {}
    \/ Shared(r) \cap Excl(s) # {}
    \/ CrossDir(r) /\ CrossDir(s)

Known(d) == d = Root \/ (d \in Nodes /\ klookup[d] > 0)
Positive(d, nm) == lookup_node(d, nm) \in Nodes /\ Known(lookup_node(d, nm))

KernelMay(r) ==
    /\ Known(r.d1)
    /\ \A t \in Threads : Live(t) => ~Conflict(r, req[t])
    /\ r.op \in TwoPathOps \cup {"copy_file_range"} => Known(r.d2)
    /\ r.op \in WriteOps => Positive(r.d1, r.n1)
    /\ r.op \in {"rename", "exchange"} =>
          /\ <<r.d1, r.n1>> # <<r.d2, r.n2>>
          /\ lookup_node(r.d1, r.n1) \notin Chain(r.d2)
          /\ lookup_node(r.d2, r.n2) \notin Chain(r.d1)
          /\ lookup_node(r.d2, r.n2) \in Nodes => Positive(r.d2, r.n2)
    /\ r.op = "exchange" => Positive(r.d2, r.n2)
    /\ r.op \in {"open", "release", "forget"} => r.d1 \in Nodes
    /\ r.op = "release" => kopen[r.d1] > 0
    /\ r.op = "forget" =>
          /\ kopen[r.d1] = 0
          /\ \A t \in Threads :
                Live(t) => r.d1 \notin {req[t].d1, req[t].d2} \cup req[t].v

Pinned(r) ==
    IF r.op \in WriteOps
    THEN {lookup_node(r.d1, r.n1), lookup_node(r.d2, r.n2)} \cap Nodes
    ELSE {}

(* The bounds of the instance.                                              *)
Bounded(r) ==
    /\ r.op \in {"lookup", "mkdir", "create"} =>
          LET n == lookup_node(r.d1, r.n1)
          IN  n \in Nodes => nlookup[n] < MaxLookup
    /\ r.op = "link" =>
          LET n == lookup_node(r.d2, r.n2)
          IN  n \in Nodes => nlookup[n] < MaxLookup
    /\ r.op = "open" => open_count[r.d1] < MaxOpen
    /\ r.op = "create" =>
          LET n == lookup_node(r.d1, r.n1)
          IN  n \in Nodes => open_count[n] < MaxOpen

(* A worker takes a request; the handler starts.                            *)
Receive(t) ==
    /\ pc[t] = "idle"
    /\ \E r \in Requests :
          /\ KernelMay(r) /\ Bounded(r)
          /\ req' = [req EXCEPT ![t] = IF r.op = "forget"
                        THEN [r EXCEPT !.k = klookup[r.d1]]
                        ELSE [r EXCEPT !.v = Pinned(r)]]
          /\ pc' = [pc EXCEPT ![t] =
                CASE r.op = "forget" -> "forget"
                  [] NullpathOk /\ r.op = "release" -> "rel"
                  [] NullpathOk /\ r.op = "read" -> "free"
                  [] NullpathOk /\ r.op = "copy_file_range" -> "op"
                  [] OTHER -> "get"]
          /\ slots' = [slots EXCEPT ![t] =
                IF r.op \in TwoPathOps THEN {1, 2} ELSE {1}]
          /\ ino' = IF r.op = "forget" THEN [ino EXCEPT ![t] = r.d1] ELSE ino
          /\ klookup' = IF r.op = "forget" THEN [klookup EXCEPT ![r.d1] = 0]
                        ELSE klookup
          /\ kopen' = IF r.op = "release" THEN [kopen EXCEPT ![r.d1] = @ - 1]
                      ELSE kopen
    /\ UNCHANGED <<tree, counts, treelock, opens, queue, held>>

-----------------------------------------------------------------------------
(* Getting and releasing paths.                                             *)

(* get_path, get_path_nullok, get_path_name, get_path_wrlock, get_path2.    *)
get_path_common(t) ==
    /\ pc[t] = "get" /\ mutex = NoThread
    /\ treelock' = try_get_path2(t)
    /\ IF GetOutcome(t) = "again"
       THEN /\ lockq' = Append(lockq, t)
            /\ pc' = [pc EXCEPT ![t] = "wait"]
            /\ UNCHANGED <<held, req, ino, slots>>
       ELSE /\ IF GetOutcome(t) = "ok" THEN SetPaths(t) ELSE UNCHANGED held
            /\ GetReturns(t, GetOutcome(t))
            /\ UNCHANGED lockq
    /\ UNCHANGED <<tree, counts, opens, kernel, mutex, wake, qdone>>

dequeue_path(t) ==
    \E k \in 1..Len(lockq) :
       /\ lockq[k] = t
       /\ lockq' = [j \in 1..(Len(lockq) - 1) |-> lockq[IF j < k THEN j ELSE j + 1]]
       /\ qdone' = [qdone EXCEPT ![t] = "no"]

(* The waiting thread finds its element done and leaves the queue.          *)
wait_path(t) ==
    /\ pc[t] = "wait" /\ mutex = NoThread /\ qdone[t] # "no"
    /\ dequeue_path(t)
    /\ GetReturns(t, qdone[t])
    /\ UNCHANGED <<tree, counts, treelock, opens, kernel, held, mutex, wake>>

(* The handler after its paths are released: reply_entry, or nothing left.  *)
AfterFree(t) ==
    IF req[t].op \in EntryOps /\ ino[t] # NoNode THEN "reply" ELSE "idle"

(* The paths one call of free_path, free_path_wrlock or free_path2 frees.   *)
Freed(t) ==
    IF req[t].op \in TwoPathOps THEN got[t]
    ELSE {i \in got[t] : i = 1 \/ 1 \notin got[t]}

free_path(t) ==
    /\ pc[t] = "free" /\ mutex = NoThread /\ got[t] # {}
    /\ LET unlock(tl, i) == IF i \in Freed(t)
                            THEN unlock_path(tl, Dir(t, i), wnode[t][i])
                            ELSE tl
       IN  treelock' = unlock(unlock(treelock, 1), 2)
    /\ got' = [got EXCEPT ![t] = @ \ Freed(t)]
    /\ path' = [path EXCEPT ![t] = [i \in {1, 2} |->
                   IF i \in Freed(t) THEN {} ELSE path[t][i]]]
    /\ wnode' = [wnode EXCEPT ![t] = [i \in {1, 2} |->
                   IF i \in Freed(t) THEN NoNode ELSE wnode[t][i]]]
    /\ IF lockq # <<>>
       THEN /\ mutex' = t /\ wake' = lockq
            /\ pc' = [pc EXCEPT ![t] = "waking"]
            /\ UNCHANGED <<req, ino, slots>>
       ELSE /\ IF got[t] = Freed(t) THEN Goto(t, AfterFree(t))
               ELSE Goto(t, "free")
            /\ UNCHANGED <<mutex, wake>>
    /\ UNCHANGED <<tree, counts, opens, kernel, lockq, qdone>>

(* free_path with a NULL path does nothing.                                 *)
free_null(t) ==
    /\ pc[t] = "free" /\ got[t] = {}
    /\ Goto(t, AfterFree(t))
    /\ UNCHANGED <<tree, counts, treelock, opens, queue, held, kernel>>

(* Mutant: a forget in the queue is never signalled.                        *)
queue_element_wakeup_forget(q) ==
    IF pc[q] = "fwait" \/ qdone[q] # "no"
    THEN UNCHANGED <<qdone, treelock, held>>
    ELSE /\ treelock' = try_get_path2(q)
         /\ qdone' = IF GetOutcome(q) = "again" THEN qdone
                     ELSE [qdone EXCEPT ![q] = GetOutcome(q)]
         /\ IF GetOutcome(q) = "ok" THEN SetPaths(q) ELSE UNCHANGED held

(* One round of the loop in wake_up_queued: it looks at the element of q.   *)
queue_element_wakeup(q) ==
    IF pc[q] = "fwait"
    THEN /\ qdone' = IF treelock[ino[q]] = 0 THEN [qdone EXCEPT ![q] = "ok"]
                     ELSE qdone
         /\ UNCHANGED <<treelock, held>>
    ELSE IF qdone[q] # "no"
    THEN UNCHANGED <<qdone, treelock, held>>
    ELSE /\ treelock' = try_get_path2(q)
         /\ qdone' = IF GetOutcome(q) = "again" THEN qdone
                     ELSE [qdone EXCEPT ![q] = GetOutcome(q)]
         /\ IF GetOutcome(q) = "ok" THEN SetPaths(q) ELSE UNCHANGED held

wake_up_queued(t) ==
    /\ pc[t] = "waking" /\ mutex = t
    /\ queue_element_wakeup(Head(wake))
    /\ wake' = Tail(wake)
    /\ IF Tail(wake) # <<>>
       THEN UNCHANGED <<mutex, pc, req, ino, slots>>
       ELSE /\ mutex' = NoThread
            /\ Goto(t, IF got[t] = {} THEN AfterFree(t) ELSE "free")
    /\ UNCHANGED <<tree, counts, opens, kernel, lockq>>

-----------------------------------------------------------------------------
(* The node table.                                                          *)

Free(n) == n \in Nodes \ ids

(* find_node for the entry nm of d, and do_lookup's e.ino; no free node id  *)
(* stands for a failed allocation.                                          *)
find_node(t, d, nm) ==
    LET n == lookup_node(d, nm)
    IN  \/ /\ n \in Nodes
           /\ refctr' = IF nlookup[n] = 0 THEN [refctr EXCEPT ![n] = @ + 1]
                        ELSE refctr
           /\ nlookup' = [nlookup EXCEPT ![n] = @ + 1]
           /\ ino' = [ino EXCEPT ![t] = n]
           /\ UNCHANGED <<tree, ids>>
        \/ /\ n = NoNode
           /\ \E m \in Nodes :
                 /\ Free(m)
                 /\ ids' = ids \cup {m}
                 /\ parent' = [parent EXCEPT ![m] = d]
                 /\ name' = [name EXCEPT ![m] = nm]
                 /\ refctr' = [refctr EXCEPT ![m] = 1, ![d] = @ + 1]
                 /\ nlookup' = [nlookup EXCEPT ![m] = 1]
                 /\ ino' = [ino EXCEPT ![t] = m]

OutOfMemory(d, nm) == lookup_node(d, nm) = NoNode /\ \A m \in Nodes : ~Free(m)

remove_node(d, nm) ==
    LET n == lookup_node(d, nm)
    IN  IF n = NoNode THEN UNCHANGED <<tree, refctr>>
        ELSE /\ parent' = [parent EXCEPT ![n] = NoNode]
             /\ name' = [name EXCEPT ![n] = NoName]
             /\ refctr' = [refctr EXCEPT ![d] = @ - 1]

(* rename_node on the entries od/on and nd/nn; a target node is unlinked.   *)
(* hash_name finds memory for the name here and in exchange_node: its       *)
(* failure is in FuseTables.                                                *)
rename_node(od, on, nd, nn) ==
    LET node == lookup_node(od, on)
        newnode == lookup_node(nd, nn)
        unlinked == IF newnode = NoNode THEN refctr
                    ELSE [refctr EXCEPT ![nd] = @ - 1]
        unhashed == [unlinked EXCEPT ![od] = @ - 1]
    IN  IF node = NoNode THEN UNCHANGED <<tree, refctr>>
        ELSE /\ parent' = [n \in Nodes |-> IF n = node THEN nd
                              ELSE IF n = newnode THEN NoNode ELSE parent[n]]
             /\ name' = [n \in Nodes |-> IF n = node THEN nn
                              ELSE IF n = newnode THEN NoName ELSE name[n]]
             /\ refctr' = [unhashed EXCEPT ![nd] = @ + 1]

(* Mutant: the nodes are hashed under each other, not in the directories.   *)
exchange_node_nodes(od, on, nd, nn) ==
    LET oldnode == lookup_node(od, on)
        newnode == lookup_node(nd, nn)
    IN  /\ parent' = [n \in Nodes |-> IF n = oldnode THEN newnode
                         ELSE IF n = newnode THEN oldnode ELSE parent[n]]
        /\ UNCHANGED <<name, refctr>>

exchange_node(od, on, nd, nn) ==
    LET oldnode == lookup_node(od, on)
        newnode == lookup_node(nd, nn)
        move(rc, n, from, to) ==
            IF n = NoNode THEN rc
            ELSE LET unhashed == [rc EXCEPT ![from] = @ - 1]
                 IN  [unhashed EXCEPT ![to] = @ + 1]
    IN  /\ parent' = [n \in Nodes |-> IF n = oldnode THEN nd
                         ELSE IF n = newnode THEN od ELSE parent[n]]
        /\ name' = [n \in Nodes |-> IF n = oldnode THEN nn
                         ELSE IF n = newnode THEN on ELSE name[n]]
        /\ refctr' = move(move(refctr, oldnode, od, nd), newnode, nd, od)

-----------------------------------------------------------------------------
(* Forgetting.                                                              *)

ForgetCount(t) == IF req[t].op = "forget" THEN req[t].k ELSE 1
ForgetBlocked(t) ==
    nlookup[ino[t]] = ForgetCount(t) /\ treelock[ino[t]] # 0

(* The caller goes on: create still has its path, the others are finished.  *)
AfterForget(t) ==
    IF req[t].op \in {"create", "interrupted_create"} THEN "free" ELSE "idle"

(* The part of forget_node after its wait loop; a count that reaches 0      *)
(* drops a reference in unref_node, still under f->lock.                    *)
DropLookups(t) ==
    /\ nlookup[ino[t]] >= ForgetCount(t)
    /\ nlookup' = [nlookup EXCEPT ![ino[t]] = @ - ForgetCount(t)]
    /\ IF nlookup[ino[t]] = ForgetCount(t)
       THEN /\ mutex' = t
            /\ Goto(t, "unref")
       ELSE /\ UNCHANGED mutex
            /\ Goto(t, AfterForget(t))

forget_node(t) ==
    /\ pc[t] = "forget" /\ mutex = NoThread
    /\ IF ForgetBlocked(t)
       THEN /\ lockq' = Append(lockq, t)
            /\ pc' = [pc EXCEPT ![t] = "fwait"]
            /\ UNCHANGED <<nlookup, mutex, req, ino, slots>>
       ELSE /\ DropLookups(t)
            /\ UNCHANGED lockq
    /\ UNCHANGED <<tree, ids, refctr, treelock, opens, kernel, held, wake, qdone>>

(* A forget that was signalled looks at the node again.                     *)
forget_wakeup(t) ==
    /\ pc[t] = "fwait" /\ mutex = NoThread /\ qdone[t] # "no"
    /\ IF ForgetBlocked(t)
       THEN /\ qdone' = [qdone EXCEPT ![t] = "no"]
            /\ UNCHANGED <<nlookup, lockq, mutex, pc, req, ino, slots>>
       ELSE /\ dequeue_path(t)
            /\ DropLookups(t)
    /\ UNCHANGED <<tree, ids, refctr, treelock, opens, kernel, held, wake>>

(* One level of unref_node: a node without references is deleted, which     *)
(* drops the reference its entry held on the parent.                        *)
unref_node(t) ==
    LET u == ino[t]
        last == refctr[u] = 1
        up == IF u \in Nodes /\ last THEN parent[u] ELSE NoNode
    IN  /\ pc[t] = "unref" /\ mutex = t
        /\ refctr[u] > 0
        /\ refctr' = [refctr EXCEPT ![u] = @ - 1]
        /\ IF last
           THEN /\ u \in Nodes /\ treelock[u] = 0     \* delete_node
                /\ ids' = ids \ {u}
                /\ parent' = [parent EXCEPT ![u] = NoNode]
                /\ name' = [name EXCEPT ![u] = NoName]
                /\ open_count' = [open_count EXCEPT ![u] = 0]
                /\ is_hidden' = is_hidden \ {u}
           ELSE UNCHANGED <<ids, tree, open_count, is_hidden>>
        /\ IF up # NoNode
           THEN /\ ino' = [ino EXCEPT ![t] = up]
                /\ UNCHANGED <<mutex, pc, req, slots>>
           ELSE /\ mutex' = NoThread
                /\ Goto(t, AfterForget(t))
        /\ UNCHANGED <<nlookup, treelock, fshidden, lockq, wake, qdone, held,
                       kernel>>

-----------------------------------------------------------------------------
(* Handlers, from the moment they hold their paths.                         *)

At(t, l, ops) == pc[t] = l /\ req[t].op \in ops

(* The call of the file system fails: the paths are released.               *)
fs_fails(t) ==
    /\ \/ At(t, "op", EntryOps \cup WriteOps)
       \/ At(t, "ren", WriteOps)
       \/ At(t, "hiding", WriteOps)
    /\ Goto(t, "free")
    /\ UNCHANGED <<tree, counts, treelock, opens, queue, held, kernel>>

(* open and create answer before they release their path.                   *)
open_fails(t) ==
    /\ At(t, "op", {"open", "create"})
    /\ GotoAs(t, "free", "answered")
    /\ UNCHANGED <<tree, counts, treelock, opens, queue, held, kernel>>

(* lookup, mkdir, mknod, symlink and link: lookup_path on the new entry.    *)
EntrySlot(t) == IF req[t].op = "link" THEN 2 ELSE 1
lookup_path(t) ==
    /\ At(t, "op", EntryOps) /\ mutex = NoThread
    /\ IF OutOfMemory(Dir(t, EntrySlot(t)), NameArg(t, EntrySlot(t)))
       THEN UNCHANGED <<tree, counts, ino>>
       ELSE find_node(t, Dir(t, EntrySlot(t)), NameArg(t, EntrySlot(t)))
    /\ pc' = [pc EXCEPT ![t] = "free"]
    /\ UNCHANGED <<req, slots, treelock, opens, queue, held, kernel>>

(* Mutant: the lookup of a dropped request is not taken back.               *)
reply_entry_lost(t) ==
    /\ pc[t] = "reply" /\ Interrupts
    /\ Goto(t, "idle")
    /\ UNCHANGED <<tree, counts, treelock, opens, queue, held, kernel>>

(* reply_entry: the kernel counts the lookup, or has dropped the request.   *)
reply_entry(t) ==
    /\ pc[t] = "reply"
    /\ \/ /\ klookup' = [klookup EXCEPT ![ino[t]] = @ + 1]
          /\ Goto(t, "idle")
       \/ /\ Interrupts
          /\ GotoAs(t, "forget", "interrupted_entry")
          /\ UNCHANGED klookup
    /\ UNCHANGED <<tree, counts, treelock, opens, queue, held, kopen>>

(* create: the file exists, its node is looked up.                          *)
create_lookup(t) ==
    /\ At(t, "op", {"create"}) /\ mutex = NoThread
    /\ IF OutOfMemory(req[t].d1, req[t].n1)
       THEN /\ GotoAs(t, "free", "answered")
            /\ UNCHANGED <<tree, counts>>
       ELSE /\ find_node(t, req[t].d1, req[t].n1)
            /\ pc' = [pc EXCEPT ![t] = "entry"]
            /\ UNCHANGED <<req, slots>>
    /\ UNCHANGED <<treelock, opens, queue, held, kernel>>

(* create: what was created is not a regular file.  The error is answered   *)
(* next; to the kernel of this model the request lasts until free_path.     *)
create_not_regular(t) ==
    /\ pc[t] = "entry"
    /\ Goto(t, "forget")
    /\ UNCHANGED <<tree, counts, treelock, opens, queue, held, kernel>>

OpenNode(t) ==
    IF req[t].op \in {"create", "interrupted_create"} THEN ino[t] ELSE req[t].d1

(* open and create: the handle is counted.                                  *)
count_open(t) ==
    /\ pc[t] = "entry" \/ At(t, "op", {"open"})
    /\ mutex = NoThread
    /\ open_count' = [open_count EXCEPT ![OpenNode(t)] = @ + 1]
    /\ Goto(t, "opened")
    /\ UNCHANGED <<tree, counts, treelock, is_hidden, fshidden, queue, held,
                   kernel>>

(* open and create: fuse_reply_open, fuse_reply_create.                     *)
reply_open(t) ==
    /\ pc[t] = "opened"
    /\ kopen' = [kopen EXCEPT ![OpenNode(t)] = @ + 1]
    /\ klookup' = IF req[t].op = "create"
                  THEN [klookup EXCEPT ![ino[t]] = @ + 1] ELSE klookup
    /\ GotoAs(t, "free", "answered")
    /\ UNCHANGED <<tree, counts, treelock, opens, queue, held>>

reply_open_interrupted(t) ==
    /\ pc[t] = "opened" /\ Interrupts
    /\ GotoAs(t, "rel", IF req[t].op = "create" THEN "interrupted_create"
                        ELSE "interrupted_open")
    /\ UNCHANGED <<tree, counts, treelock, opens, queue, held, kernel>>

(* fuse_do_release: the file system's release, then the handle is dropped.  *)
AfterRelease(t) ==
    IF req[t].op = "interrupted_create" THEN "forget" ELSE "free"

fuse_do_release(t) ==
    /\ pc[t] = "rel" /\ mutex = NoThread
    /\ open_count[OpenNode(t)] > 0
    /\ open_count' = [open_count EXCEPT ![OpenNode(t)] = @ - 1]
    /\ IF OpenNode(t) \in is_hidden /\ open_count[OpenNode(t)] = 1
       THEN /\ is_hidden' = is_hidden \ {OpenNode(t)}
            /\ Goto(t, "unl")
       ELSE /\ UNCHANGED is_hidden
            /\ Goto(t, AfterRelease(t))
    /\ UNCHANGED <<tree, counts, treelock, fshidden, queue, held, kernel>>

(* fuse_do_release, the hidden file: unlinked by the caller's path, or by   *)
(* one of its own when the caller has none.  The path create holds is the   *)
(* one of the name it created.                                              *)
release_unlink(t) ==
    /\ pc[t] = "unl"
    /\ IF req[t].op = "release" /\ got[t] = {} /\ NullpathOk
       THEN /\ GotoAs(t, "get", "unlink_hidden")
            /\ UNCHANGED fshidden
       ELSE /\ fshidden' = IF got[t] = {} \/ req[t].op = "interrupted_create"
                           THEN fshidden ELSE fshidden \ {req[t].d1}
            /\ Goto(t, AfterRelease(t))
    /\ UNCHANGED <<tree, counts, treelock, open_count, is_hidden, queue, held,
                   kernel>>

(* unlink and rename: the entry whose node may be open.                     *)
VictimSlot(t) == IF req[t].op = "unlink" THEN 1 ELSE 2
VictimDir(t) == Dir(t, VictimSlot(t))
VictimName(t) == NameArg(t, VictimSlot(t))

is_open(d, nm) ==
    lookup_node(d, nm) \in Nodes /\ open_count[lookup_node(d, nm)] > 0

check_open(t) ==
    /\ At(t, "op", {"unlink", "rename"}) /\ mutex = NoThread
    /\ ~HardRemove /\ is_open(VictimDir(t), VictimName(t))
    /\ Goto(t, "hide")
    /\ UNCHANGED <<tree, counts, treelock, opens, queue, held, kernel>>

(* hidden_name: a name with neither a node nor a file, or none found.       *)
hidden_name(t) ==
    /\ pc[t] = "hide" /\ mutex = NoThread
    /\ \/ \E h \in HiddenNames :
             /\ lookup_node(VictimDir(t), h) = NoNode
             /\ req' = [req EXCEPT ![t].h = h]
             /\ pc' = [pc EXCEPT ![t] = "hiding"]
             /\ UNCHANGED <<ino, slots>>
       \/ Goto(t, "free")
    /\ UNCHANGED <<tree, counts, treelock, opens, queue, held, kernel>>

(* Mutant: rename_node forgets to mark the node as hidden.                  *)
hide_node_unmarked(t) ==
    /\ pc[t] = "hiding" /\ mutex = NoThread
    /\ fshidden' = fshidden \cup {lookup_node(VictimDir(t), VictimName(t))}
    /\ rename_node(VictimDir(t), VictimName(t), VictimDir(t), req[t].h)
    /\ Goto(t, IF req[t].op = "unlink" THEN "recheck" ELSE "ren")
    /\ UNCHANGED <<ids, nlookup, treelock, open_count, is_hidden, queue, held,
                   kernel>>

(* hide_node: the file is renamed, then its node, unless a node with the    *)
(* hidden name has appeared.                                                *)
hide_node(t) ==
    LET d == VictimDir(t)
        n == lookup_node(d, VictimName(t))
    IN  /\ pc[t] = "hiding" /\ mutex = NoThread
        /\ fshidden' = fshidden \cup (IF n = NoNode THEN {} ELSE {n})
        /\ IF lookup_node(d, req[t].h) # NoNode
           THEN /\ UNCHANGED <<tree, refctr, is_hidden>>
                /\ Goto(t, "free")
           ELSE /\ rename_node(d, VictimName(t), d, req[t].h)
                /\ is_hidden' = IF n = NoNode THEN is_hidden
                                ELSE is_hidden \cup {n}
                /\ Goto(t, IF req[t].op = "unlink" THEN "recheck" ELSE "ren")
        /\ UNCHANGED <<ids, nlookup, treelock, open_count, queue, held, kernel>>

(* Mutant: unlink without the second look.                                  *)
recheck_open_never(t) ==
    /\ pc[t] = "recheck"
    /\ Goto(t, "free")
    /\ UNCHANGED <<tree, counts, treelock, opens, queue, held, kernel>>

(* unlink: "check again under a lock in case it is not used any more".      *)
recheck_open(t) ==
    /\ pc[t] = "recheck" /\ mutex = NoThread
    /\ Goto(t, IF is_open(req[t].d1, name[wnode[t][1]]) THEN "free"
               ELSE "rmhidden")
    /\ UNCHANGED <<tree, counts, treelock, opens, queue, held, kernel>>

remove_hidden(t) ==
    /\ pc[t] = "rmhidden" /\ mutex = NoThread
    /\ fshidden' = fshidden \ {wnode[t][1]}
    /\ remove_node(req[t].d1, name[wnode[t][1]])
    /\ Goto(t, "free")
    /\ UNCHANGED <<ids, nlookup, treelock, open_count, is_hidden, queue, held,
                   kernel>>

(* unlink of a file that is not open, rmdir.                                *)
unlink_entry(t) ==
    /\ \/ At(t, "op", {"rmdir"})
       \/ /\ At(t, "op", {"unlink"})
          /\ HardRemove \/ ~is_open(req[t].d1, req[t].n1)
    /\ mutex = NoThread
    /\ remove_node(req[t].d1, req[t].n1)
    /\ Goto(t, "free")
    /\ UNCHANGED <<ids, nlookup, treelock, opens, queue, held, kernel>>

(* rename, once an open target is hidden.                                   *)
rename_entry(t) ==
    /\ \/ pc[t] = "ren"
       \/ /\ At(t, "op", {"rename"})
          /\ HardRemove \/ ~is_open(req[t].d2, req[t].n2)
    /\ mutex = NoThread
    /\ rename_node(req[t].d1, req[t].n1, req[t].d2, req[t].n2)
    /\ Goto(t, "free")
    /\ UNCHANGED <<ids, nlookup, treelock, opens, queue, held, kernel>>

exchange_entry(t) ==
    /\ At(t, "op", {"exchange"}) /\ mutex = NoThread
    /\ exchange_node(req[t].d1, req[t].n1, req[t].d2, req[t].n2)
    /\ Goto(t, "free")
    /\ UNCHANGED <<ids, nlookup, treelock, opens, queue, held, kernel>>

(* copy_file_range answers before it releases its two paths.                *)
copy_file_range(t) ==
    /\ At(t, "op", {"copy_file_range"})
    /\ GotoAs(t, "free", "answered")
    /\ UNCHANGED <<tree, counts, treelock, opens, queue, held, kernel>>

-----------------------------------------------------------------------------
Init ==
    /\ ids = {n \in Nodes : InitParent[n] # NoNode}
    /\ parent = InitParent /\ name = InitName
    /\ nlookup = [n \in Dirs |-> IF n = Root \/ InitParent[n] # NoNode
                                 THEN 1 ELSE 0]
    /\ refctr = [n \in Dirs |-> nlookup[n] +
                    Cardinality({m \in Nodes : InitParent[m] = n})]
    /\ treelock = [n \in Nodes |-> 0]
    /\ open_count = [n \in Nodes |-> 0] /\ is_hidden = {} /\ fshidden = {}
    /\ lockq = <<>> /\ mutex = NoThread /\ wake = <<>>
    /\ qdone = [t \in Threads |-> "no"]
    /\ pc = [t \in Threads |-> "idle"]
    /\ req = [t \in Threads |-> NoReq]
    /\ slots = [t \in Threads |-> {}]
    /\ got = [t \in Threads |-> {}]
    /\ path = [t \in Threads |-> [i \in {1, 2} |-> {}]]
    /\ wnode = [t \in Threads |-> [i \in {1, 2} |-> NoNode]]
    /\ ino = [t \in Threads |-> NoNode]
    /\ klookup = [n \in Nodes |-> nlookup[n]]
    /\ kopen = [n \in Nodes |-> 0]

Work(t) ==
    \/ get_path_common(t) \/ wait_path(t)
    \/ free_path(t) \/ free_null(t) \/ wake_up_queued(t)
    \/ forget_node(t) \/ forget_wakeup(t) \/ unref_node(t)
    \/ fs_fails(t) \/ open_fails(t)
    \/ lookup_path(t) \/ reply_entry(t)
    \/ create_lookup(t) \/ create_not_regular(t)
    \/ count_open(t) \/ reply_open(t) \/ reply_open_interrupted(t)
    \/ fuse_do_release(t) \/ release_unlink(t)
    \/ check_open(t) \/ hidden_name(t) \/ hide_node(t)
    \/ recheck_open(t) \/ remove_hidden(t)
    \/ unlink_entry(t) \/ rename_entry(t) \/ exchange_entry(t)
    \/ copy_file_range(t)

Next == \E t \in Threads : Receive(t) \/ Work(t)

Spec == Init /\ [][Next]_vars

-----------------------------------------------------------------------------
(* Properties.                                                              *)

Labels == {"idle", "get", "wait", "op", "hide", "hiding", "recheck",
           "rmhidden", "ren", "entry", "opened", "rel", "unl", "forget",
           "fwait", "unref", "reply", "free", "waking"}

(* The variables of struct node, struct fuse and the handlers keep their    *)
(* types; an element of the lock queue that was signalled has an outcome    *)
(* that ends the wait, never -EAGAIN.                                       *)
TypeOK ==
    /\ ids \subseteq Nodes
    /\ parent \in [Nodes -> Dirs \cup {NoNode}]
    /\ name \in [Nodes -> AllNames \cup {NoName}]
    /\ nlookup \in [Dirs -> Int] /\ refctr \in [Dirs -> Int]
    /\ treelock \in [Nodes -> Int]
    /\ open_count \in [Nodes -> Int]
    /\ is_hidden \subseteq Nodes /\ fshidden \subseteq Nodes
    /\ lockq \in Seq(Threads) /\ wake \in Seq(Threads)
    /\ mutex \in Threads \cup {NoThread}
    /\ qdone \in [Threads -> {"no", "ok", "stale"}]
    /\ pc \in [Threads -> Labels]
    /\ req \in [Threads -> RequestType(Ops \cup Answered \cup {"unlink_hidden"})]
    /\ slots \in [Threads -> SUBSET {1, 2}]
    /\ got \in [Threads -> SUBSET {1, 2}]
    /\ path \in [Threads -> [{1, 2} -> SUBSET Nodes]]
    /\ wnode \in [Threads -> [{1, 2} -> Nodes \cup {NoNode}]]
    /\ ino \in [Threads -> Dirs \cup {NoNode}]
    /\ klookup \in [Nodes -> Int] /\ kopen \in [Nodes -> Int]

(* treelock says who holds a node: a count of the paths through it, plus    *)
(* the wait offset while a writer waits for them, or the one writer.  So a  *)
(* node that unlink, rmdir or rename works on is on no other path.          *)
Holders(pth, n) == {s \in Threads \X {1, 2} : n \in pth[s[1]][s[2]]}
Writers(wn, n) == {s \in Threads \X {1, 2} : wn[s[1]][s[2]] = n}
LockState(tl, pth, wn) ==
    \A n \in Nodes :
       LET readers == Cardinality(Holders(pth, n))
           writers == Cardinality(Writers(wn, n))
       IN  \/ writers = 0 /\ tl[n] = readers
           \/ writers = 0 /\ readers > 0 /\ tl[n] = TREELOCK_WAIT_OFFSET + readers
           \/ writers = 1 /\ readers = 0 /\ tl[n] = TREELOCK_WRITE
TreelockCounts == LockState(treelock, path, wnode)

(* The path a handler was given stays the path of its node until the        *)
(* handler frees it: free_path walks the same nodes that get_path locked.   *)
PathStable ==
    \A t \in Threads : \A i \in got[t] :
       path[t][i] = Chain(Dir(t, i)) /\ ~Stale(Dir(t, i))

(* The renames in flight never close a loop: every walk towards the root    *)
(* ends, at the root or at a node that was unlinked.                        *)
NoLoops == \A n \in Nodes : parent[n] # NoNode => n \notin Chain(parent[n])

(* No step renames, unlinks or deletes a node on a path some handler holds. *)
HeldEntriesFixed ==
    [][\A t \in Threads : \A i \in got[t] : \A n \in path[t][i] :
          parent'[n] = parent[n] /\ name'[n] = name[n]]_vars

(* A node's references: its lookups, its children, and the one that is      *)
(* being dropped.  A node exists as long as it has references.              *)
RefctrCounts ==
    \A n \in Dirs :
       /\ n \in Nodes => (Free(n) <=> refctr[n] = 0)
       /\ refctr[n] = (IF nlookup[n] > 0 THEN 1 ELSE 0)
                   + Cardinality({m \in Nodes : parent[m] = n})
                   + Cardinality({t \in Threads : pc[t] = "unref"
                                                  /\ ino[t] = n})

(* The lookups a thread still has to hand to the kernel or to take back.    *)
Pending(t, n) ==
    IF ino[t] # n \/ pc[t] = "unref" THEN 0
    ELSE IF pc[t] \in {"forget", "fwait"} THEN ForgetCount(t)
    ELSE IF \/ req[t].op \in EntryOps
            \/ pc[t] \in {"entry", "opened"}
            \/ req[t].op = "interrupted_create" /\ pc[t] \in {"rel", "unl"}
    THEN 1 ELSE 0

(* The library's lookup count is the kernel's plus what is on its way: the  *)
(* kernel never forgets more than it was given, and no lookup is lost.      *)
LookupsBalance ==
    \A n \in Nodes :
       LET due[S \in SUBSET Threads] ==
               IF S = {} THEN 0
               ELSE LET t == CHOOSE u \in S : TRUE
                    IN  Pending(t, n) + due[S \ {t}]
       IN  nlookup[n] = klookup[n] + due[Threads]

(* The assertions and aborts of the code: get_node finds its node,          *)
(* unlock_path finds its locks, forget_node its lookups, delete_node no     *)
(* lock, fuse_do_release an open handle.                                    *)
AssertionsHold ==
    \A t \in Threads :
       /\ pc[t] \in {"get", "wait", "op", "free"} =>
             \A i \in slots[t] : ~Free(Dir(t, i))
       /\ pc[t] = "free" =>
             \A i \in got[t] :
                /\ wnode[t][i] # NoNode =>
                      treelock[wnode[t][i]] = TREELOCK_WRITE
                /\ \A n \in Chain(Dir(t, i)) :
                      treelock[n] \notin {0, TREELOCK_WAIT_OFFSET,
                                          TREELOCK_WRITE}
       /\ pc[t] \in {"forget", "fwait"} =>
             /\ ~Free(ino[t])
             /\ nlookup[ino[t]] >= ForgetCount(t)
       /\ pc[t] = "unref" =>
             /\ refctr[ino[t]] > 0
             /\ refctr[ino[t]] = 1 => ino[t] \in Nodes /\ treelock[ino[t]] = 0
       /\ pc[t] \in {"entry", "opened", "rel"} => ~Free(OpenNode(t))
       /\ pc[t] = "rel" => open_count[OpenNode(t)] > 0

(* The counts of a node are exact and the code may rely on them: references *)
(* and lookups are those of the tree, the kernel and the handlers, and no   *)
(* assert or abort of the code is met.                                      *)
NodeCounts ==
    RefctrCounts /\ LookupsBalance /\ AssertionsHold

(* "if an open file is deleted, the file is renamed to a hidden file, and   *)
(* only removed when the file is finally released" (include/fuse.h): a      *)
(* hidden file is open, or some handler is about to remove it.              *)
HiddenIsOwned ==
    \A n \in fshidden :
       \/ open_count[n] > 0
       \/ \E t \in Threads :
             \/ pc[t] \in {"recheck", "rmhidden", "ren"}
                /\ wnode[t][VictimSlot(t)] = n
             \/ pc[t] = "unl" /\ OpenNode(t) = n
             \/ req[t].op = "unlink_hidden" /\ req[t].d1 = n

(* A thread asleep in the lock queue is not alone: somebody awake holds a   *)
(* path and will wake the queue when it frees it.                           *)
Asleep(t) == pc[t] \in {"wait", "fwait"} /\ qdone[t] = "no"
SomebodyWakes ==
    (\E t \in Threads : Asleep(t)) =>
       \E u \in Threads : ~Asleep(u) /\ (got[u] # {} \/ pc[u] = "waking")

=============================================================================
