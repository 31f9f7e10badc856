----------------------------- MODULE FuseTreeInv -----------------------------
(***************************************************************************)
(* The inductive invariant behind the path locks of FuseTree.  PathStable  *)
(* and TreelockCounts are not inductive: that a handler changes only       *)
(* entries it has write-locked depends on the two looking up the same      *)
(* node, the lock in get_path and the change after the file system's call, *)
(* which depends on what the kernel keeps apart.                           *)
(***************************************************************************)
EXTENDS FuseTree

(* The nodes t has write-locked.                                            *)
Mine(t) == {wnode[t][1], wnode[t][2]}

(* n is the node of the entry nm of d.                                      *)
EntryAt(n, d, nm) == parent[n] = d /\ name[n] = nm

(* The name table holds at most one node for an entry.                      *)
NamesUnique ==
    \A m, n \in Nodes :
       parent[m] # NoNode /\ EntryAt(n, parent[m], name[m]) => m = n

(* A node that does not exist has no entry and no lock.                     *)
IdsInv == \A n \in Nodes \ ids : parent[n] = NoNode /\ treelock[n] = 0

(* The path variables of a slot that holds nothing are empty.               *)
SlotsEmpty ==
    \A t \in Threads : \A i \in {1, 2} \ got[t] :
       path[t][i] = {} /\ wnode[t][i] = NoNode

(* The queue holds waiting threads, each once; a thread inside one of the   *)
(* loops under f->lock owns the mutex.                                      *)
Waiting(t) == pc[t] \in {"wait", "fwait"}
QueueInv ==
    /\ \A t \in Threads : pc[t] \in {"waking", "unref"} => mutex = t
    /\ \A t \in Threads : pc[t] = "waking" => wake # <<>>
    /\ \A k \in 1..Len(lockq) : Waiting(lockq[k])
    /\ \A j, k \in 1..Len(lockq) : lockq[j] = lockq[k] => j = k
    /\ wake # <<>> => mutex \in Threads /\ pc[mutex] = "waking"
    /\ \A k \in 1..Len(wake) : Waiting(wake[k])

(* Where a request can be, and which paths it holds there.                  *)
OpsAt(l) ==
    CASE l \in {"get", "wait"} -> (Ops \ {"forget"}) \cup {"unlink_hidden"}
      [] l = "op" -> EntryOps \cup WriteOps \cup {"open", "create", "copy_file_range"}
      [] l \in {"hide", "hiding"} -> {"unlink", "rename"}
      [] l \in {"recheck", "rmhidden"} -> {"unlink"}
      [] l = "ren" -> {"rename"}
      [] l = "entry" -> {"create"}
      [] l = "opened" -> {"open", "create"}
      [] l = "reply" -> EntryOps
      [] l \in {"rel", "unl"} -> {"release", "interrupted_open",
                                  "interrupted_create", "unlink_hidden"}
      [] l \in {"forget", "fwait", "unref"} ->
            {"forget", "interrupted_entry", "create", "interrupted_create"}
      [] OTHER -> Ops \cup Answered \cup {"unlink_hidden"}

(* The sets of path variables a request of kind op works on.                *)
SlotsOf(op) ==
    CASE op \in TwoPathOps -> {{1, 2}}
      [] op \in {"copy_file_range", "answered"} -> {{1}, {2}}
      [] op = "interrupted_entry" -> {{1}, {1, 2}}
      [] OTHER -> {{1}}

(* A request r at label l, with path variables s, holding the paths g, its  *)
(* queue element in state q.                                                *)
ControlAt(r, l, s, g, q) ==
    /\ r.op \in OpsAt(l)
    /\ l # "idle" =>
          /\ s \in SlotsOf(r.op)
          /\ 1 \in s \cup g => r.d1 \in Dirs
          /\ 2 \in s \cup g \/ r.op = "copy_file_range" => r.d2 \in Dirs
    /\ l \in {"idle", "reply"} => g = {}
    /\ l \notin {"wait", "fwait"} => q = "no"
    /\ r.op \in {"forget", "interrupted_entry"} => g = {}
    /\ l \in {"get", "wait"} =>
          /\ r.op # "copy_file_range" \/ s = {1} => g \subseteq s
          /\ l = "wait" /\ q = "ok" => s \subseteq g
          /\ l = "get" \/ q # "ok" => g \cap s = {}
    /\ l \in {"op", "hide", "hiding", "recheck", "rmhidden", "ren"}
       /\ r.op \in WriteOps => g = s
Control(t) == ControlAt(req[t], pc[t], slots[t], got[t], qdone[t])
ControlInv == \A t \in Threads : Control(t)

(* The kernel keeps conflicting requests apart.                             *)
Exclusive ==
    \A t, u \in Threads :
       t # u /\ Live(t) /\ Live(u) => ~Conflict(req[t], req[u])

(* From the moment a request has its paths until it changes the tree, the   *)
(* entries it names are absent or write-locked by it, the entry to hide     *)
(* exists, and a hidden file stays in its directory.                        *)
EntriesLocked(t) ==
    /\ req[t].op \in WriteOps /\ pc[t] \in {"wait", "op", "hide", "hiding", "ren"} =>
          \A i \in got[t] : \A n \in Nodes :
             EntryAt(n, Dir(t, i), NameArg(t, i)) => n \in Mine(t)
    /\ pc[t] \in {"hide", "hiding"} =>
          \E n \in Nodes : EntryAt(n, VictimDir(t), VictimName(t))
    /\ pc[t] \in {"recheck", "rmhidden"} =>
          wnode[t][1] \in Nodes /\ parent[wnode[t][1]] = req[t].d1
EntriesInv == \A t \in Threads : EntriesLocked(t)

(* The inductive invariant: the locks count the paths held, held paths      *)
(* stay, entries are unique, and between its get_path and its free_path a   *)
(* handler of unlink, rmdir or rename owns the entries it is going to       *)
(* change.                                                                  *)
PathLocks ==
    /\ TypeOK /\ TreelockCounts /\ PathStable
    /\ NamesUnique /\ IdsInv /\ SlotsEmpty /\ QueueInv /\ ControlInv
    /\ Exclusive /\ EntriesInv
=============================================================================
