-------------------------- MODULE FuseTreeEntries ---------------------------
(***************************************************************************)
(* Which step of FuseTree changes which entries and arguments, and the     *)
(* exclusion of conflicting requests: the part of the argument that needs  *)
(* no account of the locks.                                                *)
(***************************************************************************)
EXTENDS FuseTreeControl

(* Leaves that need arithmetic or records cite SMT; the others are Zenon's. *)
USE ZenonT(30)

(* The locks.                                                               *)
(* What GetPaths asks of a thread that tries to take its paths.             *)
LEMMA Wanted ==
    ASSUME TypeOK, NEW t \in Threads, Control(t),
           \/ pc[t] = "get"
           \/ pc[t] = "wait" /\ qdone[t] # "ok"
    PROVE  /\ slots[t] \in {{1}, {2}, {1, 2}} /\ got[t] \cap slots[t] = {}
           /\ \A i \in slots[t] : Dir(t, i) \in Dirs
<1>1. /\ slots[t] \in SlotsOf(req[t].op) /\ got[t] \cap slots[t] = {}
      /\ 1 \in slots[t] => req[t].d1 \in Dirs
      /\ 2 \in slots[t] => req[t].d2 \in Dirs
  BY DEF Control, ControlAt
<1>2. slots[t] \in {{1}, {2}, {1, 2}}
  BY <1>1 DEF SlotsOf
<1> QED
  BY <1>1, <1>2 DEF Dir

(* A step changes the entry of n.                                           *)
Changed(n) == parent'[n] # parent[n] \/ name'[n] # name[n]

(* An entry is found by its name.                                           *)
LEMMA LookupFinds ==
    ASSUME NamesUnique, NEW d \in Dirs, NEW nm, NEW n \in Nodes, EntryAt(n, d, nm)
    PROVE  lookup_node(d, nm) = n
<1>1. lookup_node(d, nm) \in Nodes /\ EntryAt(lookup_node(d, nm), d, nm)
  BY LookupNode
<1>2. parent[lookup_node(d, nm)] # NoNode
  BY <1>1, NodesAssumption DEF EntryAt
<1> QED
  BY <1>1, <1>2 DEF NamesUnique, EntryAt

(* What the operations on the name table change; no entry appears twice.    *)
LEMMA FindEffect ==
    ASSUME TypeOK, NamesUnique, NEW t \in Threads, NEW d \in Dirs, NEW nm,
           find_node(t, d, nm)
    PROVE  /\ \A n \in Nodes : Changed(n) => n \notin ids /\ parent'[n] = d
           /\ NamesUnique'
           /\ ids \subseteq ids' /\ \A n \in Nodes : Changed(n) => n \in ids'
<1>1. CASE UNCHANGED <<parent, name, ids>>
  BY <1>1 DEF Changed, NamesUnique, EntryAt
<1>2. CASE ~UNCHANGED <<parent, name, ids>>
  <2>1. lookup_node(d, nm) = NoNode
    BY <1>2, NodesAssumption DEF find_node, tree, Dirs
  <2>2. PICK m \in Nodes \ ids :
           /\ ids' = ids \cup {m}
           /\ parent' = [parent EXCEPT ![m] = d]
           /\ name' = [name EXCEPT ![m] = nm]
    BY <1>2, <2>1, NodesAssumption DEF find_node, Free, tree, Dirs
  <2>3. \A n \in Nodes : ~EntryAt(n, d, nm)
    BY <2>1, LookupNode
  <2>4. \A n \in Nodes : /\ n # m => parent'[n] = parent[n] /\ name'[n] = name[n]
                         /\ parent'[m] = d /\ name'[m] = nm
    BY <2>2 DEF TypeOK
  <2>5. NamesUnique'
    <3> SUFFICES ASSUME NEW j \in Nodes, NEW n \in Nodes, parent'[j] # NoNode,
                        parent'[n] = parent'[j], name'[n] = name'[j]
                 PROVE  j = n
      BY DEF NamesUnique, EntryAt
    <3>1. CASE j # m /\ n # m
      BY <2>4, <3>1 DEF NamesUnique, EntryAt
    <3>2. CASE j = m \/ n = m
      BY <2>3, <2>4, <3>2 DEF EntryAt
    <3> QED
      BY <3>1, <3>2
  <2> QED
    BY <2>2, <2>4, <2>5 DEF Changed
<1> QED
  BY <1>1, <1>2

(* remove_node changes the entry it was called for.                         *)
LEMMA RemoveEffect ==
    ASSUME TypeOK, NamesUnique, NEW d \in Dirs, NEW nm, remove_node(d, nm)
    PROVE  /\ \A n \in Nodes : Changed(n) =>
                 /\ n = lookup_node(d, nm) /\ parent[n] = d /\ parent'[n] = NoNode
           /\ NamesUnique'
<1> DEFINE m == lookup_node(d, nm)
<1>1. CASE m = NoNode
  BY <1>1 DEF remove_node, tree, Changed, NamesUnique, EntryAt
<1>2. CASE m # NoNode
  <2>1. m \in Nodes /\ parent[m] = d
    BY <1>2, LookupNode DEF EntryAt
  <2>2. parent' = [parent EXCEPT ![m] = NoNode] /\ name' = [name EXCEPT ![m] = NoName]
    BY <1>2 DEF remove_node
  <2> HIDE DEF m
  <2>3. \A n \in Nodes : /\ n # m => parent'[n] = parent[n] /\ name'[n] = name[n]
                         /\ parent'[m] = NoNode
    BY <2>1, <2>2 DEF TypeOK
  <2>4. NamesUnique'
    BY <2>1, <2>3 DEF NamesUnique, EntryAt
  <2> QED
    BY <2>1, <2>3, <2>4 DEF Changed, m
<1> QED
  BY <1>1, <1>2

(* rename_node changes the entries it was called for.                       *)
LEMMA RenameEffect ==
    ASSUME TypeOK, NamesUnique, NEW od \in Dirs, NEW on, NEW nd \in Dirs, NEW nn,
           rename_node(od, on, nd, nn)
    PROVE  /\ \A n \in Nodes : Changed(n) =>
                 /\ n = lookup_node(od, on) \/ n = lookup_node(nd, nn)
                 /\ parent[n] # NoNode /\ parent'[n] \in {nd, NoNode}
           /\ \A n \in Nodes : n = lookup_node(od, on) => parent'[n] = nd
           /\ NamesUnique'
<1> DEFINE m == lookup_node(od, on)
           k == lookup_node(nd, nn)
<1>1. CASE m = NoNode
  BY <1>1, NodesAssumption
     DEF rename_node, tree, Changed, NamesUnique, EntryAt, Dirs
<1>2. CASE m # NoNode
  <2>1. m \in Nodes /\ parent[m] = od
    BY <1>2, LookupNode DEF EntryAt
  <2>2. k \in Nodes => parent[k] = nd
    BY LookupNode DEF EntryAt
  <2>3. \A n \in Nodes : parent[n] = nd /\ name[n] = nn => n = k
    BY LookupFinds DEF EntryAt
  <2>4. /\ parent' = [n \in Nodes |-> IF n = m THEN nd
                                      ELSE IF n = k THEN NoNode ELSE parent[n]]
        /\ name' = [n \in Nodes |-> IF n = m THEN nn
                                    ELSE IF n = k THEN NoName ELSE name[n]]
    BY <1>2 DEF rename_node
  <2> HIDE DEF m, k
  <2>5. /\ parent'[m] = nd /\ name'[m] = nn
        /\ \A n \in Nodes : n # m /\ n = k => parent'[n] = NoNode
        /\ \A n \in Nodes : n # m /\ n # k => parent'[n] = parent[n] /\ name'[n] = name[n]
    BY <2>1, <2>4
  <2>6. NamesUnique'
    <3> SUFFICES ASSUME NEW j \in Nodes, NEW n \in Nodes, parent'[j] # NoNode,
                        parent'[n] = parent'[j], name'[n] = name'[j]
                 PROVE  j = n
      BY DEF NamesUnique, EntryAt
    <3>1. CASE j # m /\ n # m
      BY <2>5, <3>1 DEF NamesUnique, EntryAt
    <3>2. CASE j = m \/ n = m
      BY <2>3, <2>5, <3>2
    <3> QED
      BY <3>1, <3>2
  <2>7. od # NoNode /\ nd # NoNode
    BY NodesAssumption DEF Dirs
  <2>8. \A n \in Nodes : n = m => parent'[n] = nd
    BY <2>5
  <2>9. \A n \in Nodes : Changed(n) => /\ n = m \/ n = k
                                       /\ parent[n] # NoNode /\ parent'[n] \in {nd, NoNode}
    BY <2>1, <2>2, <2>5, <2>7 DEF Changed
  <2> QED
    BY <2>6, <2>8, <2>9 DEF m, k
<1> QED
  BY <1>1, <1>2

(* exchange_node changes the entries it was called for.                     *)
LEMMA ExchangeEffect ==
    ASSUME TypeOK, NamesUnique, NEW od \in Dirs, NEW on, NEW nd \in Dirs, NEW nn,
           exchange_node(od, on, nd, nn)
    PROVE  /\ \A n \in Nodes : Changed(n) =>
                 /\ n = lookup_node(od, on) \/ n = lookup_node(nd, nn)
                 /\ parent[n] # NoNode /\ parent'[n] \in {nd, od}
           /\ NamesUnique'
<1> DEFINE m == lookup_node(od, on)
           k == lookup_node(nd, nn)
<1>1. /\ m \in Nodes => parent[m] = od
      /\ k \in Nodes => parent[k] = nd
  BY LookupNode DEF EntryAt
<1>2. /\ \A n \in Nodes : parent[n] = od /\ name[n] = on => n = m
      /\ \A n \in Nodes : parent[n] = nd /\ name[n] = nn => n = k
  BY LookupFinds DEF EntryAt
<1>3. /\ m \in Nodes => parent[m] = od /\ name[m] = on
      /\ k \in Nodes => parent[k] = nd /\ name[k] = nn
  BY LookupNode DEF EntryAt
<1>4. /\ parent' = [n \in Nodes |-> IF n = m THEN nd ELSE IF n = k THEN od ELSE parent[n]]
      /\ name' = [n \in Nodes |-> IF n = m THEN nn ELSE IF n = k THEN on ELSE name[n]]
  BY DEF exchange_node
<1> HIDE DEF m, k
<1>5. /\ \A n \in Nodes : n = m => parent'[n] = nd /\ name'[n] = nn
      /\ \A n \in Nodes : n # m /\ n = k => parent'[n] = od /\ name'[n] = on
      /\ \A n \in Nodes : n # m /\ n # k => parent'[n] = parent[n] /\ name'[n] = name[n]
  BY <1>4
<1>6. od # NoNode /\ nd # NoNode
  BY NodesAssumption DEF Dirs
<1>7. \A n \in Nodes : Changed(n) => /\ n = m \/ n = k
                                     /\ parent[n] # NoNode /\ parent'[n] \in {nd, od}
  BY <1>1, <1>5, <1>6 DEF Changed
<1>8. NamesUnique'
  <2> SUFFICES ASSUME NEW j \in Nodes, NEW n \in Nodes, parent'[j] # NoNode,
                      parent'[n] = parent'[j], name'[n] = name'[j]
               PROVE  j = n
    BY DEF NamesUnique, EntryAt
  <2>1. CASE j \notin {m, k} /\ n \notin {m, k}
    BY <1>5, <2>1 DEF NamesUnique, EntryAt
  <2>2. CASE j = m \/ n = m
    BY SMTT(30), <1>2, <1>3, <1>5, <2>2
  <2>3. CASE j \in {m, k} \/ n \in {m, k}
    BY <1>2, <1>3, <1>5, <2>2, <2>3
  <2> QED
    BY <2>1, <2>3
<1> QED
  BY <1>7, <1>8 DEF m, k

(* A handler of WriteOps has its paths, and an entry it names is its own.   *)
LEMMA Owned ==
    ASSUME PathLocks, NEW t \in Threads, req[t].op \in WriteOps,
           pc[t] \in {"op", "hide", "hiding", "ren"}
    PROVE  /\ got[t] = IF req[t].op \in TwoPathOps THEN {1, 2} ELSE {1}
           /\ \A i \in got[t] :
                 /\ Dir(t, i) \in Dirs /\ Dir(t, i) \in Excl(req[t])
                 /\ \A n \in Nodes : n = lookup_node(Dir(t, i), NameArg(t, i)) => n \in Mine(t)
<1>1. Control(t) /\ EntriesLocked(t)
  BY DEF PathLocks, ControlInv, EntriesInv
<1>2. got[t] = slots[t] /\ slots[t] \in SlotsOf(req[t].op)
      /\ (1 \in got[t] => req[t].d1 \in Dirs) /\ (2 \in got[t] => req[t].d2 \in Dirs)
  BY <1>1 DEF Control, ControlAt
<1>3. got[t] = IF req[t].op \in TwoPathOps THEN {1, 2} ELSE {1}
  BY <1>2 DEF SlotsOf, WriteOps
<1>4. \A i \in got[t] : Dir(t, i) \in Dirs /\ Dir(t, i) \in Excl(req[t])
  <2>1. req[t].d1 \in Excl(req[t])
    BY DEF WriteOps, Excl
  <2>2. req[t].op \in TwoPathOps => req[t].d2 \in Excl(req[t])
    BY DEF WriteOps, TwoPathOps, Excl
  <2> QED
    BY <1>2, <1>3, <2>1, <2>2 DEF Dir
<1>5. ASSUME NEW i \in got[t], NEW n \in Nodes, n = lookup_node(Dir(t, i), NameArg(t, i))
      PROVE  n \in Mine(t)
  <2>1. EntryAt(n, Dir(t, i), NameArg(t, i))
    BY <1>5, LookupNode
  <2> QED
    BY <1>1, <1>5, <2>1 DEF EntriesLocked
<1> QED
  BY <1>3, <1>4, <1>5

(* unlink, rmdir and rename change only entries they have write-locked.     *)
LEMMA EntrySteps ==
    ASSUME PathLocks, NEW t \in Threads,
           \/ hide_node(t) \/ remove_hidden(t)
           \/ unlink_entry(t) \/ rename_entry(t) \/ exchange_entry(t)
    PROVE  /\ req[t].op \in WriteOps
           /\ \A n \in Nodes : Changed(n) =>
                 /\ n \in Mine(t) /\ parent[n] # NoNode
                 /\ parent'[n] \in Excl(req[t]) \cup {NoNode}
           /\ NamesUnique'
<1>1. TypeOK /\ NamesUnique /\ Control(t) /\ EntriesLocked(t) /\ NoNode \notin Dirs
  BY NodesAssumption DEF PathLocks, ControlInv, EntriesInv
<1>2. CASE unlink_entry(t)
  <2>1. /\ pc[t] = "op" /\ req[t].op \in WriteOps
        /\ remove_node(req[t].d1, req[t].n1)
    BY <1>2 DEF unlink_entry, At, WriteOps
  <2>2. 1 \in got[t] /\ req[t].d1 = Dir(t, 1) /\ req[t].n1 = NameArg(t, 1)
    BY <2>1, Owned DEF Dir, NameArg
  <2>3. req[t].d1 \in Dirs /\ \A n \in Nodes : n = lookup_node(req[t].d1, req[t].n1) => n \in Mine(t)
    BY <2>1, <2>2, Owned
  <2> QED
    BY <1>1, <2>1, <2>3, RemoveEffect
<1>3. CASE remove_hidden(t)
  <2>1. pc[t] = "rmhidden" /\ remove_node(req[t].d1, name[wnode[t][1]])
    BY <1>3 DEF remove_hidden
  <2>2. req[t].op = "unlink" /\ slots[t] = {1} /\ req[t].d1 \in Dirs
    BY <1>1, <2>1 DEF Control, ControlAt, OpsAt, SlotsOf, TwoPathOps
  <2>3. wnode[t][1] \in Nodes /\ EntryAt(wnode[t][1], req[t].d1, name[wnode[t][1]])
    BY <1>1, <2>1 DEF EntriesLocked, EntryAt
  <2>4. lookup_node(req[t].d1, name[wnode[t][1]]) = wnode[t][1]
    BY <1>1, <2>2, <2>3, LookupFinds
  <2>5. wnode[t][1] \in Mine(t) /\ req[t].op \in WriteOps
    BY <2>2 DEF Mine, WriteOps
  <2> QED
    BY SMTT(30), <1>1, <2>1, <2>2, <2>4, <2>5, RemoveEffect
<1>4. CASE rename_entry(t) \/ exchange_entry(t)
  <2>1. req[t].op \in {"rename", "exchange"} /\ pc[t] \in {"op", "ren"}
    BY <1>1, <1>4 DEF rename_entry, exchange_entry, At, Control, ControlAt, OpsAt
  <2>2. req[t].op \in WriteOps /\ got[t] = {1, 2}
    BY <2>1, Owned DEF WriteOps, TwoPathOps
  <2>3. /\ req[t].d1 = Dir(t, 1) /\ req[t].n1 = NameArg(t, 1)
        /\ req[t].d2 = Dir(t, 2) /\ req[t].n2 = NameArg(t, 2)
    BY SMTT(30) DEF Dir, NameArg
  <2>4. /\ req[t].d1 \in Dirs /\ req[t].d2 \in Dirs
        /\ req[t].d1 \in Excl(req[t]) /\ req[t].d2 \in Excl(req[t])
        /\ \A n \in Nodes : n = lookup_node(req[t].d1, req[t].n1) => n \in Mine(t)
        /\ \A n \in Nodes : n = lookup_node(req[t].d2, req[t].n2) => n \in Mine(t)
    BY SMTT(30), <2>1, <2>2, <2>3, Owned
  <2>5. CASE rename_entry(t)
    BY SMTT(30), <1>1, <2>2, <2>4, <2>5, RenameEffect DEF rename_entry
  <2>6. CASE exchange_entry(t)
    BY SMTT(30), <1>1, <2>2, <2>4, <2>6, ExchangeEffect DEF exchange_entry
  <2> QED
    BY <1>4, <2>5, <2>6
<1>5. CASE hide_node(t)
  <2> DEFINE d == VictimDir(t)
             nm == VictimName(t)
  <2>1. pc[t] = "hiding" /\ req[t].op \in {"unlink", "rename"}
    BY <1>1, <1>5 DEF hide_node, Control, ControlAt, OpsAt
  <2>2. req[t].op \in WriteOps /\ VictimSlot(t) \in got[t]
    BY <2>1, Owned DEF WriteOps, TwoPathOps, VictimSlot
  <2>3. /\ d \in Dirs /\ d \in Excl(req[t])
        /\ \A n \in Nodes : n = lookup_node(d, nm) => n \in Mine(t)
    BY <2>1, <2>2, Owned DEF VictimDir, VictimName
  <2>4. \/ UNCHANGED <<parent, name>>
        \/ rename_node(d, nm, d, req[t].h) /\ lookup_node(d, req[t].h) = NoNode
    BY <1>5 DEF hide_node, tree
  <2> HIDE DEF d, nm
  <2>5. CASE UNCHANGED <<parent, name>>
    BY <1>1, <2>2, <2>5 DEF Changed, NamesUnique, EntryAt
  <2>6. CASE rename_node(d, nm, d, req[t].h) /\ lookup_node(d, req[t].h) = NoNode
    <3>1. NoNode \notin Nodes
      BY NodesAssumption DEF Dirs
    <3> QED
      BY SMTT(30), <1>1, <2>2, <2>3, <2>6, <3>1, RenameEffect
  <2> QED
    BY <2>4, <2>5, <2>6
<1> QED
  BY <1>2, <1>3, <1>4, <1>5

(* Any step: who may change which entry, and where it can reappear.         *)
LEMMA ChangedEntries ==
    ASSUME PathLocks, NEW t \in Threads, Receive(t) \/ Work(t)
    PROVE  /\ NamesUnique'
           /\ \A n \in Nodes : Changed(n) =>
                 /\ treelock[n] = 0 \/ (n \in Mine(t) /\ req[t].op \in WriteOps)
                 /\ \/ parent'[n] = NoNode
                    \/ parent'[n] \in Excl(req[t]) \cup Shared(req[t])
           /\ \A n \in Nodes \ ids' : parent'[n] = NoNode /\ treelock[n] = 0
<1>1. TypeOK /\ NamesUnique /\ IdsInv /\ Control(t) /\ QueueInv
  BY DEF PathLocks, ControlInv
<1>2. CASE UNCHANGED <<parent, name, ids>>
  BY <1>1, <1>2 DEF NamesUnique, EntryAt, IdsInv, Changed
<1>3. CASE lookup_path(t) \/ create_lookup(t)
  <2> DEFINE i == EntrySlot(t)
             d == Dir(t, i)
             nm == NameArg(t, i)
  <2>1. pc[t] = "op" /\ req[t].op \in EntryOps \cup {"create"}
    BY <1>3 DEF lookup_path, create_lookup, At
  <2>2. UNCHANGED <<parent, name, ids>> \/ find_node(t, d, nm)
    BY <1>3 DEF lookup_path, create_lookup, tree, counts, EntrySlot, Dir, NameArg, At
  <2>3. slots[t] = IF req[t].op = "link" THEN {1, 2} ELSE {1}
    BY <1>1, <2>1 DEF Control, ControlAt, SlotsOf, TwoPathOps, EntryOps
  <2>4. d \in Dirs
    BY <1>1, <2>1, <2>3 DEF Control, ControlAt, EntrySlot, Dir
  <2>5. d \in Excl(req[t]) \cup Shared(req[t])
    BY SMTT(30), <2>1 DEF Excl, Shared, EntrySlot, Dir, EntryOps
  <2> HIDE DEF d, nm
  <2>6. CASE find_node(t, d, nm)
    <3>1. /\ \A n \in Nodes : Changed(n) => n \notin ids /\ parent'[n] = d
          /\ NamesUnique'
          /\ ids \subseteq ids' /\ \A n \in Nodes : Changed(n) => n \in ids'
      BY <1>1, <2>4, <2>6, FindEffect
    <3>2. \A n \in Nodes \ ids' : parent'[n] = NoNode /\ treelock[n] = 0
      BY <1>1, <3>1 DEF IdsInv, Changed
    <3> QED
      BY <1>1, <2>5, <3>1, <3>2 DEF IdsInv
  <2> QED
    BY <1>2, <2>2, <2>6
<1>4. CASE unref_node(t)
  <2> DEFINE v == ino[t]
  <2>1. CASE refctr[v] = 1
    <3>1. /\ v \in Nodes /\ treelock[v] = 0 /\ ids' = ids \ {v}
          /\ parent' = [parent EXCEPT ![v] = NoNode]
          /\ name' = [name EXCEPT ![v] = NoName]
      BY <1>4, <2>1 DEF unref_node
    <3> HIDE DEF v
    <3>2. \A n \in Nodes : /\ n # v => parent'[n] = parent[n] /\ name'[n] = name[n]
                           /\ parent'[v] = NoNode
      BY <1>1, <3>1 DEF TypeOK
    <3>3. NamesUnique'
      BY <1>1, <3>2 DEF NamesUnique, EntryAt
    <3> QED
      BY <1>1, <3>1, <3>2, <3>3 DEF Changed, IdsInv
  <2>2. CASE refctr[v] # 1
    BY <1>2, <1>4, <2>2 DEF unref_node, tree
  <2> QED
    BY <2>1, <2>2
<1>5. CASE \/ hide_node(t) \/ remove_hidden(t)
           \/ unlink_entry(t) \/ rename_entry(t) \/ exchange_entry(t)
  <2>1. /\ req[t].op \in WriteOps
        /\ \A n \in Nodes : Changed(n) =>
              /\ n \in Mine(t) /\ parent[n] # NoNode
              /\ parent'[n] \in Excl(req[t]) \cup {NoNode}
        /\ NamesUnique'
    BY <1>5, EntrySteps
  <2>2. ids' = ids
    BY <1>5 DEF hide_node, remove_hidden, unlink_entry, rename_entry, exchange_entry
  <2>3. \A n \in Nodes \ ids' : parent'[n] = NoNode /\ treelock[n] = 0
    BY <1>1, <2>1, <2>2 DEF IdsInv, Changed
  <2> QED
    BY <2>1, <2>3
<1>6. CASE Receive(t) \/ QuietStep(t) \/ HandleStep(t)
  <2>1. UNCHANGED <<parent, name, ids>>
    BY <1>6, QuietStepIsQuiet DEF Receive, Quiet, HandleStep, reply_entry, count_open,
           reply_open, fuse_do_release, release_unlink, tree, counts
  <2> QED
    BY <1>2, <2>1
<1>7. CASE \/ get_path_common(t) \/ wait_path(t) \/ free_path(t) \/ wake_up_queued(t)
           \/ forget_node(t) \/ forget_wakeup(t)
  <2>1. UNCHANGED <<parent, name, ids>>
    BY <1>7 DEF get_path_common, wait_path, free_path, wake_up_queued, forget_node,
           forget_wakeup, tree, counts
  <2> QED
    BY <1>2, <2>1
<1> QED
  BY <1>3, <1>4, <1>5, <1>6, <1>7, StepCases

-----------------------------------------------------------------------------
(* A handler keeps the arguments of its request as long as it has a path.   *)
SameArgs(u) ==
    /\ req'[u].d1 = req[u].d1 /\ req'[u].n1 = req[u].n1
    /\ req'[u].d2 = req[u].d2 /\ req'[u].n2 = req[u].n2

(* A handler that goes on keeps its arguments.                              *)
LEMMA GotoArgs ==
    ASSUME TypeOK, NEW t \in Threads, NEW l, NEW op, Goto(t, l) \/ GotoAs(t, l, op)
    PROVE  SameArgs(t) \/ pc'[t] = "idle"
<1>1. CASE Goto(t, l)
  BY <1>1, GotoOwn DEF SameArgs
<1>2. CASE GotoAs(t, l, op)
  <2>1. req[t] \in RequestType(AllOps) /\ req' = [req EXCEPT ![t].op = op]
    BY <1>2 DEF TypeOK, AllOps, GotoAs
  <2> QED
    BY <2>1 DEF SameArgs, TypeOK, RequestType
<1> QED
  BY <1>1, <1>2

(* As long as a thread holds a path, the arguments it got it for stay.      *)
LEMMA ArgsKept ==
    ASSUME TypeOK, ControlInv, ControlInv', NEW t \in Threads, Receive(t) \/ Work(t),
           NEW u \in Threads
    PROVE  SameArgs(u) \/ got'[u] = {}
<1>1. pc'[u] = "idle" => got'[u] = {}
  BY DEF ControlInv, Control, ControlAt
<1>2. CASE u # t
  BY <1>2, ControlFrame DEF SameControl, SameArgs
<1>3. CASE u = t
  <2>1. CASE Receive(t)
    BY <1>3, <2>1 DEF Receive, held, ControlInv, Control, ControlAt
  <2>2. CASE \E l, op : Goto(t, l) \/ GotoAs(t, l, op)
    BY <1>1, <1>3, <2>2, GotoArgs
  <2>3. CASE req' = req
    BY <1>3, <2>3 DEF SameArgs
  <2>4. CASE QuietStep(t)
    <3>1. CASE hidden_name(t) /\ ~Goto(t, "free")
      <4>1. PICK h : req' = [req EXCEPT ![t].h = h]
        BY <3>1 DEF hidden_name
      <4> QED
        BY SMTT(30), <1>3, <4>1 DEF SameArgs, TypeOK, RequestType
    <3>2. CASE ~(hidden_name(t) /\ ~Goto(t, "free"))
      <4>1. \E l, op : Goto(t, l) \/ GotoAs(t, l, op)
        BY <2>4, <3>2 DEF QuietStep, free_null, fs_fails, open_fails, create_not_regular,
           reply_open_interrupted, check_open, recheck_open, copy_file_range
      <4> QED
        BY <2>2, <4>1
    <3> QED
      BY <3>1, <3>2
  <2>5. CASE HandleStep(t)
    <3>1. \E l, op : Goto(t, l) \/ GotoAs(t, l, op)
      BY <2>5 DEF HandleStep, reply_entry, count_open, reply_open, fuse_do_release,
             release_unlink
    <3> QED
      BY <2>2, <3>1
  <2>6. CASE get_path_common(t) \/ wait_path(t)
    BY <2>2, <2>3, <2>6 DEF get_path_common, wait_path, GetReturns
  <2>7. CASE free_path(t)
    BY <2>2, <2>3, <2>7 DEF free_path
  <2>8. CASE wake_up_queued(t)
    BY <2>2, <2>3, <2>8 DEF wake_up_queued
  <2>9. CASE forget_node(t) \/ forget_wakeup(t) \/ unref_node(t)
    BY <2>2, <2>3, <2>9 DEF forget_node, forget_wakeup, unref_node, DropLookups
  <2>10. CASE lookup_path(t) \/ create_lookup(t)
    BY <2>2, <2>3, <2>10 DEF lookup_path, create_lookup
  <2>11. CASE \/ hide_node(t) \/ remove_hidden(t)
              \/ unlink_entry(t) \/ rename_entry(t) \/ exchange_entry(t)
    BY <2>2, <2>11 DEF hide_node, remove_hidden, unlink_entry, rename_entry, exchange_entry
  <2> QED
    BY <2>1, <2>4, <2>5, <2>6, <2>7, <2>8, <2>9, <2>10, <2>11, StepCases
<1> QED
  BY <1>2, <1>3

(* The kernel's exclusion survives: a request keeps its rights or loses     *)
(* them.                                                                    *)
SameRights(r, s) == r.op = s.op /\ r.d1 = s.d1 /\ r.d2 = s.d2

(* A request for which the kernel holds no directory lock.                  *)
NoRights(r) == r.op \in Answered \cup {"unlink_hidden"}

(* Conflict depends on the kind of the request and on its directories.      *)
LEMMA ConflictArgs ==
    ASSUME NEW r, NEW r2, NEW s, SameRights(r, r2), ~Conflict(r2, s)
    PROVE  ~Conflict(r, s)
<1>1. Excl(r) = Excl(r2) /\ Shared(r) = Shared(r2) /\ (CrossDir(r) <=> CrossDir(r2))
  BY DEF SameRights, Excl, Shared, CrossDir
<1> QED
  BY <1>1 DEF Conflict

(* Conflict is symmetric.                                                   *)
LEMMA ConflictSym ==
    ASSUME NEW r, NEW s, ~Conflict(r, s)
    PROVE  ~Conflict(s, r)
<1> DEFINE er == Excl(r)
           es == Excl(s)
           sr == Shared(r)
           ss == Shared(s)
<1>1. er \cap (es \cup ss) = {} /\ sr \cap es = {} /\ ~(CrossDir(r) /\ CrossDir(s))
  BY DEF Conflict
<1> HIDE DEF er, es, sr, ss
<1>2. es \cap (er \cup sr) = {} /\ ss \cap er = {}
  BY <1>1
<1> QED
  BY <1>1, <1>2 DEF Conflict, er, es, sr, ss

(* A request without directory locks conflicts with none.                   *)
LEMMA NoRightsNoConflict ==
    ASSUME NEW r, NEW s, NoRights(r)
    PROVE  ~Conflict(r, s)
<1>1. Excl(r) = {} /\ Shared(r) = {} /\ ~CrossDir(r)
  BY DEF NoRights, Answered, Excl, Shared, CrossDir
<1> QED
  BY <1>1 DEF Conflict

(* A handler that goes on never gains a directory lock.                     *)
LEMMA GotoRights ==
    ASSUME TypeOK, NEW t \in Threads, NEW l,
           NEW op \in Answered \cup {"unlink_hidden"},
           Goto(t, l) \/ GotoAs(t, l, op)
    PROVE  SameRights(req'[t], req[t]) \/ NoRights(req'[t])
<1>1. CASE Goto(t, l)
  BY SMTT(30), <1>1, GotoOwn DEF SameRights, NoRights, NoReq, Answered
<1>2. CASE GotoAs(t, l, op)
  BY SMTT(30), <1>2, GotoAsOwn DEF NoRights
<1> QED
  BY <1>1, <1>2

(* No step of a handler gains a directory lock.                             *)
LEMMA RightsKept ==
    ASSUME TypeOK, NEW t \in Threads, Work(t)
    PROVE  SameRights(req'[t], req[t]) \/ NoRights(req'[t])
<1> DEFINE Over == Answered \cup {"unlink_hidden"}
<1>0. /\ "answered" \in Over /\ "interrupted_open" \in Over /\ "interrupted_create" \in Over
      /\ "interrupted_entry" \in Over /\ "unlink_hidden" \in Over
  BY DEF Answered
<1> HIDE DEF Over
<1>1. CASE \E l : \E op \in Over : Goto(t, l) \/ GotoAs(t, l, op)
  BY <1>1, GotoRights DEF Over
<1>2. CASE req' = req
  BY <1>2 DEF SameRights
<1>3. CASE QuietStep(t)
  <2>1. CASE hidden_name(t) /\ ~Goto(t, "free")
    <3>1. PICK h : req' = [req EXCEPT ![t].h = h]
      BY <2>1 DEF hidden_name
    <3> QED
      BY SMTT(30), <3>1 DEF SameRights, TypeOK, RequestType
  <2>2. CASE ~(hidden_name(t) /\ ~Goto(t, "free"))
    <3>1. \E l : \E op \in Over : Goto(t, l) \/ GotoAs(t, l, op)
      BY <1>0, <1>3, <2>2 DEF QuietStep, free_null, fs_fails, open_fails, create_not_regular,
         reply_open_interrupted, check_open, recheck_open, copy_file_range
    <3> QED
      BY <1>1, <3>1
  <2> QED
    BY <2>1, <2>2
<1>4. CASE HandleStep(t)
  <2>1. \E l : \E op \in Over : Goto(t, l) \/ GotoAs(t, l, op)
    BY <1>0, <1>4 DEF HandleStep, reply_entry, count_open, reply_open, fuse_do_release,
           release_unlink
  <2> QED
    BY <1>1, <2>1
<1>5. CASE get_path_common(t) \/ wait_path(t)
  BY <1>0, <1>1, <1>2, <1>5 DEF get_path_common, wait_path, GetReturns
<1>6. CASE free_path(t) \/ wake_up_queued(t)
  BY <1>0, <1>1, <1>2, <1>6 DEF free_path, wake_up_queued
<1>7. CASE forget_node(t) \/ forget_wakeup(t) \/ unref_node(t)
  BY <1>0, <1>1, <1>2, <1>7 DEF forget_node, forget_wakeup, unref_node, DropLookups
<1>8. CASE lookup_path(t) \/ create_lookup(t)
  BY <1>0, <1>1, <1>2, <1>8 DEF lookup_path, create_lookup
<1>9. CASE \/ hide_node(t) \/ remove_hidden(t)
           \/ unlink_entry(t) \/ rename_entry(t) \/ exchange_entry(t)
  BY <1>0, <1>1, <1>9 DEF hide_node, remove_hidden, unlink_entry, rename_entry, exchange_entry
<1> QED
  BY <1>3, <1>4, <1>5, <1>6, <1>7, <1>8, <1>9 DEF Work, QuietStep, HandleStep

(* Every step keeps conflicting requests apart.                             *)
LEMMA ExclusiveStep ==
    ASSUME TypeOK, Exclusive, NEW t \in Threads, Receive(t) \/ Work(t)
    PROVE  Exclusive'
<1>1. ASSUME NEW u \in Threads, u # t, req'[u].op \notin Answered,
             req'[t].op \notin Answered
      PROVE  ~Conflict(req'[t], req'[u])
  <2>1. req'[u] = req[u]
    BY <1>1, ControlFrame DEF SameControl
  <2>2. CASE Receive(t)
    <3>1. PICK r \in Requests :
             /\ KernelMay(r)
             /\ req' = [req EXCEPT ![t] = IF r.op = "forget"
                           THEN [r EXCEPT !.k = klookup[r.d1]]
                           ELSE [r EXCEPT !.v = Pinned(r)]]
      BY <2>2 DEF Receive
    <3>2. r \in RequestType(Ops)
      BY RequestsAssumption
    <3>3. SameRights(req'[t], r)
      BY <3>1, <3>2 DEF TypeOK, RequestType, SameRights
    <3>4. ~Conflict(r, req[u])
      BY <1>1, <2>1, <3>1 DEF KernelMay, Live
    <3> QED
      BY <2>1, <3>3, <3>4, ConflictArgs
  <2>3. CASE Work(t) /\ NoRights(req'[t])
    BY <2>3, NoRightsNoConflict
  <2>4. CASE Work(t) /\ SameRights(req'[t], req[t])
    <3>1. Live(t) /\ Live(u)
      BY <1>1, <2>1, <2>4 DEF Live, SameRights
    <3>2. ~Conflict(req[t], req[u])
      BY <1>1, <3>1 DEF Exclusive
    <3> QED
      BY <2>1, <2>4, <3>2, ConflictArgs
  <2> QED
    BY <2>2, <2>3, <2>4, RightsKept
<1> SUFFICES ASSUME NEW u \in Threads, NEW v \in Threads, u # v,
                    req'[u].op \notin Answered, req'[v].op \notin Answered
             PROVE  ~Conflict(req'[u], req'[v])
  BY DEF Exclusive, Live
<1>2. CASE u = t
  BY <1>1, <1>2
<1>3. CASE v = t
  BY <1>1, <1>3, ConflictSym
<1>4. CASE u # t /\ v # t
  BY <1>4, ControlFrame DEF SameControl, Exclusive, Live
<1> QED
  BY <1>2, <1>3, <1>4

(* The labels at which EntriesLocked asks for something.                    *)
Holding == {"wait", "op", "hide", "hiding", "ren", "recheck", "rmhidden"}

(* Elsewhere EntriesLocked asks nothing.                                    *)
LEMMA NotHolding ==
    ASSUME NEW u, pc'[u] \notin Holding \/ (pc'[u] = "op" /\ req'[u].op \notin WriteOps)
    PROVE  EntriesLocked(u)'
BY DEF EntriesLocked, Holding

(* The handler's own steps between its locks and its change of the tree.    *)
LEMMA HideEntries ==
    ASSUME PathLocks, NEW t \in Threads, hide_node(t)
    PROVE  EntriesLocked(t)'
<1>1. TypeOK /\ NamesUnique /\ SlotsEmpty /\ Control(t) /\ EntriesLocked(t)
  BY DEF PathLocks, ControlInv, EntriesInv
<1>2. pc[t] = "hiding" /\ UNCHANGED held /\ Work(t)
  BY DEF hide_node, Work
<1>3. req[t].op \in {"unlink", "rename"}
  BY <1>1, <1>2 DEF Control, ControlAt, OpsAt
<1>4. VictimSlot(t) \in got[t] /\ VictimDir(t) \in Dirs
  <2>1. VictimSlot(t) \in got[t]
    BY <1>2, <1>3, Owned DEF VictimSlot, TwoPathOps, WriteOps
  <2> QED
    BY <1>2, <1>3, <2>1, Owned DEF VictimDir, WriteOps
<1>5. PICK n \in Nodes : EntryAt(n, VictimDir(t), VictimName(t))
  BY <1>1, <1>2 DEF EntriesLocked
<1>6. n = lookup_node(VictimDir(t), VictimName(t)) /\ n \in Mine(t)
  BY <1>1, <1>2, <1>3, <1>4, <1>5, LookupFinds, Owned DEF VictimDir, VictimName, WriteOps
<1>7. CASE lookup_node(VictimDir(t), req[t].h) # NoNode
  <2>1. Goto(t, "free")
    BY <1>7 DEF hide_node
  <2> QED
    BY SMTT(30), <1>1, <2>1, GotoOwn, NotHolding DEF Holding
<1>8. CASE lookup_node(VictimDir(t), req[t].h) = NoNode
  <2>1. rename_node(VictimDir(t), VictimName(t), VictimDir(t), req[t].h)
    BY <1>8 DEF hide_node
  <2>2. parent'[n] = VictimDir(t)
    BY SMTT(30), <1>1, <1>4, <1>6, <2>1, RenameEffect
  <2>3. CASE req[t].op = "unlink"
    <3>1. Goto(t, "recheck")
      BY <1>8, <2>3 DEF hide_node
    <3>2. pc'[t] = "recheck" /\ req'[t] = req[t]
      BY SMTT(30), <1>1, <3>1, GotoOwn
    <3>3. got[t] = {1}
      BY <1>2, <2>3, Owned DEF TwoPathOps, WriteOps
    <3>4. wnode[t][2] = NoNode
      BY SMTT(30), <1>1, <3>3 DEF SlotsEmpty
    <3>5. n = wnode[t][1]
      BY <1>6, <3>4, NodesAssumption DEF Mine, Dirs
    <3>6. parent'[n] = req[t].d1
      BY <2>2, <2>3 DEF VictimDir, VictimSlot, Dir
    <3> QED
      BY <1>2, <3>2, <3>5, <3>6 DEF EntriesLocked, held
  <2>4. CASE req[t].op = "rename"
    <3>1. Goto(t, "ren")
      BY <1>8, <2>4 DEF hide_node
    <3>2. pc'[t] = "ren" /\ req'[t] = req[t]
      BY SMTT(30), <1>1, <3>1, GotoOwn
    <3>3. ASSUME NEW i \in got[t], NEW k \in Nodes,
                 parent'[k] = Dir(t, i), name'[k] = NameArg(t, i)
          PROVE  k \in Mine(t)
      <4>1. CASE Changed(k)
        BY <4>1, EntrySteps
      <4>2. CASE ~Changed(k)
        BY <1>1, <1>2, <2>4, <3>3, <4>2 DEF Changed, EntriesLocked, EntryAt, WriteOps
      <4> QED
        BY <4>1, <4>2
    <3>4. \A i : Dir(t, i)' = Dir(t, i) /\ NameArg(t, i)' = NameArg(t, i)
      BY <3>2 DEF Dir, NameArg
    <3>5. got'[t] = got[t] /\ Mine(t)' = Mine(t)
      BY <1>2 DEF held, Mine
    <3> QED
      BY <3>2, <3>3, <3>4, <3>5 DEF EntriesLocked, EntryAt
  <2> QED
    BY <1>3, <2>3, <2>4
<1> QED
  BY <1>7, <1>8

(* check_open finds the entry it is going to hide; nothing changes until    *)
(* hide_node.                                                               *)
LEMMA OpenEntries ==
    ASSUME PathLocks, NEW t \in Threads, check_open(t) \/ hidden_name(t) \/ recheck_open(t)
    PROVE  EntriesLocked(t)'
<1>1. TypeOK /\ Control(t) /\ EntriesLocked(t)
  BY DEF PathLocks, ControlInv, EntriesInv
<1>2. UNCHANGED <<parent, name, got, wnode>>
  BY DEF check_open, hidden_name, recheck_open, tree, held
<1>3. CASE Goto(t, "free")
  BY SMTT(30), <1>1, <1>3, GotoOwn, NotHolding DEF Holding
<1>4. CASE check_open(t)
  <2>1. /\ pc[t] = "op" /\ req[t].op \in {"unlink", "rename"}
        /\ is_open(VictimDir(t), VictimName(t)) /\ Goto(t, "hide")
    BY <1>4 DEF check_open, At
  <2>2. pc'[t] = "hide" /\ req'[t] = req[t]
    BY SMTT(30), <1>1, <2>1, GotoOwn
  <2>3. \E n \in Nodes : EntryAt(n, VictimDir(t), VictimName(t))
    <3>1. lookup_node(VictimDir(t), VictimName(t)) \in Nodes
      BY <2>1 DEF is_open
    <3> QED
      BY <3>1, LookupNode
  <2> QED
    BY <1>1, <1>2, <2>1, <2>2, <2>3
       DEF EntriesLocked, EntryAt, Mine, Dir, NameArg, VictimDir, VictimName, VictimSlot, WriteOps
<1>5. CASE hidden_name(t) /\ ~Goto(t, "free")
  <2>1. PICK h : req' = [req EXCEPT ![t].h = h] /\ pc' = [pc EXCEPT ![t] = "hiding"]
    BY <1>5 DEF hidden_name
  <2>2. pc[t] = "hide" /\ pc'[t] = "hiding"
    BY <1>1, <1>5, <2>1 DEF hidden_name, TypeOK
  <2>3. req'[t].op = req[t].op /\ SameArgs(t)
    BY SMTT(30), <1>1, <2>1 DEF TypeOK, RequestType, SameArgs
  <2> QED
    BY <1>1, <1>2, <2>2, <2>3
       DEF EntriesLocked, EntryAt, Mine, Dir, NameArg, VictimDir, VictimName, VictimSlot, SameArgs
<1>6. CASE recheck_open(t) /\ ~Goto(t, "free")
  <2>1. pc[t] = "recheck" /\ Goto(t, "rmhidden")
    BY <1>6 DEF recheck_open
  <2>2. pc'[t] = "rmhidden" /\ req'[t] = req[t]
    BY SMTT(30), <1>1, <2>1, GotoOwn
  <2> QED
    BY <1>1, <1>2, <2>1, <2>2 DEF EntriesLocked
<1> QED
  BY <1>3, <1>4, <1>5, <1>6

(* The other steps of a handler are before its locks or after its change.   *)
LEMMA OtherSteps ==
    ASSUME TypeOK, NEW t \in Threads, Receive(t) \/ Work(t),
           ~get_path_common(t), ~wait_path(t), ~hide_node(t),
           ~check_open(t), ~hidden_name(t), ~recheck_open(t)
    PROVE  pc'[t] \notin Holding \/ (pc'[t] = "op" /\ req'[t].op \notin WriteOps)
<1>0. /\ AfterFree(t) \notin Holding /\ AfterForget(t) \notin Holding
      /\ AfterRelease(t) \notin Holding
      /\ {"idle", "free", "forget", "rel", "waking", "fwait", "unref", "entry",
          "opened", "unl", "get"} \cap Holding = {}
  BY DEF AfterFree, AfterForget, AfterRelease, Holding
<1>1. CASE \E l, op : (Goto(t, l) \/ GotoAs(t, l, op)) /\ l \notin Holding
  BY <1>1, GotoOwn, GotoAsOwn
<1>2. CASE \E l : pc' = [pc EXCEPT ![t] = l] /\ l \notin Holding
  BY <1>2 DEF TypeOK
<1>3. CASE pc' = pc /\ pc[t] \in {"waking", "unref", "fwait"}
  BY <1>3 DEF Holding
<1>4. CASE Receive(t)
  <2>1. PICK r \in Requests :
             /\ req' = [req EXCEPT ![t] = IF r.op = "forget"
                           THEN [r EXCEPT !.k = klookup[r.d1]]
                           ELSE [r EXCEPT !.v = Pinned(r)]]
             /\ pc' = [pc EXCEPT ![t] =
                CASE r.op = "forget" -> "forget"
                  [] NullpathOk /\ r.op = "release" -> "rel"
                  [] NullpathOk /\ r.op = "read" -> "free"
                  [] NullpathOk /\ r.op = "copy_file_range" -> "op"
                  [] OTHER -> "get"]
    BY <1>4 DEF Receive
  <2>2. r \in RequestType(Ops)
    BY RequestsAssumption
  <2>3. req'[t].op = r.op
    BY <2>1, <2>2 DEF TypeOK, RequestType
  <2>4. pc'[t] \in {"forget", "rel", "free", "get"} \/ (pc'[t] = "op" /\ r.op = "copy_file_range")
    BY <2>1 DEF TypeOK
  <2> QED
    BY <2>3, <2>4 DEF Holding, WriteOps
<1>5. CASE QuietStep(t)
  <2>1. \E l, op : (Goto(t, l) \/ GotoAs(t, l, op)) /\ l \notin Holding
    BY <1>0, <1>5 DEF QuietStep, free_null, fs_fails, open_fails, create_not_regular,
       reply_open_interrupted, copy_file_range
  <2> QED
    BY <1>1, <2>1
<1>6. CASE HandleStep(t)
  <2>1. \E l, op : (Goto(t, l) \/ GotoAs(t, l, op)) /\ l \notin Holding
    BY <1>0, <1>6 DEF HandleStep, reply_entry, count_open, reply_open, fuse_do_release,
       release_unlink
  <2> QED
    BY <1>1, <2>1
<1>7. CASE free_path(t)
  <2>1. \/ \E l, op : (Goto(t, l) \/ GotoAs(t, l, op)) /\ l \notin Holding
        \/ \E l : pc' = [pc EXCEPT ![t] = l] /\ l \notin Holding
    <3>1. CASE lockq # <<>>
      BY <1>0, <1>7, <3>1 DEF free_path
    <3>2. CASE lockq = <<>>
      BY <1>0, <1>7, <3>2 DEF free_path
    <3> QED
      BY <3>1, <3>2
  <2> QED
    BY <1>1, <1>2, <2>1
<1>8. CASE wake_up_queued(t)
  <2>1. \/ \E l, op : (Goto(t, l) \/ GotoAs(t, l, op)) /\ l \notin Holding
        \/ pc' = pc /\ pc[t] \in {"waking", "unref", "fwait"}
    <3>1. CASE Tail(wake) # <<>>
      BY <1>8, <3>1 DEF wake_up_queued
    <3>2. CASE Tail(wake) = <<>>
      <4>1. Goto(t, IF got[t] = {} THEN AfterFree(t) ELSE "free")
        BY <1>8, <3>2 DEF wake_up_queued
      <4>2. Goto(t, AfterFree(t)) \/ Goto(t, "free")
        BY <4>1
      <4> QED
        BY <1>0, <4>2
    <3> QED
      BY <3>1, <3>2
  <2> QED
    BY <1>1, <1>3, <2>1
<1>9. CASE forget_node(t) \/ forget_wakeup(t) \/ unref_node(t)
  <2>1. \/ \E l, op : (Goto(t, l) \/ GotoAs(t, l, op)) /\ l \notin Holding
        \/ \E l : pc' = [pc EXCEPT ![t] = l] /\ l \notin Holding
        \/ pc' = pc /\ pc[t] \in {"waking", "unref", "fwait"}
    <3>1. CASE forget_node(t)
      BY <1>0, <3>1 DEF forget_node, DropLookups
    <3>2. CASE forget_wakeup(t)
      BY <1>0, <3>2 DEF forget_wakeup, DropLookups
    <3>3. CASE unref_node(t)
      BY <1>0, <3>3 DEF unref_node
    <3> QED
      BY <1>9, <3>1, <3>2, <3>3
  <2> QED
    BY <1>1, <1>2, <1>3, <2>1
<1>10. CASE lookup_path(t) \/ create_lookup(t)
  <2>1. \/ \E l, op : (Goto(t, l) \/ GotoAs(t, l, op)) /\ l \notin Holding
        \/ \E l : pc' = [pc EXCEPT ![t] = l] /\ l \notin Holding
    BY SMTT(30), <1>10 DEF lookup_path, create_lookup, Holding
  <2> QED
    BY <1>1, <1>2, <2>1
<1>11. CASE remove_hidden(t) \/ unlink_entry(t) \/ rename_entry(t) \/ exchange_entry(t)
  <2>1. \E l, op : (Goto(t, l) \/ GotoAs(t, l, op)) /\ l \notin Holding
    BY SMTT(30), <1>11 DEF remove_hidden, unlink_entry, rename_entry, exchange_entry, Holding
  <2> QED
    BY <1>1, <2>1
<1> QED
  BY <1>4, <1>5, <1>6, <1>7, <1>8, <1>9, <1>10, <1>11 DEF Work, QuietStep, HandleStep

(* Stuttering keeps it.                                                     *)
LEMMA StutterPathLocks ==
    ASSUME PathLocks, UNCHANGED vars
    PROVE  PathLocks'
<1>1. /\ UNCHANGED <<parent, name, ids, nlookup, refctr, treelock, open_count, is_hidden>>
      /\ UNCHANGED <<fshidden, lockq, mutex, wake, qdone, pc, req, slots, got, path, wnode>>
      /\ UNCHANGED <<ino, klookup, kopen>>
  BY DEF vars, tree, counts, opens, kernel, held, queue
<1>2. TypeOK'
  BY <1>1 DEF PathLocks, TypeOK
<1>3. TreelockCounts'
  BY <1>1 DEF PathLocks, TreelockCounts
<1>4. PathStable' /\ SlotsEmpty'
  BY SMTT(30), <1>1 DEF PathLocks, PathStable, SlotsEmpty, Chain, Stale, Dir
<1>5. NamesUnique' /\ IdsInv'
  BY <1>1 DEF PathLocks, NamesUnique, IdsInv, EntryAt
<1>6. QueueInv'
  BY <1>1 DEF PathLocks, QueueInv, Waiting
<1>7. ControlInv'
  BY <1>1 DEF PathLocks, ControlInv, Control
<1>8. Exclusive'
  BY <1>1 DEF PathLocks, Exclusive, Live
<1>9. EntriesInv'
  BY ZenonT(30), <1>1 DEF PathLocks, EntriesInv, EntriesLocked, EntryAt, Mine, Dir, NameArg,
              VictimDir, VictimName, VictimSlot
<1> QED
  BY <1>2, <1>3, <1>4, <1>5, <1>6, <1>7, <1>8, <1>9 DEF PathLocks
=============================================================================
