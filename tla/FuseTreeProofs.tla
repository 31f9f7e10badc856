--------------------------- MODULE FuseTreeProofs ---------------------------
(***************************************************************************)
(* PathLocks is an inductive invariant of FuseTree, for every set of       *)
(* nodes, names, threads and requests; so TreelockCounts, PathStable and   *)
(* HeldEntriesFixed hold of every behaviour.                               *)
(***************************************************************************)
EXTENDS FuseTreeEntries

(* Leaves that need arithmetic or records cite SMT; the others are Zenon's. *)
USE ZenonT(30)

(* One attempt to take the paths of q, with the step that records it.       *)
LEMMA AttemptLocks ==
    ASSUME TypeOK, TreelockCounts, IdsInv, SlotsEmpty, NEW q \in Threads, Control(q),
           \/ pc[q] = "get"
           \/ pc[q] = "wait" /\ qdone[q] # "ok",
           treelock' = try_get_path2(q),
           GetOutcome(q) = "ok" => SetPaths(q),
           GetOutcome(q) # "ok" => UNCHANGED held
    PROVE  /\ TreelockCounts' /\ SlotsEmpty'
           /\ \A n \in Nodes \ ids : treelock'[n] = 0
<1>1. /\ slots[q] \in {{1}, {2}, {1, 2}} /\ got[q] \cap slots[q] = {}
      /\ \A i \in slots[q] : Dir(q, i) \in Dirs
  BY Wanted
<1>2. /\ GetOutcome(q) = "ok" => LockState(try_get_path2(q), TakenPath(q), TakenWnode(q))
      /\ GetOutcome(q) # "ok" => LockState(try_get_path2(q), path, wnode)
      /\ \A n \in Nodes \ ids : try_get_path2(q)[n] = 0
  BY <1>1, GetPaths
<1>3. CASE GetOutcome(q) = "ok"
  <2>1. /\ path' = TakenPath(q) /\ wnode' = TakenWnode(q)
        /\ got' = [got EXCEPT ![q] = got[q] \cup slots[q]]
    BY <1>3 DEF SetPaths, TakenPath, TakenWnode
  <2>2. TreelockCounts'
    BY <1>2, <1>3, <2>1 DEF TreelockCounts
  <2>3. SlotsEmpty'
    <3> SUFFICES ASSUME NEW u \in Threads, NEW i \in {1, 2} \ got'[u]
                 PROVE  path'[u][i] = {} /\ wnode'[u][i] = NoNode
      BY DEF SlotsEmpty
    <3>1. i \notin got[u] /\ path[u][i] = {} /\ wnode[u][i] = NoNode
      BY <2>1 DEF SlotsEmpty, TypeOK
    <3>2. u = q => i \notin slots[q]
      BY <2>1 DEF TypeOK
    <3>3. path'[u][i] = path[u][i] /\ wnode'[u][i] = wnode[u][i]
      BY <2>1, <3>2 DEF TakenPath, TakenWnode, TypeOK
    <3> QED
      BY <3>1, <3>3
  <2> QED
    BY <1>2, <2>2, <2>3
<1>4. CASE GetOutcome(q) # "ok"
  BY SMTT(30), <1>2, <1>4 DEF TreelockCounts, SlotsEmpty, held
<1> QED
  BY <1>3, <1>4

(* Every step keeps the account of the locks.                               *)
LEMMA LocksStep ==
    ASSUME PathLocks, NEW t \in Threads, Receive(t) \/ Work(t)
    PROVE  /\ TreelockCounts' /\ SlotsEmpty'
           /\ \A n \in Nodes \ ids : treelock'[n] = 0
<1>1. TypeOK /\ TreelockCounts /\ IdsInv /\ SlotsEmpty /\ PathStable /\ QueueInv
      /\ ControlInv
  BY DEF PathLocks
<1>2. CASE UNCHANGED <<treelock, held>>
  BY <1>1, <1>2 DEF TreelockCounts, SlotsEmpty, held, IdsInv
<1>3. CASE get_path_common(t)
  <2>1. /\ pc[t] = "get" /\ treelock' = try_get_path2(t)
        /\ GetOutcome(t) = "ok" => SetPaths(t)
        /\ GetOutcome(t) # "ok" => UNCHANGED held
    BY <1>3 DEF get_path_common
  <2>2. Control(t)
    BY <1>1 DEF ControlInv
  <2> QED
    BY <1>1, <2>1, <2>2, AttemptLocks
<1>4. CASE wake_up_queued(t)
  <2>1. PICK q \in Threads : q = Head(wake) /\ Waiting(q)
    BY <1>1, <1>4, WakeHead
  <2>2. Control(q) /\ queue_element_wakeup(q)
    BY <1>1, <1>4, <2>1 DEF ControlInv, wake_up_queued
  <2>3. CASE UNCHANGED <<treelock, held>>
    BY <1>2, <2>3
  <2>4. CASE ~UNCHANGED <<treelock, held>>
    <3>1. /\ pc[q] = "wait" /\ qdone[q] = "no" /\ treelock' = try_get_path2(q)
          /\ GetOutcome(q) = "ok" => SetPaths(q)
          /\ GetOutcome(q) # "ok" => UNCHANGED held
      BY <2>1, <2>2, <2>4 DEF queue_element_wakeup, Waiting
    <3> QED
      BY <1>1, <2>2, <3>1, AttemptLocks
  <2> QED
    BY <2>3, <2>4
<1>5. CASE free_path(t)
  <2>1. TreelockCounts' /\ \A n \in Nodes \ ids : treelock'[n] = 0
    BY <1>1, <1>5, FreePaths
  <2>2. SlotsEmpty'
    <3> SUFFICES ASSUME NEW u \in Threads, NEW i \in {1, 2} \ got'[u]
                 PROVE  path'[u][i] = {} /\ wnode'[u][i] = NoNode
      BY DEF SlotsEmpty
    <3>1. got' = [got EXCEPT ![t] = got[t] \ Freed(t)]
      BY <1>5 DEF free_path
    <3>2. CASE u = t /\ i \in Freed(t)
      BY <1>1, <1>5, <3>2 DEF free_path, TypeOK
    <3>3. CASE ~(u = t /\ i \in Freed(t))
      <4>1. i \notin got[u]
        BY <1>1, <3>1, <3>3 DEF TypeOK
      <4>2. path'[u][i] = path[u][i] /\ wnode'[u][i] = wnode[u][i]
        BY <1>1, <1>5, <3>3 DEF free_path, TypeOK
      <4> QED
        BY <1>1, <4>1, <4>2 DEF SlotsEmpty
    <3> QED
      BY <3>2, <3>3
  <2> QED
    BY <2>1, <2>2
<1>6. CASE PlainStep(t)
  BY <1>1, <1>2, <1>6, PlainMoves
<1>7. CASE wait_path(t) \/ forget_node(t) \/ forget_wakeup(t) \/ unref_node(t)
  BY <1>2, <1>7 DEF wait_path, forget_node, forget_wakeup, unref_node
<1> QED
  BY <1>3, <1>4, <1>5, <1>6, <1>7, StepCases DEF PlainStep

-----------------------------------------------------------------------------
(* Who may change an entry.                                                 *)

(* A node without a lock is on no path and no thread's to change; a         *)
(* write-locked one is on no path and only its owner's.                     *)
LEMMA OffPath ==
    ASSUME TypeOK, TreelockCounts, NEW n \in Nodes
    PROVE  /\ treelock[n] = 0 =>
                 \A u \in Threads : \A i \in {1, 2} : n \notin path[u][i] /\ wnode[u][i] # n
           /\ \A t \in Threads : n \in Mine(t) =>
                 /\ \A u \in Threads : \A i \in {1, 2} : n \notin path[u][i]
                 /\ \A u \in Threads : n \in Mine(u) => u = t
<1> DEFINE R == Holders(path, n)
           W == Writers(wnode, n)
<1>1. LockAt(treelock[n], Readers(path, n), WriterCount(wnode, n))
  BY LockStateAt DEF TreelockCounts
<1>2. /\ Readers(path, n) \in Nat /\ WriterCount(wnode, n) \in Nat
      /\ TREELOCK_WAIT_OFFSET + Readers(path, n) < TREELOCK_WRITE
  BY ReadersType
<1>3. R \in SUBSET (Threads \X {1, 2}) /\ W \in SUBSET (Threads \X {1, 2})
  BY DEF Holders, Writers
<1>4. IsFiniteSet(R) /\ IsFiniteSet(W)
  BY <1>3, SlotsFinite, FS_Subset
<1>5. /\ Readers(path, n) = 0 => R = {}
      /\ WriterCount(wnode, n) = 0 => W = {}
      /\ WriterCount(wnode, n) = 1 => \E s : W = {s}
  BY <1>4, FS_EmptySet, FS_Singleton DEF Readers, WriterCount
<1>6. \A u \in Threads : \A i \in {1, 2} :
         /\ n \in path[u][i] => <<u, i>> \in R
         /\ wnode[u][i] = n => <<u, i>> \in W
  BY DEF Holders, Writers
<1>7. ASSUME treelock[n] = 0
      PROVE  R = {} /\ W = {}
  <2>1. Readers(path, n) = 0 /\ WriterCount(wnode, n) = 0
    BY SMTT(30), <1>1, <1>2, <1>7, Offset DEF LockAt
  <2> QED
    BY <1>5, <2>1
<1>8. ASSUME NEW t \in Threads, n \in Mine(t)
      PROVE  /\ R = {}
             /\ \A u \in Threads : n \in Mine(u) => u = t
  <2>1. PICK i \in {1, 2} : <<t, i>> \in W
    BY <1>6, <1>8 DEF Mine
  <2>2. WriterCount(wnode, n) # 0
    BY <1>5, <2>1
  <2>3. Readers(path, n) = 0 /\ WriterCount(wnode, n) = 1
    BY <1>1, <2>2 DEF LockAt
  <2>4. R = {} /\ \E s : W = {s}
    BY <1>5, <2>3
  <2>5. ASSUME NEW u \in Threads, n \in Mine(u)
        PROVE  u = t
    <3>1. PICK j \in {1, 2} : <<u, j>> \in W
      BY <1>6, <2>5 DEF Mine
    <3>2. <<u, j>> = <<t, i>>
      BY SMTT(30), <2>1, <2>4, <3>1
    <3> QED
      BY <3>2
  <2> QED
    BY <2>4, <2>5
<1> QED
  BY <1>6, <1>7, <1>8

(* A path that is held after a step was held before, or was just taken.     *)
LEMMA HeldBefore ==
    ASSUME PathLocks, NEW t \in Threads, Receive(t) \/ Work(t),
           NEW u \in Threads, NEW i \in got'[u]
    PROVE  \/ i \in got[u] /\ path'[u][i] = path[u][i] /\ wnode'[u][i] = wnode[u][i]
           \/ /\ UNCHANGED <<parent, name>> /\ i \in slots[u] /\ i \notin got[u]
              /\ pc[u] \in {"get", "wait"} /\ slots[u] \subseteq got'[u]
              /\ got'[u] = got[u] \cup slots[u]
              /\ path'[u][i] = Chain(Dir(u, i)) /\ ~Stale(Dir(u, i))
              /\ wnode'[u][i] = Victim(u, i)
<1>1. TypeOK /\ TreelockCounts /\ IdsInv /\ SlotsEmpty /\ QueueInv /\ ControlInv
  BY DEF PathLocks
<1>2. CASE got'[u] = got[u] /\ path'[u] = path[u] /\ wnode'[u] = wnode[u]
  BY <1>2
<1>3. ASSUME SetPaths(u), Control(u), UNCHANGED <<parent, name>>,
             GetOutcome(u) = "ok",
             pc[u] = "get" \/ (pc[u] = "wait" /\ qdone[u] # "ok")
      PROVE  \/ i \in got[u] /\ path'[u][i] = path[u][i] /\ wnode'[u][i] = wnode[u][i]
             \/ /\ UNCHANGED <<parent, name>> /\ i \in slots[u] /\ i \notin got[u]
                /\ pc[u] \in {"get", "wait"} /\ slots[u] \subseteq got'[u]
                /\ got'[u] = got[u] \cup slots[u]
                /\ path'[u][i] = Chain(Dir(u, i)) /\ ~Stale(Dir(u, i))
                /\ wnode'[u][i] = Victim(u, i)
  <2>1. /\ slots[u] \in {{1}, {2}, {1, 2}} /\ got[u] \cap slots[u] = {}
        /\ \A j \in slots[u] : Dir(u, j) \in Dirs
    BY <1>1, <1>3, Wanted
  <2>2. \A j \in slots[u] : ~Stale(Dir(u, j))
    BY <1>1, <1>3, <2>1, GetPaths
  <2>3. got'[u] = got[u] \cup slots[u] /\ got[u] \subseteq {1, 2} /\ i \in {1, 2}
    BY <1>1, <1>3 DEF SetPaths, TypeOK
  <2>4. CASE i \in slots[u]
    <3>1. path'[u][i] = Chain(Dir(u, i)) /\ wnode'[u][i] = Victim(u, i)
      BY <1>1, <1>3, <2>3, <2>4 DEF SetPaths, TypeOK
    <3> QED
      BY <1>3, <2>1, <2>2, <2>3, <2>4, <3>1
  <2>5. CASE i \notin slots[u]
    <3>1. path'[u][i] = path[u][i] /\ wnode'[u][i] = wnode[u][i]
      BY <1>1, <1>3, <2>3, <2>5 DEF SetPaths, TypeOK
    <3> QED
      BY <2>3, <2>5, <3>1
  <2> QED
    BY <2>4, <2>5
<1>4. CASE get_path_common(t)
  <2>1. CASE u # t
    BY <1>1, <1>2, <1>4, <2>1, HeldFrame DEF SameHeld, get_path_common, wake_up_queued
  <2>2. CASE u = t
    <3>1. UNCHANGED held \/ (SetPaths(t) /\ GetOutcome(t) = "ok")
      BY <1>4 DEF get_path_common
    <3>2. Control(t) /\ pc[t] = "get" /\ UNCHANGED <<parent, name>>
      BY <1>1, <1>4 DEF ControlInv, get_path_common, tree
    <3> QED
      BY <1>2, <1>3, <2>2, <3>1, <3>2 DEF held
  <2> QED
    BY <2>1, <2>2
<1>5. CASE wake_up_queued(t)
  <2>1. CASE u # Head(wake)
    BY <1>1, <1>2, <1>5, <2>1, HeldFrame DEF SameHeld
  <2>2. CASE u = Head(wake)
    <3>1. queue_element_wakeup(u) /\ UNCHANGED <<parent, name>> /\ Control(u)
      BY <1>1, <1>5, <2>2 DEF wake_up_queued, tree, ControlInv
    <3>2. Waiting(u)
      BY <1>1, <1>5, <2>2, WakeHead
    <3>3. \/ UNCHANGED held
          \/ SetPaths(u) /\ GetOutcome(u) = "ok" /\ pc[u] = "wait" /\ qdone[u] = "no"
      BY <3>1, <3>2 DEF queue_element_wakeup, Waiting
    <3> QED
      BY <1>2, <1>3, <3>1, <3>3 DEF held
  <2> QED
    BY <2>1, <2>2
<1>6. CASE free_path(t)
  <2>1. got' = [got EXCEPT ![t] = got[t] \ Freed(t)]
    BY <1>6 DEF free_path
  <2>2. i \in got[u] /\ (u = t => i \notin Freed(t)) /\ i \in {1, 2}
    BY <1>1, <2>1 DEF TypeOK
  <2>3. path'[u][i] = path[u][i] /\ wnode'[u][i] = wnode[u][i]
    BY <1>1, <1>6, <2>2 DEF free_path, TypeOK
  <2> QED
    BY <2>2, <2>3
<1>7. CASE PlainStep(t)
  BY <1>1, <1>2, <1>7, PlainMoves DEF held
<1>8. CASE wait_path(t) \/ forget_node(t) \/ forget_wakeup(t) \/ unref_node(t)
  BY <1>2, <1>8 DEF wait_path, forget_node, forget_wakeup, unref_node, held
<1> QED
  BY <1>4, <1>5, <1>6, <1>7, <1>8, StepCases DEF PlainStep

(* A node on a held path keeps its entry.                                   *)
LEMMA HeldUnchanged ==
    ASSUME PathLocks, NEW t \in Threads, Receive(t) \/ Work(t),
           NEW u \in Threads, NEW i \in {1, 2}, NEW n \in path[u][i]
    PROVE  parent'[n] = parent[n] /\ name'[n] = name[n]
<1>0. TypeOK /\ TreelockCounts
  BY DEF PathLocks
<1>1. TypeOK /\ TreelockCounts /\ n \in Nodes
  <2>1. path[u][i] \in SUBSET Nodes
    BY SMTT(30), <1>0 DEF TypeOK
  <2> QED
    BY <1>0, <2>1
<1>2. Changed(n) => treelock[n] = 0 \/ n \in Mine(t)
  BY <1>1, ChangedEntries
<1>3. ~(treelock[n] = 0 \/ n \in Mine(t))
  BY <1>1, OffPath
<1> QED
  BY <1>2, <1>3 DEF Changed

(* Every step keeps the held paths the paths of their nodes.                *)
LEMMA PathStableStep ==
    ASSUME PathLocks, ControlInv', NEW t \in Threads, Receive(t) \/ Work(t)
    PROVE  PathStable'
<1> SUFFICES ASSUME NEW u \in Threads, NEW i \in got'[u]
             PROVE  (path[u][i] = Chain(Dir(u, i)) /\ ~Stale(Dir(u, i)))'
  BY DEF PathStable
<1>1. TypeOK /\ PathStable /\ ControlInv
  BY DEF PathLocks
<1>2. SameArgs(u)
  BY <1>1, ArgsKept
<1> DEFINE d == Dir(u, i)
<1>3. Dir(u, i)' = d
  BY <1>2 DEF SameArgs, Dir
<1>4. CASE i \in got[u] /\ path'[u][i] = path[u][i]
  <2>1. path[u][i] = ChainOf(parent, d) /\ \A m \in ChainOf(parent, d) : parent[m] # NoNode
    BY <1>1, <1>4 DEF PathStable, Stale, Chain
  <2>2. i \in {1, 2}
    BY <1>1, <1>4 DEF TypeOK
  <2>3. \A m \in ChainOf(parent, d) : parent'[m] = parent[m]
    BY <2>1, <2>2, HeldUnchanged
  <2>4. ChainOf(parent', d) = ChainOf(parent, d)
    BY <2>3, ChainKept
  <2> HIDE DEF d
  <2>5. path'[u][i] = ChainOf(parent', d) /\ \A m \in ChainOf(parent', d) : parent'[m] # NoNode
    BY <1>4, <2>1, <2>3, <2>4
  <2> QED
    BY <1>3, <2>5 DEF Chain, Stale
<1>5. CASE UNCHANGED parent /\ path'[u][i] = Chain(d) /\ ~Stale(d)
  <2>1. path'[u][i] = ChainOf(parent, d) /\ \A m \in ChainOf(parent, d) : parent[m] # NoNode
    BY <1>5 DEF Chain, Stale
  <2> HIDE DEF d
  <2> QED
    BY <1>3, <1>5, <2>1 DEF Chain, Stale
<1> QED
  BY <1>4, <1>5, HeldBefore

-----------------------------------------------------------------------------
(* The entries a request has locked stay what they were when it locked them *)

(* A step of another thread: it changes no entry in a directory that the    *)
(* kernel gave to u alone, and no node u has write-locked.                  *)
LEMMA OtherEntries ==
    ASSUME PathLocks, NEW t \in Threads, Receive(t) \/ Work(t),
           NEW u \in Threads, u # t, SameControl(u),
           got'[u] = got[u], wnode'[u] = wnode[u]
    PROVE  EntriesLocked(u)'
<1>1. /\ TypeOK /\ TreelockCounts /\ Exclusive /\ Control(u) /\ EntriesLocked(u)
      /\ NoNode \notin Dirs
  BY NodesAssumption DEF PathLocks, ControlInv, EntriesInv
<1>2. ASSUME NEW n \in Nodes, n \in Mine(u)
      PROVE  parent'[n] = parent[n] /\ name'[n] = name[n]
  <2>1. treelock[n] # 0 /\ n \notin Mine(t)
    BY <1>1, <1>2, OffPath DEF Mine
  <2> QED
    BY <2>1, ChangedEntries DEF Changed
<1>3. ASSUME NEW n \in Nodes, Changed(n), req[u].op \in WriteOps
      PROVE  parent'[n] \notin Excl(req[u]) \ {NoNode}
  <2>1. CASE parent'[n] = NoNode
    BY <2>1
  <2>2. CASE parent'[n] \in Excl(req[t]) \cup Shared(req[t])
    <3>1. Live(t)
      BY <2>2 DEF Live, Answered, Excl, Shared
    <3>2. Live(u)
      BY <1>3 DEF Live, Answered, WriteOps
    <3>3. ~Conflict(req[t], req[u])
      BY <1>1, <3>1, <3>2 DEF Exclusive
    <3> QED
      BY <2>2, <3>3 DEF Conflict
  <2> QED
    BY <1>3, <2>1, <2>2, ChangedEntries
<1>4. /\ Dir(u, 1)' = Dir(u, 1) /\ NameArg(u, 1)' = NameArg(u, 1)
      /\ Dir(u, 2)' = Dir(u, 2) /\ NameArg(u, 2)' = NameArg(u, 2)
      /\ Mine(u)' = Mine(u) /\ VictimSlot(u)' = VictimSlot(u)
      /\ VictimDir(u)' = VictimDir(u) /\ VictimName(u)' = VictimName(u)
  BY DEF SameControl, Dir, NameArg, Mine, VictimDir, VictimName, VictimSlot
<1>5. ASSUME req[u].op \in WriteOps, pc[u] \in {"wait", "op", "hide", "hiding", "ren"},
             NEW i \in got[u], NEW n \in Nodes,
             parent'[n] = Dir(u, i), name'[n] = NameArg(u, i)
      PROVE  n \in Mine(u)
  <2>1. i \in {1, 2}
    BY <1>1, <1>5 DEF TypeOK
  <2>2. Dir(u, i) \in Dirs
    BY <1>1, <1>5, <2>1 DEF Control, ControlAt, Dir
  <2>3. Dir(u, i) \in Excl(req[u])
    <3>1. got[u] \subseteq slots[u] /\ slots[u] \in SlotsOf(req[u].op)
      BY <1>1, <1>5 DEF Control, ControlAt, WriteOps
    <3> QED
      BY <1>5, <2>1, <3>1 DEF SlotsOf, TwoPathOps, WriteOps, Dir, Excl
  <2>4. ~Changed(n)
    BY <1>1, <1>3, <1>5, <2>2, <2>3
  <2> QED
    BY <1>1, <1>5, <2>4 DEF Changed, EntriesLocked, EntryAt
<1>6. ASSUME pc[u] \in {"hide", "hiding"}
      PROVE  \E n \in Nodes : parent'[n] = VictimDir(u) /\ name'[n] = VictimName(u)
  <2>1. PICK n \in Nodes : EntryAt(n, VictimDir(u), VictimName(u))
    BY <1>1, <1>6 DEF EntriesLocked
  <2>2. req[u].op \in {"unlink", "rename"}
    BY <1>1, <1>6 DEF Control, ControlAt, OpsAt
  <2>3. VictimSlot(u) \in got[u]
    BY <1>6, <2>2, Owned DEF VictimSlot, TwoPathOps, WriteOps
  <2>4. n \in Mine(u)
    BY <1>1, <1>6, <2>1, <2>2, <2>3 DEF EntriesLocked, VictimDir, VictimName, WriteOps
  <2> QED
    BY <1>2, <2>1, <2>4 DEF EntryAt
<1>7. ASSUME pc[u] \in {"recheck", "rmhidden"}
      PROVE  wnode[u][1] \in Nodes /\ parent'[wnode[u][1]] = req[u].d1
  BY <1>1, <1>2, <1>7 DEF EntriesLocked, Mine
<1> QED
  <2>1. \A i \in got[u] : i \in {1, 2}
    BY <1>1 DEF TypeOK
  <2>2. \A i \in got[u] : Dir(u, i)' = Dir(u, i) /\ NameArg(u, i)' = NameArg(u, i)
    BY <1>4, <2>1
  <2> QED
    BY SMTT(30), <1>4, <1>5, <1>6, <1>7, <2>2 DEF EntriesLocked, EntryAt, SameControl

(* The paths a request has just been given: the node it write-locked is the *)
(* one of the entry it names.                                               *)
LEMMA TakenEntries ==
    ASSUME PathLocks, ControlInv', NEW t \in Threads, Receive(t) \/ Work(t),
           NEW u \in Threads, UNCHANGED tree, SameArgs(u), req'[u].op = req[u].op,
           pc[u] \in {"get", "wait"}, pc'[u] \in {"get", "wait", "op", "free", "rel", "idle", "unl"},
           got[u] = {} \/ (pc[u] = "wait" /\ got'[u] = got[u] /\ wnode'[u] = wnode[u])
    PROVE  EntriesLocked(u)'
<1>1. TypeOK /\ NamesUnique /\ EntriesLocked(u) /\ Control(u)' /\ got[u] \subseteq {1, 2}
  BY DEF PathLocks, EntriesInv, ControlInv, TypeOK
<1> SUFFICES ASSUME req[u].op \in WriteOps, pc'[u] # "idle", NEW i \in got'[u], NEW n \in Nodes,
                    parent[n] = Dir(u, i), name[n] = NameArg(u, i)
             PROVE  n \in {wnode'[u][1], wnode'[u][2]}
  <2>1. \A i : Dir(u, i)' = Dir(u, i) /\ NameArg(u, i)' = NameArg(u, i)
    BY DEF SameArgs, Dir, NameArg
  <2> QED
    BY <2>1 DEF EntriesLocked, EntryAt, Mine, tree
<1>2. CASE pc[u] = "wait" /\ got'[u] = got[u] /\ wnode'[u] = wnode[u]
  BY <1>1, <1>2 DEF EntriesLocked, EntryAt, Mine
<1>3. CASE got[u] = {}
  <2>1. wnode'[u][i] = Victim(u, i) /\ i \in slots[u]
    BY <1>3, HeldBefore
  <2>2. i \in {1, 2}
    BY <1>1, <2>1 DEF TypeOK
  <2>3. Dir(u, i) \in Dirs
    BY <1>1, <2>2 DEF Control, ControlAt, SameArgs, Dir
  <2>4. n = lookup_node(Dir(u, i), NameArg(u, i))
    BY <1>1, <2>3, LookupFinds DEF EntryAt
  <2> QED
    BY <2>1, <2>2, <2>4 DEF Victim
<1> QED
  BY <1>2, <1>3

(* A handler that got its paths owns the entries it named.                  *)
LEMMA GetEntries ==
    ASSUME PathLocks, ControlInv', NEW t \in Threads, get_path_common(t) \/ wait_path(t)
    PROVE  EntriesLocked(t)'
<1>1. TypeOK /\ Control(t)
  BY DEF PathLocks, ControlInv
<1>2. Work(t) /\ UNCHANGED tree
  BY DEF Work, get_path_common, wait_path
<1>3. CASE req[t].op \notin WriteOps
  <2>1. pc'[t] = "wait" \/ pc'[t] \notin Holding \/ pc'[t] = "op"
    <3>1. CASE \E l : Goto(t, l) /\ l \in {"rel", "idle", "free", "unl", "op"}
      BY <1>1, <3>1, GotoOwn DEF Holding
    <3>2. CASE pc' = [pc EXCEPT ![t] = "wait"] \/ pc' = [pc EXCEPT ![t] = "get"]
      BY <1>1, <3>2 DEF TypeOK, Holding
    <3> QED
      BY <3>1, <3>2 DEF get_path_common, wait_path, GetReturns, AfterGet
  <2>2. req'[t].op \notin WriteOps
    BY <1>1, <1>2, <1>3, RightsKept DEF SameRights, NoRights, Answered, WriteOps
  <2> QED
    BY <2>1, <2>2 DEF EntriesLocked, Holding
<1>4. CASE req[t].op \in WriteOps /\ pc'[t] # "idle"
  <2>1. pc[t] \in {"get", "wait"}
    BY DEF get_path_common, wait_path
  <2>2. /\ pc'[t] \in {"get", "wait", "op", "free", "rel", "idle", "unl"}
        /\ req'[t] = req[t]
    <3>1. CASE \E l : Goto(t, l) /\ l \in {"rel", "idle", "free", "unl", "op"}
      BY <1>1, <1>4, <3>1, GotoOwn
    <3>2. CASE /\ pc' = [pc EXCEPT ![t] = "wait"] \/ pc' = [pc EXCEPT ![t] = "get"]
               /\ req' = req
      BY <1>1, <3>2 DEF TypeOK
    <3> QED
      BY <3>1, <3>2 DEF get_path_common, wait_path, GetReturns, AfterGet
  <2>3. got[t] = {} \/ (pc[t] = "wait" /\ got'[t] = got[t] /\ wnode'[t] = wnode[t])
    <3>1. CASE get_path_common(t)
      <4>1. pc[t] = "get" /\ req[t].op # "copy_file_range"
        BY <1>4, <3>1 DEF get_path_common, WriteOps
      <4>2. got[t] \subseteq slots[t] /\ got[t] \cap slots[t] = {}
        BY <1>1, <4>1 DEF Control, ControlAt
      <4> QED
        BY <4>2
    <3>2. CASE wait_path(t)
      BY <3>2 DEF wait_path, held
    <3> QED
      BY <3>1, <3>2
  <2> QED
    BY <1>2, <2>1, <2>2, <2>3, TakenEntries DEF SameArgs
<1>5. CASE pc'[t] = "idle"
  BY <1>5, NotHolding DEF Holding
<1> QED
  BY <1>3, <1>4, <1>5

(* The waiting thread that wake_up_queued gives its paths.                  *)
LEMMA WokenEntries ==
    ASSUME PathLocks, ControlInv', NEW t \in Threads, wake_up_queued(t),
           NEW u \in Threads, u = Head(wake)
    PROVE  EntriesLocked(u)'
<1>1. TypeOK /\ QueueInv /\ Control(u)
  BY DEF PathLocks, ControlInv
<1>2. Work(t) /\ UNCHANGED tree /\ pc[t] = "waking"
  BY DEF Work, wake_up_queued
<1>3. pc[u] \in {"wait", "fwait"}
  BY <1>1, <1>2, WakeHead DEF Waiting
<1>4. SameControl(u)
  BY <1>1, <1>2, <1>3, ControlFrame
<1>5. CASE pc[u] = "fwait"
  BY <1>4, <1>5, NotHolding DEF Holding, SameControl
<1>6. CASE pc[u] = "wait" /\ req[u].op \notin WriteOps
  BY <1>4, <1>6 DEF EntriesLocked, SameControl
<1>7. CASE pc[u] = "wait" /\ req[u].op \in WriteOps
  <2>1. got[u] = {} \/ (got'[u] = got[u] /\ wnode'[u] = wnode[u])
    <3>1. CASE qdone[u] # "no"
      BY <1>7, <3>1 DEF wake_up_queued, queue_element_wakeup, held
    <3>2. CASE qdone[u] = "no"
      <4>1. got[u] \subseteq slots[u] /\ got[u] \cap slots[u] = {}
        BY <1>1, <1>7, <3>2 DEF Control, ControlAt, WriteOps
      <4> QED
        BY <4>1
    <3> QED
      BY <3>1, <3>2
  <2> QED
    BY <1>2, <1>4, <1>7, <2>1, TakenEntries DEF SameControl, SameArgs
<1> QED
  BY <1>3, <1>5, <1>6, <1>7

(* Every step leaves the entries of the running handlers to them.           *)
LEMMA EntriesStep ==
    ASSUME PathLocks, ControlInv', NEW t \in Threads, Receive(t) \/ Work(t)
    PROVE  EntriesInv'
<1> SUFFICES ASSUME NEW u \in Threads
             PROVE  EntriesLocked(u)'
  BY DEF EntriesInv
<1>1. TypeOK
  BY DEF PathLocks
<1>2. CASE u # t /\ ~(wake_up_queued(t) /\ u = Head(wake))
  <2>1. SameControl(u) /\ SameHeld(u)
    BY <1>1, <1>2, ControlFrame, HeldFrame
  <2> QED
    BY <1>2, <2>1, OtherEntries DEF SameHeld
<1>3. CASE wake_up_queued(t) /\ u = Head(wake)
  BY <1>3, WokenEntries
<1>4. CASE u = t /\ (get_path_common(t) \/ wait_path(t))
  BY <1>4, GetEntries
<1>5. CASE u = t /\ (check_open(t) \/ hidden_name(t) \/ recheck_open(t))
  BY <1>5, OpenEntries
<1>6. CASE u = t /\ hide_node(t)
  BY <1>6, HideEntries
<1> QED
  BY <1>1, <1>2, <1>3, <1>4, <1>5, <1>6, OtherSteps, NotHolding

(* A node that does not exist has no entry and no lock.                     *)
LEMMA IdsStep ==
    ASSUME PathLocks, NEW t \in Threads, Receive(t) \/ Work(t)
    PROVE  IdsInv'
<1> SUFFICES ASSUME NEW n \in Nodes, n \notin ids'
             PROVE  parent'[n] = NoNode /\ treelock'[n] = 0
  BY DEF IdsInv
<1>1. parent'[n] = NoNode /\ treelock[n] = 0
  BY ChangedEntries
<1>2. CASE n \notin ids
  BY <1>1, <1>2, LocksStep
<1>3. CASE n \in ids
  <2>1. ids' # ids /\ ~(ids \subseteq ids')
    BY <1>3
  <2>2. unref_node(t)
    BY <2>1 DEF Receive, Work, counts, get_path_common, wait_path, free_path, free_null,
       wake_up_queued, forget_node, forget_wakeup, fs_fails, open_fails, lookup_path,
       reply_entry, create_lookup, create_not_regular, count_open, reply_open,
       reply_open_interrupted, fuse_do_release, release_unlink, check_open, hidden_name,
       hide_node, recheck_open, remove_hidden, unlink_entry, rename_entry, exchange_entry,
       copy_file_range, find_node
  <2>3. treelock' = treelock
    BY <2>2 DEF unref_node
  <2> QED
    BY <1>1, <2>3
<1> QED
  BY <1>2, <1>3

-----------------------------------------------------------------------------
(* The invariant holds at the start and is kept by every step.              *)

(* The initial states have the types of TypeOK.                             *)
LEMMA InitType ==
    ASSUME Init
    PROVE  TypeOK
<1>1. /\ nlookup \in [Dirs -> Int] /\ klookup \in [Nodes -> Int]
  BY SMTT(30) DEF Init, Dirs
<1>2. refctr \in [Dirs -> Int]
  <2> SUFFICES ASSUME NEW n \in Dirs
               PROVE  Cardinality({m \in Nodes : InitParent[m] = n}) \in Int
    BY SMTT(30), <1>1 DEF Init
  <2>1. IsFiniteSet({m \in Nodes : InitParent[m] = n})
    BY NodesAssumption, FS_Subset
  <2> QED
    BY SMTT(30), <2>1, FS_CardinalityType
<1>3. TableType
  BY SMTT(30), <1>1, <1>2, TreeAssumption DEF TableType, Init
<1>4. LockType
  BY SMTT(30) DEF LockType, Init, Paths, Wnodes
<1>5. ControlType
  BY NoReqType DEF ControlType, Init, Labels
<1> QED
  BY <1>3, <1>4, <1>5, TypeParts

(* The initial states satisfy the inductive invariant.                      *)
LEMMA InitPathLocks ==
    ASSUME Init
    PROVE  PathLocks
<1>1. TypeOK
  BY InitType
<1>2. /\ \A t \in Threads : /\ got[t] = {} /\ slots[t] = {} /\ pc[t] = "idle"
                           /\ req[t] = NoReq /\ qdone[t] = "no"
                           /\ path[t][1] = {} /\ path[t][2] = {}
                           /\ wnode[t][1] = NoNode /\ wnode[t][2] = NoNode
      /\ \A n \in Nodes : treelock[n] = 0
      /\ lockq = <<>> /\ wake = <<>>
  BY DEF Init
<1>3. TreelockCounts
  <2> SUFFICES ASSUME NEW n \in Nodes
               PROVE  LockAt(treelock[n], Readers(path, n), WriterCount(wnode, n))
    BY LockStateAt DEF TreelockCounts
  <2>1. Holders(path, n) = {} /\ Writers(wnode, n) = {}
    BY SMTT(30), <1>2, NodesAssumption DEF Holders, Writers, Dirs
  <2>2. Readers(path, n) = 0 /\ WriterCount(wnode, n) = 0
    BY <2>1, FS_EmptySet DEF Readers, WriterCount
  <2> QED
    BY <1>2, <2>2 DEF LockAt
<1>4. PathStable /\ SlotsEmpty
  BY <1>2 DEF PathStable, SlotsEmpty
<1>5. NamesUnique /\ IdsInv
  BY TreeAssumption, <1>2 DEF Init, NamesUnique, EntryAt, IdsInv
<1>6. QueueInv
  BY SMTT(30), <1>2 DEF QueueInv
<1>7. ControlInv
  <2> SUFFICES ASSUME NEW t \in Threads
               PROVE  ControlAt(NoReq, "idle", {}, {}, "no")
    BY <1>2 DEF ControlInv, Control
  <2> QED
    BY DEF ControlAt, OpsAt, NoReq, Answered
<1>8. Exclusive
  BY SMTT(30), <1>2 DEF Exclusive, Live, NoReq, Answered
<1>9. EntriesInv
  BY <1>2 DEF EntriesInv, EntriesLocked
<1> QED
  BY <1>1, <1>3, <1>4, <1>5, <1>6, <1>7, <1>8, <1>9 DEF PathLocks

(* Every step keeps it.                                                     *)
LEMMA StepPathLocks ==
    ASSUME PathLocks, NEW t \in Threads, Receive(t) \/ Work(t)
    PROVE  PathLocks'
<1>1. TypeOK /\ QueueInv /\ ControlInv /\ Exclusive
  BY DEF PathLocks
<1>2. TypeOK' /\ QueueInv' /\ ControlInv' /\ Exclusive'
  BY <1>1, TypeStep, QueueStep, ControlStep, ExclusiveStep
<1>3. TreelockCounts' /\ SlotsEmpty'
  BY LocksStep
<1>4. NamesUnique' /\ IdsInv'
  BY ChangedEntries, IdsStep
<1>5. PathStable' /\ EntriesInv'
  BY <1>2, PathStableStep, EntriesStep
<1> QED
  BY <1>2, <1>3, <1>4, <1>5 DEF PathLocks

(* Path locks work: in every reachable state the invariant holds, for any   *)
(* number of nodes, names and worker threads and any requests that the      *)
(* kernel's own locking allows.                                             *)
THEOREM PathLocksInvariant == Spec => []PathLocks
<1>1. Init => PathLocks
  BY InitPathLocks
<1>2. PathLocks /\ [Next]_vars => PathLocks'
  BY StepPathLocks, StutterPathLocks DEF Next
<1> QED
  BY <1>1, <1>2, PTL DEF Spec

(* Every variable of the library keeps its type.                            *)
THEOREM TypeCorrect == Spec => []TypeOK
<1>1. PathLocks => TypeOK
  BY DEF PathLocks
<1> QED
  BY <1>1, PathLocksInvariant, PTL

(* A node's treelock always counts the paths that go through it, or marks   *)
(* the one writer: unlock_path never finds a lock it did not expect.        *)
THEOREM LocksCounted == Spec => []TreelockCounts
<1>1. PathLocks => TreelockCounts
  BY DEF PathLocks
<1> QED
  BY <1>1, PathLocksInvariant, PTL

(* The path get_path returned stays the path of its node until free_path:   *)
(* free_path unlocks exactly the nodes that get_path locked.                *)
THEOREM PathsStable == Spec => []PathStable
<1>1. PathLocks => PathStable
  BY DEF PathLocks
<1> QED
  BY <1>1, PathLocksInvariant, PTL

(* No handler renames, unlinks or deletes a node on a path another handler  *)
(* has been given.                                                          *)
THEOREM HeldPathsFixed == Spec => HeldEntriesFixed
<1> DEFINE Fixed == \A t \in Threads : \A i \in got[t] : \A n \in path[t][i] :
                       parent'[n] = parent[n] /\ name'[n] = name[n]
<1>1. ASSUME PathLocks, Next
      PROVE  Fixed
  <2>1. PICK t \in Threads : Receive(t) \/ Work(t)
    BY <1>1 DEF Next
  <2>2. \A u \in Threads : got[u] \subseteq {1, 2}
    BY <1>1 DEF PathLocks, TypeOK
  <2> QED
    BY <1>1, <2>1, <2>2, HeldUnchanged
<1>2. PathLocks /\ [Next]_vars => [Fixed]_vars
  BY <1>1
<1> QED
  BY <1>2, PathLocksInvariant, PTL DEF Spec, HeldEntriesFixed
=============================================================================
