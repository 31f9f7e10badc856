--------------------------- MODULE FuseTreeLemmas ---------------------------
(***************************************************************************)
(* Lemmas about the path locks of FuseTree: what a path is, how many slots *)
(* hold a node, and what try_get_path and unlock_path, and try_get_path2   *)
(* and free_path for the two paths of a request, do to the account that    *)
(* LockState keeps of treelock.  And the steps of FuseTree keep TypeOK.    *)
(***************************************************************************)
EXTENDS FuseTreeInv, FiniteSetTheorems, TLAPS

(* The types of path and wnode.                                             *)
Paths == [Threads -> [{1, 2} -> SUBSET Nodes]]
Wnodes == [Threads -> [{1, 2} -> Nodes \cup {NoNode}]]

(* TREELOCK_WAIT_OFFSET and TREELOCK_WRITE as the other lemmas use them.    *)
LEMMA Offset == TREELOCK_WAIT_OFFSET \in Int /\ TREELOCK_WRITE = -1
BY SMTT(30) DEF TREELOCK_WAIT_OFFSET, TREELOCK_WRITE

(* lookup_node returns the node of the entry, or none when there is none.   *)
LEMMA LookupNode ==
    ASSUME NEW d, NEW nm
    PROVE  /\ lookup_node(d, nm) \in Nodes \cup {NoNode}
           /\ lookup_node(d, nm) \in Nodes => EntryAt(lookup_node(d, nm), d, nm)
           /\ lookup_node(d, nm) = NoNode => ~ \E n \in Nodes : EntryAt(n, d, nm)
<1>1. CASE \E n \in Nodes : parent[n] = d /\ name[n] = nm
  <2> DEFINE n == CHOOSE n \in Nodes : parent[n] = d /\ name[n] = nm
  <2>1. n \in Nodes /\ parent[n] = d /\ name[n] = nm
    BY <1>1, Zenon
  <2>2. lookup_node(d, nm) = n
    BY <1>1, Zenon DEF lookup_node
  <2> QED
    BY <2>1, <2>2, NodesAssumption, Zenon DEF EntryAt, Dirs
<1>2. CASE ~ \E n \in Nodes : parent[n] = d /\ name[n] = nm
  BY <1>2, NodesAssumption, Zenon DEF lookup_node, EntryAt, Dirs
<1> QED
  BY <1>1, <1>2, Zenon

(* The path variables after SetPaths(t).                                    *)
TakenPath(t) ==
    [path EXCEPT ![t] = [i \in {1, 2} |->
        IF i \in slots[t] THEN Chain(Dir(t, i)) ELSE path[t][i]]]
TakenWnode(t) ==
    [wnode EXCEPT ![t] = [i \in {1, 2} |->
        IF i \in slots[t] THEN Victim(t, i) ELSE wnode[t][i]]]

-----------------------------------------------------------------------------
(* Paths.                                                                   *)

(* ChainOf(up, d) is the least set that holds d and is closed under up: the *)
(* nodes that try_get_path's loop visits.                                   *)
LEMMA ChainLeast ==
    ASSUME NEW up, NEW d
    PROVE  /\ ChainOf(up, d) \in Above(up, d)
           /\ \A S \in Above(up, d) : ChainOf(up, d) \subseteq S
BY Zenon DEF ChainOf, Above

(* A path depends on the entries of its own nodes only.                     *)
LEMMA ChainKept ==
    ASSUME NEW up, NEW up2, NEW d,
           \A m \in ChainOf(up, d) : up2[m] = up[m]
    PROVE  ChainOf(up2, d) = ChainOf(up, d)
<1>1. ChainOf(up, d) \in Above(up2, d)
  BY ChainLeast, Zenon DEF Above
<1>2. ChainOf(up2, d) \subseteq ChainOf(up, d)
  BY <1>1, ChainLeast, Zenon
<1>3. ChainOf(up2, d) \in Above(up, d)
  BY <1>2, ChainLeast, Zenon DEF Above
<1>4. ChainOf(up, d) \subseteq ChainOf(up2, d)
  BY <1>3, ChainLeast, Zenon
<1> QED
  BY <1>2, <1>4, Zenon

-----------------------------------------------------------------------------
(* Counting the holders of a lock.                                          *)

(* There are finitely many path variables, too few to make up for the wait  *)
(* offset that try_get_path adds.                                           *)
LEMMA SlotsFinite ==
    /\ IsFiniteSet(Threads \X {1, 2})
    /\ Cardinality(Threads \X {1, 2}) \in Nat
    /\ TREELOCK_WAIT_OFFSET + Cardinality(Threads \X {1, 2}) < TREELOCK_WRITE
<1>1. IsFiniteSet({1, 2}) /\ Cardinality({1, 2}) = 2
  <2>1. IsFiniteSet({1}) /\ Cardinality({1}) = 1
    BY FS_Singleton, Zenon
  <2>2. {1, 2} = {1} \cup {2} /\ 2 \notin {1}
    OBVIOUS
  <2> QED
    BY <2>1, <2>2, FS_AddElement
<1>2. /\ IsFiniteSet(Threads \X {1, 2})
      /\ Cardinality(Threads \X {1, 2}) = Cardinality(Threads) * 2
  BY <1>1, FS_Product, ThreadsAssumption, Zenon
<1>3. Cardinality(Threads) \in Nat
  BY FS_CardinalityType, ThreadsAssumption, Zenon
<1> QED
  BY <1>2, <1>3, ThreadsAssumption, Offset

(* Counts of slots: there are fewer than the wait offset, so the three      *)
(* cases of LockState are apart.                                            *)
LEMMA CountType ==
    ASSUME NEW S \in SUBSET (Threads \X {1, 2})
    PROVE  /\ IsFiniteSet(S) /\ Cardinality(S) \in Nat
           /\ TREELOCK_WAIT_OFFSET + Cardinality(S) < TREELOCK_WRITE
           /\ \A s \in S : Cardinality(S) > 0
<1>1. IsFiniteSet(S) /\ Cardinality(S) <= Cardinality(Threads \X {1, 2})
  BY SlotsFinite, FS_Subset, Zenon
<1>2. Cardinality(S) \in Nat
  BY <1>1, FS_CardinalityType, Zenon
<1>3. Cardinality(S) = 0 <=> S = {}
  BY <1>1, FS_EmptySet, Zenon
<1> QED
  BY <1>1, <1>2, <1>3, SlotsFinite, Offset

(* A slot that joins or leaves a set of slots.                              *)
LEMMA CountChange ==
    ASSUME NEW S \in SUBSET (Threads \X {1, 2}), NEW T, NEW e \in Threads \X {1, 2},
           \A s \in Threads \X {1, 2} : s # e => (s \in T <=> s \in S),
           T \in SUBSET (Threads \X {1, 2})
    PROVE  Cardinality(T) = IF e \in T /\ e \notin S THEN Cardinality(S) + 1
                            ELSE IF e \notin T /\ e \in S THEN Cardinality(S) - 1
                            ELSE Cardinality(S)
<1>1. IsFiniteSet(S) /\ Cardinality(S) \in Nat
  BY CountType, Zenon
<1>2. CASE e \in T /\ e \notin S
  <2>1. T = S \cup {e}
    BY <1>2, Zenon
  <2> QED
    BY <1>1, <1>2, <2>1, FS_AddElement, Zenon
<1>3. CASE e \notin T /\ e \in S
  <2>1. T = S \ {e}
    BY <1>3, Zenon
  <2> QED
    BY <1>1, <1>3, <2>1, FS_RemoveElement, Zenon
<1>4. CASE e \in T <=> e \in S
  <2>1. T = S
    BY <1>4
  <2> QED
    BY <1>4, <2>1, Zenon
<1> QED
  BY <1>2, <1>3, <1>4, Zenon

(* The paths through n, the writers of n, and a path variable that is set.  *)
Readers(pth, n) == Cardinality(Holders(pth, n))
WriterCount(wn, n) == Cardinality(Writers(wn, n))
SetSlot(f, t, i, v) == [f EXCEPT ![t] = [@ EXCEPT ![i] = v]]

(* The readers of a node after one slot's path was set.                     *)
LEMMA ReadersSet ==
    ASSUME NEW pth \in Paths, NEW t \in Threads, NEW i \in {1, 2},
           NEW C \in SUBSET Nodes, NEW n
    PROVE  /\ SetSlot(pth, t, i, C) \in Paths
           /\ Readers(SetSlot(pth, t, i, C), n) =
                 IF n \in C /\ n \notin pth[t][i] THEN Readers(pth, n) + 1
                 ELSE IF n \notin C /\ n \in pth[t][i] THEN Readers(pth, n) - 1
                 ELSE Readers(pth, n)
           /\ n \in pth[t][i] => Readers(pth, n) > 0
<1> DEFINE pth2 == SetSlot(pth, t, i, C)
           e == <<t, i>>
<1>1. pth2 \in Paths
  BY Zenon DEF SetSlot, Paths
<1>2. \A s \in Threads \X {1, 2} : pth2[s[1]][s[2]] = IF s = e THEN C ELSE pth[s[1]][s[2]]
  BY DEF SetSlot, Paths
<1>3. e \in Threads \X {1, 2} /\ e[1] = t /\ e[2] = i
  OBVIOUS
<1> HIDE DEF pth2, e
<1>4. /\ Holders(pth, n) \in SUBSET (Threads \X {1, 2})
      /\ Holders(pth2, n) \in SUBSET (Threads \X {1, 2})
      /\ \A s \in Threads \X {1, 2} : s # e => (s \in Holders(pth2, n) <=> s \in Holders(pth, n))
      /\ e \in Holders(pth2, n) <=> n \in C
      /\ e \in Holders(pth, n) <=> n \in pth[t][i]
  BY <1>2, <1>3, Zenon DEF Holders
<1>5. Cardinality(Holders(pth2, n)) =
         IF n \in C /\ n \notin pth[t][i] THEN Cardinality(Holders(pth, n)) + 1
         ELSE IF n \notin C /\ n \in pth[t][i] THEN Cardinality(Holders(pth, n)) - 1
         ELSE Cardinality(Holders(pth, n))
  BY <1>3, <1>4, CountChange
<1>6. n \in pth[t][i] => Cardinality(Holders(pth, n)) > 0
  BY <1>4, CountType, Zenon
<1> QED
  BY <1>1, <1>5, <1>6, Zenon DEF pth2, Readers

(* The writers of a node after one slot's wnode was set.                    *)
LEMMA WritersSet ==
    ASSUME NEW wn \in Wnodes, NEW t \in Threads, NEW i \in {1, 2},
           NEW w \in Nodes \cup {NoNode}, NEW n
    PROVE  /\ SetSlot(wn, t, i, w) \in Wnodes
           /\ WriterCount(SetSlot(wn, t, i, w), n) =
                 IF n = w /\ n # wn[t][i] THEN WriterCount(wn, n) + 1
                 ELSE IF n # w /\ n = wn[t][i] THEN WriterCount(wn, n) - 1
                 ELSE WriterCount(wn, n)
           /\ n = wn[t][i] => WriterCount(wn, n) > 0
<1> DEFINE wn2 == SetSlot(wn, t, i, w)
           e == <<t, i>>
<1>1. wn2 \in Wnodes
  BY Zenon DEF SetSlot, Wnodes
<1>2. \A s \in Threads \X {1, 2} : wn2[s[1]][s[2]] = IF s = e THEN w ELSE wn[s[1]][s[2]]
  BY DEF SetSlot, Wnodes
<1>3. e \in Threads \X {1, 2} /\ e[1] = t /\ e[2] = i
  OBVIOUS
<1> HIDE DEF wn2, e
<1>4. /\ Writers(wn, n) \in SUBSET (Threads \X {1, 2})
      /\ Writers(wn2, n) \in SUBSET (Threads \X {1, 2})
      /\ \A s \in Threads \X {1, 2} : s # e => (s \in Writers(wn2, n) <=> s \in Writers(wn, n))
      /\ e \in Writers(wn2, n) <=> n = w
      /\ e \in Writers(wn, n) <=> n = wn[t][i]
  BY <1>2, <1>3, Zenon DEF Writers
<1>5. Cardinality(Writers(wn2, n)) =
         IF n = w /\ n # wn[t][i] THEN Cardinality(Writers(wn, n)) + 1
         ELSE IF n # w /\ n = wn[t][i] THEN Cardinality(Writers(wn, n)) - 1
         ELSE Cardinality(Writers(wn, n))
  BY <1>3, <1>4, CountChange
<1>6. n = wn[t][i] => Cardinality(Writers(wn, n)) > 0
  BY <1>4, CountType, Zenon
<1> QED
  BY <1>1, <1>5, <1>6, Zenon DEF wn2, WriterCount

-----------------------------------------------------------------------------
(* What the lock operations do to LockState.                                *)

LockAt(v, readers, writers) ==
    \/ writers = 0 /\ v = readers
    \/ writers = 0 /\ readers > 0 /\ v = TREELOCK_WAIT_OFFSET + readers
    \/ writers = 1 /\ readers = 0 /\ v = TREELOCK_WRITE

(* LockState looks at each node by itself.                                  *)
LEMMA LockStateAt ==
    ASSUME NEW tl, NEW pth, NEW wn
    PROVE  LockState(tl, pth, wn) <=>
              \A n \in Nodes : LockAt(tl[n], Readers(pth, n), WriterCount(wn, n))
BY Zenon DEF LockState, LockAt, Readers, WriterCount

(* However many paths go through a node, its treelock with the wait offset  *)
(* stays below TREELOCK_WRITE.                                              *)
LEMMA ReadersType ==
    ASSUME NEW pth, NEW wn, NEW n
    PROVE  /\ Readers(pth, n) \in Nat /\ WriterCount(wn, n) \in Nat
           /\ TREELOCK_WAIT_OFFSET + Readers(pth, n) < TREELOCK_WRITE
<1>1. Holders(pth, n) \in SUBSET (Threads \X {1, 2})
  BY Zenon DEF Holders
<1>2. Writers(wn, n) \in SUBSET (Threads \X {1, 2})
  BY Zenon DEF Writers
<1> QED
  BY <1>1, <1>2, CountType, Zenon DEF Readers, WriterCount

(* A successful try_get_path: t takes the chain C and write-locks w.        *)
LEMMA TakeLocks ==
    ASSUME NEW tl \in [Nodes -> Int], NEW pth \in Paths, NEW wn \in Wnodes,
           LockState(tl, pth, wn),
           NEW t \in Threads, NEW i \in {1, 2}, pth[t][i] = {}, wn[t][i] = NoNode,
           NEW C \in SUBSET Nodes, NEW w \in Nodes \cup {NoNode}, w \notin C,
           w \in Nodes => tl[w] = 0, \A n \in C : tl[n] >= 0
    PROVE  LockState([n \in Nodes |-> IF n = w THEN TREELOCK_WRITE
                                      ELSE IF n \in C THEN tl[n] + 1 ELSE tl[n]],
                     SetSlot(pth, t, i, C), SetSlot(wn, t, i, w))
<1> SUFFICES ASSUME NEW n \in Nodes
             PROVE  LockAt(IF n = w THEN TREELOCK_WRITE
                           ELSE IF n \in C THEN tl[n] + 1 ELSE tl[n],
                           Readers(SetSlot(pth, t, i, C), n),
                           WriterCount(SetSlot(wn, t, i, w), n))
  BY LockStateAt, Zenon
<1>1. Readers(SetSlot(pth, t, i, C), n) =
         IF n \in C THEN Readers(pth, n) + 1 ELSE Readers(pth, n)
  BY ReadersSet
<1>2. WriterCount(SetSlot(wn, t, i, w), n) =
         IF n = w THEN WriterCount(wn, n) + 1 ELSE WriterCount(wn, n)
  BY WritersSet, NodesAssumption DEF Dirs
<1>3. LockAt(tl[n], Readers(pth, n), WriterCount(wn, n))
  BY LockStateAt, Zenon
<1>4. /\ Readers(pth, n) \in Nat /\ WriterCount(wn, n) \in Nat
      /\ TREELOCK_WAIT_OFFSET + Readers(pth, n) < TREELOCK_WRITE
  BY ReadersType, Zenon
<1> QED
  BY <1>1, <1>2, <1>3, <1>4, Offset DEF LockAt

(* A failed try_get_path leaves at most the wait offset on the node w that  *)
(* it wanted to write-lock.                                                 *)
LEMMA MarkWait ==
    ASSUME NEW tl \in [Nodes -> Int], NEW pth \in Paths, NEW wn \in Wnodes,
           LockState(tl, pth, wn), NEW w
    PROVE  LockState([n \in Nodes |-> IF n = w /\ tl[n] > 0
                                      THEN tl[n] + TREELOCK_WAIT_OFFSET ELSE tl[n]],
                     pth, wn)
<1> SUFFICES ASSUME NEW n \in Nodes
             PROVE  LockAt(IF n = w /\ tl[n] > 0
                           THEN tl[n] + TREELOCK_WAIT_OFFSET ELSE tl[n],
                           Readers(pth, n), WriterCount(wn, n))
  BY LockStateAt, Zenon
<1>1. LockAt(tl[n], Readers(pth, n), WriterCount(wn, n))
  BY LockStateAt, Zenon
<1>2. /\ Readers(pth, n) \in Nat /\ WriterCount(wn, n) \in Nat
      /\ TREELOCK_WAIT_OFFSET + Readers(pth, n) < TREELOCK_WRITE
  BY ReadersType, Zenon
<1> QED
  BY <1>1, <1>2, Offset DEF LockAt

(* unlock_path for the nodes of a path that is known.                       *)
Unlocked(tl, C, w) ==
    [n \in Nodes |-> IF n = w THEN 0
                     ELSE IF n \notin C THEN tl[n]
                     ELSE IF tl[n] - 1 = TREELOCK_WAIT_OFFSET THEN 0
                     ELSE tl[n] - 1]

(* unlock_path gives back what slot i of t holds.                           *)
LEMMA ReleaseLocks ==
    ASSUME NEW tl \in [Nodes -> Int], NEW pth \in Paths, NEW wn \in Wnodes,
           LockState(tl, pth, wn),
           NEW t \in Threads, NEW i \in {1, 2}
    PROVE  LockState(Unlocked(tl, pth[t][i], wn[t][i]),
                     SetSlot(pth, t, i, {}), SetSlot(wn, t, i, NoNode))
<1> SUFFICES ASSUME NEW n \in Nodes
             PROVE  LockAt(IF n = wn[t][i] THEN 0
                           ELSE IF n \notin pth[t][i] THEN tl[n]
                           ELSE IF tl[n] - 1 = TREELOCK_WAIT_OFFSET THEN 0
                           ELSE tl[n] - 1,
                           Readers(SetSlot(pth, t, i, {}), n),
                           WriterCount(SetSlot(wn, t, i, NoNode), n))
  BY LockStateAt, Zenon DEF Unlocked
<1>1. /\ Readers(SetSlot(pth, t, i, {}), n) =
            IF n \in pth[t][i] THEN Readers(pth, n) - 1 ELSE Readers(pth, n)
      /\ n \in pth[t][i] => Readers(pth, n) > 0
  BY ReadersSet
<1>2. /\ WriterCount(SetSlot(wn, t, i, NoNode), n) =
            IF n = wn[t][i] THEN WriterCount(wn, n) - 1 ELSE WriterCount(wn, n)
      /\ n = wn[t][i] => WriterCount(wn, n) > 0
  BY WritersSet, NodesAssumption DEF Dirs
<1>3. LockAt(tl[n], Readers(pth, n), WriterCount(wn, n))
  BY LockStateAt, Zenon
<1>4. /\ Readers(pth, n) \in Nat /\ WriterCount(wn, n) \in Nat
      /\ TREELOCK_WAIT_OFFSET + Readers(pth, n) < TREELOCK_WRITE
  BY ReadersType, Zenon
<1> QED
  BY <1>1, <1>2, <1>3, <1>4, Offset DEF LockAt

-----------------------------------------------------------------------------
(* Getting paths.                                                           *)

(* try_get_path: the locks it leaves count the path it took, or the paths   *)
(* that were there when it fails.                                           *)
LEMMA TryGetPath ==
    ASSUME NEW tl \in [Nodes -> Int], NEW pth \in Paths, NEW wn \in Wnodes,
           LockState(tl, pth, wn),
           NEW t \in Threads, NEW i \in {1, 2}, pth[t][i] = {}, wn[t][i] = NoNode,
           NEW d, NEW w \in Nodes \cup {NoNode}
    PROVE  /\ try_get_path(tl, d, w) \in [Nodes -> Int]
           /\ Outcome(tl, d, w) = "ok" =>
                 /\ LockState(try_get_path(tl, d, w),
                              SetSlot(pth, t, i, Chain(d)), SetSlot(wn, t, i, w))
                 /\ ~Stale(d)
           /\ Outcome(tl, d, w) # "ok" =>
                 LockState(try_get_path(tl, d, w), pth, wn)
           /\ \A n \in Nodes :
                 n # w /\ tl[n] = 0 /\ parent[n] = NoNode => try_get_path(tl, d, w)[n] = 0
<1>1. Chain(d) \in SUBSET Nodes
  BY Zenon DEF Chain, ChainOf
<1>2. CASE Outcome(tl, d, w) = "ok"
  <2>1. /\ ~Stale(d)
        /\ w \in Nodes => tl[w] = 0
        /\ \A m \in Chain(d) : parent[m] # NoNode => ~(tl[m] < 0) /\ m # w
    BY <1>2, Zenon DEF Outcome
  <2>2. \A m \in Chain(d) : parent[m] # NoNode
    BY <2>1, Zenon DEF Stale
  <2>3. w \notin Chain(d) /\ \A m \in Chain(d) : tl[m] >= 0
    BY <1>1, <2>1, <2>2
  <2>4. try_get_path(tl, d, w) =
           [n \in Nodes |-> IF n = w THEN TREELOCK_WRITE
                            ELSE IF n \in Chain(d) THEN tl[n] + 1 ELSE tl[n]]
    BY <1>2, Zenon DEF try_get_path
  <2>5. LockState(try_get_path(tl, d, w),
                  SetSlot(pth, t, i, Chain(d)), SetSlot(wn, t, i, w))
    BY <1>1, <2>1, <2>3, <2>4, TakeLocks
  <2> QED
    BY <1>2, <2>1, <2>2, <2>4, <2>5, Offset
<1>3. CASE Outcome(tl, d, w) # "ok"
  <2>1. try_get_path(tl, d, w) =
           [n \in Nodes |-> IF n = w /\ tl[n] > 0
                            THEN tl[n] + TREELOCK_WAIT_OFFSET ELSE tl[n]]
    BY <1>3, Zenon DEF try_get_path
  <2>2. LockState(try_get_path(tl, d, w), pth, wn)
    BY <2>1, MarkWait
  <2> QED
    BY <1>3, <2>1, <2>2, Offset
<1> QED
  BY <1>2, <1>3, Zenon

-----------------------------------------------------------------------------
(* The two paths of a request.                                              *)

(* SetPaths sets the path variables one after the other, as try_get_path2   *)
(* does.                                                                    *)
LEMMA TakenSlots ==
    ASSUME NEW t \in Threads, path \in Paths, wnode \in Wnodes
    PROVE  /\ slots[t] = {1} => /\ TakenPath(t) = SetSlot(path, t, 1, Chain(Dir(t, 1)))
                                /\ TakenWnode(t) = SetSlot(wnode, t, 1, Victim(t, 1))
           /\ slots[t] = {2} => /\ TakenPath(t) = SetSlot(path, t, 2, Chain(Dir(t, 2)))
                                /\ TakenWnode(t) = SetSlot(wnode, t, 2, Victim(t, 2))
           /\ slots[t] = {1, 2} =>
                 /\ TakenPath(t) = SetSlot(SetSlot(path, t, 1, Chain(Dir(t, 1))),
                                           t, 2, Chain(Dir(t, 2)))
                 /\ TakenWnode(t) = SetSlot(SetSlot(wnode, t, 1, Victim(t, 1)),
                                            t, 2, Victim(t, 2))
<1> DEFINE C(i) == Chain(Dir(t, i))
           W(i) == Victim(t, i)
<1> HIDE DEF C, W
<1>1. /\ slots[t] = {1} => TakenPath(t) = SetSlot(path, t, 1, C(1))
      /\ slots[t] = {2} => TakenPath(t) = SetSlot(path, t, 2, C(2))
      /\ slots[t] = {1, 2} => TakenPath(t) = SetSlot(SetSlot(path, t, 1, C(1)), t, 2, C(2))
  <2>1. TakenPath(t) = [path EXCEPT ![t] = [i \in {1, 2} |->
                           IF i \in slots[t] THEN C(i) ELSE path[t][i]]]
    BY Zenon DEF TakenPath, C
  <2> QED
    BY <2>1, Zenon DEF SetSlot, Paths
<1>2. /\ slots[t] = {1} => TakenWnode(t) = SetSlot(wnode, t, 1, W(1))
      /\ slots[t] = {2} => TakenWnode(t) = SetSlot(wnode, t, 2, W(2))
      /\ slots[t] = {1, 2} => TakenWnode(t) = SetSlot(SetSlot(wnode, t, 1, W(1)), t, 2, W(2))
  <2>1. TakenWnode(t) = [wnode EXCEPT ![t] = [i \in {1, 2} |->
                            IF i \in slots[t] THEN W(i) ELSE wnode[t][i]]]
    BY Zenon DEF TakenWnode, W
  <2> QED
    BY <2>1, Zenon DEF SetSlot, Wnodes
<1> QED
  BY <1>1, <1>2, Zenon DEF C, W

(* A path variable set and set back is as it was.                           *)
LEMMA SetBack ==
    ASSUME NEW S, NEW f \in [Threads -> [{1, 2} -> S]],
           NEW t \in Threads, NEW i \in {1, 2}, NEW v
    PROVE  SetSlot(SetSlot(f, t, i, v), t, i, f[t][i]) = f
<1>1. [[f[t] EXCEPT ![i] = v] EXCEPT ![i] = f[t][i]] = f[t]
  BY Zenon
<1>2. SetSlot(SetSlot(f, t, i, v), t, i, f[t][i]) =
         [f EXCEPT ![t] = [[f[t] EXCEPT ![i] = v] EXCEPT ![i] = f[t][i]]]
  BY Zenon DEF SetSlot
<1>3. [f EXCEPT ![t] = f[t]] = f
  OBVIOUS
<1> QED
  BY <1>1, <1>2, <1>3, Zenon

(* What one attempt of try_get_path or try_get_path2 leaves.                *)
LEMMA GetPaths ==
    ASSUME NEW t \in Threads, TypeOK, TreelockCounts, IdsInv, SlotsEmpty,
           slots[t] \in {{1}, {2}, {1, 2}}, got[t] \cap slots[t] = {},
           \A i \in slots[t] : Dir(t, i) \in Dirs
    PROVE  /\ try_get_path2(t) \in [Nodes -> Int]
           /\ GetOutcome(t) = "ok" =>
                 /\ LockState(try_get_path2(t), TakenPath(t), TakenWnode(t))
                 /\ \A i \in slots[t] : ~Stale(Dir(t, i))
           /\ GetOutcome(t) # "ok" => LockState(try_get_path2(t), path, wnode)
           /\ \A n \in Nodes \ ids : try_get_path2(t)[n] = 0
<1>0. /\ treelock \in [Nodes -> Int] /\ path \in Paths /\ wnode \in Wnodes
      /\ LockState(treelock, path, wnode)
  BY Zenon DEF TypeOK, TreelockCounts, Paths, Wnodes
<1>1. \A i \in slots[t] : path[t][i] = {} /\ wnode[t][i] = NoNode
  BY DEF SlotsEmpty
<1>2. \A i \in slots[t] :
         /\ Victim(t, i) \in Nodes \cup {NoNode}
         /\ Victim(t, i) \in Nodes => parent[Victim(t, i)] # NoNode
  BY LookupNode, NodesAssumption DEF Victim, EntryAt, Dirs
<1>3. \A n \in Nodes \ ids :
         /\ treelock[n] = 0 /\ parent[n] = NoNode
         /\ \A i \in slots[t] : n # Victim(t, i)
  BY <1>2, NodesAssumption, Zenon DEF IdsInv, Dirs
<1>4. ASSUME NEW i \in {1, 2}, slots[t] = {i}
      PROVE  /\ try_get_path2(t) \in [Nodes -> Int]
             /\ GetOutcome(t) = "ok" =>
                   /\ LockState(try_get_path2(t), SetSlot(path, t, i, Chain(Dir(t, i))),
                                SetSlot(wnode, t, i, Victim(t, i)))
                   /\ ~Stale(Dir(t, i))
             /\ GetOutcome(t) # "ok" => LockState(try_get_path2(t), path, wnode)
             /\ \A n \in Nodes \ ids : try_get_path2(t)[n] = 0
  <2>1. slots[t] # {1, 2} /\ (CHOOSE j \in {1, 2} : j \in slots[t]) = i
    BY <1>4
  <2>2. /\ try_get_path2(t) = try_get_path(treelock, Dir(t, i), Victim(t, i))
        /\ GetOutcome(t) = Outcome(treelock, Dir(t, i), Victim(t, i))
    BY <2>1, Zenon DEF try_get_path2, GetOutcome, Outcome1, Locks1
  <2>3. /\ path[t][i] = {} /\ wnode[t][i] = NoNode
        /\ Victim(t, i) \in Nodes \cup {NoNode}
    BY <1>1, <1>2, <1>4, Zenon
  <2>4. \A n \in Nodes \ ids : treelock[n] = 0 /\ parent[n] = NoNode /\ n # Victim(t, i)
    BY <1>3, <1>4, Zenon
  <2> QED
    BY <1>0, <2>2, <2>3, <2>4, TryGetPath
<1>5. ASSUME slots[t] = {1, 2}
      PROVE  /\ try_get_path2(t) \in [Nodes -> Int]
             /\ GetOutcome(t) = "ok" =>
                   /\ LockState(try_get_path2(t),
                                SetSlot(SetSlot(path, t, 1, Chain(Dir(t, 1))),
                                        t, 2, Chain(Dir(t, 2))),
                                SetSlot(SetSlot(wnode, t, 1, Victim(t, 1)),
                                        t, 2, Victim(t, 2)))
                   /\ ~Stale(Dir(t, 1)) /\ ~Stale(Dir(t, 2))
             /\ GetOutcome(t) # "ok" => LockState(try_get_path2(t), path, wnode)
             /\ \A n \in Nodes \ ids : try_get_path2(t)[n] = 0
  <2> DEFINE d1 == Dir(t, 1)
             d2 == Dir(t, 2)
             w1 == Victim(t, 1)
             w2 == Victim(t, 2)
             tl1 == try_get_path(treelock, d1, w1)
             pth1 == SetSlot(path, t, 1, Chain(d1))
             wn1 == SetSlot(wnode, t, 1, w1)
             both == try_get_path(tl1, d2, w2)
             out1 == Outcome(treelock, d1, w1)
             out2 == Outcome(tl1, d2, w2)
  <2>1. /\ GetOutcome(t) = IF out1 # "ok" THEN out1 ELSE out2
        /\ out1 # "ok" => try_get_path2(t) = tl1
        /\ out1 = "ok" /\ out2 = "ok" => try_get_path2(t) = both
        /\ out1 = "ok" /\ out2 # "ok" => try_get_path2(t) = unlock_path(both, d1, w1)
    BY <1>5, Zenon DEF try_get_path2, GetOutcome, Outcome1, Locks1
  <2>2. /\ path[t][1] = {} /\ wnode[t][1] = NoNode
        /\ path[t][2] = {} /\ wnode[t][2] = NoNode
        /\ w1 \in Nodes \cup {NoNode} /\ w2 \in Nodes \cup {NoNode}
    BY <1>1, <1>2, <1>5, Zenon
  <2>3. \A n \in Nodes \ ids :
           treelock[n] = 0 /\ parent[n] = NoNode /\ n # w1 /\ n # w2
    BY <1>3, <1>5, Zenon
  <2> HIDE DEF d1, d2, w1, w2
  <2>4. /\ tl1 \in [Nodes -> Int]
        /\ out1 = "ok" => LockState(tl1, pth1, wn1) /\ ~Stale(d1)
        /\ out1 # "ok" => LockState(tl1, path, wnode)
        /\ \A n \in Nodes \ ids : tl1[n] = 0
    BY <1>0, <2>2, <2>3, TryGetPath
  <2>5. Chain(d1) \in SUBSET Nodes
    BY Zenon DEF Chain, ChainOf
  <2>6. /\ pth1 \in Paths /\ wn1 \in Wnodes
        /\ pth1[t][1] = Chain(d1) /\ wn1[t][1] = w1
        /\ pth1[t][2] = {} /\ wn1[t][2] = NoNode
    BY <1>0, <2>2, <2>5 DEF SetSlot, Paths, Wnodes
  <2>7. SetSlot(pth1, t, 1, {}) = path /\ SetSlot(wn1, t, 1, NoNode) = wnode
    BY <1>0, <2>2, SetBack, Zenon DEF Paths, Wnodes
  <2> HIDE DEF tl1, pth1, wn1, out1
  <2>8. ASSUME out1 = "ok"
        PROVE  /\ both \in [Nodes -> Int]
               /\ out2 = "ok" =>
                     /\ LockState(both, SetSlot(pth1, t, 2, Chain(d2)), SetSlot(wn1, t, 2, w2))
                     /\ ~Stale(d2)
               /\ out2 # "ok" => LockState(both, pth1, wn1)
               /\ \A n \in Nodes \ ids : both[n] = 0
    BY <2>2, <2>3, <2>4, <2>6, <2>8, TryGetPath
  <2> HIDE DEF both, out2
  <2>9. ASSUME out1 = "ok", out2 # "ok"
        PROVE  /\ unlock_path(both, d1, w1) \in [Nodes -> Int]
               /\ LockState(unlock_path(both, d1, w1), path, wnode)
               /\ \A n \in Nodes \ ids : unlock_path(both, d1, w1)[n] = 0
    <3>1. unlock_path(both, d1, w1) = Unlocked(both, pth1[t][1], wn1[t][1])
      BY <2>6, Zenon DEF unlock_path, Unlocked
    <3>2. both \in [Nodes -> Int] /\ LockState(both, pth1, wn1)
      BY <2>8, <2>9, Zenon
    <3>3. LockState(unlock_path(both, d1, w1), SetSlot(pth1, t, 1, {}),
                    SetSlot(wn1, t, 1, NoNode))
      BY <2>6, <3>1, <3>2, ReleaseLocks
    <3>6. LockState(unlock_path(both, d1, w1), path, wnode)
      BY <2>7, <3>3, Zenon
    <3>4. \A n \in Nodes \ ids : n \notin Chain(d1)
      BY <2>3, <2>4, <2>9, Zenon DEF Stale
    <3>5. \A n \in Nodes \ ids : unlock_path(both, d1, w1)[n] = 0
      BY <2>6, <2>8, <2>9, <3>1, <3>4 DEF Unlocked
    <3>7. Unlocked(both, pth1[t][1], wn1[t][1]) \in [Nodes -> Int]
      BY <3>2 DEF Unlocked
    <3> QED
      BY <3>1, <3>5, <3>6, <3>7, Zenon
  <2> QED
    BY <2>1, <2>4, <2>8, <2>9, Zenon DEF d1, d2, w1, w2, pth1, wn1
<1>6. CASE slots[t] = {1}
  BY <1>0, <1>4, <1>6, TakenSlots, Zenon
<1>7. CASE slots[t] = {2}
  BY <1>0, <1>4, <1>7, TakenSlots, Zenon
<1>8. CASE slots[t] = {1, 2}
  BY <1>0, <1>5, <1>8, TakenSlots, Zenon
<1> QED
  BY <1>6, <1>7, <1>8, Zenon

(* The path variables of F after free_path.                                 *)
Cleared(f, t, F, v) ==
    [f EXCEPT ![t] = [i \in {1, 2} |-> IF i \in F THEN v ELSE f[t][i]]]

(* Clearing the slots of F is clearing them one after the other.            *)
LEMMA ClearSlots ==
    ASSUME NEW S, NEW f \in [Threads -> [{1, 2} -> S]], NEW v, NEW F,
           NEW t \in Threads
    PROVE  Cleared(f, t, F, v) =
              IF 2 \in F
              THEN SetSlot(IF 1 \in F THEN SetSlot(f, t, 1, v) ELSE f, t, 2, v)
              ELSE IF 1 \in F THEN SetSlot(f, t, 1, v) ELSE f
<1> DEFINE h == [i \in {1, 2} |-> IF i \in F THEN v ELSE f[t][i]]
           h1 == IF 1 \in F THEN [f[t] EXCEPT ![1] = v] ELSE f[t]
           h2 == IF 2 \in F THEN [h1 EXCEPT ![2] = v] ELSE h1
           f1 == IF 1 \in F THEN SetSlot(f, t, 1, v) ELSE f
           f2 == IF 2 \in F THEN SetSlot(f1, t, 2, v) ELSE f1
<1>1. h = h2
  BY Zenon
<1>2. f1 = [f EXCEPT ![t] = h1]
  BY Zenon DEF SetSlot
<1> HIDE DEF h1, f1
<1>3. f2 = [f EXCEPT ![t] = h2]
  BY <1>2, Zenon DEF SetSlot
<1> HIDE DEF h, h2, f2
<1> QED
  BY <1>1, <1>3, Zenon DEF h, f1, f2, Cleared

(* free_path, free_path_wrlock, free_path2.                                 *)
LEMMA FreePaths ==
    ASSUME NEW t \in Threads, TypeOK, TreelockCounts, PathStable, IdsInv, free_path(t)
    PROVE  /\ treelock' \in [Nodes -> Int]
           /\ TreelockCounts'
           /\ \A n \in Nodes \ ids : treelock'[n] = 0
<1> DEFINE F == Freed(t)
           C(i) == path[t][i]
           w(i) == wnode[t][i]
           step(tl, i) == IF i \in F THEN Unlocked(tl, C(i), w(i)) ELSE tl
           tl1 == step(treelock, 1)
           pth1 == IF 1 \in F THEN SetSlot(path, t, 1, {}) ELSE path
           wn1 == IF 1 \in F THEN SetSlot(wnode, t, 1, NoNode) ELSE wnode
<1>0. /\ treelock \in [Nodes -> Int] /\ path \in Paths /\ wnode \in Wnodes
      /\ LockState(treelock, path, wnode)
  BY Zenon DEF TypeOK, TreelockCounts, Paths, Wnodes
<1>1. F \subseteq got[t] /\ got[t] \subseteq {1, 2}
  BY Zenon DEF Freed, TypeOK
<1>2. \A i \in F : C(i) = Chain(Dir(t, i)) /\ \A n \in C(i) : parent[n] # NoNode
  BY <1>1 DEF PathStable, Stale
<1>3. treelock' = step(step(treelock, 1), 2)
  BY <1>2 DEF free_path, unlock_path, Unlocked
<1>4. path' = Cleared(path, t, F, {}) /\ wnode' = Cleared(wnode, t, F, NoNode)
  BY Zenon DEF free_path, Cleared
<1>5. \A n \in Nodes \ ids : treelock[n] = 0 /\ \A i \in F : n \notin C(i)
  BY <1>2, Zenon DEF IdsInv
<1> HIDE DEF F
<1>6. /\ tl1 \in [Nodes -> Int] /\ LockState(tl1, pth1, wn1)
      /\ pth1 \in Paths /\ wn1 \in Wnodes
      /\ pth1[t][2] = C(2) /\ wn1[t][2] = w(2)
      /\ \A n \in Nodes \ ids : tl1[n] = 0
  <2>1. CASE 1 \notin F
    BY <1>0, <1>5, <2>1, Zenon
  <2>2. CASE 1 \in F
    <3>1. tl1 = Unlocked(treelock, path[t][1], wnode[t][1])
          /\ pth1 = SetSlot(path, t, 1, {}) /\ wn1 = SetSlot(wnode, t, 1, NoNode)
      BY <2>2, Zenon
    <3>2. LockState(tl1, pth1, wn1)
      BY <1>0, <3>1, ReleaseLocks, Zenon
    <3>3. /\ pth1 \in Paths /\ wn1 \in Wnodes
          /\ pth1[t][2] = C(2) /\ wn1[t][2] = w(2)
      BY <1>0, <3>1 DEF SetSlot, Paths, Wnodes
    <3>4. tl1 \in [Nodes -> Int] /\ \A n \in Nodes \ ids : tl1[n] = 0
      BY <1>0, <1>5, <2>2, <3>1 DEF Unlocked
    <3> QED
      BY <3>2, <3>3, <3>4, Zenon
  <2> QED
    BY <2>1, <2>2, Zenon
<1>7. /\ 2 \notin F => path' = pth1 /\ wnode' = wn1
      /\ 2 \in F => path' = SetSlot(pth1, t, 2, {}) /\ wnode' = SetSlot(wn1, t, 2, NoNode)
  <2>1. path' = IF 2 \in F THEN SetSlot(pth1, t, 2, {}) ELSE pth1
    BY <1>0, <1>4, ClearSlots, Zenon DEF Paths
  <2>2. wnode' = IF 2 \in F THEN SetSlot(wn1, t, 2, NoNode) ELSE wn1
    BY <1>0, <1>4, ClearSlots, Zenon DEF Wnodes
  <2> QED
    BY <2>1, <2>2, Zenon
<1>8. /\ 2 \notin F => treelock' = tl1
      /\ 2 \in F => treelock' = Unlocked(tl1, pth1[t][2], wn1[t][2])
  BY <1>3, <1>6, Zenon
<1> HIDE DEF tl1, pth1, wn1
<1>9. CASE 2 \notin F
  BY <1>6, <1>7, <1>8, <1>9, Zenon DEF TreelockCounts
<1>10. CASE 2 \in F
  <2>1. LockState(treelock', path', wnode')
    BY <1>6, <1>7, <1>8, <1>10, ReleaseLocks, Zenon
  <2>2. treelock' \in [Nodes -> Int] /\ \A n \in Nodes \ ids : treelock'[n] = 0
    BY <1>5, <1>6, <1>8, <1>10 DEF Unlocked
  <2> QED
    BY <2>1, <2>2, Zenon DEF TreelockCounts
<1> QED
  BY <1>9, <1>10, Zenon

-----------------------------------------------------------------------------
(* Types.                                                                   *)

(* Leaves that need arithmetic or records cite SMT; the others are Zenon's. *)
USE ZenonT(30)

AllOps == Ops \cup Answered \cup {"unlink_hidden"}

(* What Goto and GotoAs leave of the types of the thread's control.         *)
ControlType ==
    /\ pc \in [Threads -> Labels]
    /\ req \in [Threads -> RequestType(AllOps)]
    /\ slots \in [Threads -> SUBSET {1, 2}]
    /\ ino \in [Threads -> Dirs \cup {NoNode}]

(* An idle thread's request has the type of a request.                      *)
LEMMA NoReqType == NoReq \in RequestType(AllOps)
BY SMTT(30) DEF NoReq, RequestType, AllOps, Answered

(* Goto keeps the types of the control variables.                           *)
LEMMA GotoType ==
    ASSUME ControlType, NEW t \in Threads, NEW l \in Labels, Goto(t, l)
    PROVE  ControlType'
BY NoReqType DEF ControlType, Goto

(* So does GotoAs.                                                          *)
LEMMA GotoAsType ==
    ASSUME ControlType, NEW t \in Threads, NEW l \in Labels, NEW op \in AllOps,
           GotoAs(t, l, op)
    PROVE  ControlType'
<1>1. [req[t] EXCEPT !.op = op] \in RequestType(AllOps)
  BY SMTT(30) DEF ControlType, RequestType
<1> QED
  BY <1>1 DEF ControlType, GotoAs

(* The variables of the node table and the path locks.                      *)
TableType ==
    /\ ids \subseteq Nodes
    /\ parent \in [Nodes -> Dirs \cup {NoNode}]
    /\ name \in [Nodes -> AllNames \cup {NoName}]
    /\ nlookup \in [Dirs -> Int] /\ refctr \in [Dirs -> Int]
    /\ open_count \in [Nodes -> Int]
    /\ is_hidden \subseteq Nodes /\ fshidden \subseteq Nodes
    /\ klookup \in [Nodes -> Int] /\ kopen \in [Nodes -> Int]

(* The types of the lock variables, and of the three groups together.       *)
LockType ==
    /\ treelock \in [Nodes -> Int]
    /\ lockq \in Seq(Threads) /\ wake \in Seq(Threads)
    /\ mutex \in Threads \cup {NoThread}
    /\ qdone \in [Threads -> {"no", "ok", "stale"}]
    /\ got \in [Threads -> SUBSET {1, 2}]
    /\ path \in Paths /\ wnode \in Wnodes

(* TypeOK is the conjunction of its three groups.                           *)
LEMMA TypeParts ==
    /\ TypeOK <=> TableType /\ LockType /\ ControlType
    /\ TypeOK' <=> TableType' /\ LockType' /\ ControlType'
BY DEF TypeOK, TableType, LockType, ControlType, Paths, Wnodes, AllOps

(* A step that leaves a part of the state alone keeps its type.             *)
LEMMA TableKept ==
    ASSUME TableType, UNCHANGED <<tree, counts, opens, kernel>>
    PROVE  TableType'
BY DEF TableType, tree, counts, opens, kernel

(* A step that leaves the locks, the queue and the paths alone.             *)
LEMMA LockKept ==
    ASSUME LockType, UNCHANGED <<treelock, queue, held>>
    PROVE  LockType'
BY DEF LockType, queue, held

(* The arguments of a request.                                              *)
LEMMA ArgTypes ==
    ASSUME ControlType, NEW t \in Threads
    PROVE  /\ req[t] \in RequestType(AllOps)
           /\ req[t].d1 \in Dirs \cup {NoNode} /\ req[t].d2 \in Dirs \cup {NoNode}
           /\ req[t].n1 \in AllNames \cup {NoName}
           /\ req[t].n2 \in AllNames \cup {NoName}
           /\ req[t].h \in AllNames \cup {NoName}
           /\ req[t].k \in Int
           /\ \A i \in {1, 2} : /\ Dir(t, i) \in Dirs \cup {NoNode}
                                /\ NameArg(t, i) \in AllNames \cup {NoName}
BY DEF ControlType, RequestType, Dir, NameArg, AllNames

(* The lock operations return locks, whether or not they succeed.           *)
LEMMA LocksTyped ==
    ASSUME treelock \in [Nodes -> Int], NEW t \in Threads
    PROVE  try_get_path2(t) \in [Nodes -> Int]
<1>1. \A tl \in [Nodes -> Int] : \A d, w :
         try_get_path(tl, d, w) \in [Nodes -> Int]
  BY SMTT(30), Offset DEF try_get_path
<1>2. \A tl \in [Nodes -> Int] : \A d, w :
         unlock_path(tl, d, w) \in [Nodes -> Int]
  BY SMTT(30) DEF unlock_path
<1>3. \A i : Locks1(t, i) \in [Nodes -> Int]
  BY <1>1 DEF Locks1
<1> QED
  BY <1>1, <1>2, <1>3 DEF try_get_path2

(* The path variables a successful try_get_path2 sets have their types.     *)
LEMMA TakenTypes ==
    ASSUME path \in Paths, wnode \in Wnodes, NEW t \in Threads
    PROVE  TakenPath(t) \in Paths /\ TakenWnode(t) \in Wnodes
<1>1. \A i : Chain(Dir(t, i)) \in SUBSET Nodes
  BY DEF Chain, ChainOf
<1>2. \A i : Victim(t, i) \in Nodes \cup {NoNode}
  BY LookupNode DEF Victim
<1> QED
  BY <1>1, <1>2 DEF TakenPath, TakenWnode, Paths, Wnodes

(* The same of the step that sets them.                                     *)
LEMMA SetPathsType ==
    ASSUME got \in [Threads -> SUBSET {1, 2}], path \in Paths, wnode \in Wnodes,
           slots \in [Threads -> SUBSET {1, 2}], NEW t \in Threads, SetPaths(t)
    PROVE  got' \in [Threads -> SUBSET {1, 2}] /\ path' \in Paths /\ wnode' \in Wnodes
<1>1. path' = TakenPath(t) /\ wnode' = TakenWnode(t)
  BY DEF SetPaths, TakenPath, TakenWnode
<1>2. got' \in [Threads -> SUBSET {1, 2}]
  BY DEF SetPaths
<1> QED
  BY <1>1, <1>2, TakenTypes

(* A handler that has its path goes on with well-typed control.             *)
LEMMA GetReturnsType ==
    ASSUME ControlType, NEW t \in Threads, NEW outcome, GetReturns(t, outcome)
    PROVE  ControlType'
<1>1. CASE req[t].op = "copy_file_range" /\ slots[t] = {1}
  BY SMTT(30), <1>1 DEF GetReturns, ControlType, Labels
<1>2. CASE ~(req[t].op = "copy_file_range" /\ slots[t] = {1})
  <2>1. AfterGet(t, outcome) \in Labels
    BY DEF AfterGet, Labels
  <2> QED
    BY <1>2, <2>1, GotoType DEF GetReturns
<1> QED
  BY <1>1, <1>2

(* The queue without the element that dequeue_path removes.                 *)
LEMMA DequeueType ==
    ASSUME LockType, NEW t \in Threads, dequeue_path(t)
    PROVE  /\ lockq' \in Seq(Threads)
           /\ qdone' \in [Threads -> {"no", "ok", "stale"}]
           /\ \E k \in 1..Len(lockq) :
                 /\ lockq[k] = t /\ Len(lockq') = Len(lockq) - 1
                 /\ \A j \in 1..Len(lockq') :
                       lockq'[j] = lockq[IF j < k THEN j ELSE j + 1]
<1>1. PICK k \in 1..Len(lockq) :
         /\ lockq[k] = t
         /\ lockq' = [j \in 1..(Len(lockq) - 1) |-> lockq[IF j < k THEN j ELSE j + 1]]
         /\ qdone' = [qdone EXCEPT ![t] = "no"]
  BY DEF dequeue_path
<1>2. Len(lockq) \in Nat \ {0} /\ \A j \in 1..Len(lockq) : lockq[j] \in Threads
  BY SMTT(30) DEF LockType
<1>3. \A j \in 1..(Len(lockq) - 1) : lockq[IF j < k THEN j ELSE j + 1] \in Threads
  BY SMTT(30), <1>2
<1>4. lockq' \in [1..(Len(lockq) - 1) -> Threads] /\ Len(lockq) - 1 \in Nat
  BY SMTT(30), <1>1, <1>2, <1>3
<1>5. lockq' \in Seq(Threads) /\ Len(lockq') = Len(lockq) - 1
  BY SMTT(30), <1>4
<1>6. qdone' \in [Threads -> {"no", "ok", "stale"}]
  BY <1>1 DEF LockType
<1> QED
  BY <1>1, <1>5, <1>6

(* find_node, remove_node, rename_node and exchange_node keep the types.    *)
LEMMA FindNodeType ==
    ASSUME TableType, NEW t \in Threads, ino \in [Threads -> Dirs \cup {NoNode}],
           NEW d \in Dirs \cup {NoNode}, NEW nm \in AllNames \cup {NoName},
           find_node(t, d, nm), UNCHANGED <<opens, kernel>>
    PROVE  TableType' /\ ino' \in [Threads -> Dirs \cup {NoNode}]
<1> DEFINE n == lookup_node(d, nm)
<1> HIDE DEF n
<1>1. \/ /\ n \in Nodes
         /\ refctr' = IF nlookup[n] = 0 THEN [refctr EXCEPT ![n] = @ + 1]
                      ELSE refctr
         /\ nlookup' = [nlookup EXCEPT ![n] = @ + 1]
         /\ ino' = [ino EXCEPT ![t] = n]
         /\ UNCHANGED <<tree, ids>>
      \/ \E m \in Nodes :
           /\ ids' = ids \cup {m}
           /\ parent' = [parent EXCEPT ![m] = d]
           /\ name' = [name EXCEPT ![m] = nm]
           /\ refctr' = [refctr EXCEPT ![m] = 1, ![d] = @ + 1]
           /\ nlookup' = [nlookup EXCEPT ![m] = 1]
           /\ ino' = [ino EXCEPT ![t] = m]
  BY DEF find_node, n
<1> QED
  BY SMTT(30), <1>1 DEF TableType, opens, kernel, tree, Dirs

(* remove_node keeps the types of the name table.                           *)
LEMMA RemoveNodeType ==
    ASSUME TableType, NEW d, NEW nm, remove_node(d, nm)
    PROVE  /\ parent' \in [Nodes -> Dirs \cup {NoNode}]
           /\ name' \in [Nodes -> AllNames \cup {NoName}]
           /\ refctr' \in [Dirs -> Int]
BY SMTT(30) DEF remove_node, TableType, tree

(* rename_node keeps the types of the name table.                           *)
LEMMA RenameNodeType ==
    ASSUME TableType, NEW od \in Dirs \cup {NoNode}, NEW on,
           NEW nd \in Dirs \cup {NoNode}, NEW nn \in AllNames \cup {NoName},
           rename_node(od, on, nd, nn)
    PROVE  /\ parent' \in [Nodes -> Dirs \cup {NoNode}]
           /\ name' \in [Nodes -> AllNames \cup {NoName}]
           /\ refctr' \in [Dirs -> Int]
BY SMTT(30) DEF rename_node, TableType, tree

(* exchange_node keeps the types of the name table.                         *)
LEMMA ExchangeNodeType ==
    ASSUME TableType, NEW od \in Dirs \cup {NoNode}, NEW on \in AllNames \cup {NoName},
           NEW nd \in Dirs \cup {NoNode}, NEW nn \in AllNames \cup {NoName},
           exchange_node(od, on, nd, nn)
    PROVE  /\ parent' \in [Nodes -> Dirs \cup {NoNode}]
           /\ name' \in [Nodes -> AllNames \cup {NoName}]
           /\ refctr' \in [Dirs -> Int]
<1>1. /\ parent' \in [Nodes -> Dirs \cup {NoNode}]
      /\ name' \in [Nodes -> AllNames \cup {NoName}]
  BY DEF exchange_node, TableType
<1> DEFINE Counters == [Dirs -> Int]
           less(rc, x) == [rc EXCEPT ![x] = @ - 1]
           more(rc, x) == [rc EXCEPT ![x] = @ + 1]
<1>2. ASSUME NEW rc \in Counters, NEW x
      PROVE  less(rc, x) \in Counters /\ more(rc, x) \in Counters
  <2>1. CASE x \in Dirs
    <3>1. rc[x] - 1 \in Int /\ rc[x] + 1 \in Int
      BY SMTT(30), <2>1
    <3> QED
      BY <2>1, <3>1
  <2>2. CASE x \notin Dirs
    <3>1. less(rc, x) = rc /\ more(rc, x) = rc
      BY <2>2
    <3> QED
      BY <3>1
  <2> QED
    BY <2>1, <2>2
<1> DEFINE rc1 == IF lookup_node(od, on) = NoNode THEN refctr
                  ELSE more(less(refctr, od), nd)
<1>3. refctr' = IF lookup_node(nd, nn) = NoNode THEN rc1
                ELSE more(less(rc1, nd), od)
  BY DEF exchange_node
<1>4. refctr \in Counters
  BY DEF TableType
<1> HIDE DEF Counters, less, more
<1>5. refctr' \in Counters
  BY <1>2, <1>3, <1>4
<1> QED
  BY <1>1, <1>5 DEF Counters

-----------------------------------------------------------------------------
(* A step that changes only the control of its thread.                      *)
Quiet == UNCHANGED <<tree, counts, treelock, opens, queue, held, kernel>>

(* The steps that change nothing but the thread's own control.              *)
QuietStep(t) ==
    \/ free_null(t) \/ fs_fails(t) \/ open_fails(t) \/ create_not_regular(t)
    \/ reply_open_interrupted(t) \/ check_open(t) \/ hidden_name(t)
    \/ recheck_open(t) \/ copy_file_range(t)

(* They leave the tables, the locks and the paths alone.                    *)
LEMMA QuietStepIsQuiet ==
    ASSUME NEW t \in Threads, QuietStep(t)
    PROVE  Quiet
BY DEF QuietStep, Quiet, free_null, fs_fails, open_fails, create_not_regular,
       reply_open_interrupted, check_open, hidden_name, recheck_open,
       copy_file_range

(* They keep the types.                                                     *)
LEMMA QuietType ==
    ASSUME TypeOK, NEW t \in Threads, QuietStep(t)
    PROVE  TypeOK'
<1>1. TableType /\ LockType /\ ControlType
  BY TypeParts
<1>2. TableType' /\ LockType'
  BY <1>1, QuietStepIsQuiet, TableKept, LockKept DEF Quiet
<1>3. ControlType'
  <2>1. CASE free_null(t)
    <3>1. AfterFree(t) \in Labels
      BY DEF AfterFree, Labels
    <3> QED
      BY <1>1, <2>1, <3>1, GotoType DEF free_null
  <2>2. CASE fs_fails(t) \/ create_not_regular(t) \/ check_open(t)
    <3>1. "free" \in Labels /\ "forget" \in Labels /\ "hide" \in Labels
      BY DEF Labels
    <3> QED
      BY <1>1, <2>2, <3>1, GotoType DEF fs_fails, create_not_regular, check_open
  <2>3. CASE open_fails(t) \/ copy_file_range(t)
    <3>1. "free" \in Labels /\ "answered" \in AllOps
      BY DEF Labels, AllOps, Answered
    <3> QED
      BY <1>1, <2>3, <3>1, GotoAsType DEF open_fails, copy_file_range
  <2>4. CASE reply_open_interrupted(t)
    <3>1. "rel" \in Labels /\ "interrupted_create" \in AllOps
          /\ "interrupted_open" \in AllOps
      BY DEF Labels, AllOps, Answered
    <3> QED
      BY <1>1, <2>4, <3>1, GotoAsType DEF reply_open_interrupted
  <2>5. CASE hidden_name(t)
    <3>1. CASE Goto(t, "free")
      <4>1. "free" \in Labels
        BY DEF Labels
      <4> QED
        BY <1>1, <3>1, <4>1, GotoType
    <3>2. ASSUME NEW h \in HiddenNames,
                 req' = [req EXCEPT ![t].h = h],
                 pc' = [pc EXCEPT ![t] = "hiding"],
                 UNCHANGED <<ino, slots>>
          PROVE  ControlType'
      <4>1. [req[t] EXCEPT !.h = h] \in RequestType(AllOps)
        BY SMTT(30), <1>1 DEF ControlType, RequestType
      <4> QED
        BY <1>1, <3>2, <4>1 DEF ControlType, Labels
    <3> QED
      BY <2>5, <3>1, <3>2 DEF hidden_name
  <2>6. CASE recheck_open(t)
    <3>1. "free" \in Labels /\ "rmhidden" \in Labels
      BY DEF Labels
    <3>2. Goto(t, "free") \/ Goto(t, "rmhidden")
      BY <2>6 DEF recheck_open
    <3> QED
      BY <1>1, <3>1, <3>2, GotoType
  <2> QED
    BY <2>1, <2>2, <2>3, <2>4, <2>5, <2>6 DEF QuietStep
<1> QED
  BY <1>2, <1>3, TypeParts

(* The steps that take, release or wait for paths.                          *)
LEMMA GetPathType ==
    ASSUME TypeOK, NEW t \in Threads, get_path_common(t)
    PROVE  TypeOK'
<1>1. TableType /\ LockType /\ ControlType
  BY TypeParts
<1>2. TableType'
  BY <1>1, TableKept DEF get_path_common
<1>3. treelock' \in [Nodes -> Int]
  BY <1>1, LocksTyped DEF LockType, get_path_common
<1>4. CASE GetOutcome(t) = "again"
  <2>0. lockq' = Append(lockq, t) /\ lockq \in Seq(Threads)
    BY <1>1, <1>4 DEF get_path_common, LockType
  <2>1. ControlType'
    BY <1>1, <1>4 DEF get_path_common, ControlType, Labels
  <2>2. LockType'
    BY SMTT(30), <1>1, <1>3, <1>4, <2>0 DEF get_path_common, LockType, held
  <2> QED
    BY <1>2, <2>1, <2>2, TypeParts
<1>5. CASE GetOutcome(t) # "again"
  <2>1. SetPaths(t) \/ UNCHANGED held
    BY <1>5 DEF get_path_common
  <2>2. /\ got' \in [Threads -> SUBSET {1, 2}]
        /\ path' \in Paths /\ wnode' \in Wnodes
    BY <1>1, <2>1, SetPathsType DEF LockType, ControlType, held
  <2>3. LockType'
    BY <1>1, <1>3, <1>5, <2>2 DEF get_path_common, LockType
  <2>4. ControlType'
    BY <1>1, <1>5, GetReturnsType DEF get_path_common
  <2> QED
    BY <1>2, <2>3, <2>4, TypeParts
<1> QED
  BY <1>4, <1>5

(* A thread that leaves the queue in wait_path keeps the types.             *)
LEMMA WaitPathType ==
    ASSUME TypeOK, NEW t \in Threads, wait_path(t)
    PROVE  TypeOK'
<1>1. TableType /\ LockType /\ ControlType
  BY TypeParts
<1>2. TableType'
  BY <1>1, TableKept DEF wait_path
<1>3. lockq' \in Seq(Threads) /\ qdone' \in [Threads -> {"no", "ok", "stale"}]
  BY <1>1, DequeueType DEF wait_path
<1>4. LockType'
  BY <1>1, <1>3 DEF wait_path, LockType, held
<1>5. ControlType'
  BY <1>1, GetReturnsType DEF wait_path
<1> QED
  BY <1>2, <1>4, <1>5, TypeParts

(* free_path keeps the types.                                               *)
LEMMA FreePathType ==
    ASSUME TypeOK, NEW t \in Threads, free_path(t)
    PROVE  TypeOK'
<1>1. TableType /\ LockType /\ ControlType
  BY TypeParts
<1>2. TableType'
  BY <1>1, TableKept DEF free_path
<1>3. treelock' \in [Nodes -> Int]
  <2>1. \A tl \in [Nodes -> Int] : \A d, w :
           unlock_path(tl, d, w) \in [Nodes -> Int]
    BY SMTT(30) DEF unlock_path
  <2> QED
    BY <1>1, <2>1 DEF free_path, LockType
<1>4. /\ got' \in [Threads -> SUBSET {1, 2}]
      /\ path' \in Paths /\ wnode' \in Wnodes
  BY SMTT(30), <1>1 DEF free_path, LockType, Paths, Wnodes
<1>5. CASE lockq # <<>>
  <2>1. ControlType' /\ mutex' = t /\ wake' = lockq
    BY <1>1, <1>5 DEF free_path, ControlType, Labels
  <2> QED
    BY <1>1, <1>2, <1>3, <1>4, <2>1, TypeParts DEF free_path, LockType
<1>6. CASE lockq = <<>>
  <2>1. AfterFree(t) \in Labels /\ "free" \in Labels
    BY DEF AfterFree, Labels
  <2>2. ControlType'
    BY <1>1, <1>6, <2>1, GotoType DEF free_path
  <2>3. UNCHANGED <<mutex, wake, lockq, qdone>>
    BY <1>6 DEF free_path
  <2> QED
    BY <1>1, <1>2, <1>3, <1>4, <2>2, <2>3, TypeParts DEF LockType
<1> QED
  BY <1>5, <1>6

(* The element a waker looks at is a waiting thread.                        *)
LEMMA WakeHead ==
    ASSUME TypeOK, QueueInv, NEW t \in Threads, wake_up_queued(t)
    PROVE  /\ Head(wake) \in Threads /\ Waiting(Head(wake)) /\ Head(wake) # t
           /\ wake # <<>> /\ Tail(wake) \in Seq(Threads)
           /\ mutex = t /\ pc[t] = "waking"
<1>1. pc[t] = "waking" /\ mutex = t /\ wake # <<>> /\ wake \in Seq(Threads)
  BY DEF QueueInv, TypeOK, wake_up_queued
<1>2. Len(wake) \in Nat \ {0} /\ Head(wake) = wake[1]
  BY SMTT(30), <1>1
<1>3. Head(wake) \in Threads /\ Waiting(Head(wake)) /\ Tail(wake) \in Seq(Threads)
  BY SMTT(30), <1>1, <1>2 DEF QueueInv
<1> QED
  BY <1>1, <1>3 DEF Waiting

(* A round of wake_up_queued keeps the types: the element it looks at is    *)
(* the one of a thread.                                                     *)
LEMMA WakeType ==
    ASSUME TypeOK, QueueInv, NEW t \in Threads, wake_up_queued(t)
    PROVE  TypeOK'
<1> DEFINE q == Head(wake)
<1>1. TableType /\ LockType /\ ControlType
  BY TypeParts
<1>2. q \in Threads /\ Tail(wake) \in Seq(Threads)
  BY WakeHead
<1>3. TableType'
  BY <1>1, TableKept DEF wake_up_queued
<1>4. queue_element_wakeup(q)
  BY DEF wake_up_queued
<1>5. try_get_path2(q) \in [Nodes -> Int]
  BY <1>1, <1>2, LocksTyped DEF LockType
<1>6. GetOutcome(q) \in {"again", "stale", "ok"}
  BY DEF GetOutcome, Outcome1, Outcome
<1> HIDE DEF q
<1>7. /\ treelock' \in [Nodes -> Int]
      /\ qdone' \in [Threads -> {"no", "ok", "stale"}]
      /\ SetPaths(q) \/ UNCHANGED held
  BY <1>1, <1>4, <1>5, <1>6 DEF queue_element_wakeup, LockType
<1>8. /\ got' \in [Threads -> SUBSET {1, 2}]
      /\ path' \in Paths /\ wnode' \in Wnodes
  BY <1>1, <1>2, <1>7, SetPathsType DEF LockType, ControlType, held
<1>9. ControlType' /\ mutex' \in Threads \cup {NoThread}
  <2>1. AfterFree(t) \in Labels /\ "free" \in Labels
    BY DEF AfterFree, Labels
  <2>2. CASE Tail(wake) # <<>>
    BY <1>1, <2>2 DEF wake_up_queued, ControlType, LockType
  <2>3. CASE Tail(wake) = <<>>
    <3>1. Goto(t, AfterFree(t)) \/ Goto(t, "free")
      BY <2>3 DEF wake_up_queued
    <3> QED
      BY <1>1, <2>1, <2>3, <3>1, GotoType DEF wake_up_queued
  <2> QED
    BY <2>2, <2>3
<1>10. UNCHANGED lockq /\ wake' = Tail(wake)
  BY DEF wake_up_queued
<1> QED
  BY <1>1, <1>2, <1>3, <1>7, <1>8, <1>9, <1>10, TypeParts DEF LockType

(* The steps that change counts but no entry.                               *)
LEMMA ReceiveType ==
    ASSUME TypeOK, NEW t \in Threads, Receive(t)
    PROVE  TypeOK'
<1>1. TableType /\ LockType /\ ControlType
  BY TypeParts
<1>2. LockType'
  BY <1>1, LockKept DEF Receive
<1>3. PICK r \in Requests :
         /\ KernelMay(r)
         /\ req' = [req EXCEPT ![t] = IF r.op = "forget"
                       THEN [r EXCEPT !.k = klookup[r.d1]]
                       ELSE [r EXCEPT !.v = Pinned(r)]]
         /\ pc' = [pc EXCEPT ![t] =
               CASE r.op = "forget" -> "forget"
                 [] NullpathOk /\ r.op = "release" -> "rel"
                 [] NullpathOk /\ r.op = "read" -> "free"
                 [] NullpathOk /\ r.op = "copy_file_range" -> "op"
                 [] OTHER -> "get"]
         /\ slots' = [slots EXCEPT ![t] =
               IF r.op \in TwoPathOps THEN {1, 2} ELSE {1}]
         /\ ino' = IF r.op = "forget" THEN [ino EXCEPT ![t] = r.d1] ELSE ino
         /\ klookup' = IF r.op = "forget" THEN [klookup EXCEPT ![r.d1] = 0]
                       ELSE klookup
         /\ kopen' = IF r.op = "release" THEN [kopen EXCEPT ![r.d1] = @ - 1]
                     ELSE kopen
  BY DEF Receive
<1>4. r \in RequestType(Ops) /\ r.d1 \in Dirs \cup {NoNode}
  BY RequestsAssumption DEF RequestType
<1>5. r.op \in {"forget", "release"} => r.d1 \in Nodes
  BY <1>3 DEF KernelMay
<1>6. [r EXCEPT !.v = Pinned(r)] \in RequestType(AllOps)
  <2>1. Pinned(r) \in SUBSET Nodes
    BY DEF Pinned
  <2> QED
    BY <1>4, <2>1 DEF RequestType, AllOps
<1>7. r.op = "forget" => [r EXCEPT !.k = klookup[r.d1]] \in RequestType(AllOps)
  <2>1. r.op = "forget" => klookup[r.d1] \in Int
    BY <1>1, <1>5 DEF TableType
  <2> QED
    BY <1>4, <2>1 DEF RequestType, AllOps
<1>8. req' \in [Threads -> RequestType(AllOps)]
  BY <1>1, <1>3, <1>6, <1>7 DEF ControlType
<1>9. pc' \in [Threads -> Labels] /\ slots' \in [Threads -> SUBSET {1, 2}]
      /\ ino' \in [Threads -> Dirs \cup {NoNode}]
  BY <1>1, <1>3, <1>4 DEF ControlType, Labels
<1>10. klookup' \in [Nodes -> Int] /\ kopen' \in [Nodes -> Int]
  <2>1. r.op = "release" => kopen[r.d1] - 1 \in Int
    BY SMTT(30), <1>1, <1>5 DEF TableType
  <2>2. /\ kopen' = kopen \/ /\ r.op = "release"
                             /\ kopen' = [kopen EXCEPT ![r.d1] = kopen[r.d1] - 1]
        /\ klookup' = klookup \/ klookup' = [klookup EXCEPT ![r.d1] = 0]
    BY <1>3
  <2> QED
    BY SMTT(30), <1>1, <2>1, <2>2 DEF TableType
<1>11. UNCHANGED <<tree, counts, opens>>
  BY DEF Receive
<1>12. TableType'
  BY <1>1, <1>10, <1>11 DEF TableType, tree, counts, opens
<1> QED
  BY <1>2, <1>8, <1>9, <1>12, TypeParts DEF ControlType

(* forget_node's bookkeeping keeps the types.                               *)
LEMMA DropLookupsType ==
    ASSUME TypeOK, NEW t \in Threads, DropLookups(t)
    PROVE  /\ nlookup' \in [Dirs -> Int] /\ mutex' \in Threads \cup {NoThread}
           /\ ControlType'
<1>1. TableType /\ LockType /\ ControlType
  BY TypeParts
<1>2. ForgetCount(t) \in Int
  BY SMTT(30), <1>1, ArgTypes DEF ForgetCount
<1>3. nlookup' \in [Dirs -> Int] /\ mutex' \in Threads \cup {NoThread}
  <2>1. CASE ino[t] \in Dirs
    <3>1. nlookup[ino[t]] - ForgetCount(t) \in Int
      BY SMTT(30), <1>1, <1>2, <2>1 DEF TableType
    <3> QED
      BY <1>1, <3>1 DEF DropLookups, TableType, LockType
  <2>2. CASE ino[t] \notin Dirs
    BY <1>1, <2>2 DEF DropLookups, TableType, LockType
  <2> QED
    BY <2>1, <2>2
<1>4. "unref" \in Labels /\ AfterForget(t) \in Labels
  BY DEF AfterForget, Labels
<1>5. Goto(t, "unref") \/ Goto(t, AfterForget(t))
  BY DEF DropLookups
<1> QED
  BY <1>1, <1>3, <1>4, <1>5, GotoType

(* forget_node, blocked or not, keeps the types.                            *)
LEMMA ForgetType ==
    ASSUME TypeOK, NEW t \in Threads, forget_node(t) \/ forget_wakeup(t)
    PROVE  TypeOK'
<1>1. TableType /\ LockType /\ ControlType
  BY TypeParts
<1>2. CASE forget_node(t) /\ ForgetBlocked(t)
  <2>1. lockq' = Append(lockq, t) /\ lockq \in Seq(Threads)
    BY <1>1, <1>2 DEF forget_node, LockType
  <2>2. ControlType'
    BY <1>1, <1>2 DEF forget_node, ControlType, Labels
  <2>3. LockType'
    BY SMTT(30), <1>1, <1>2, <2>1 DEF forget_node, LockType, held
  <2>4. TableType'
    BY <1>1, <1>2 DEF forget_node, TableType, tree, opens, kernel
  <2> QED
    BY <2>2, <2>3, <2>4, TypeParts
<1>3. CASE forget_node(t) /\ ~ForgetBlocked(t)
  <2>1. DropLookups(t) /\ UNCHANGED lockq
    BY <1>3 DEF forget_node
  <2>2. /\ nlookup' \in [Dirs -> Int] /\ mutex' \in Threads \cup {NoThread}
        /\ ControlType'
    BY <2>1, DropLookupsType
  <2>3. LockType'
    BY <1>1, <1>3, <2>1, <2>2 DEF forget_node, LockType, held
  <2>4. TableType'
    BY <1>1, <1>3, <2>2 DEF forget_node, TableType, tree, opens, kernel
  <2> QED
    BY <2>2, <2>3, <2>4, TypeParts
<1>4. CASE forget_wakeup(t) /\ ForgetBlocked(t)
  <2>1. ControlType'
    BY <1>1, <1>4 DEF forget_wakeup, ControlType
  <2>2. LockType'
    BY <1>1, <1>4 DEF forget_wakeup, LockType, held
  <2>3. TableType'
    BY <1>1, <1>4 DEF forget_wakeup, TableType, tree, opens, kernel
  <2> QED
    BY <2>1, <2>2, <2>3, TypeParts
<1>5. CASE forget_wakeup(t) /\ ~ForgetBlocked(t)
  <2>1. DropLookups(t) /\ dequeue_path(t)
    BY <1>5 DEF forget_wakeup
  <2>2. /\ nlookup' \in [Dirs -> Int] /\ mutex' \in Threads \cup {NoThread}
        /\ ControlType'
    BY <2>1, DropLookupsType
  <2>3. lockq' \in Seq(Threads) /\ qdone' \in [Threads -> {"no", "ok", "stale"}]
    BY <1>1, <2>1, DequeueType
  <2>4. LockType'
    BY <1>1, <1>5, <2>2, <2>3 DEF forget_wakeup, LockType, held
  <2>5. TableType'
    BY <1>1, <1>5, <2>2 DEF forget_wakeup, TableType, tree, opens, kernel
  <2> QED
    BY <2>2, <2>4, <2>5, TypeParts
<1> QED
  BY <1>2, <1>3, <1>4, <1>5

(* reply_entry, count_open, reply_open, fuse_do_release, release_unlink.    *)
HandleStep(t) ==
    \/ reply_entry(t) \/ count_open(t) \/ reply_open(t)
    \/ fuse_do_release(t) \/ release_unlink(t)

(* Adding to a counter of a node leaves a counter.                          *)
LEMMA CounterType ==
    ASSUME NEW f \in [Nodes -> Int], NEW n
    PROVE  /\ [f EXCEPT ![n] = f[n] + 1] \in [Nodes -> Int]
           /\ [f EXCEPT ![n] = f[n] - 1] \in [Nodes -> Int]
<1>1. CASE n \in Nodes
  BY SMTT(30), <1>1
<1>2. CASE n \notin Nodes
  <2>1. /\ [f EXCEPT ![n] = f[n] + 1] = f
        /\ [f EXCEPT ![n] = f[n] - 1] = f
    BY <1>2
  <2> QED
    BY <2>1
<1> QED
  BY <1>1, <1>2

(* The steps that count and release open handles keep the types of the      *)
(* tables.                                                                  *)
LEMMA HandleTable ==
    ASSUME TableType, NEW t \in Threads, HandleStep(t)
    PROVE  TableType'
<1> DEFINE n == OpenNode(t)
           i == ino[t]
<1> HIDE DEF n, i
<1>1. /\ [open_count EXCEPT ![n] = open_count[n] + 1] \in [Nodes -> Int]
      /\ [open_count EXCEPT ![n] = open_count[n] - 1] \in [Nodes -> Int]
      /\ [kopen EXCEPT ![n] = kopen[n] + 1] \in [Nodes -> Int]
      /\ [klookup EXCEPT ![i] = klookup[i] + 1] \in [Nodes -> Int]
  BY CounterType DEF TableType
<1>2. UNCHANGED <<tree, counts>>
  BY DEF HandleStep, reply_entry, count_open, reply_open, fuse_do_release,
         release_unlink
<1>3. \/ open_count' = open_count
      \/ open_count' = [open_count EXCEPT ![n] = open_count[n] + 1]
      \/ open_count' = [open_count EXCEPT ![n] = open_count[n] - 1]
  BY DEF HandleStep, reply_entry, count_open, reply_open, fuse_do_release,
         release_unlink, opens, n
<1>4. /\ kopen' = kopen \/ kopen' = [kopen EXCEPT ![n] = kopen[n] + 1]
      /\ klookup' = klookup \/ klookup' = [klookup EXCEPT ![i] = klookup[i] + 1]
  BY DEF HandleStep, reply_entry, count_open, reply_open, fuse_do_release,
         release_unlink, kernel, n, i
<1>5. is_hidden' \subseteq is_hidden /\ fshidden' \subseteq fshidden
  BY DEF HandleStep, reply_entry, count_open, reply_open, fuse_do_release,
         release_unlink, opens
<1> QED
  BY <1>1, <1>2, <1>3, <1>4, <1>5 DEF TableType, tree, counts

(* They keep all the types.                                                 *)
LEMMA HandleType ==
    ASSUME TypeOK, NEW t \in Threads, HandleStep(t)
    PROVE  TypeOK'
<1>1. TableType /\ LockType /\ ControlType
  BY TypeParts
<1>2. LockType'
  <2>1. UNCHANGED <<treelock, queue, held>>
    BY DEF HandleStep, reply_entry, count_open, reply_open, fuse_do_release,
           release_unlink
  <2> QED
    BY <1>1, <2>1, LockKept
<1>3. \A l : l \in {"idle", "opened", "unl", "get", "forget", "free"} => l \in Labels
  BY DEF Labels
<1>4. \A op : op \in {"interrupted_entry", "answered", "unlink_hidden"} => op \in AllOps
  BY DEF AllOps, Answered
<1>5. \/ \E l \in {"idle", "opened", "unl", "forget", "free"} : Goto(t, l)
      \/ GotoAs(t, "forget", "interrupted_entry")
      \/ GotoAs(t, "free", "answered")
      \/ GotoAs(t, "get", "unlink_hidden")
  BY DEF HandleStep, reply_entry, count_open, reply_open, fuse_do_release,
         release_unlink, AfterRelease
<1>6. ControlType'
  BY <1>1, <1>3, <1>4, <1>5, GotoType, GotoAsType
<1> QED
  BY <1>1, <1>2, <1>6, HandleTable, TypeParts

(* The steps that change the tree.                                          *)
LEMMA LookupType ==
    ASSUME TypeOK, NEW t \in Threads, lookup_path(t) \/ create_lookup(t)
    PROVE  TypeOK'
<1>1. TableType /\ LockType /\ ControlType
  BY TypeParts
<1>2. LockType'
  BY <1>1, LockKept DEF lookup_path, create_lookup
<1>3. UNCHANGED <<opens, kernel>>
  BY DEF lookup_path, create_lookup
<1>4. \A d \in Dirs \cup {NoNode}, nm \in AllNames \cup {NoName} :
         find_node(t, d, nm) => TableType' /\ ino' \in [Threads -> Dirs \cup {NoNode}]
  BY <1>1, <1>3, FindNodeType DEF ControlType
<1>5. CASE lookup_path(t)
  <2>1. \/ UNCHANGED <<tree, counts, ino>>
        \/ find_node(t, Dir(t, EntrySlot(t)), NameArg(t, EntrySlot(t)))
    BY <1>5 DEF lookup_path
  <2>2. TableType' /\ ino' \in [Threads -> Dirs \cup {NoNode}]
    BY <1>1, <1>3, <1>4, <2>1, TableKept, ArgTypes DEF EntrySlot, ControlType
  <2>3. pc' \in [Threads -> Labels] /\ UNCHANGED <<req, slots>>
    BY <1>1, <1>5 DEF lookup_path, ControlType, Labels
  <2> QED
    BY <1>1, <1>2, <2>2, <2>3, TypeParts DEF ControlType
<1>6. CASE create_lookup(t)
  <2>1. "free" \in Labels /\ "answered" \in AllOps
    BY DEF Labels, AllOps, Answered
  <2>2. CASE GotoAs(t, "free", "answered") /\ UNCHANGED <<tree, counts>>
    BY <1>1, <1>2, <1>3, <2>1, <2>2, GotoAsType, TableKept, TypeParts
  <2>3. CASE /\ find_node(t, req[t].d1, req[t].n1)
             /\ pc' = [pc EXCEPT ![t] = "entry"]
             /\ UNCHANGED <<req, slots>>
    <3>1. TableType' /\ ino' \in [Threads -> Dirs \cup {NoNode}]
      BY <1>1, <1>4, <2>3, ArgTypes
    <3>2. pc' \in [Threads -> Labels]
      BY <1>1, <2>3 DEF ControlType, Labels
    <3> QED
      BY <1>1, <1>2, <2>3, <3>1, <3>2, TypeParts DEF ControlType
  <2> QED
    BY <1>6, <2>2, <2>3 DEF create_lookup
<1> QED
  BY <1>5, <1>6

(* The steps of unlink, rmdir and rename that change entries keep the       *)
(* types.                                                                   *)
LEMMA EntryStepType ==
    ASSUME TypeOK, NEW t \in Threads,
           \/ hide_node(t) \/ remove_hidden(t)
           \/ unlink_entry(t) \/ rename_entry(t) \/ exchange_entry(t)
    PROVE  TypeOK'
<1>1. TableType /\ LockType /\ ControlType
  BY TypeParts
<1>2. UNCHANGED <<treelock, queue, held, ids, nlookup, open_count, kernel>>
  BY DEF hide_node, remove_hidden, unlink_entry, rename_entry, exchange_entry, opens
<1>3. LockType'
  BY <1>1, <1>2, LockKept
<1>4. /\ parent' \in [Nodes -> Dirs \cup {NoNode}]
      /\ name' \in [Nodes -> AllNames \cup {NoName}]
      /\ refctr' \in [Dirs -> Int]
  <2>1. \/ UNCHANGED <<tree, refctr>>
        \/ rename_node(VictimDir(t), VictimName(t), VictimDir(t), req[t].h)
        \/ \E nm : remove_node(req[t].d1, nm)
        \/ rename_node(req[t].d1, req[t].n1, req[t].d2, req[t].n2)
        \/ exchange_node(req[t].d1, req[t].n1, req[t].d2, req[t].n2)
    BY DEF hide_node, remove_hidden, unlink_entry, rename_entry, exchange_entry
  <2>2. VictimDir(t) \in Dirs \cup {NoNode}
    BY <1>1, ArgTypes DEF VictimDir, VictimSlot
  <2>3. CASE UNCHANGED <<tree, refctr>>
    BY <1>1, <2>3 DEF TableType, tree
  <2> QED
    BY <1>1, <2>1, <2>2, <2>3, ArgTypes, RemoveNodeType, RenameNodeType, ExchangeNodeType
<1>5. is_hidden' \subseteq Nodes /\ fshidden' \subseteq Nodes
  <2>1. /\ is_hidden' \subseteq is_hidden \cup
              ({lookup_node(VictimDir(t), VictimName(t))} \ {NoNode})
        /\ fshidden' \subseteq fshidden \cup
              ({lookup_node(VictimDir(t), VictimName(t))} \ {NoNode})
    BY DEF hide_node, remove_hidden, unlink_entry, rename_entry, exchange_entry, opens
  <2>2. {lookup_node(VictimDir(t), VictimName(t))} \ {NoNode} \subseteq Nodes
    BY LookupNode
  <2> QED
    BY <1>1, <2>1, <2>2 DEF TableType
<1>6. TableType'
  BY <1>1, <1>2, <1>4, <1>5 DEF TableType, kernel
<1>7. ControlType'
  <2>1. \E l \in {"free", "recheck", "ren"} : Goto(t, l)
    BY DEF hide_node, remove_hidden, unlink_entry, rename_entry, exchange_entry
  <2>2. {"free", "recheck", "ren"} \subseteq Labels
    BY DEF Labels
  <2> QED
    BY <1>1, <2>1, <2>2, GotoType
<1> QED
  BY <1>3, <1>6, <1>7, TypeParts

(* unref_node, with delete_node, keeps the types.                           *)
LEMMA UnrefType ==
    ASSUME TypeOK, NEW t \in Threads, unref_node(t)
    PROVE  TypeOK'
<1>1. TableType /\ LockType /\ ControlType
  BY TypeParts
<1>2. UNCHANGED <<nlookup, treelock, fshidden, lockq, wake, qdone, held, kernel>>
  BY DEF unref_node
<1>3. LockType'
  <2>1. mutex' \in Threads \cup {NoThread}
    BY <1>1 DEF unref_node, LockType
  <2> QED
    BY <1>1, <1>2, <2>1 DEF LockType, held
<1>4. refctr' \in [Dirs -> Int]
  <2>1. refctr' = [refctr EXCEPT ![ino[t]] = refctr[ino[t]] - 1]
    BY DEF unref_node
  <2>2. CASE ino[t] \in Dirs
    BY SMTT(30), <1>1, <2>1, <2>2 DEF TableType
  <2>3. CASE ino[t] \notin Dirs
    BY <1>1, <2>1, <2>3 DEF TableType
  <2> QED
    BY <2>2, <2>3
<1>5. /\ ids' \subseteq Nodes /\ is_hidden' \subseteq Nodes
      /\ parent' \in [Nodes -> Dirs \cup {NoNode}]
      /\ name' \in [Nodes -> AllNames \cup {NoName}]
      /\ open_count' \in [Nodes -> Int]
  BY SMTT(30), <1>1 DEF unref_node, TableType, tree
<1>6. TableType'
  BY <1>1, <1>2, <1>4, <1>5 DEF TableType, kernel
<1>7. ControlType'
  <2> DEFINE up == IF ino[t] \in Nodes /\ refctr[ino[t]] = 1 THEN parent[ino[t]]
                   ELSE NoNode
  <2>1. up \in Dirs \cup {NoNode}
    BY <1>1 DEF TableType
  <2>2. AfterForget(t) \in Labels
    BY DEF AfterForget, Labels
  <2>3. \/ ino' = [ino EXCEPT ![t] = up] /\ UNCHANGED <<pc, req, slots>>
        \/ Goto(t, AfterForget(t))
    BY DEF unref_node
  <2> HIDE DEF up
  <2>4. CASE ino' = [ino EXCEPT ![t] = up] /\ UNCHANGED <<pc, req, slots>>
    BY <1>1, <2>1, <2>4 DEF ControlType
  <2> QED
    BY <1>1, <2>2, <2>3, <2>4, GotoType
<1> QED
  BY <1>3, <1>6, <1>7, TypeParts

(* The steps of a thread, grouped as the lemmas treat them.                 *)
LEMMA StepCases ==
    ASSUME NEW t \in Threads, Receive(t) \/ Work(t)
    PROVE  \/ Receive(t) \/ QuietStep(t) \/ HandleStep(t)
           \/ get_path_common(t) \/ wait_path(t) \/ free_path(t) \/ wake_up_queued(t)
           \/ forget_node(t) \/ forget_wakeup(t) \/ unref_node(t)
           \/ lookup_path(t) \/ create_lookup(t)
           \/ hide_node(t) \/ remove_hidden(t)
           \/ unlink_entry(t) \/ rename_entry(t) \/ exchange_entry(t)
BY DEF Work, QuietStep, HandleStep

(* Every step keeps the types.                                              *)
LEMMA TypeStep ==
    ASSUME TypeOK, QueueInv, NEW t \in Threads, Receive(t) \/ Work(t)
    PROVE  TypeOK'
BY StepCases, ReceiveType, QuietType, HandleType, GetPathType, WaitPathType,
   FreePathType, WakeType, ForgetType, UnrefType, LookupType, EntryStepType
=============================================================================
