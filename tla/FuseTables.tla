----------------------------- MODULE FuseTables -----------------------------
(***************************************************************************)
(* The tables in which the library finds its nodes (lib/fuse.c): two hash    *)
(* tables, by id and by directory and name, that grow and shrink one bucket  *)
(* at a time, and the numbers given to new nodes.  Each action is one        *)
(* critical section under f->lock.                                           *)
(***************************************************************************)
EXTENDS Integers, Sequences, FiniteSets

CONSTANTS
  Keys,           \* numbers that stand for the pairs of parent and name
  IdRange,        \* ids are taken modulo this number (2^32 in the code)
  MinSize,        \* NODE_TABLE_MIN_SIZE
  Multiplier,     \* of id_hash
  MaxIssued, MaxNodes, TableFaults

ASSUME TablesAssumption ==
  /\ Keys \subseteq Nat /\ IdRange \in Nat /\ MinSize \in Nat \ {0}
  /\ MaxNodes + 3 <= IdRange   \* next_id finds a free number

VARIABLES
  idTable, nameTable,  \* [size, split, use, array]
  names,               \* live nodes with their key, or NoKey
  ctr, generation,     \* f->ctr, f->generation
  issued,              \* every node that was ever given a number
  faults

tableVars == <<idTable, nameTable, names, ctr, generation, issued, faults>>

NoKey == -1
FUSE_ROOT_ID == 1
FUSE_UNKNOWN_INO == IdRange - 1
Root == [id |-> FUSE_ROOT_ID, gen |-> 0]
Absent == [id |-> 0, gen |-> 0]

-----------------------------------------------------------------------------
(* A table of buckets.  h is the hash value of a node before it is reduced.  *)
Bucket(t, h) ==
  IF (h % t.size) % (t.size \div 2) >= t.split
  THEN (h % t.size) % (t.size \div 2) ELSE h % t.size

node_table_init(size) ==
  [size |-> size, split |-> 0, use |-> 0, array |-> [b \in 0..size - 1 |-> <<>>]]

node_table_reduce(t) ==
  LET n == t.size \div 2 IN
  IF n < MinSize THEN t
  ELSE [t EXCEPT !.size = n, !.split = n \div 2, !.array = [b \in 0..n - 1 |-> t.array[b]]]

node_table_resize(t) ==
  [t EXCEPT !.size = 2 * @, !.split = 0,
            !.array = [b \in 0..2 * t.size - 1 |-> IF b < t.size THEN t.array[b] ELSE <<>>]]

(* Takes back at most one bucket that is not empty, of at most eight. *)
remerge(t0) ==
  LET t == IF t0.split = 0 THEN node_table_reduce(t0) ELSE t0
      half == t.size \div 2
      full == {s \in 0..t.split - 1 : t.split - s <= 8 /\ t.array[s + half] # <<>>}
      s == IF full # {} THEN CHOOSE m \in full : \A n \in full : n <= m
           ELSE IF t.split > 8 THEN t.split - 8 ELSE 0
  IN  IF full = {} THEN [t EXCEPT !.split = s]
      ELSE [t EXCEPT !.split = s,
                     !.array = [@ EXCEPT ![s] = @ \o t.array[s + half], ![s + half] = <<>>]]

(* Splits the next bucket; the last split doubles the table, if there is     *)
(* memory for it.  value has the hash values of the nodes.                   *)
rehash(t, value, resize) ==
  IF t.split = t.size \div 2 THEN t
  ELSE LET u == [t EXCEPT !.split = @ + 1]
           Moves(n) == Bucket(u, value[n]) # t.split
           Reversed(s) == [i \in 1..Len(s) |-> s[Len(s) + 1 - i]]
           v == [u EXCEPT !.array = [@ EXCEPT
                  ![t.split] = SelectSeq(@, LAMBDA n : ~ Moves(n)),
                  ![t.split + t.size \div 2] =
                     Reversed(SelectSeq(t.array[t.split], Moves)) \o @]]
       IN  IF v.split = v.size \div 2 /\ resize THEN node_table_resize(v) ELSE v

hash(t, node, value, resize) ==
  LET b == Bucket(t, value[node])
      u == [t EXCEPT !.array = [@ EXCEPT ![b] = <<node>> \o @], !.use = @ + 1]
  IN  IF u.use >= u.size \div 2 THEN rehash(u, value, resize) ELSE u

unhash(t, node, h) ==
  LET b == Bucket(t, h)
      u == [t EXCEPT !.array = [@ EXCEPT ![b] = SelectSeq(@, LAMBDA n : n # node)],
                     !.use = @ - 1]
  IN  IF u.use < u.size \div 4 THEN remerge(u) ELSE u

-----------------------------------------------------------------------------
id_hash(i) == i * Multiplier
IdHash(nodes) == [n \in nodes |-> id_hash(n.id)]

(* The nodes of the bucket an id, or a name, is looked for in. *)
get_node_nocheck(i) ==
  LET c == SelectSeq(idTable.array[Bucket(idTable, id_hash(i))], LAMBDA n : n.id = i)
  IN  IF c = <<>> THEN Absent ELSE Head(c)

lookup_node(k) ==
  LET c == SelectSeq(nameTable.array[Bucket(nameTable, k)], LAMBDA n : names[n] = k)
  IN  IF c = <<>> THEN Absent ELSE Head(c)

(* The number after i that is neither reserved nor in use, and how often the *)
(* counter passes zero on the way.                                           *)
Usable_blind(i) == i \notin {0, FUSE_UNKNOWN_INO, FUSE_ROOT_ID}
Usable(i) == i \notin {0, FUSE_UNKNOWN_INO} /\ get_node_nocheck(i) = Absent

next_id ==
  LET d == CHOOSE n \in 1..IdRange :
             /\ Usable((ctr + n) % IdRange)
             /\ \A m \in 1..n - 1 : ~ Usable((ctr + m) % IdRange)
  IN  [id |-> (ctr + d) % IdRange,
       gen |-> generation + (IF ctr + d >= IdRange THEN 1 ELSE 0)]

(* Whether the allocations of a step succeed. *)
Allocs(n) ==
  {a \in [1..n -> BOOLEAN] : faults + Cardinality({i \in 1..n : ~ a[i]}) <= TableFaults}
Failed(a) == faults' = faults + Cardinality({i \in DOMAIN a : ~ a[i]})

With(f, n, k) == [m \in DOMAIN f \cup {n} |-> IF m = n THEN k ELSE f[m]]
Without(f, n) == [m \in DOMAIN f \ {n} |-> f[m]]

hash_name(t, node, k, resize) ==
  LET now == With(names, node, k) IN hash(t, node, now, resize)
unhash_name(t, node) == IF names[node] = NoKey THEN t ELSE unhash(t, node, names[node])

(* find_node for a name that has no node yet.  a[1] is the copy of the name, *)
(* a[2] and a[3] the growth of the tables.                                   *)
find_node(k) ==
  /\ Cardinality(DOMAIN names) < MaxNodes /\ Cardinality(issued) < MaxIssued
  /\ lookup_node(k) = Absent
  /\ LET node == next_id IN
     /\ ctr' = node.id /\ generation' = node.gen
     /\ issued' = issued \cup {node}
     /\ \E a \in Allocs(3) :
          /\ Failed(a)
          /\ IF ~ a[1] THEN UNCHANGED <<idTable, nameTable, names>>
             ELSE /\ nameTable' = hash_name(nameTable, node, k, a[2])
                  /\ idTable' = hash(idTable, node, IdHash(issued'), a[3])
                  /\ names' = With(names, node, k)

(* unlink_node: the node stays, without a name. *)
remove_node(k) ==
  /\ lookup_node(k) # Absent
  /\ LET node == lookup_node(k) IN
     /\ nameTable' = unhash_name(nameTable, node)
     /\ names' = With(names, node, NoKey)
  /\ UNCHANGED <<idTable, ctr, generation, issued, faults>>

(* The target of a rename loses its name first.  A node whose new name       *)
(* cannot be copied has lost its old one.                                    *)
rename_node(k, l) ==
  /\ k # l /\ lookup_node(k) # Absent
  /\ LET node == lookup_node(k)
         old == lookup_node(l)
         t1 == IF old = Absent THEN nameTable ELSE unhash_name(nameTable, old)
         t2 == unhash_name(t1, node)
         n1 == IF old = Absent THEN names ELSE With(names, old, NoKey)
     IN  \E a \in Allocs(2) :
           /\ Failed(a)
           /\ nameTable' = IF a[1] THEN hash_name(t2, node, l, a[2]) ELSE t2
           /\ names' = With(n1, node, IF a[1] THEN l ELSE NoKey)
  /\ UNCHANGED <<idTable, ctr, generation, issued>>

(* Both names go, then both come back; the first that cannot be copied ends  *)
(* it.                                                                       *)
exchange_node(k, l) ==
  /\ k < l /\ lookup_node(k) # Absent /\ lookup_node(l) # Absent
  /\ LET p == lookup_node(k)
         q == lookup_node(l)
         t0 == unhash_name(unhash_name(nameTable, p), q)
         swapped == With(With(names, p, l), q, k)
     IN  \E a \in Allocs(4) :
           LET t1 == hash(t0, p, swapped, a[3])
               t2 == hash(t1, q, swapped, a[4])
           IN
           /\ Failed(a)
           /\ nameTable' = IF ~ a[1] THEN t0 ELSE IF ~ a[2] THEN t1 ELSE t2
           /\ names' = With(With(names, p, IF a[1] THEN l ELSE NoKey),
                            q, IF a[1] /\ a[2] THEN k ELSE NoKey)
  /\ UNCHANGED <<idTable, ctr, generation, issued>>

delete_node(node) ==
  /\ node # Root
  /\ nameTable' = unhash_name(nameTable, node)
  /\ idTable' = unhash(idTable, node, id_hash(node.id))
  /\ names' = Without(names, node)
  /\ UNCHANGED <<ctr, generation, issued, faults>>

TablesInit ==
  /\ nameTable = node_table_init(MinSize)
  /\ idTable = hash(node_table_init(MinSize), Root, IdHash({Root}), TRUE)
  /\ names = [n \in {Root} |-> NoKey]
  /\ ctr = 0 /\ generation = 0 /\ issued = {Root} /\ faults = 0

TablesNext ==
  \/ \E k \in Keys : find_node(k) \/ remove_node(k)
  \/ \E k, l \in Keys : rename_node(k, l) \/ exchange_node(k, l)
  \/ \E node \in DOMAIN names : delete_node(node)

-----------------------------------------------------------------------------
TableOK(t) ==
  /\ t.size >= MinSize /\ t.split \in 0..t.size \div 2
  /\ DOMAIN t.array = 0..t.size - 1 /\ t.use \in 0..MaxNodes

(* The tables stay in shape: they never get smaller than they began, and no  *)
(* bucket beyond the array is ever addressed.                                *)
TablesTypeOK ==
  /\ TableOK(idTable) /\ TableOK(nameTable)
  /\ ctr \in 0..IdRange - 1 /\ DOMAIN names \subseteq issued

TableEntries(t) == {<<b, i>> \in (0..t.size - 1) \X (1..MaxNodes) : i <= Len(t.array[b])}
Holds(t, nodes) ==
  /\ {t.array[e[1]][e[2]] : e \in TableEntries(t)} = nodes
  /\ Cardinality(TableEntries(t)) = Cardinality(nodes) /\ t.use = Cardinality(nodes)

(* Growing, shrinking and moving names never lose or double a node: the id   *)
(* table holds every node once, the name table every node that has a name,   *)
(* and the counts the tables are resized by are right.                       *)
NodeOnce ==
  /\ Holds(idTable, DOMAIN names)
  /\ Holds(nameTable, {n \in DOMAIN names : names[n] # NoKey})

(* A table grows as fast as it fills, although it splits one bucket per new  *)
(* node only: as long as memory lasts it has fewer nodes than buckets.         *)
TableLoad == faults = 0 => idTable.use < idTable.size /\ nameTable.use < nameTable.size

NodeMap == INSTANCE FuseNodeMap WITH
  byName <- [k \in Keys |-> lookup_node(k)],
  byId <- [i \in 0..IdRange - 1 |-> get_node_nocheck(i)],
  Ids <- 0..IdRange - 1

(* The tables implement a map: what the hash chains find is what was put     *)
(* there, whatever was split or merged since, and no pair of id and          *)
(* generation is ever given to two nodes.                                    *)
NodesRefineMap == NodeMap!MapSpec

(* The two hash tables, well formed at every size, with right counts, are   *)
(* the map of FuseNodeMap.                                                  *)
TablesImplementMap ==
    [](TablesTypeOK /\ NodeOnce /\ TableLoad) /\ NodesRefineMap
=============================================================================
