-------------------------- MODULE FuseLibraryProofs --------------------------
(***************************************************************************)
(* Invariants of the smaller components of the library and of two of its   *)
(* examples, for every value of the constants: the allocator of nodes,     *)
(* auto_cache, CUSE and poll.  They share no state.                        *)
(***************************************************************************)
EXTENDS FuseSlab, FuseAutoCache, CuseDevice, FusePoll, FiniteSetTheorems, TLAPS

-----------------------------------------------------------------------------
(* The slabs of fuse.c.                                                     *)

(* list_add_tail: a page that is on no list is then on this one, once.      *)
LEMMA Linked ==
    ASSUME NEW S, NEW s \in Seq(S), IsInjective(s), NEW x \in S, x \notin Range(s)
    PROVE  /\ Append(s, x) \in Seq(S) /\ IsInjective(Append(s, x))
           /\ Range(Append(s, x)) = Range(s) \cup {x}
<1> DEFINE r == Append(s, x)
<1>1. /\ r \in Seq(S) /\ DOMAIN r = 1..Len(s) + 1 /\ DOMAIN s = 1..Len(s) /\ Len(s) \in Nat
      /\ r[Len(s) + 1] = x /\ \A i \in 1..Len(s) : r[i] = s[i]
  OBVIOUS
<1>2. \A i \in 1..Len(s) : s[i] # x
  BY <1>1, Zenon DEF Range
<1> HIDE DEF r
<1>3. \A i \in 1..Len(s) + 1 : i \in 1..Len(s) \/ i = Len(s) + 1
  BY <1>1
<1>4. IsInjective(r)
  BY <1>1, <1>2, <1>3, Zenon DEF IsInjective
<1>5. Len(s) + 1 \in DOMAIN r /\ \A i \in 1..Len(s) : i \in DOMAIN r
  BY <1>1
<1>6. Range(r) = Range(s) \cup {x}
  BY <1>1, <1>3, <1>5, Zenon DEF Range
<1> QED  BY <1>1, <1>4, <1>6, Zenon DEF r

(* list_add_head: a node that is freed is the first to be handed out.       *)
LEMMA LinkedFirst ==
    ASSUME NEW S, NEW s \in Seq(S), IsInjective(s), NEW x \in S, x \notin Range(s)
    PROVE  /\ <<x>> \o s \in Seq(S) /\ IsInjective(<<x>> \o s) /\ <<x>> \o s # <<>>
           /\ Range(<<x>> \o s) = Range(s) \cup {x}
<1> DEFINE r == <<x>> \o s
<1>1. /\ r \in Seq(S) /\ Len(r) = Len(s) + 1 /\ DOMAIN r = 1..Len(s) + 1
      /\ DOMAIN s = 1..Len(s) /\ Len(s) \in Nat
  OBVIOUS
<1>2. r[1] = x /\ \A i \in 1..Len(s) : r[i + 1] = s[i]
  OBVIOUS
<1>3. \A i \in 1..Len(s) : s[i] # x
  BY <1>1, Zenon DEF Range
<1>4. r # <<>>
  BY <1>1
<1> HIDE DEF r
<1>5. \A i \in 1..Len(s) + 1 : i = 1 \/ \E j \in 1..Len(s) : i = j + 1
  <2> SUFFICES ASSUME NEW i \in 1..Len(s) + 1, i # 1  PROVE \E j \in 1..Len(s) : i = j + 1
    OBVIOUS
  <2>1. i - 1 \in 1..Len(s) /\ i = (i - 1) + 1
    BY <1>1
  <2> QED  BY <2>1, Zenon
<1>6. IsInjective(r)
  <2> SUFFICES ASSUME NEW i \in 1..Len(s) + 1, NEW j \in 1..Len(s) + 1, r[i] = r[j]  PROVE i = j
    BY <1>1, Zenon DEF IsInjective
  <2>1. CASE i = 1 \/ j = 1
    BY <1>2, <1>3, <1>5, <2>1, ZenonT(30)
  <2>2. CASE i # 1 /\ j # 1
    <3>1. PICK a \in 1..Len(s) : i = a + 1
      BY <1>5, <2>2, Zenon
    <3>2. PICK b \in 1..Len(s) : j = b + 1
      BY <1>5, <2>2, Zenon
    <3>3. s[a] = s[b]
      BY <1>2, <3>1, <3>2, Zenon
    <3> QED  BY <1>1, <3>1, <3>2, <3>3, Zenon DEF IsInjective
  <2> QED  BY <2>1, <2>2, Zenon
<1>7. 1 \in 1..Len(s) + 1 /\ \A i \in 1..Len(s) : i + 1 \in 1..Len(s) + 1
  BY <1>1
<1>8. Range(r) = Range(s) \cup {x}
  <2>1. ASSUME NEW y \in Range(r)  PROVE y \in Range(s) \cup {x}
    <3>1. PICK i \in 1..Len(s) + 1 : y = r[i]
      BY <1>1, Zenon DEF Range
    <3>2. CASE i = 1
      BY <1>2, <3>1, <3>2, Zenon
    <3>3. CASE i # 1
      <4>1. PICK j \in 1..Len(s) : i = j + 1
        BY <1>5, <3>3, Zenon
      <4> QED  BY <1>1, <1>2, <3>1, <4>1, Zenon DEF Range
    <3> QED  BY <3>2, <3>3, Zenon
  <2>2. x \in Range(r)
    BY <1>1, <1>2, <1>7, Zenon DEF Range
  <2>3. ASSUME NEW y \in Range(s)  PROVE y \in Range(r)
    <3>1. PICK j \in 1..Len(s) : y = s[j]
      BY <1>1, Zenon DEF Range
    <3>2. j + 1 \in DOMAIN r /\ y = r[j + 1]
      BY <1>1, <1>2, <1>7, <3>1, Zenon
    <3> QED  BY <3>2, Zenon DEF Range
  <2> QED  BY <2>1, <2>2, <2>3, Zenon
<1> QED  BY <1>1, <1>4, <1>6, <1>8, Zenon DEF r

(* list_del of the entry at one place of a list.                            *)
LEMMA Unlinked ==
    ASSUME NEW S, NEW s \in Seq(S), IsInjective(s), NEW k \in DOMAIN s
    PROVE  LET r == SubSeq(s, 1, k - 1) \o SubSeq(s, k + 1, Len(s))
           IN  r \in Seq(S) /\ Len(r) = Len(s) - 1 /\ IsInjective(r) /\ Range(r) = Range(s) \ {s[k]}
<1>1. k \in 1..Len(s) /\ Len(s) \in Nat /\ DOMAIN s = 1..Len(s)
  OBVIOUS
<1> DEFINE a == SubSeq(s, 1, k - 1)
           b == SubSeq(s, k + 1, Len(s))
           r == a \o b
<1>2. a \in Seq(S) /\ Len(a) = k - 1 /\ \A i \in 1..k - 1 : a[i] = s[i]
  BY <1>1
<1>3. b \in Seq(S) /\ Len(b) = Len(s) - k /\ \A i \in 1..Len(s) - k : b[i] = s[k + i]
  BY <1>1
<1>4. r = a \o b
  BY Zenon
<1> HIDE DEF a, b, r
<1>5. /\ r \in Seq(S) /\ Len(r) = Len(s) - 1 /\ DOMAIN r = 1..Len(s) - 1
      /\ \A i \in 1..Len(r) : r[i] = IF i <= Len(a) THEN a[i] ELSE b[i - Len(a)]
  <2>0. a \in Seq(S) /\ b \in Seq(S)
    BY <1>2, <1>3, Zenon
  <2>1. r \in Seq(S) /\ Len(r) = Len(a) + Len(b)
    BY <1>4, <2>0
  <2>4. DOMAIN r = 1..Len(r)
    BY <2>1
  <2>2. \A i \in 1..Len(r) : r[i] = IF i <= Len(a) THEN a[i] ELSE b[i - Len(a)]
    BY <1>2, <1>3, <1>4
  <2>3. Len(a) + Len(b) = Len(s) - 1
    BY <1>1, <1>2, <1>3
  <2> QED  BY <2>1, <2>2, <2>3, <2>4, Zenon
<1> DEFINE at(i) == IF i < k THEN i ELSE i + 1
<1>6. ASSUME NEW i \in 1..Len(s) - 1
      PROVE  at(i) \in 1..Len(s) /\ at(i) # k /\ r[i] = s[at(i)]
  <2>1. at(i) \in 1..Len(s) /\ at(i) # k
    BY <1>1
  <2>2. CASE i < k
    <3>1. i \in 1..Len(r) /\ i <= Len(a) /\ i \in 1..k - 1
      BY <1>1, <1>2, <1>5, <2>2
    <3>2. r[i] = a[i]
      BY <1>5, <3>1, Zenon
    <3>3. r[i] = s[i] /\ at(i) = i
      BY <1>2, <2>2, <3>1, <3>2, Zenon
    <3> QED  BY <2>1, <3>3, Zenon
  <2>3. CASE ~(i < k)
    <3>1. i \in 1..Len(r) /\ ~(i <= Len(a)) /\ i - Len(a) \in 1..Len(s) - k /\ k + (i - Len(a)) = i + 1
      BY <1>1, <1>2, <1>5, <2>3
    <3>2. r[i] = b[i - Len(a)]
      BY <1>5, <3>1, Zenon
    <3>3. r[i] = s[i + 1]
      BY <1>3, <3>1, <3>2, Zenon
    <3> QED  BY <2>1, <2>3, <3>3, Zenon
  <2> QED  BY <2>2, <2>3, Zenon
<1>7. \A i, j \in 1..Len(s) - 1 : at(i) = at(j) => i = j
  BY <1>1
<1>8. ASSUME NEW j \in 1..Len(s), j # k  PROVE \E i \in 1..Len(s) - 1 : at(i) = j
  <2>1. CASE j < k
    <3>1. j \in 1..Len(s) - 1 /\ at(j) = j
      BY <1>1, <2>1
    <3> QED  BY <3>1, Zenon
  <2>2. CASE ~(j < k)
    <3>1. j - 1 \in 1..Len(s) - 1 /\ at(j - 1) = j
      BY <1>1, <1>8, <2>2
    <3> QED  BY <3>1, Zenon
  <2> QED  BY <2>1, <2>2, Zenon
<1> HIDE DEF at
<1>9. IsInjective(r)
  <2> SUFFICES ASSUME NEW i \in 1..Len(s) - 1, NEW j \in 1..Len(s) - 1, r[i] = r[j]  PROVE i = j
    BY <1>5, Zenon DEF IsInjective
  <2>1. at(i) \in DOMAIN s /\ at(j) \in DOMAIN s /\ s[at(i)] = s[at(j)]
    BY <1>1, <1>6, Zenon
  <2> QED  BY <1>7, <2>1, Zenon DEF IsInjective
<1>10. Range(r) = Range(s) \ {s[k]}
  <2>1. ASSUME NEW x \in Range(r)  PROVE x \in Range(s) /\ x # s[k]
    <3>1. PICK i \in 1..Len(s) - 1 : x = r[i]
      BY <1>5, Zenon DEF Range
    <3>2. at(i) \in DOMAIN s /\ at(i) # k /\ x = s[at(i)]
      BY <1>1, <1>6, <3>1, Zenon
    <3> QED  BY <3>2, Zenon DEF Range, IsInjective
  <2>2. ASSUME NEW x \in Range(s), x # s[k]  PROVE x \in Range(r)
    <3>1. PICK j \in 1..Len(s) : x = s[j]
      BY <1>1, Zenon DEF Range
    <3>2. PICK i \in 1..Len(s) - 1 : at(i) = j
      BY <1>8, <2>2, <3>1, Zenon
    <3> QED  BY <1>5, <1>6, <3>1, <3>2, Zenon DEF Range
  <2> QED  BY <2>1, <2>2, Zenon
<1> QED  BY <1>5, <1>9, <1>10, Zenon DEF r, a, b

(* Taking the first entry off a list.                                       *)
LEMMA UnlinkedFirst ==
    ASSUME NEW S, NEW s \in Seq(S), IsInjective(s), s # <<>>
    PROVE  /\ Head(s) \in S /\ Head(s) \in Range(s)
           /\ Tail(s) \in Seq(S) /\ Len(Tail(s)) = Len(s) - 1
           /\ IsInjective(Tail(s)) /\ Range(Tail(s)) = Range(s) \ {Head(s)}
<1>1. /\ Head(s) = s[1] /\ 1 \in DOMAIN s /\ DOMAIN s = 1..Len(s) /\ Len(s) \in Nat \ {0}
      /\ Tail(s) \in Seq(S) /\ Len(Tail(s)) = Len(s) - 1 /\ DOMAIN Tail(s) = 1..Len(s) - 1
      /\ \A i \in 1..Len(s) - 1 : Tail(s)[i] = s[i + 1]
  OBVIOUS
<1> DEFINE t == Tail(s)
<1> HIDE DEF t
<1>2. /\ \A i \in 1..Len(s) - 1 : i + 1 \in 1..Len(s) /\ i + 1 # 1
      /\ \A i, j \in 1..Len(s) - 1 : i + 1 = j + 1 => i = j
      /\ \A j \in 1..Len(s) : j # 1 => j - 1 \in 1..Len(s) - 1 /\ (j - 1) + 1 = j
  BY <1>1
<1>3. Head(s) \in S /\ Head(s) \in Range(s)
  <2>1. Head(s) \in S
    OBVIOUS
  <2> QED  BY <1>1, <2>1, Zenon DEF Range
<1>4. /\ DOMAIN t = 1..Len(s) - 1 /\ DOMAIN s = 1..Len(s) /\ 1 \in DOMAIN s
      /\ \A i \in 1..Len(s) - 1 : t[i] = s[i + 1]
  BY <1>1, Zenon DEF t
<1>5. IsInjective(t)
  <2> SUFFICES ASSUME NEW i \in 1..Len(s) - 1, NEW j \in 1..Len(s) - 1, t[i] = t[j]  PROVE i = j
    BY <1>4, Zenon DEF IsInjective
  <2>1. i + 1 \in DOMAIN s /\ j + 1 \in DOMAIN s /\ s[i + 1] = s[j + 1]
    BY <1>2, <1>4, Zenon
  <2> QED  BY <1>2, <2>1, Zenon DEF IsInjective
<1>6. Range(t) = Range(s) \ {s[1]}
  <2>1. ASSUME NEW x \in Range(t)  PROVE x \in Range(s) /\ x # s[1]
    <3>1. PICK i \in 1..Len(s) - 1 : x = t[i]
      BY <1>4, Zenon DEF Range
    <3>2. i + 1 \in DOMAIN s /\ i + 1 # 1 /\ x = s[i + 1]
      BY <1>2, <1>4, <3>1, Zenon
    <3> QED  BY <1>4, <3>2, Zenon DEF Range, IsInjective
  <2>2. ASSUME NEW x \in Range(s), x # s[1]  PROVE x \in Range(t)
    <3>1. PICK j \in 1..Len(s) : x = s[j]
      BY <1>4, Zenon DEF Range
    <3>2. j - 1 \in 1..Len(s) - 1 /\ (j - 1) + 1 = j
      BY <1>2, <2>2, <3>1, Zenon
    <3>3. t[j - 1] = x
      BY <1>4, <3>1, <3>2, Zenon
    <3> QED  BY <1>4, <3>2, <3>3, Zenon DEF Range
  <2> QED  BY <2>1, <2>2, Zenon
<1> QED  BY <1>1, <1>3, <1>5, <1>6, Zenon DEF t

(* list_del of a page, wherever it is on the list.                          *)
LEMMA PageUnlinked ==
    ASSUME NEW S, NEW s \in Seq(S), IsInjective(s), NEW p
    PROVE  LET r == list_del_slab(s, p)
           IN  r \in Seq(S) /\ IsInjective(r) /\ Range(r) = Range(s) \ {p}
<1>1. CASE p \in Range(s)
  <2> DEFINE k == CHOOSE i \in DOMAIN s : s[i] = p
  <2>1. \E i \in DOMAIN s : s[i] = p
    BY <1>1, Zenon DEF Range
  <2>2. k \in DOMAIN s /\ s[k] = p
    BY <2>1, Zenon
  <2>3. list_del_slab(s, p) = SubSeq(s, 1, k - 1) \o SubSeq(s, k + 1, Len(s))
    BY <1>1, Zenon DEF list_del_slab
  <2> HIDE DEF k
  <2> DEFINE r == SubSeq(s, 1, k - 1) \o SubSeq(s, k + 1, Len(s))
  <2>4. r \in Seq(S) /\ IsInjective(r) /\ Range(r) = Range(s) \ {s[k]}
    BY <2>2, Unlinked, Zenon
  <2>5. list_del_slab(s, p) = r
    BY <2>3, Zenon
  <2> HIDE DEF r
  <2> QED  BY <2>2, <2>4, <2>5, Zenon
<1>2. CASE p \notin Range(s)
  BY <1>2, Zenon DEF list_del_slab
<1> QED  BY <1>1, <1>2, Zenon

(* The nodes handed out of a page are finitely many, and one more or less   *)
(* changes their number, slab->used, by one.                                *)
LEMMA OutCounted ==
    ASSUME NEW p, NEW i \in 1..SlabNodes
    PROVE  /\ IsFiniteSet(NodesOut(p)) /\ Cardinality(NodesOut(p)) \in Nat
           /\ i \notin NodesOut(p) => Cardinality(NodesOut(p) \cup {i}) = Cardinality(NodesOut(p)) + 1
           /\ i \in NodesOut(p) => Cardinality(NodesOut(p) \ {i}) = Cardinality(NodesOut(p)) - 1
<1>1. IsFiniteSet(NodesOut(p))
  <2>1. IsFiniteSet(1..SlabNodes)
    BY SlabAssumption, FS_Interval
  <2>2. NodesOut(p) \subseteq 1..SlabNodes
    BY Zenon DEF NodesOut
  <2> QED  BY <2>1, <2>2, FS_Subset, Zenon
<1>2. Cardinality(NodesOut(p)) \in Nat
  BY <1>1, FS_CardinalityType, Zenon
<1>3. i \notin NodesOut(p) => Cardinality(NodesOut(p) \cup {i}) = Cardinality(NodesOut(p)) + 1
  BY <1>1, FS_AddElement, Zenon
<1>4. i \in NodesOut(p) => Cardinality(NodesOut(p) \ {i}) = Cardinality(NodesOut(p)) - 1
  BY <1>1, FS_RemoveElement, Zenon
<1> QED  BY <1>1, <1>2, <1>3, <1>4, Zenon

(* A step that changes one page: the page is exact afterwards, every other  *)
(* page is where it was, and so all are.                                    *)
LEMMA OnePageChanges ==
    ASSUME SlabsExact, SlabTypeOK', IsInjective(partial_slabs)', IsInjective(full_slabs)',
           Range(partial_slabs)' \cap Range(full_slabs)' = {}, NEW p \in Pages,
           \A q \in Pages \ {p} :
              /\ slab'[q] = slab[q] /\ NodesOut(q)' = NodesOut(q)
              /\ (q \in Range(partial_slabs))' <=> q \in Range(partial_slabs)
              /\ (q \in Range(full_slabs))' <=> q \in Range(full_slabs),
           IF p \notin SlabMapped' THEN NodesOut(p)' = {}
           ELSE /\ slab'[p].used = Cardinality(NodesOut(p)') /\ NodesOut(p)' # {}
                /\ IsInjective(slab'[p].freelist)
                /\ Range(slab'[p].freelist) = (1..SlabNodes) \ NodesOut(p)'
                /\ (p \in Range(partial_slabs)') <=> (slab'[p].freelist # <<>>)
    PROVE  SlabsExact'
<1> SUFFICES ASSUME NEW q \in Pages, q # p
             PROVE  LET free == slab'[q].freelist
                    IN  IF q \notin SlabMapped' THEN NodesOut(q)' = {}
                        ELSE /\ slab'[q].used = Cardinality(NodesOut(q)') /\ NodesOut(q)' # {}
                             /\ IsInjective(free) /\ Range(free) = (1..SlabNodes) \ NodesOut(q)'
                             /\ (q \in Range(partial_slabs)') <=> (free # <<>>)
  BY Zenon DEF SlabsExact
<1>1. /\ slab'[q] = slab[q] /\ NodesOut(q)' = NodesOut(q)
      /\ (q \in Range(partial_slabs))' <=> q \in Range(partial_slabs)
      /\ (q \in SlabMapped)' <=> q \in SlabMapped
  BY Zenon DEF SlabMapped
<1>2. LET free == slab[q].freelist
      IN  IF q \notin SlabMapped THEN NodesOut(q) = {}
          ELSE /\ slab[q].used = Cardinality(NodesOut(q)) /\ NodesOut(q) # {}
               /\ IsInjective(free) /\ Range(free) = (1..SlabNodes) \ NodesOut(q)
               /\ (q \in Range(partial_slabs)) <=> (free # <<>>)
  BY Zenon DEF SlabsExact
<1> QED  BY <1>1, <1>2, Zenon

(* alloc_node hands out a node that nobody has, and the slab moves to the   *)
(* other list with its last one.                                            *)
LEMMA AllocExact ==
    ASSUME SlabsExact, NEW p \in Pages, alloc_node(p)
    PROVE  SlabsExact'
<1> DEFINE s == IF p \in SlabMapped THEN slab[p] ELSE alloc_slab(p)
           list == IF p \in SlabMapped THEN partial_slabs ELSE <<p>>
           free == s.freelist
           last == Len(free) = 1
           i == Head(free)
<1>1. /\ IF partial_slabs = <<>> THEN p \notin SlabMapped ELSE p = Head(partial_slabs)
      /\ slab' = [slab EXCEPT ![p] = [used |-> s.used + 1, freelist |-> Tail(free)]]
      /\ allocated' = allocated \cup {<<p, i>>}
      /\ partial_slabs' = IF last THEN Tail(list) ELSE list
      /\ full_slabs' = IF last THEN Append(full_slabs, p) ELSE full_slabs
  BY Zenon DEF alloc_node
<1>2. /\ partial_slabs \in Seq(Pages) /\ full_slabs \in Seq(Pages)
      /\ slab \in [Pages -> [used : Nat, freelist : Seq(1..SlabNodes)]]
      /\ allocated \subseteq Pages \X (1..SlabNodes)
      /\ IsInjective(partial_slabs) /\ IsInjective(full_slabs)
      /\ Range(partial_slabs) \cap Range(full_slabs) = {}
  BY Zenon DEF SlabsExact, SlabTypeOK
<1>3. /\ list \in Seq(Pages) /\ list # <<>> /\ Head(list) = p /\ IsInjective(list)
      /\ Range(list) = Range(partial_slabs) \cup {p} /\ p \notin Range(full_slabs)
      /\ s.used \in Nat /\ s.used = Cardinality(NodesOut(p))
      /\ free \in Seq(1..SlabNodes) /\ free # <<>> /\ IsInjective(free)
      /\ Range(free) = (1..SlabNodes) \ NodesOut(p)
  <2>1. CASE partial_slabs = <<>>
    <3>1. p \notin SlabMapped /\ p \notin Range(full_slabs) /\ NodesOut(p) = {}
      BY <1>1, <2>1, Zenon DEF SlabsExact, SlabMapped
    <3>2. s = alloc_slab(p) /\ list = <<p>>
      BY <3>1, Zenon
    <3>a. alloc_slab(p).used = 0 /\ alloc_slab(p).freelist = [j \in 1..SlabNodes |-> j]
      BY Zenon DEF alloc_slab
    <3>3. s.used = 0 /\ free = [j \in 1..SlabNodes |-> j]
      BY <3>2, <3>a, Zenon
    <3>4. Range(partial_slabs) = {}
      BY <2>1 DEF Range
    <3> HIDE DEF s, list
    <3>5. /\ list \in Seq(Pages) /\ list # <<>> /\ Head(list) = p /\ IsInjective(list)
          /\ Range(list) = {p}
      BY <3>2 DEF IsInjective, Range
    <3>6. free \in Seq(1..SlabNodes) /\ Len(free) = SlabNodes /\ free # <<>>
      <4> HIDE DEF free
      <4>1. SlabNodes \in Nat \ {0} /\ free \in [1..SlabNodes -> 1..SlabNodes]
        BY <3>3, SlabAssumption, Zenon
      <4>2. free \in Seq(1..SlabNodes) /\ Len(free) = SlabNodes
        BY <4>1
      <4> QED  BY <4>1, <4>2, Zenon
    <3>7. IsInjective(free) /\ Range(free) = 1..SlabNodes
      <4>1. DOMAIN free = 1..SlabNodes /\ \A j \in 1..SlabNodes : free[j] = j
        BY <3>3, Zenon
      <4> HIDE DEF free
      <4>2. \A j \in Range(free) : j \in 1..SlabNodes
        BY <4>1, Zenon DEF Range
      <4>3. \A j \in 1..SlabNodes : j \in Range(free)
        BY <4>1, Zenon DEF Range
      <4>4. IsInjective(free)
        BY <4>1, Zenon DEF IsInjective
      <4> QED  BY <4>2, <4>3, <4>4, Zenon
    <3>8. Cardinality(NodesOut(p)) = 0
      BY <3>1, FS_EmptySet, Zenon
    <3> QED  BY <3>1, <3>3, <3>4, <3>5, <3>6, <3>7, <3>8
  <2>2. CASE partial_slabs # <<>>
    <3>1. p = Head(partial_slabs) /\ p \in Range(partial_slabs)
      <4>1. Head(partial_slabs) \in Range(partial_slabs)
        BY <1>2, <2>2, UnlinkedFirst, ZenonT(30)
      <4> QED  BY <1>1, <2>2, <4>1, Zenon
    <3>2. p \in SlabMapped /\ p \notin Range(full_slabs)
      BY <1>2, <3>1, Zenon DEF SlabMapped
    <3>3. s = slab[p] /\ list = partial_slabs
      BY <3>2, Zenon
    <3>4. /\ slab[p].used = Cardinality(NodesOut(p)) /\ IsInjective(slab[p].freelist)
          /\ Range(slab[p].freelist) = (1..SlabNodes) \ NodesOut(p) /\ slab[p].freelist # <<>>
      BY <3>1, <3>2, Zenon DEF SlabsExact
    <3>5. slab[p].used \in Nat /\ slab[p].freelist \in Seq(1..SlabNodes)
      BY <1>2, Zenon
    <3>6. Range(partial_slabs) \cup {p} = Range(partial_slabs)
      BY <3>1, Zenon
    <3> QED  BY <1>2, <2>2, <3>1, <3>2, <3>3, <3>4, <3>5, <3>6, Zenon
  <2> QED  BY <2>1, <2>2, Zenon
<1> HIDE DEF s, list
<1>4. /\ i \in 1..SlabNodes /\ i \in Range(free) /\ Tail(free) \in Seq(1..SlabNodes)
      /\ Len(Tail(free)) = Len(free) - 1 /\ IsInjective(Tail(free)) /\ Range(Tail(free)) = Range(free) \ {i}
  BY <1>3, UnlinkedFirst, Zenon
<1>5. i \notin NodesOut(p)
  BY <1>3, <1>4, Zenon
<1> HIDE DEF free, i, last
<1>6. (Tail(free) = <<>>) <=> last
  <2> DEFINE t == Tail(free)
  <2>1. t \in Seq(1..SlabNodes) /\ Len(t) = Len(free) - 1 /\ Len(free) \in Nat
    BY <1>3, <1>4
  <2> HIDE DEF t
  <2>2. (t = <<>>) <=> (Len(t) = 0)
    BY <2>1
  <2>3. (Len(t) = 0) <=> last
    BY <2>1 DEF last
  <2> QED  BY <2>2, <2>3, Zenon DEF t
<1>7. NodesOut(p)' = NodesOut(p) \cup {i} /\ \A q \in Pages \ {p} : NodesOut(q)' = NodesOut(q)
  BY <1>1, <1>4, Zenon DEF NodesOut
<1>8. Cardinality(NodesOut(p)') = s.used + 1
  BY <1>3, <1>4, <1>5, <1>7, OutCounted, Zenon
<1>9. /\ slab' \in [Pages -> [used : Nat, freelist : Seq(1..SlabNodes)]]
      /\ slab'[p].used = s.used + 1 /\ slab'[p].freelist = Tail(free)
      /\ \A q \in Pages \ {p} : slab'[q] = slab[q]
  <2> DEFINE n == [used |-> s.used + 1, freelist |-> Tail(free)]
  <2>1. s.used + 1 \in Nat
    BY <1>3
  <2>2. n \in [used : Nat, freelist : Seq(1..SlabNodes)] /\ n.used = s.used + 1 /\ n.freelist = Tail(free)
    BY <1>4, <2>1, Zenon
  <2>3. slab' = [slab EXCEPT ![p] = n]
    BY <1>1, Zenon
  <2> HIDE DEF n
  <2> QED  BY <1>2, <2>2, <2>3, Zenon
<1>10. allocated' \subseteq Pages \X (1..SlabNodes)
  BY <1>1, <1>2, <1>4
<1>11. /\ partial_slabs' \in Seq(Pages) /\ full_slabs' \in Seq(Pages)
       /\ IsInjective(partial_slabs') /\ IsInjective(full_slabs')
       /\ Range(partial_slabs') = IF last THEN Range(partial_slabs) \ {p} ELSE Range(partial_slabs) \cup {p}
       /\ Range(full_slabs') = IF last THEN Range(full_slabs) \cup {p} ELSE Range(full_slabs)
  <2>1. CASE last
    <3>1. /\ Tail(list) \in Seq(Pages) /\ IsInjective(Tail(list))
          /\ Range(Tail(list)) = Range(partial_slabs) \ {p}
      BY <1>3, UnlinkedFirst, Zenon
    <3>2. /\ Append(full_slabs, p) \in Seq(Pages) /\ IsInjective(Append(full_slabs, p))
          /\ Range(Append(full_slabs, p)) = Range(full_slabs) \cup {p}
      BY <1>2, <1>3, Linked
    <3>3. partial_slabs' = Tail(list) /\ full_slabs' = Append(full_slabs, p)
      BY <1>1, <2>1, Zenon
    <3> QED  BY <2>1, <3>1, <3>2, <3>3, Zenon
  <2>2. CASE ~last
    BY <1>1, <1>2, <1>3, <2>2, Zenon
  <2> QED  BY <2>1, <2>2, Zenon
<1>12. SlabTypeOK'
  BY <1>9, <1>10, <1>11, Zenon DEF SlabTypeOK
<1>13. Range(partial_slabs') \cap Range(full_slabs') = {} /\ p \in SlabMapped'
  BY <1>2, <1>3, <1>11, Zenon DEF SlabMapped
<1>14. /\ slab'[p].used = Cardinality(NodesOut(p)') /\ NodesOut(p)' # {}
       /\ IsInjective(slab'[p].freelist) /\ Range(slab'[p].freelist) = (1..SlabNodes) \ NodesOut(p)'
  BY <1>3, <1>4, <1>7, <1>8, <1>9, Zenon
<1>15. (p \in Range(partial_slabs')) <=> (slab'[p].freelist # <<>>)
  BY <1>6, <1>9, <1>11, Zenon
<1>16. \A q \in Pages \ {p} : /\ q \in Range(partial_slabs') <=> q \in Range(partial_slabs)
                              /\ q \in Range(full_slabs') <=> q \in Range(full_slabs)
  BY <1>11, Zenon
<1> QED  BY <1>7, <1>9, <1>11, <1>12, <1>13, <1>14, <1>15, <1>16, OnePageChanges, Zenon

(* free_node_mem puts the node back first, moves a slab that was full to    *)
(* the list of those with room, and unmaps a slab with its last node.       *)
LEMMA FreeExact ==
    ASSUME SlabsExact, NEW p \in Pages, NEW i \in 1..SlabNodes, free_node_mem(p, i)
    PROVE  SlabsExact'
<1> DEFINE free == slab[p].freelist
           used == slab[p].used
           was_full == free = <<>>
<1>1. /\ partial_slabs \in Seq(Pages) /\ full_slabs \in Seq(Pages)
      /\ slab \in [Pages -> [used : Nat, freelist : Seq(1..SlabNodes)]]
      /\ allocated \subseteq Pages \X (1..SlabNodes)
      /\ IsInjective(partial_slabs) /\ IsInjective(full_slabs)
      /\ Range(partial_slabs) \cap Range(full_slabs) = {}
  BY Zenon DEF SlabsExact, SlabTypeOK
<1>2. i \in NodesOut(p) /\ allocated' = allocated \ {<<p, i>>}
  BY Zenon DEF free_node_mem, NodesOut
<1>3. p \in SlabMapped
  BY <1>2, Zenon DEF SlabsExact
<1>4. /\ used = Cardinality(NodesOut(p)) /\ IsInjective(free)
      /\ Range(free) = (1..SlabNodes) \ NodesOut(p)
      /\ (p \in Range(partial_slabs)) <=> (free # <<>>)
  BY <1>3, Zenon DEF SlabsExact
<1>5. used \in Nat /\ free \in Seq(1..SlabNodes)
  BY <1>1, Zenon
<1>6. NodesOut(p)' = NodesOut(p) \ {i} /\ \A q \in Pages \ {p} : NodesOut(q)' = NodesOut(q)
  BY <1>2, Zenon DEF NodesOut
<1>7. IsFiniteSet(NodesOut(p)) /\ Cardinality(NodesOut(p)') = used - 1
  BY <1>2, <1>4, <1>6, OutCounted, Zenon
<1>8. allocated' \subseteq Pages \X (1..SlabNodes)
  BY <1>1, <1>2, Zenon
<1>9. IsFiniteSet(NodesOut(p)')
  BY <1>6, <1>7, FS_Subset, Zenon
<1> DEFINE less == list_del_slab(full_slabs, p)
<1>10. less \in Seq(Pages) /\ IsInjective(less) /\ Range(less) = Range(full_slabs) \ {p}
  BY <1>1, PageUnlinked, Zenon
<1>11. CASE used > 1
  <2> DEFINE n == [used |-> used - 1, freelist |-> <<i>> \o free]
  <2>1. /\ slab' = [slab EXCEPT ![p] = n]
        /\ partial_slabs' = IF was_full THEN Append(partial_slabs, p) ELSE partial_slabs
        /\ full_slabs' = IF was_full THEN less ELSE full_slabs
    BY <1>11, Zenon DEF free_node_mem
  <2> HIDE DEF free, used, less
  <2>2. i \notin Range(free)
    BY <1>2, <1>4, Zenon
  <2>3. /\ <<i>> \o free \in Seq(1..SlabNodes) /\ IsInjective(<<i>> \o free) /\ <<i>> \o free # <<>>
        /\ Range(<<i>> \o free) = Range(free) \cup {i}
    <3>1. /\ free \in Seq(1..SlabNodes) /\ IsInjective(free) /\ i \in 1..SlabNodes /\ i \notin Range(free)
      BY <1>4, <1>5, <2>2, Zenon
    <3> DEFINE N == 1..SlabNodes
               r == <<i>> \o free
    <3>2. free \in Seq(N) /\ i \in N
      BY <3>1, Zenon
    <3> HIDE DEF N
    <3>3. r \in Seq(N) /\ IsInjective(r) /\ r # <<>> /\ Range(r) = Range(free) \cup {i}
      BY <3>1, <3>2, LinkedFirst
    <3> QED  BY <3>3, Zenon DEF N
  <2>4. used - 1 \in Nat /\ used - 1 # 0
    BY <1>5, <1>11
  <2>5. /\ n \in [used : Nat, freelist : Seq(1..SlabNodes)] /\ n.used = used - 1
        /\ n.freelist = <<i>> \o free
    BY <2>3, <2>4, Zenon
  <2> HIDE DEF n
  <2>6. /\ slab' \in [Pages -> [used : Nat, freelist : Seq(1..SlabNodes)]]
        /\ slab'[p] = n /\ \A q \in Pages \ {p} : slab'[q] = slab[q]
    BY <1>1, <2>1, <2>5, Zenon
  <2>7. NodesOut(p)' # {}
    BY <1>7, <2>4, FS_EmptySet, Zenon
  <2>8. /\ IsInjective(slab'[p].freelist) /\ slab'[p].used = Cardinality(NodesOut(p)')
        /\ Range(slab'[p].freelist) = (1..SlabNodes) \ NodesOut(p)' /\ slab'[p].freelist # <<>>
    <3>1. (Range(free) \cup {i}) = (1..SlabNodes) \ NodesOut(p)'
      BY <1>4, <1>6, Zenon
    <3> QED  BY <1>7, <2>3, <2>5, <2>6, <3>1, Zenon
  <2>9. /\ partial_slabs' \in Seq(Pages) /\ full_slabs' \in Seq(Pages)
        /\ IsInjective(partial_slabs') /\ IsInjective(full_slabs')
        /\ Range(partial_slabs') = Range(partial_slabs) \cup {p}
        /\ Range(full_slabs') = Range(full_slabs) \ {p}
    <3>1. CASE was_full
      <4>1. p \notin Range(partial_slabs)
        BY <1>4, <3>1, Zenon
      <4>2. /\ Append(partial_slabs, p) \in Seq(Pages) /\ IsInjective(Append(partial_slabs, p))
            /\ Range(Append(partial_slabs, p)) = Range(partial_slabs) \cup {p}
        BY <1>1, <4>1, Linked
      <4>3. partial_slabs' = Append(partial_slabs, p) /\ full_slabs' = less
        BY <2>1, <3>1, Zenon
      <4> QED  BY <1>10, <4>2, <4>3, Zenon
    <3>2. CASE ~was_full
      <4>1. p \in Range(partial_slabs) /\ p \notin Range(full_slabs)
        BY <1>1, <1>4, <3>2, Zenon
      <4>2. Range(partial_slabs) \cup {p} = Range(partial_slabs) /\ Range(full_slabs) \ {p} = Range(full_slabs)
        BY <4>1, Zenon
      <4>3. partial_slabs' = partial_slabs /\ full_slabs' = full_slabs
        BY <2>1, <3>2, Zenon
      <4> QED  BY <1>1, <4>2, <4>3, Zenon
    <3> QED  BY <3>1, <3>2, Zenon
  <2>10. SlabTypeOK'
    BY <1>8, <2>6, <2>9, Zenon DEF SlabTypeOK
  <2>11. /\ Range(partial_slabs') \cap Range(full_slabs') = {}
         /\ p \in Range(partial_slabs') /\ p \in SlabMapped'
    BY <1>1, <2>9, Zenon DEF SlabMapped
  <2>12. \A q \in Pages \ {p} : /\ q \in Range(partial_slabs') <=> q \in Range(partial_slabs)
                                /\ q \in Range(full_slabs') <=> q \in Range(full_slabs)
    BY <2>9, Zenon
  <2> QED  BY <1>6, <2>6, <2>7, <2>8, <2>9, <2>10, <2>11, <2>12, OnePageChanges, Zenon
<1>12. CASE ~(used > 1)
  <2> DEFINE rest == list_del_slab(partial_slabs, p)
  <2>1. slab' = [slab EXCEPT ![p] = Unmapped] /\ partial_slabs' = rest /\ full_slabs' = less
    BY <1>12, Zenon DEF free_node_mem
  <2>2. rest \in Seq(Pages) /\ IsInjective(rest) /\ Range(rest) = Range(partial_slabs) \ {p}
    BY <1>1, PageUnlinked, Zenon
  <2> HIDE DEF free, used, less, rest
  <2>3. Unmapped \in [used : Nat, freelist : Seq(1..SlabNodes)]
    BY DEF Unmapped
  <2>4. /\ slab' \in [Pages -> [used : Nat, freelist : Seq(1..SlabNodes)]]
        /\ \A q \in Pages \ {p} : slab'[q] = slab[q]
    BY <1>1, <2>1, <2>3, Zenon
  <2>5. NodesOut(p)' = {}
    <3>1. Cardinality(NodesOut(p)') \in Nat
      BY <1>9, FS_CardinalityType, Zenon
    <3>2. Cardinality(NodesOut(p)') = 0
      BY <1>5, <1>7, <1>12, <3>1
    <3> QED  BY <1>9, <3>2, FS_EmptySet, Zenon
  <2>6. SlabTypeOK'
    BY <1>8, <1>10, <2>1, <2>2, <2>4, Zenon DEF SlabTypeOK
  <2>7. /\ Range(partial_slabs') \cap Range(full_slabs') = {} /\ p \notin SlabMapped'
    BY <1>1, <1>10, <2>1, <2>2, Zenon DEF SlabMapped
  <2>8. \A q \in Pages \ {p} : /\ q \in Range(partial_slabs') <=> q \in Range(partial_slabs)
                               /\ q \in Range(full_slabs') <=> q \in Range(full_slabs)
    BY <1>10, <2>1, <2>2, Zenon
  <2> QED  BY <1>6, <1>10, <2>1, <2>2, <2>4, <2>5, <2>6, <2>7, <2>8, OnePageChanges, Zenon
<1> QED  BY <1>11, <1>12, Zenon

(* The allocator of nodes is exact for any number of pages and any number   *)
(* of nodes in a slab, in every order of alloc_node and free_node_mem.      *)
THEOREM NodesHandedOutOnce == SlabSpec => []SlabsExact
<1>1. SlabInit => SlabsExact
  <2> SUFFICES ASSUME SlabInit  PROVE SlabsExact
    OBVIOUS
  <2>1. Unmapped \in [used : Nat, freelist : Seq(1..SlabNodes)]
    BY DEF Unmapped
  <2>2. SlabTypeOK
    BY <2>1 DEF SlabInit, SlabTypeOK
  <2>3. Range(<<>>) = {} /\ IsInjective(<<>>)
    BY DEF Range, IsInjective
  <2>4. \A p \in Pages : NodesOut(p) = {}
    BY Zenon DEF SlabInit, NodesOut
  <2> QED  BY <2>2, <2>3, <2>4, Zenon DEF SlabInit, SlabsExact, SlabMapped
<1>2. SlabsExact /\ [SlabNext]_slabVars => SlabsExact'
  <2> SUFFICES ASSUME SlabsExact, [SlabNext]_slabVars  PROVE SlabsExact'
    OBVIOUS
  <2>1. ASSUME NEW p \in Pages, alloc_node(p)  PROVE SlabsExact'
    BY <2>1, AllocExact, Zenon
  <2>2. ASSUME NEW p \in Pages, NEW i \in 1..SlabNodes, free_node_mem(p, i)  PROVE SlabsExact'
    BY <2>2, FreeExact, Zenon
  <2>3. CASE UNCHANGED slabVars
    BY <2>3, Zenon DEF slabVars, SlabsExact, SlabTypeOK, SlabMapped, NodesOut
  <2> QED  BY <2>1, <2>2, <2>3, Zenon DEF SlabNext
<1> QED  BY <1>1, <1>2, PTL DEF SlabSpec
-----------------------------------------------------------------------------
(* auto_cache.                                                              *)

(* Every step keeps KeptPagesFresh if no answer to an open is lost.         *)
LEMMA FreshKept ==
    ASSUME OpenInterrupts = 0, KeptPagesFresh, [AutoNext]_autoVars
    PROVE  KeptPagesFresh'
<1> USE AutoCacheAssumption DEF KeptPagesFresh, AutoTypeOK, Dropping, CacheIdle
<1>1. CASE FileChanges
  BY <1>1 DEF FileChanges
<1>2. CASE TimeoutPasses
  BY <1>2, Zenon DEF TimeoutPasses
<1>3. CASE KernelReads
  BY <1>3, Zenon DEF KernelReads
<1>4. CASE KernelReclaims
  BY <1>4, Zenon DEF KernelReclaims
<1>5. CASE Closes
  BY <1>5 DEF Closes
<1>6. ASSUME NEW t \in CacheThreads, getattr_stats(t)
      PROVE  KeptPagesFresh'
  <2>1. AutoTypeOK'
    BY <1>6, Zenon DEF getattr_stats
  <2>2. Dropping' = Dropping
    BY <1>6, Zenon DEF getattr_stats
  <2>3. \A u \in CacheThreads : cthread'[u].seen <= version
    BY <1>6 DEF getattr_stats
  <2> QED
    BY <1>6, <2>1, <2>2, <2>3 DEF getattr_stats
<1>7. ASSUME NEW t \in CacheThreads, getattr_updates(t)
      PROVE  KeptPagesFresh'
  <2>1. AutoTypeOK'
    BY <1>7, Zenon DEF getattr_updates, update_stat
  <2>2. Dropping' = Dropping
    BY <1>7, Zenon DEF getattr_updates
  <2>3. \A u \in CacheThreads : cthread'[u].seen <= version
    BY <1>7 DEF getattr_updates
  <2>4. cnode'.mtime <= version /\ (cnode'.cache_valid => cnode.cache_valid /\ cnode'.mtime = cnode.mtime)
    BY <1>7, Zenon DEF getattr_updates, update_stat
  <2> QED
    BY <1>7, <2>1, <2>2, <2>3, <2>4 DEF getattr_updates
<1>8. ASSUME NEW t \in CacheThreads, open_auto_cache(t)
      PROVE  KeptPagesFresh'
  <2>1. CASE cnode.cache_valid /\ ~cnode.recent
    BY <1>8, <2>1 DEF open_auto_cache
  <2>2. CASE ~(cnode.cache_valid /\ ~cnode.recent)
    <3>0. /\ cnode' = [cnode EXCEPT !.cache_valid = TRUE]
          /\ cthread' = [cthread EXCEPT ![t] = [at |-> "reply", seen |-> cnode.mtime,
                                               keep |-> cnode.cache_valid]]
          /\ UNCHANGED <<version, page, opens, cfault>>
      BY <1>8, <2>2, Zenon DEF open_auto_cache, Decides
    <3>1. AutoTypeOK'
      BY <3>0, Zenon
    <3>2. cnode.cache_valid \/ t \in Dropping'
      BY <1>8, <2>2 DEF open_auto_cache, Decides
    <3>3. cnode.cache_valid => Dropping' = Dropping
      BY <1>8, <2>2 DEF open_auto_cache, Decides
    <3>4. \A u \in CacheThreads : cthread'[u].seen <= version
      BY <1>8, <2>2 DEF open_auto_cache, Decides
    <3>5. cnode'.mtime = cnode.mtime
      BY <1>8, <2>2, Zenon DEF open_auto_cache, Decides
    <3> QED
      BY <1>8, <3>1, <3>2, <3>3, <3>4, <3>5, Zenon DEF open_auto_cache
  <2> QED
    BY <2>1, <2>2, Zenon
<1>9. ASSUME NEW t \in CacheThreads, open_auto_cache_stats(t)
      PROVE  KeptPagesFresh'
  BY <1>9 DEF open_auto_cache_stats
<1>10. ASSUME NEW t \in CacheThreads, open_auto_cache_decides(t)
       PROVE  KeptPagesFresh'
  <2>1. CASE cthread[t].seen # 0
    BY <1>10, <2>1, Zenon DEF open_auto_cache_decides, update_stat, Decides
  <2>2. CASE cthread[t].seen = 0
    BY <1>10, <2>2, Zenon DEF open_auto_cache_decides, Decides
  <2> QED
    BY <2>1, <2>2, Zenon
<1>11. ASSUME NEW t \in CacheThreads, fuse_lib_open_replies(t)
       PROVE  KeptPagesFresh'
  BY <1>11 DEF fuse_lib_open_replies
<1>12. ASSUME NEW t \in CacheThreads, fuse_lib_open_interrupted(t)
       PROVE  KeptPagesFresh'
  BY <1>12 DEF fuse_lib_open_interrupted
<1>13. CASE UNCHANGED autoVars
  BY <1>13, Zenon DEF autoVars
<1> QED
  BY <1>1, <1>2, <1>3, <1>4, <1>5, <1>6, <1>7, <1>8, <1>9, <1>10, <1>11, <1>12, <1>13,
     Zenon DEF AutoNext

(* What an open keeps was never known to be stale (open_auto_cache and      *)
(* update_stat of fuse.c), for any number of threads, changes and failed    *)
(* stats, as long as the kernel waits for the answer to every open.         *)
THEOREM PagesKeptFresh ==
    ASSUME OpenInterrupts = 0
    PROVE  AutoSpec => []KeptPagesFresh
<1>1. AutoInit => KeptPagesFresh
  BY AutoCacheAssumption DEF AutoInit, KeptPagesFresh, AutoTypeOK, CacheIdle, Dropping
<1>2. KeptPagesFresh /\ [AutoNext]_autoVars => KeptPagesFresh'
  BY FreshKept, Zenon
<1> QED
  BY <1>1, <1>2, PTL DEF AutoSpec
-----------------------------------------------------------------------------
(* cuse_lowlevel.c.                                                         *)

(* The steps of cuse_lowlevel_main up to the loop, and of its clean-up.     *)
SetUp ==
    \/ cuse_parses \/ cuse_kill_subtype \/ cuse_lowlevel_new \/ cuse_opens \/ cuse_signals
    \/ cuse_daemonizes \/ err_sig \/ err_se \/ out1

(* They run alone: no worker and no call of the program is touched.         *)
LEMMA SetUpAlone ==
    ASSUME SetUp
    PROVE  /\ cmain \notin {"looping", "done"} /\ cmain' # "done"
           /\ UNCHANGED <<cdev, csess, cwork, ccalls, cops>>
BY DEF SetUp, Step, cuse_parses, cuse_kill_subtype, cuse_lowlevel_new, cuse_opens, cuse_signals,
       cuse_daemonizes, err_sig, err_se, out1

(* They keep the order of the calls.                                        *)
LEMMA SetUpOrdered ==
    ASSUME CuseSound, SetUp
    PROVE  CuseOrdered'
<1> USE SetUpAlone DEF CuseSound, CuseOrdered, Initialising
<1>1. Initialising' = Initialising
  OBVIOUS
<1> QED
  BY <1>1, Zenon

(* They keep the types.                                                     *)
LEMMA SetUpTypes ==
    ASSUME CuseTypeOK, SetUp
    PROVE  CuseTypeOK'
<1> USE DEF SetUp, Step, cuse_parses, cuse_kill_subtype, cuse_lowlevel_new, cuse_opens,
            cuse_signals, cuse_daemonizes, err_sig, err_se, out1
<1>1. cmain' \in CusePositions
  BY Zenon DEF CusePositions
<1>2. cheld' \subseteq Acquired
  BY Zenon DEF CuseTypeOK, Acquired
<1>3. cfaults' \in Nat
  BY DEF CuseTypeOK
<1> QED
  BY <1>1, <1>2, <1>3, SetUpAlone, Zenon DEF CuseTypeOK

(* They keep what each position may hold.                                   *)
LEMMA SetUpReleased ==
    ASSUME CuseTypeOK, CuseReleased, SetUp
    PROVE  CuseReleased'
<1> USE DEF CuseTypeOK, CuseReleased, Acquired, Step
<1>1. CASE cuse_parses
  BY <1>1, Zenon DEF cuse_parses
<1>2. CASE cuse_kill_subtype
  BY <1>2, Zenon DEF cuse_kill_subtype
<1>3. CASE cuse_lowlevel_new
  BY <1>3, Zenon DEF cuse_lowlevel_new
<1>4. CASE cuse_opens
  BY <1>4, Zenon DEF cuse_opens
<1>5. CASE cuse_signals
  BY <1>5, Zenon DEF cuse_signals
<1>6. CASE cuse_daemonizes
  BY <1>6, Zenon DEF cuse_daemonizes
<1>7. CASE err_sig
  BY <1>7, Zenon DEF err_sig
<1>8. CASE err_se
  BY <1>8, Zenon DEF err_se, fuse_session_destroy_cuse
<1>9. CASE out1
  BY <1>9, Zenon DEF out1
<1> QED
  BY <1>1, <1>2, <1>3, <1>4, <1>5, <1>6, <1>7, <1>8, <1>9, Zenon DEF SetUp

(* Every step keeps CuseSound.                                              *)
LEMMA CuseKept ==
    ASSUME CuseSound, [CuseNext]_cuseVars
    PROVE  CuseSound'
<1> USE DEF CuseSound, CuseTypeOK, CuseReleased, CuseOrdered, Initialising, CanReceive
<1>1. CASE SetUp
  BY <1>1, SetUpOrdered, SetUpTypes, SetUpReleased, Zenon DEF CuseSound
<1>2. CASE cuse_loop
  BY <1>2 DEF cuse_loop
<1>3. CASE cuse_exits
  BY <1>3, ZenonT(30) DEF cuse_exits
<1>4. CASE cuse_lowlevel_teardown
  <2>1. CuseReleased'
    BY <1>4 DEF cuse_lowlevel_teardown, fuse_session_destroy_cuse, Acquired
  <2>2. ccalls' = [ccalls EXCEPT !.destroy = ccalls.init] /\ Initialising = {}
    BY <1>4 DEF cuse_lowlevel_teardown
  <2>3. CuseTypeOK'
    BY <1>4, <2>2 DEF cuse_lowlevel_teardown, CusePositions
  <2> QED
    BY <1>4, <2>1, <2>2, <2>3 DEF cuse_lowlevel_teardown
<1>5. ASSUME NEW w \in CuseWorkers, cuse_lowlevel_init_old(w)
      PROVE  CuseSound'
  BY <1>5 DEF cuse_lowlevel_init_old
<1>6. ASSUME NEW w \in CuseWorkers, cuse_lowlevel_init(w)
      PROVE  CuseSound'
  <2>1. Initialising = {}
    BY <1>6 DEF cuse_lowlevel_init
  <2>2. Initialising' = {w}
    BY <1>6, <2>1 DEF cuse_lowlevel_init
  <2>3. CuseTypeOK' /\ CuseReleased'
    <3>1. CuseTypeOK'
      <4>1. csess' \in [got_init : BOOLEAN, exited : BOOLEAN]
        BY <1>6, Zenon DEF cuse_lowlevel_init
      <4>2. ccalls' \in [init : Nat, inited : Nat, init_done : Nat, destroy : Nat]
        BY <1>6 DEF cuse_lowlevel_init
      <4>3. cwork' \in [CuseWorkers -> {"none", "init", "replied", "op"}]
        BY <1>6, Zenon DEF cuse_lowlevel_init
      <4> QED
        BY <1>6, <4>1, <4>2, <4>3, Zenon DEF cuse_lowlevel_init
    <3>2. CuseReleased'
      BY <1>6, Zenon DEF cuse_lowlevel_init
    <3> QED
      BY <3>1, <3>2, Zenon
  <2>4. ccalls.inited = 0 /\ ccalls.init_done = 0 /\ ccalls' = [ccalls EXCEPT !.init = 1]
    BY <1>6, <2>1 DEF cuse_lowlevel_init
  <2>5. cwork'[w] = "init" /\ \A v \in CuseWorkers : cwork'[v] = "op" => cwork[v] = "op"
    BY <1>6 DEF cuse_lowlevel_init
  <2> QED
    BY <1>6, <2>2, <2>3, <2>4, <2>5 DEF cuse_lowlevel_init
<1>7. ASSUME NEW w \in CuseWorkers, cuse_reply_init(w)
      PROVE  CuseSound'
  <2>1. Initialising' = Initialising /\ Initialising = {w}
    BY <1>7 DEF cuse_reply_init
  <2>2. ccalls.inited = 0 /\ ccalls.init_done = 0 /\ ccalls' = [ccalls EXCEPT !.inited = 1]
    BY <1>7, <2>1 DEF cuse_reply_init
  <2>3. CuseTypeOK' /\ CuseReleased'
    <3>1. CuseTypeOK'
      BY <1>7 DEF cuse_reply_init
    <3>2. CuseReleased'
      BY <1>7 DEF cuse_reply_init
    <3> QED
      BY <3>1, <3>2, Zenon
  <2>4. cwork'[w] = "replied" /\ cmain = "looping"
    BY <1>7, Zenon DEF cuse_reply_init
  <2> QED
    BY <1>7, <2>1, <2>2, <2>3, <2>4 DEF cuse_reply_init
<1>8. ASSUME NEW w \in CuseWorkers, cuse_init_done(w)
      PROVE  CuseSound'
  <2>1. Initialising' = {} /\ Initialising = {w}
    BY <1>8 DEF cuse_init_done
  <2>2. ccalls.inited = 1 /\ ccalls' = [ccalls EXCEPT !.init_done = 1]
    BY <1>8, <2>1 DEF cuse_init_done
  <2>3. CuseTypeOK' /\ CuseReleased'
    BY <1>8 DEF cuse_init_done
  <2>4. cmain = "looping" /\ \A v \in CuseWorkers : cwork'[v] = "op" => cwork[v] = "op"
    BY <1>8, Zenon DEF cuse_init_done
  <2> QED
    BY <1>8, <2>1, <2>2, <2>3, <2>4, Zenon DEF cuse_init_done
<1>9. ASSUME NEW w \in CuseWorkers, cuse_fll(w)
      PROVE  CuseSound'
  BY <1>9 DEF cuse_fll
<1>10. ASSUME NEW w \in CuseWorkers, cuse_fll_ends(w)
       PROVE  CuseSound'
  BY <1>10 DEF cuse_fll_ends
<1>11. CASE UNCHANGED cuseVars
  BY <1>11 DEF cuseVars
<1> QED
  BY <1>1, <1>2, <1>3, <1>4, <1>5, <1>6, <1>7, <1>8, <1>9, <1>10, <1>11, Zenon
     DEF CuseNext, SetUp

(* Whatever step fails, cuse_lowlevel_main returns with nothing held, and   *)
(* the program is called between its init and its destroy only              *)
(* (cuse_lowlevel.c), for any number of workers and faults.                 *)
THEOREM CuseCallsInOrder == CuseSpec => []CuseSound
<1>1. CuseInit => CuseSound
  BY CuseAssumption DEF CuseInit, CuseSound, CuseTypeOK, CuseReleased, CuseOrdered, Initialising,
                        CusePositions
<1>2. CuseSound /\ [CuseNext]_cuseVars => CuseSound'
  BY CuseKept, Zenon
<1> QED
  BY <1>1, <1>2, PTL DEF CuseSpec
-----------------------------------------------------------------------------
(* poll.c.                                                                  *)

(* The files in which the handle of c is stored.                            *)
StoredFor(c) == {f \in FselFiles : fsel_poll_handle[f] = c}

(* The handles of c that somebody knows of, or that are leaked.             *)
Owned(c) ==
    Cardinality(StoredFor(c)) + (IF client[c].at = "polling" THEN 1 ELSE 0) + leaked[c]

(* The files in which it is stored are finitely many.                       *)
LEMMA StoredFinite ==
    \A c : /\ IsFiniteSet(StoredFor(c)) /\ Cardinality(StoredFor(c)) \in Nat
           /\ IsFiniteSet(StoredFor(c)') /\ Cardinality(StoredFor(c)') \in Nat
<1> TAKE c
<1>1. IsFiniteSet(FselFiles)
  BY FselAssumption, FS_Interval DEF FselFiles
<1>2. StoredFor(c) \subseteq FselFiles /\ StoredFor(c)' \subseteq FselFiles
  BY Zenon DEF StoredFor
<1> QED
  BY <1>1, <1>2, FS_Subset, FS_CardinalityType, Zenon

(* A step that leaves the handles and the polls in progress alone keeps who *)
(* owns them.                                                               *)
LEMMA OwnedUnlessPolled ==
    ASSUME PollHandlesOwned,
           UNCHANGED <<handles, leaked, fsel_poll_handle, fsel_poll_notify_mask>>,
           \A c \in FselClients : (client'[c].at = "polling") <=> (client[c].at = "polling")
    PROVE  PollHandlesOwned'
BY Zenon DEF PollHandlesOwned

(* Nobody opens a file: who shares one did so before.                       *)
LEMMA SharersKept ==
    ASSUME SharersNoted, Opened' \subseteq Opened, Opened' \cap shared \subseteq shared',
           \A d \in Opened' : client'[d].file = client[d].file
    PROVE  SharersNoted'
BY Zenon DEF SharersNoted

(* Nobody begins to wait, and the files stay as they are.                   *)
LEMMA WaitersKept ==
    ASSUME WaitersRegistered, UNCHANGED <<fsel_poll_handle, fsel_cnt>>, 
           \A d \in shared : d \in shared' \/ client'[d].at # "waiting",
           \A d \in FselClients : client'[d].at = "waiting" =>
               client[d].at = "waiting" /\ client'[d].file = client[d].file
    PROVE  WaitersRegistered'
BY Zenon DEF WaitersRegistered

(* Nobody opens a file or closes one, and no such request begins.           *)
LEMMA OneOpenKept ==
    ASSUME OneOpenPerFile, UNCHANGED <<fsel_open_mask, shared>>, InRequest' \subseteq InRequest,
           {client[d].file : d \in Opened}' = {client[d].file : d \in Opened},
           \A d \in FselClients : client'[d].at \in {"opening", "releasing"} =>
               /\ client'[d].at = client[d].at /\ client'[d].file = client[d].file
               /\ client'[d].mask = client[d].mask
    PROVE  OneOpenPerFile'
<1>1. shared' = {} /\ fsel_open_mask' = {client[d].file : d \in Opened}'
  BY Zenon DEF OneOpenPerFile
<1>2. \A c, d \in InRequest' : c = d
  BY Zenon DEF OneOpenPerFile
<1>3. \A d \in FselClients :
         /\ client'[d].at \in {"opening", "releasing"} => client'[d].mask = fsel_open_mask'
         /\ client'[d].at = "opening" => client'[d].file \notin fsel_open_mask'
  BY Zenon DEF OneOpenPerFile
<1> QED
  BY <1>1, <1>2, <1>3, Zenon DEF OneOpenPerFile

(* A client at another position, with another mask.                         *)
LEMMA StateChanged ==
    ASSUME NEW s \in FselStates, NEW m \in SUBSET FselFiles,
           NEW a \in {"closed", "opening", "open", "polling", "waiting", "releasing"}
    PROVE  [s EXCEPT !.at = a, !.mask = m] \in FselStates
BY Zenon DEF FselStates

(* The files of a round of fsel_producer exist.                             *)
LEMMA RoundFiles ==
    ASSUME FselTypeOK
    PROVE  /\ {(producer.idx + i * (FSEL_FILES \div producer.nr)) % FSEL_FILES :
                 i \in 0..(producer.nr - 1)} \subseteq FselFiles
           /\ fsel_producer_advances \in [idx : FselFiles, nr : {1, 2, 4}, stop : BOOLEAN]
<1> USE FselAssumption DEF FselTypeOK, FselFiles
<1>1. \A n \in Int : n % FSEL_FILES \in FselFiles
  OBVIOUS
<1>2. FSEL_FILES \div producer.nr \in Int
  <2>1. CASE producer.nr = 1
    BY <2>1
  <2>2. CASE producer.nr = 2
    BY <2>2
  <2>3. CASE producer.nr = 4
    BY <2>3
  <2> QED
    BY <2>1, <2>2, <2>3, Zenon
<1>3. \A i \in 0..(producer.nr - 1) : producer.idx + i * (FSEL_FILES \div producer.nr) \in Int
  <2> DEFINE q == FSEL_FILES \div producer.nr
  <2>1. q \in Int /\ producer.idx \in Int
    BY <1>2
  <2> HIDE DEF q
  <2> QED
    BY <2>1 DEF q
<1>4. (producer.nr * 2) % 7 \in {1, 2, 4}
  OBVIOUS
<1>5. fsel_producer_advances \in [idx : FselFiles, nr : {1, 2, 4}, stop : BOOLEAN]
  <2> DEFINE next == (producer.idx + 1) % FSEL_FILES
             nr == IF next = 0 THEN (producer.nr * 2) % 7 ELSE producer.nr
  <2>0. producer.idx + 1 \in Int
    OBVIOUS
  <2>1. next \in FselFiles
    BY <1>1, <2>0, Zenon
  <2>2. nr \in {1, 2, 4}
    BY <1>4, Zenon
  <2>3. fsel_producer_advances = [producer EXCEPT !.idx = next, !.nr = nr]
    BY Zenon DEF fsel_producer_advances
  <2>4. producer \in [idx : FselFiles, nr : {1, 2, 4}, stop : BOOLEAN]
    BY Zenon
  <2> HIDE DEF next, nr, FselFiles
  <2> QED
    BY <2>1, <2>2, <2>3, <2>4, Zenon
<1>6. \A i \in 0..(producer.nr - 1) :
         (producer.idx + i * (FSEL_FILES \div producer.nr)) % FSEL_FILES \in FselFiles
  BY <1>1, <1>3, Zenon
<1> HIDE DEF FselFiles
<1> QED
  BY <1>5, <1>6

(* The open of a file, and the write of its bit.                            *)
LEMMA OpenKept ==
    ASSUME PollHandlesSound, NEW c \in FselClients,
           (\E f \in FselOpened[serial] : fsel_open(c, f)) \/ fsel_open_sets(c)
    PROVE  PollHandlesSound'
<1> USE DEF PollHandlesSound
<1>0. FselOpened[serial] \subseteq FselFiles
  BY FselAssumption DEF FselFiles, FselTypeOK
<1>1. ASSUME NEW f \in FselOpened[serial], fsel_open(c, f)
      PROVE  PollHandlesSound'
  <2>1. f \in FselFiles
    BY <1>0, Zenon
  <2>2. FselTypeOK'
    BY <1>1, <2>1, Zenon DEF fsel_open, FselTypeOK, FselStates
  <2>3. PollHandlesOwned'
    BY <1>1, OwnedUnlessPolled, Zenon DEF fsel_open, FselTypeOK
  <2>4. Opened' = Opened /\ \A d \in Opened : client'[d] = client[d]
    BY <1>1, Zenon DEF fsel_open, Opened, FselTypeOK
  <2>5. SharersNoted'
    BY <1>1, <2>4, SharersKept, Zenon DEF fsel_open
  <2>6. serial' => OneOpenPerFile'
    <3> SUFFICES ASSUME serial PROVE OneOpenPerFile'
      BY <1>1, Zenon DEF fsel_open
    <3>1. {client[d].file : d \in Opened}' = {client[d].file : d \in Opened}
      BY <2>4, Zenon
    <3>2. \A d \in FselClients : d # c => client'[d] = client[d]
      BY <1>1, Zenon DEF fsel_open, FselTypeOK
    <3>3. client'[c].at = "opening" /\ client'[c].mask = fsel_open_mask /\ client'[c].file = f
      BY <1>1, Zenon DEF fsel_open, FselTypeOK
    <3>4. InRequest = {} /\ InRequest' = {c}
      BY <1>1 DEF fsel_open, Begins, InRequest, FselTypeOK
    <3> QED
      BY <1>1, <3>1, <3>2, <3>3, <3>4 DEF fsel_open, OneOpenPerFile
  <2>7. WaitersRegistered'
    BY <1>1, WaitersKept, Zenon DEF fsel_open, FselTypeOK
  <2> QED
    BY <2>2, <2>3, <2>5, <2>6, <2>7, Zenon
<1>2. CASE fsel_open_sets(c)
  <2> DEFINE f == client[c].file
  <2>1. f \in FselFiles
    BY Zenon DEF FselTypeOK, FselStates
  <2>2. /\ shared \subseteq shared' /\ Sharers(f) \subseteq shared' /\ shared' \subseteq FselClients
        /\ Sharers(f) # {} => c \in shared'
        /\ Sharers(f) = {} => shared' = shared
    BY <1>2 DEF fsel_open_sets, FselTypeOK, Sharers, Opened
  <2>3. FselTypeOK'
    <3>1. [client[c] EXCEPT !.at = "open", !.mask = {}] \in FselStates
      BY StateChanged, Zenon DEF FselTypeOK
    <3>2. client' \in [FselClients -> FselStates]
      BY <1>2, <3>1, Zenon DEF fsel_open_sets, FselTypeOK
    <3>3. fsel_open_mask' \subseteq FselFiles
      BY <1>2, <2>1, Zenon DEF fsel_open_sets, FselTypeOK, FselStates
    <3> QED
      BY <1>2, <2>2, <3>2, <3>3, Zenon DEF fsel_open_sets, FselTypeOK
  <2>4. PollHandlesOwned'
    BY <1>2, OwnedUnlessPolled DEF fsel_open_sets, FselTypeOK
  <2>5. /\ Opened' = Opened \cup {c} /\ c \notin Opened
        /\ \A d \in FselClients : client'[d].file = client[d].file
        /\ \A d \in FselClients : d # c => client'[d] = client[d]
    BY <1>2 DEF fsel_open_sets, Opened, FselTypeOK
  <2>6. SharersNoted'
    <3> SUFFICES ASSUME NEW d \in Opened', NEW e \in Opened', d # e,
                        client'[d].file = client'[e].file
                 PROVE  d \in shared' /\ e \in shared'
      BY Zenon DEF SharersNoted
    <3>1. d \in FselClients /\ e \in FselClients /\ client[d].file = client[e].file
      BY <2>5, Zenon DEF Opened
    <3>2. CASE d \in Opened /\ e \in Opened
      BY <2>2, <3>1, <3>2, Zenon DEF SharersNoted
    <3>3. CASE d = c
      BY <2>2, <2>5, <3>1, <3>3, Zenon DEF Sharers
    <3>4. CASE e = c
      BY <2>2, <2>5, <3>1, <3>4, Zenon DEF Sharers
    <3> QED
      BY <2>5, <3>2, <3>3, <3>4, Zenon
  <2>7. serial' => OneOpenPerFile'
    <3> SUFFICES ASSUME serial PROVE OneOpenPerFile'
      BY <1>2, Zenon DEF fsel_open_sets
    <3>1. client[c].mask = fsel_open_mask /\ f \notin fsel_open_mask
      BY <1>2, Zenon DEF fsel_open_sets, OneOpenPerFile
    <3>2. fsel_open_mask' = fsel_open_mask \cup {f}
      BY <1>2, <3>1, Zenon DEF fsel_open_sets
    <3>3. InRequest = {c} /\ InRequest' = {}
      BY <1>2 DEF fsel_open_sets, OneOpenPerFile, InRequest, FselTypeOK
    <3>4. {client[d].file : d \in Opened}' = {client[d].file : d \in Opened} \cup {f}
      BY <2>5 DEF Opened
    <3>5. Sharers(f) = {}
      BY <3>1, Zenon DEF OneOpenPerFile, Sharers
    <3>6. \A d \in FselClients : client'[d].at \notin {"opening", "releasing"}
      BY <3>3, Zenon DEF InRequest
    <3> QED
      BY <2>2, <3>2, <3>3, <3>4, <3>5, <3>6, Zenon DEF OneOpenPerFile
  <2>8. WaitersRegistered'
    <3>1. \A d \in FselClients : client'[d].at = "waiting" =>
             client[d].at = "waiting" /\ client'[d].file = client[d].file
      BY <1>2 DEF fsel_open_sets, FselTypeOK
    <3> QED
      BY <1>2, <2>2, <3>1, WaitersKept, Zenon DEF fsel_open_sets
  <2> QED
    BY <2>3, <2>4, <2>6, <2>7, <2>8, Zenon
<1> QED
  BY <1>1, <1>2, Zenon

(* The release of a file, and the write of its bit.                         *)
LEMMA ReleaseKept ==
    ASSUME PollHandlesSound, NEW c \in FselClients,
           fsel_release(c) \/ fsel_release_clears(c)
    PROVE  PollHandlesSound'
<1> USE DEF PollHandlesSound
<1>1. CASE fsel_release(c)
  <2>1. FselTypeOK'
    <3>1. [client[c] EXCEPT !.at = "releasing", !.mask = fsel_open_mask] \in FselStates
      BY StateChanged, Zenon DEF FselTypeOK
    <3>2. client' \in [FselClients -> FselStates]
      BY <1>1, <3>1, Zenon DEF fsel_release, FselTypeOK
    <3> QED
      BY <1>1, <3>2, Zenon DEF fsel_release, FselTypeOK
  <2>2. PollHandlesOwned'
    BY <1>1, OwnedUnlessPolled DEF fsel_release, FselTypeOK
  <2>3. Opened' = Opened /\ \A d \in FselClients : client'[d].file = client[d].file
    BY <1>1 DEF fsel_release, Opened, FselTypeOK
  <2>4. SharersNoted'
    BY <1>1, <2>3, SharersKept, Zenon DEF fsel_release, Opened
  <2>5. serial' => OneOpenPerFile'
    <3> SUFFICES ASSUME serial PROVE OneOpenPerFile'
      BY <1>1, Zenon DEF fsel_release
    <3>1. {client[d].file : d \in Opened}' = {client[d].file : d \in Opened}
      BY <2>3, Zenon DEF Opened
    <3>2. InRequest = {} /\ InRequest' = {c}
      BY <1>1 DEF fsel_release, Begins, InRequest, FselTypeOK
    <3>3. \A d \in FselClients : d # c => client'[d].at \notin {"opening", "releasing"}
      BY <3>2, Zenon DEF InRequest
    <3>4. client'[c].at = "releasing" /\ client'[c].mask = fsel_open_mask
      BY <1>1 DEF fsel_release, FselTypeOK
    <3> QED
      BY <1>1, <3>1, <3>2, <3>3, <3>4, Zenon DEF fsel_release, OneOpenPerFile
  <2>6. WaitersRegistered'
    <3>1. \A d \in FselClients : client'[d].at = "waiting" =>
             client[d].at = "waiting" /\ client'[d].file = client[d].file
      BY <1>1 DEF fsel_release, FselTypeOK
    <3> QED
      BY <1>1, <3>1, WaitersKept, Zenon DEF fsel_release
  <2> QED
    BY <2>1, <2>2, <2>4, <2>5, <2>6, Zenon
<1>2. CASE fsel_release_clears(c)
  <2>1. FselTypeOK'
    <3>1. 0 \in FselFiles
      BY FselAssumption DEF FselFiles
    <3>2. client[c].mask \subseteq FselFiles /\ fsel_open_mask \subseteq FselFiles
      BY Zenon DEF FselTypeOK, FselStates
    <3>3. fsel_open_mask' \subseteq FselFiles
      BY <1>2, <3>2 DEF fsel_release_clears
    <3> QED
      BY <1>2, <3>1, <3>3, Zenon DEF fsel_release_clears, FselTypeOK, FselStates, NoFile
  <2>2. PollHandlesOwned'
    BY <1>2, OwnedUnlessPolled, Zenon DEF fsel_release_clears, FselTypeOK, NoFile
  <2>3. /\ Opened' = Opened \ {c} /\ c \in Opened
        /\ \A d \in FselClients : d # c => client'[d] = client[d]
        /\ shared' = shared \ {c} /\ client'[c].at = "closed"
    BY <1>2, Zenon DEF fsel_release_clears, Opened, FselTypeOK, NoFile
  <2>4. SharersNoted'
    BY <2>3, SharersKept, Zenon DEF Opened
  <2>5. serial' => OneOpenPerFile'
    <3> SUFFICES ASSUME serial PROVE OneOpenPerFile'
      BY <1>2, Zenon DEF fsel_release_clears
    <3>1. fsel_open_mask' = fsel_open_mask \ {client[c].file}
      BY <1>2, Zenon DEF fsel_release_clears, OneOpenPerFile
    <3>2. InRequest = {c} /\ InRequest' = {}
      BY <1>2 DEF fsel_release_clears, OneOpenPerFile, InRequest, FselTypeOK, NoFile
    <3>3. \A d \in Opened \ {c} : client[d].file # client[c].file
      BY <2>3, Zenon DEF OneOpenPerFile, SharersNoted
    <3>4. {client[d].file : d \in Opened}' = {client[d].file : d \in Opened} \ {client[c].file}
      BY <2>3, <3>3 DEF Opened
    <3>5. \A d \in FselClients : client'[d].at \notin {"opening", "releasing"}
      BY <3>2, Zenon DEF InRequest
    <3> QED
      BY <2>3, <3>1, <3>2, <3>4, <3>5, Zenon DEF OneOpenPerFile
  <2>6. WaitersRegistered'
    <3>1. \A d \in FselClients : client'[d].at = "waiting" =>
             client[d].at = "waiting" /\ client'[d].file = client[d].file
      BY <2>3
    <3> QED
      BY <1>2, <2>3, <3>1, WaitersKept, Zenon DEF fsel_release_clears
  <2> QED
    BY <2>1, <2>2, <2>4, <2>5, <2>6, Zenon
<1> QED
  BY <1>1, <1>2, Zenon

(* read, under fsel_mutex.                                                  *)
LEMMA ReadKept ==
    ASSUME PollHandlesSound, NEW c \in FselClients, fsel_read(c)
    PROVE  PollHandlesSound'
<1> USE DEF PollHandlesSound, fsel_read
<1>1. client[c].file \in FselFiles
  BY Zenon DEF FselTypeOK, FselStates
<1>2. PICK size \in 1..FSEL_CNT_MAX :
         fsel_cnt' = [fsel_cnt EXCEPT ![client[c].file] = IF @ < size THEN 0 ELSE @ - size]
  BY Zenon
<1>3. fsel_cnt' \in [FselFiles -> 0..FSEL_CNT_MAX]
  BY <1>1, <1>2, FselAssumption DEF FselTypeOK
<1>4. \A f \in FselFiles : fsel_cnt[f] = 0 => fsel_cnt'[f] = 0
  BY <1>1, <1>2, FselAssumption DEF FselTypeOK
<1>5. FselTypeOK'
  BY <1>3, Zenon DEF FselTypeOK
<1>6. PollHandlesOwned'
  BY OwnedUnlessPolled, Zenon
<1>7. SharersNoted' /\ (serial' => OneOpenPerFile')
  BY DEF OneOpenPerFile, SharersNoted, Opened, InRequest
<1>8. WaitersRegistered'
  BY <1>4, Zenon DEF WaitersRegistered, FselTypeOK, FselStates
<1> QED
  BY <1>5, <1>6, <1>7, <1>8, Zenon

(* do_poll of fuse_lowlevel.c allocates a handle.                           *)
LEMMA DoPollKept ==
    ASSUME PollHandlesSound, NEW c \in FselClients, do_poll(c)
    PROVE  PollHandlesSound'
<1> USE DEF PollHandlesSound
<1>1. client' = [client EXCEPT ![c] = [client[c] EXCEPT !.at = "polling"]]
  BY Zenon DEF do_poll
<1>2. FselTypeOK'
  <2>1. [client[c] EXCEPT !.at = "polling"] \in FselStates
    BY DEF FselTypeOK, FselStates
  <2>2. client' \in [FselClients -> FselStates]
    BY <1>1, <2>1, Zenon DEF FselTypeOK
  <2>3. handles' \in [FselClients -> Nat]
    BY DEF do_poll, FselTypeOK
  <2> QED
    BY <2>2, <2>3, Zenon DEF do_poll, FselTypeOK
<1>3. client'[c].at = "polling" /\ \A d \in FselClients : d # c => client'[d] = client[d]
  BY <1>1, Zenon DEF FselTypeOK, FselStates
<1>4. PollHandlesOwned'
  <2>1. \A d \in FselClients : /\ handles'[d] = IF d = c THEN handles[d] + 1 ELSE handles[d]
                               /\ leaked'[d] = leaked[d] /\ leaked[d] \in Nat
    BY Zenon DEF do_poll, FselTypeOK
  <2>2. \A d : StoredFor(d)' = StoredFor(d)
    BY Zenon DEF do_poll, StoredFor
  <2>3. \A d \in FselClients : handles'[d] = Owned(d)'
    <3> TAKE d \in FselClients
    <3>1. handles[d] = Owned(d)
      BY Zenon DEF PollHandlesOwned, StoredFor, Owned
    <3>2. client[c].at # "polling"
      BY Zenon DEF do_poll
    <3> QED
      BY <1>3, <2>1, <2>2, <3>1, <3>2, StoredFinite DEF Owned
  <2> QED
    BY <2>3, Zenon DEF do_poll, PollHandlesOwned, StoredFor, Owned
<1>5. Opened' = Opened /\ \A d \in FselClients : client'[d].file = client[d].file
  BY <1>1 DEF do_poll, Opened, FselTypeOK, FselStates
<1>6. SharersNoted'
  BY <1>5, SharersKept, Zenon DEF do_poll, Opened
<1>7. serial' => OneOpenPerFile'
  <2> SUFFICES ASSUME serial PROVE OneOpenPerFile'
    BY Zenon DEF do_poll
  <2>1. {client[d].file : d \in Opened}' = {client[d].file : d \in Opened}
    BY <1>5, Zenon DEF Opened
  <2>2. InRequest = {} /\ InRequest' = {c}
    BY <1>3, Zenon DEF do_poll, Begins, InRequest
  <2>3. \A d \in FselClients : client'[d].at \notin {"opening", "releasing"}
    BY <1>3, <2>2, Zenon DEF InRequest
  <2> QED
    BY <2>1, <2>2, <2>3, Zenon DEF do_poll, OneOpenPerFile
<1>8. WaitersRegistered'
  <2>1. \A d \in FselClients : client'[d].at = "waiting" =>
           client[d].at = "waiting" /\ client'[d].file = client[d].file
    BY <1>3
  <2> QED
    BY <2>1, WaitersKept, Zenon DEF do_poll
<1> QED
  BY <1>2, <1>4, <1>6, <1>7, <1>8, Zenon

(* fuse_lib_poll has no memory for the path: the handle is leaked.          *)
LEMMA FailKept ==
    ASSUME PollHandlesSound, NEW c \in FselClients, fuse_lib_poll_fails(c)
    PROVE  PollHandlesSound'
<1> USE DEF PollHandlesSound
<1>1. client' = [client EXCEPT ![c] = [client[c] EXCEPT !.at = "open"]]
  BY Zenon DEF fuse_lib_poll_fails
<1>2. FselTypeOK'
  <2>1. [client[c] EXCEPT !.at = "open"] \in FselStates
    BY DEF FselTypeOK, FselStates
  <2>2. client' \in [FselClients -> FselStates]
    BY <1>1, <2>1, Zenon DEF FselTypeOK
  <2>3. leaked' \in [FselClients -> Nat]
    BY DEF fuse_lib_poll_fails, FselTypeOK
  <2> QED
    BY <2>2, <2>3, Zenon DEF fuse_lib_poll_fails, FselTypeOK
<1>3. client'[c].at = "open" /\ \A d \in FselClients : d # c => client'[d] = client[d]
  BY <1>1, Zenon DEF FselTypeOK, FselStates
<1>4. PollHandlesOwned'
  <2>1. \A d \in FselClients : /\ leaked'[d] = IF d = c THEN leaked[d] + 1 ELSE leaked[d]
                               /\ handles'[d] = handles[d] /\ leaked[d] \in Nat
    BY Zenon DEF fuse_lib_poll_fails, FselTypeOK
  <2>2. \A d : StoredFor(d)' = StoredFor(d)
    BY Zenon DEF fuse_lib_poll_fails, StoredFor
  <2>3. \A d \in FselClients : handles'[d] = Owned(d)'
    <3> TAKE d \in FselClients
    <3>1. handles[d] = Owned(d)
      BY Zenon DEF PollHandlesOwned, StoredFor, Owned
    <3>2. client[c].at = "polling"
      BY Zenon DEF fuse_lib_poll_fails
    <3> QED
      BY <1>3, <2>1, <2>2, <3>1, <3>2, StoredFinite DEF Owned
  <2> QED
    BY <2>3, Zenon DEF fuse_lib_poll_fails, PollHandlesOwned, StoredFor, Owned
<1>5. Opened' = Opened /\ \A d \in FselClients : client'[d].file = client[d].file
  BY <1>1 DEF fuse_lib_poll_fails, Opened, FselTypeOK, FselStates
<1>6. SharersNoted'
  BY <1>5, SharersKept, Zenon DEF fuse_lib_poll_fails, Opened
<1>7. serial' => OneOpenPerFile'
  <2> SUFFICES ASSUME serial PROVE OneOpenPerFile'
    BY Zenon DEF fuse_lib_poll_fails
  <2>1. {client[d].file : d \in Opened}' = {client[d].file : d \in Opened}
    BY <1>5, Zenon DEF Opened
  <2>2. InRequest' \subseteq InRequest
    BY <1>3, Zenon DEF InRequest
  <2>3. \A d \in FselClients : client'[d].at \in {"opening", "releasing"} => client'[d] = client[d]
    BY <1>3
  <2> QED
    BY <2>1, <2>2, <2>3, OneOpenKept, Zenon DEF fuse_lib_poll_fails
<1>8. WaitersRegistered'
  <2>1. \A d \in FselClients : client'[d].at = "waiting" =>
           client[d].at = "waiting" /\ client'[d].file = client[d].file
    BY <1>3
  <2> QED
    BY <2>1, WaitersKept, Zenon DEF fuse_lib_poll_fails
<1> QED
  BY <1>2, <1>4, <1>6, <1>7, <1>8, Zenon

(* fsel_poll stores the handle in place of the last one.                    *)
LEMMA PollKept ==
    ASSUME PollHandlesSound, NEW c \in FselClients, fsel_poll(c)
    PROVE  PollHandlesSound'
<1> USE DEF PollHandlesSound
<1> DEFINE f == client[c].file
           to == IF fsel_cnt[f] > 0 THEN "open" ELSE "waiting"
           last == fsel_poll_handle[f]
<1>1. /\ client[c].at = "polling" /\ f \in FselFiles /\ to \in {"open", "waiting"}
      /\ handles' = Freed(last) /\ last \in FselClients \cup {"NULL"}
      /\ fsel_poll_notify_mask' = fsel_poll_notify_mask \cup {f}
      /\ fsel_poll_handle' = [fsel_poll_handle EXCEPT ![f] = c]
      /\ client' = [client EXCEPT ![c] = [client[c] EXCEPT !.at = to]]
      /\ UNCHANGED <<fsel_open_mask, fsel_cnt, leaked, producer, serial, shared>>
  BY Zenon DEF fsel_poll, FselTypeOK, FselStates
<1>2. c # "NULL"
  BY FselAssumption, Zenon
<1>3. /\ client'[c].at = to /\ \A d \in FselClients : d # c => client'[d] = client[d]
      /\ \A d \in FselClients : client'[d].file = client[d].file
  BY <1>1, Zenon DEF FselTypeOK, FselStates
<1>4. client' \in [FselClients -> FselStates]
  <2>1. [client[c] EXCEPT !.at = to] \in FselStates
    BY <1>1, Zenon DEF FselTypeOK, FselStates
  <2> HIDE DEF to
  <2> QED
    BY <1>1, <2>1, Zenon DEF FselTypeOK
<1>5. fsel_poll_handle' \in [FselFiles -> FselClients \cup {"NULL"}]
  BY <1>1, Zenon DEF FselTypeOK
<1>6. /\ StoredFor(c)' = StoredFor(c) \cup {f}
      /\ \A d \in FselClients : d # c => StoredFor(d)' = StoredFor(d) \ {f}
      /\ \A d \in FselClients : f \in StoredFor(d) <=> d = last
  BY <1>1, Zenon DEF StoredFor, FselTypeOK
<1>7. \A d \in FselClients : handles'[d] = IF d = last THEN handles[d] - 1 ELSE handles[d]
  BY <1>1, FselAssumption, Zenon DEF Freed, FselTypeOK
<1>8. \A d \in FselClients : handles'[d] = Owned(d)'
  <2> TAKE d \in FselClients
  <2>1. handles[d] = Owned(d) /\ leaked[d] \in Nat /\ leaked' = leaked
    BY <1>1, Zenon DEF PollHandlesOwned, StoredFor, Owned, FselTypeOK
  <2>2. CASE d = c
    <3>1. Cardinality(StoredFor(d)') = IF d = last THEN Cardinality(StoredFor(d))
                                       ELSE Cardinality(StoredFor(d)) + 1
      BY <1>6, <2>2, StoredFinite, FS_AddElement
    <3>2. client[d].at = "polling" /\ client'[d].at # "polling"
      BY <1>1, <1>3, <2>2, Zenon
    <3> HIDE DEF f, to, last
    <3> QED
      BY <1>7, <2>1, <3>1, <3>2, StoredFinite DEF Owned
  <2>3. CASE d # c
    <3>1. Cardinality(StoredFor(d)') = IF d = last THEN Cardinality(StoredFor(d)) - 1
                                       ELSE Cardinality(StoredFor(d))
      BY <1>6, <2>3, StoredFinite, FS_RemoveElement
    <3>2. client'[d] = client[d]
      BY <1>3, <2>3, Zenon
    <3> HIDE DEF f, to, last
    <3> QED
      BY <1>7, <2>1, <3>1, <3>2, StoredFinite DEF Owned
  <2> QED
    BY <2>2, <2>3, Zenon
<1>9. PollHandlesOwned'
  <2>1. fsel_poll_notify_mask' = {g \in FselFiles : fsel_poll_handle'[g] # "NULL"}
    BY <1>1, <1>2 DEF PollHandlesOwned, FselTypeOK
  <2> QED
    BY <1>8, <2>1, Zenon DEF PollHandlesOwned, StoredFor, Owned
<1>10. handles' \in [FselClients -> Nat]
  <2>1. handles' = [d \in FselClients |-> handles'[d]]
    BY <1>1, Zenon DEF Freed, FselTypeOK
  <2>2. \A d \in FselClients : handles'[d] \in Nat
    BY <1>1, <1>8, StoredFinite DEF Owned, FselTypeOK
  <2> QED
    BY <2>1, <2>2, Zenon
<1>11. FselTypeOK'
  BY <1>1, <1>4, <1>5, <1>10, Zenon DEF FselTypeOK
<1>12. Opened' = Opened /\ c \in Opened
  BY <1>1, <1>3 DEF Opened
<1>13. SharersNoted'
  BY <1>1, <1>3, <1>12, SharersKept, Zenon DEF Opened
<1>14. serial' => OneOpenPerFile'
  <2> SUFFICES ASSUME serial PROVE OneOpenPerFile'
    BY <1>1, Zenon
  <2>1. {client[d].file : d \in Opened}' = {client[d].file : d \in Opened}
    BY <1>3, <1>12 DEF Opened
  <2>2. InRequest' \subseteq InRequest
    BY <1>1, <1>3 DEF InRequest
  <2>3. \A d \in FselClients : client'[d].at \in {"opening", "releasing"} => client'[d] = client[d]
    BY <1>1, <1>3, Zenon
  <2> HIDE DEF f, to, last
  <2> QED
    BY <1>1, <2>1, <2>2, <2>3, OneOpenKept, Zenon
<1>15. WaitersRegistered'
  <2> SUFFICES ASSUME NEW d \in FselClients \ shared, client'[d].at = "waiting"
               PROVE  fsel_poll_handle'[client'[d].file] = d /\ fsel_cnt'[client'[d].file] = 0
    BY <1>1, Zenon DEF WaitersRegistered
  <2>1. CASE d = c
    <3>1. fsel_cnt[f] = 0
      BY <1>1, <1>3, <2>1, FselAssumption DEF FselTypeOK
    <3> QED
      BY <1>1, <1>3, <2>1, <3>1, Zenon DEF FselTypeOK
  <2>2. CASE d # c
    <3>1. client[d].at = "waiting" /\ client[d].file # f /\ client[d].file \in FselFiles
      BY <1>3, <1>12, <2>2, Zenon DEF SharersNoted, Opened, FselTypeOK, FselStates
    <3> QED
      BY <1>1, <1>3, <2>2, <3>1, Zenon DEF WaitersRegistered, FselTypeOK
  <2> QED
    BY <2>1, <2>2, Zenon
<1> QED
  BY <1>9, <1>11, <1>13, <1>14, <1>15, Zenon

(* A round of fsel_producer: who waited on a file that it fills is woken.   *)
LEMMA ProducerKept ==
    ASSUME PollHandlesSound, fsel_producer
    PROVE  PollHandlesSound'
<1> USE DEF PollHandlesSound
<1> DEFINE round == {(producer.idx + i * (FSEL_FILES \div producer.nr)) % FSEL_FILES :
                        i \in 0..(producer.nr - 1)}
           filled == {t \in round : fsel_cnt[t] # FSEL_CNT_MAX}
           told == filled \cap fsel_poll_notify_mask
<1>1. /\ fsel_cnt' = [t \in FselFiles |-> IF t \in filled THEN fsel_cnt[t] + 1 ELSE fsel_cnt[t]]
      /\ handles' = [c \in FselClients |->
                        handles[c] - Cardinality({t \in told : fsel_poll_handle[t] = c})]
      /\ client' = Woken(told)
      /\ fsel_poll_notify_mask' = fsel_poll_notify_mask \ told
      /\ fsel_poll_handle' = [t \in FselFiles |-> IF t \in told THEN "NULL" ELSE fsel_poll_handle[t]]
      /\ producer' = fsel_producer_advances
      /\ UNCHANGED <<fsel_open_mask, leaked, serial, shared>>
  BY Zenon DEF fsel_producer
<1>2. round \subseteq FselFiles /\ producer' \in [idx : FselFiles, nr : {1, 2, 4}, stop : BOOLEAN]
  BY <1>1, RoundFiles, Zenon
<1> HIDE DEF round
<1>3. \A c \in FselClients :
         /\ client'[c] \in FselStates /\ client'[c].file = client[c].file
         /\ client'[c].mask = client[c].mask
         /\ client'[c].at = IF client[c].at = "waiting" /\ client[c].file \in told
                               /\ fsel_poll_handle[client[c].file] = c
                            THEN "open" ELSE client[c].at
  BY <1>1, Zenon DEF Woken, FselTypeOK, FselStates
<1>4. \A c \in FselClients : handles'[c] = Owned(c)'
  <2> TAKE c \in FselClients
  <2> DEFINE freed == {t \in told : fsel_poll_handle[t] = c}
  <2>1. StoredFor(c)' = StoredFor(c) \ freed /\ StoredFor(c) \cap freed = freed
    BY <1>1, <1>2, FselAssumption DEF StoredFor, FselTypeOK
  <2>2. Cardinality(StoredFor(c)') = Cardinality(StoredFor(c)) - Cardinality(freed)
    BY <2>1, StoredFinite, FS_Difference, Zenon
  <2>3. handles[c] = Owned(c) /\ leaked[c] \in Nat /\ leaked'[c] = leaked[c]
    BY <1>1, Zenon DEF PollHandlesOwned, StoredFor, Owned, FselTypeOK
  <2>4. (client'[c].at = "polling") <=> (client[c].at = "polling")
    BY <1>3, Zenon
  <2>5. Cardinality(freed) \in Nat
    BY <2>1, StoredFinite, FS_Subset, FS_CardinalityType
  <2>6. handles'[c] = handles[c] - Cardinality(freed)
    BY <1>1, Zenon
  <2> HIDE DEF freed
  <2> QED
    BY <2>2, <2>3, <2>4, <2>5, <2>6, StoredFinite DEF Owned
<1>5. PollHandlesOwned'
  <2>1. fsel_poll_notify_mask' = {g \in FselFiles : fsel_poll_handle'[g] # "NULL"}
    BY <1>1, Zenon DEF PollHandlesOwned, FselTypeOK
  <2> QED
    BY <1>4, <2>1, Zenon DEF PollHandlesOwned, StoredFor, Owned
<1>6. FselTypeOK'
  <2>1. fsel_cnt' \in [FselFiles -> 0..FSEL_CNT_MAX]
    BY <1>1, <1>2, FselAssumption DEF FselTypeOK
  <2>2. fsel_poll_handle' \in [FselFiles -> FselClients \cup {"NULL"}]
    BY <1>1, Zenon DEF FselTypeOK
  <2>3. handles' \in [FselClients -> Nat]
    <3>0. \A c \in FselClients : leaked'[c] \in Nat
      BY <1>1, Zenon DEF FselTypeOK
    <3>1. \A c \in FselClients : handles'[c] \in Nat
      BY <1>4, <3>0, StoredFinite DEF Owned
    <3>2. handles' = [c \in FselClients |-> handles'[c]]
      BY <1>1, Zenon
    <3> QED
      BY <3>1, <3>2, Zenon
  <2>4. client' \in [FselClients -> FselStates]
    BY <1>1, <1>3, Zenon DEF Woken
  <2> QED
    BY <1>1, <1>2, <2>1, <2>2, <2>3, <2>4, Zenon DEF FselTypeOK
<1>7. Opened' = Opened /\ InRequest' = InRequest
  BY <1>3, Zenon DEF Opened, InRequest
<1>8. SharersNoted' /\ (serial' => OneOpenPerFile')
  <2>1. SharersNoted'
    BY <1>1, <1>3, <1>7, SharersKept, Zenon DEF Opened
  <2>2. {client[d].file : d \in Opened}' = {client[d].file : d \in Opened}
    BY <1>3, <1>7 DEF Opened
  <2>3. \A d \in FselClients : client'[d].at \in {"opening", "releasing"} =>
           /\ client'[d].at = client[d].at /\ client'[d].file = client[d].file
           /\ client'[d].mask = client[d].mask
    BY <1>3, Zenon
  <2>4. UNCHANGED <<fsel_open_mask, serial, shared>>
    BY <1>1, Zenon
  <2> HIDE DEF told, filled
  <2> QED
    BY <1>7, <2>1, <2>2, <2>3, <2>4, OneOpenKept, Zenon
<1>9. WaitersRegistered'
  <2> SUFFICES ASSUME NEW c \in FselClients \ shared, client'[c].at = "waiting"
               PROVE  fsel_poll_handle'[client'[c].file] = c /\ fsel_cnt'[client'[c].file] = 0
    BY <1>1, Zenon DEF WaitersRegistered
  <2> DEFINE f == client[c].file
  <2>1. /\ client[c].at = "waiting" /\ f \in FselFiles /\ client'[c].file = f
        /\ fsel_poll_handle[f] = c /\ fsel_cnt[f] = 0
    BY <1>3, Zenon DEF WaitersRegistered, FselTypeOK, FselStates
  <2>2. f \notin told
    BY <1>3, <2>1, Zenon
  <2>3. f \in fsel_poll_notify_mask
    BY <2>1, FselAssumption, Zenon DEF PollHandlesOwned
  <2>4. f \notin filled
    BY <2>2, <2>3, Zenon
  <2> HIDE DEF f, filled, told
  <2> QED
    BY <1>1, <2>1, <2>2, <2>4, Zenon
<1> QED
  BY <1>5, <1>6, <1>8, <1>9, Zenon

(* No wakeup of a client that has its file for itself is lost (fsel_poll    *)
(* and fsel_producer of poll.c under fsel_mutex), and no handle of do_poll  *)
(* is freed twice or lost but those of failing polls, for any number of     *)
(* files and clients and whatever the threads of the loop do; and with -s   *)
(* no file is open twice, although fsel_open_mask has no lock.              *)
THEOREM NoLostWakeup == FselSpec => []PollHandlesSound
<1>1. FselInit => PollHandlesSound
  <2> SUFFICES ASSUME FselInit PROVE PollHandlesSound
    OBVIOUS
  <2>1. 0 \in FselFiles
    BY FselAssumption DEF FselFiles
  <2>2. FselTypeOK
    BY <2>1, FselAssumption DEF FselInit, FselTypeOK, FselStates, NoFile
  <2>3. PollHandlesOwned
    <3>1. \A c \in FselClients : {f \in FselFiles : fsel_poll_handle[f] = c} = {}
      BY FselAssumption, Zenon DEF FselInit
    <3>2. \A c \in FselClients : handles[c] = 0 /\ leaked[c] = 0 /\ client[c].at = "closed"
      BY Zenon DEF FselInit, NoFile
    <3>3. fsel_poll_notify_mask = {f \in FselFiles : fsel_poll_handle[f] # "NULL"}
      BY Zenon DEF FselInit
    <3>4. \A c \in FselClients : Cardinality({f \in FselFiles : fsel_poll_handle[f] = c}) = 0
      BY <3>1, FS_EmptySet, Zenon
    <3> QED
      BY <3>2, <3>3, <3>4 DEF PollHandlesOwned
  <2>4. OneOpenPerFile /\ SharersNoted /\ WaitersRegistered
    BY Zenon DEF FselInit, OneOpenPerFile, SharersNoted, WaitersRegistered, Opened, InRequest, NoFile
  <2> QED
    BY <2>2, <2>3, <2>4, Zenon DEF PollHandlesSound
<1>2. PollHandlesSound /\ [FselNext]_fselVars => PollHandlesSound'
  <2> SUFFICES ASSUME PollHandlesSound, [FselNext]_fselVars PROVE PollHandlesSound'
    OBVIOUS
  <2>1. CASE fsel_destroy
    <3>1. FselTypeOK'
      BY <2>1, Zenon DEF fsel_destroy, PollHandlesSound, FselTypeOK
    <3>2. PollHandlesOwned' /\ WaitersRegistered'
      BY <2>1, Zenon DEF fsel_destroy, PollHandlesSound, PollHandlesOwned, WaitersRegistered
    <3>3. SharersNoted' /\ (serial' => OneOpenPerFile')
      BY <2>1 DEF fsel_destroy, PollHandlesSound, OneOpenPerFile, SharersNoted, Opened, InRequest
    <3> QED
      BY <3>1, <3>2, <3>3, Zenon DEF PollHandlesSound
  <2>2. CASE UNCHANGED fselVars
    BY <2>2 DEF fselVars, PollHandlesSound, FselTypeOK, PollHandlesOwned, OneOpenPerFile,
                SharersNoted, WaitersRegistered, Opened, InRequest
  <2> QED
    BY <2>1, <2>2, OpenKept, ReleaseKept, ReadKept, DoPollKept, FailKept, PollKept,
       ProducerKept, Zenon
       DEF FselNext
<1> QED
  BY <1>1, <1>2, PTL DEF FselSpec
=============================================================================
