------------------------------ MODULE FuseSlab ------------------------------
(***************************************************************************)
(* The allocator of nodes (lib/fuse.c): a slab is a page cut into nodes.     *)
(* Slabs with a free node are on one list, full ones on another, and a slab  *)
(* whose last node is freed is unmapped.                                     *)
(***************************************************************************)
EXTENDS Integers, Sequences, FiniteSets, Functions

CONSTANTS
  Pages,       \* the addresses mmap may return
  SlabNodes    \* nodes in a slab

ASSUME SlabAssumption == SlabNodes \in Nat \ {0}

VARIABLES
  partial_slabs, full_slabs,   \* lists of pages
  slab,                        \* [used, freelist] of every page
  allocated                    \* the nodes handed out, as pairs of page and place

slabVars == <<partial_slabs, full_slabs, slab, allocated>>

SlabMapped == Range(partial_slabs) \cup Range(full_slabs)
Unmapped == [used |-> 0, freelist |-> <<>>]

(* A page leaves the list it is on.                                          *)
list_del_slab(list, p) ==
  IF p \in Range(list)
  THEN LET k == CHOOSE i \in DOMAIN list : list[i] = p
       IN  SubSeq(list, 1, k - 1) \o SubSeq(list, k + 1, Len(list))
  ELSE list

(* A new slab is at the end of the list of those with room. *)
alloc_slab(p) == [used |-> 0, freelist |-> [i \in 1..SlabNodes |-> i]]

(* Takes a node of the first slab with room.  Without one a page is mapped,  *)
(* or the call fails and nothing happens.                                    *)
alloc_node_kept(p) ==
  /\ IF partial_slabs = <<>> THEN p \notin SlabMapped ELSE p = Head(partial_slabs)
  /\ LET s == IF p \in SlabMapped THEN slab[p] ELSE alloc_slab(p)
         list == IF p \in SlabMapped THEN partial_slabs ELSE <<p>>
     IN  /\ slab' = [slab EXCEPT ![p] = [used |-> s.used + 1, freelist |-> Tail(s.freelist)]]
         /\ allocated' = allocated \cup {<<p, Head(s.freelist)>>}
         /\ partial_slabs' = list /\ UNCHANGED full_slabs

alloc_node(p) ==
  /\ IF partial_slabs = <<>> THEN p \notin SlabMapped ELSE p = Head(partial_slabs)
  /\ LET s == IF p \in SlabMapped THEN slab[p] ELSE alloc_slab(p)
         list == IF p \in SlabMapped THEN partial_slabs ELSE <<p>>
         last == Len(s.freelist) = 1
     IN  /\ slab' = [slab EXCEPT ![p] = [used |-> s.used + 1, freelist |-> Tail(s.freelist)]]
         /\ allocated' = allocated \cup {<<p, Head(s.freelist)>>}
         /\ partial_slabs' = IF last THEN Tail(list) ELSE list
         /\ full_slabs' = IF last THEN Append(full_slabs, p) ELSE full_slabs

(* The page of a node is found from its address.  The last node takes the    *)
(* slab with it, from whichever list it is on.                               *)
free_node_mem(p, i) ==
  /\ <<p, i>> \in allocated
  /\ allocated' = allocated \ {<<p, i>>}
  /\ LET s == slab[p]
         was_full == s.freelist = <<>>
     IN  IF s.used > 1
         THEN /\ slab' = [slab EXCEPT ![p] = [used |-> s.used - 1,
                                              freelist |-> <<i>> \o s.freelist]]
              /\ partial_slabs' = IF was_full THEN Append(partial_slabs, p) ELSE partial_slabs
              /\ full_slabs' = IF was_full THEN list_del_slab(full_slabs, p) ELSE full_slabs
         ELSE /\ slab' = [slab EXCEPT ![p] = Unmapped]
              /\ partial_slabs' = list_del_slab(partial_slabs, p)
              /\ full_slabs' = list_del_slab(full_slabs, p)

SlabInit ==
  /\ partial_slabs = <<>> /\ full_slabs = <<>> /\ allocated = {}
  /\ slab = [p \in Pages |-> Unmapped]

SlabNext ==
  \E p \in Pages : alloc_node(p) \/ \E i \in 1..SlabNodes : free_node_mem(p, i)

SlabSpec == SlabInit /\ [][SlabNext]_slabVars

SlabTypeOK ==
  /\ partial_slabs \in Seq(Pages) /\ full_slabs \in Seq(Pages)
  /\ slab \in [Pages -> [used : Nat, freelist : Seq(1..SlabNodes)]]
  /\ allocated \subseteq Pages \X (1..SlabNodes)

NodesOut(p) == {i \in 1..SlabNodes : <<p, i>> \in allocated}

(* Every mapped page is on one list, once, and its free list with the nodes  *)
(* handed out is the whole page: no node is handed out twice, the first slab *)
(* with room has room, and without nodes no page is left, which fuse_destroy *)
(* asserts.                                                                  *)
SlabsExact ==
  /\ SlabTypeOK
  /\ IsInjective(partial_slabs) /\ IsInjective(full_slabs)
  /\ Range(partial_slabs) \cap Range(full_slabs) = {}
  /\ \A p \in Pages :
       LET free == slab[p].freelist
       IN  IF p \notin SlabMapped THEN NodesOut(p) = {}
           ELSE /\ slab[p].used = Cardinality(NodesOut(p)) /\ NodesOut(p) # {}
                /\ IsInjective(free) /\ Range(free) = (1..SlabNodes) \ NodesOut(p)
                /\ (p \in Range(partial_slabs)) <=> (free # <<>>)
=============================================================================
