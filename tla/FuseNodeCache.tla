--------------------------- MODULE FuseNodeCache ---------------------------
(***************************************************************************)
(* Nodes that outlive the kernel's interest (lib/fuse.c, option remember):   *)
(* the library holds one lookup of its own, lists a node whose other lookups *)
(* are forgotten, and frees it when it has been listed long enough.  The     *)
(* nodes are one directory and the files in it.  A forget that waits for     *)
(* treelock is in FuseTree.                                                  *)
(***************************************************************************)
EXTENDS Integers, Sequences, SequencesExt

CONSTANTS
  Dir, Files,
  PartialForgets,    \* whether the kernel gives lookups back one by one
  MaxKnown           \* lookups of one node the kernel holds at a time

VARIABLES
  cached,        \* the nodes there are
  named,         \* those that have a name
  nlookup,       \* node->nlookup
  lru,           \* f->lru_table
  old,           \* so many of its first nodes are older than remember
  known          \* lookups the kernel was told of and has not given back

cacheVars == <<cached, named, nlookup, lru, old, known>>

CacheNodes == Files \cup {Dir}

(* One for the lookups, one for each name in the directory.                  *)
lru_refctr(n) ==
  (IF nlookup[n] > 0 THEN 1 ELSE 0) + (IF n = Dir THEN Cardinality(Files \cap named) ELSE 0)

remove_node_lru(n) ==
  /\ lru' = Remove(lru, n)
  /\ old' = Cardinality({i \in 1..old : lru[i] # n})

set_forget_time(n) ==
  /\ lru' = Append(Remove(lru, n), n)
  /\ old' = Cardinality({i \in 1..old : lru[i] # n})

(* A new node starts with the library's own lookup.  A file is found in a    *)
(* directory the kernel knows.                                               *)

find_node_lru(n) ==
  /\ known[n] < MaxKnown
  /\ n \in Files => known[Dir] > 0 /\ Dir \in named
  /\ n \in cached => n \in named
  /\ known' = [known EXCEPT ![n] = @ + 1]
  /\ cached' = cached \cup {n} /\ named' = named \cup {n}
  /\ nlookup' = [nlookup EXCEPT ![n] = IF n \in cached THEN @ + 1 ELSE 2]
  /\ IF n \in cached /\ nlookup[n] = 1 THEN remove_node_lru(n) ELSE UNCHANGED <<lru, old>>

Deleted_unreferenced(N, names) ==
  LET gone == N \cup (IF Dir \in N \/ names \cap Files \subseteq N THEN {Dir} ELSE {})
  IN  /\ cached' = cached \ gone
      /\ named' = names \ gone

(* delete_node: its name goes, and with the last name in it a directory that *)
(* nobody looks up any more.                                                 *)
Deleted(N, names) ==
  LET gone == N \cup (IF Dir \in N \/ (nlookup[Dir] = 0 /\ names \cap Files \subseteq N)
                      THEN {Dir} ELSE {})
  IN  /\ cached' = cached \ gone
      /\ named' = names \ gone

forget_node_lru(n, k) ==
  /\ k \in 1..known[n] /\ (k = known[n] \/ PartialForgets)
  /\ known' = [known EXCEPT ![n] = @ - k]
  /\ nlookup' = [nlookup EXCEPT ![n] = @ - k]
  /\ IF nlookup[n] = k
     THEN /\ IF n = Dir /\ Files \cap named # {}
             THEN UNCHANGED <<cached, named>>
             ELSE Deleted({n}, named)
          /\ remove_node_lru(n)
     ELSE /\ UNCHANGED <<cached, named>>
          /\ IF nlookup[n] - k = 1 THEN set_forget_time(n) ELSE UNCHANGED <<lru, old>>

(* unlink_node gives the library's own lookup back.  The kernel has looked   *)
(* up what it removes or replaces, and the files in a directory it removes   *)
(* were removed before: nothing is changed behind the mount.                 *)
unlink_node_lru(n) ==
  /\ n \in named /\ known[n] > 0 /\ (n = Dir => Files \cap named = {})
  /\ nlookup' = [nlookup EXCEPT ![n] = @ - 1]
  /\ named' = named \ {n}
  /\ UNCHANGED <<cached, lru, old, known>>

RECURSIVE CleanWalk_stops(_, _)
CleanWalk_stops(i, gone) ==
  IF i > old \/ (lru[i] = Dir /\ (Files \cap named) \ gone # {}) THEN gone
  ELSE CleanWalk_stops(i + 1, gone \cup {lru[i]})

(* The old nodes are freed, first to last, those that names still hang on    *)
(* excepted; their age stops the walk.                                       *)
RECURSIVE CleanWalk(_, _)
CleanWalk(i, gone) ==
  IF i > old THEN gone
  ELSE LET n == lru[i]
           busy == n = Dir /\ (Files \cap named) \ gone # {}
       IN  CleanWalk(i + 1, IF busy THEN gone ELSE gone \cup {n})

fuse_clean_cache ==
  /\ old > 0
  /\ LET gone == CleanWalk(1, {})
     IN  /\ Deleted(gone, named)
         /\ nlookup' = [n \in CacheNodes |-> IF n \in gone THEN 0 ELSE nlookup[n]]
         /\ lru' = SelectSeq(lru, LAMBDA n : n \notin gone)
         /\ old' = Cardinality({i \in 1..old : lru[i] \notin gone})
  /\ UNCHANGED known

(* Time passes: the nodes listed first get old first. *)
TimePasses ==
  /\ old < Len(lru) /\ old' = old + 1
  /\ UNCHANGED <<cached, named, nlookup, lru, known>>

CacheInit ==
  /\ cached = {} /\ named = {} /\ lru = <<>> /\ old = 0
  /\ nlookup = [n \in CacheNodes |-> 0] /\ known = [n \in CacheNodes |-> 0]

CacheNext ==
  \/ \E n \in CacheNodes : find_node_lru(n) \/ unlink_node_lru(n)
                           \/ \E k \in 1..MaxKnown : forget_node_lru(n, k)
  \/ fuse_clean_cache \/ TimePasses

(* "Inodes with a non-zero lookup count may receive requests from the kernel *)
(* even after calls to unlink": a node the kernel knows is there, however    *)
(* long it has been known; the library aborts otherwise (get_node).  It      *)
(* holds as long as the kernel gives the lookups of a node back all at once: *)
(* after a partial forget that leaves one, the node is listed and freed.     *)
KernelNodesKept == \A n \in CacheNodes : known[n] > 0 => n \in cached

(* The list holds the nodes that only the library looks up, as               *)
(* fuse_clean_cache asserts, and a node that is there for nobody is on it.   *)
ListedAreForgotten ==
  /\ IsInjective(lru)
  /\ \A n \in CacheNodes : n \in Range(lru) <=> n \in cached /\ nlookup[n] = 1 /\ known[n] = 0
  /\ \A n \in cached : nlookup[n] = 0 => lru_refctr(n) > 0

(* The library's own lookup is told from the kernel's: a node the kernel    *)
(* knows is there, and the list has exactly those that are kept for their   *)
(* own sake.                                                                *)
CacheCounts ==
    KernelNodesKept /\ ListedAreForgotten

(* Remembering is not for ever: when the kernel has forgotten everything,    *)
(* everything is freed, a directory after the files in it.                   *)
RememberedFreed == <>[](\A n \in CacheNodes : known[n] = 0) => <>[](cached = {})
=============================================================================
