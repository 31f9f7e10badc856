----------------------------- MODULE FuseDirBuf -----------------------------
(***************************************************************************)
(* Reading an open directory (lib/fuse.c): the file system either gives      *)
(* every entry an offset, and is asked again from there, or gives none; then *)
(* the library keeps the whole directory in the handle and serves positions  *)
(* in it until the directory is rewound.  readdirplus also looks every entry *)
(* up for the kernel.  A handle serves one request at a time (dh->lock).     *)
(***************************************************************************)
EXTENDS Integers, Sequences, SequencesExt

CONSTANTS
  Entries,      \* names a directory may have
  Room,         \* entries that fit into the buffer of the kernel
  MaxChanges,   \* changes of the directory
  MaxScans,     \* times the kernel rewinds
  DirFaults     \* failed lookups and allocations

VARIABLES
  mode,         \* "offsets" or "list": how the file system calls the filler
  content,      \* the directory, a sequence of names
  filled, first,    \* dh->filled, dh->first
  koff,         \* the offset the kernel reads from next
  seen,         \* names the kernel got since it rewound, and whether it got all
  snapshot,     \* the directory when it was first read from, and if it counts
  unreported,   \* lookups made of a name, less those the kernel was told of
  changes, dirFaults, scans

dirVars == <<mode, content, filled, first, koff, seen, snapshot, unreported,
             changes, dirFaults, scans>>

DirMin(a, b) == IF a < b THEN a ELSE b

Times(s, n) == Cardinality({i \in DOMAIN s : s[i] = n})

Filling_blind(list, off) ==
  [entries |-> SubSeq(list, off + 1, DirMin(off + Room, Len(list))),
   tried |-> SubSeq(list, off + 1, DirMin(off + Room - 1, Len(list)))]

(* fill_dir, fill_dir_plus and readdir_fill_from_list: entries of list from  *)
(* behind off until the buffer is full.  With plus, the entry that does not  *)
(* fit is looked up before it is found not to fit.                           *)
Filling(list, off) ==
  [entries |-> SubSeq(list, off + 1, DirMin(off + Room, Len(list))),
   tried |-> SubSeq(list, off + 1, DirMin(off + Room + 1, Len(list)))]

(* Position and offset of an entry are its number. *)
Answer(list, off) ==
  LET fill == Filling(list, off) IN
  /\ seen' = [names |-> seen.names \o fill.entries, eof |-> fill.entries = <<>>]
  /\ koff' = off + Len(fill.entries)

(* With plus, the lookup of any entry may fail, and the whole reply with it; *)
(* without memory for the buffer nothing is looked up.                       *)
Serve(list, off, plus) ==
  LET fill == Filling(list, off) IN
  \/ /\ Answer(list, off)
     /\ unreported' = IF ~ plus THEN unreported
          ELSE [n \in Entries |-> unreported[n] + Times(fill.tried, n) - Times(fill.entries, n)]
     /\ UNCHANGED dirFaults
  \/ \E f \in DOMAIN fill.tried :
       /\ plus \/ f = 1
       /\ dirFaults < DirFaults /\ dirFaults' = dirFaults + 1
       /\ unreported' = [n \in Entries |-> unreported[n] + Times(SubSeq(fill.tried, 1, f - 1), n)]
       /\ UNCHANGED <<seen, koff>>

(* fuse_readdir_common.  Offset zero refreshes the list.                     *)
fuse_readdir_common(plus) ==
  LET refill == koff = 0 \/ ~ filled IN
  /\ ~ seen.eof
  /\ IF mode = "offsets"
     THEN /\ Serve(content, koff, plus) /\ UNCHANGED <<filled, first>>
     ELSE \/ LET list == IF refill THEN content ELSE first IN
             filled' = TRUE /\ first' = list /\ Serve(list, koff, plus)
          \/ /\ refill /\ dirFaults < DirFaults    \* no memory for the list
             /\ filled' = FALSE /\ first' = <<>> /\ dirFaults' = dirFaults + 1
             /\ UNCHANGED <<seen, koff, unreported>>
  /\ snapshot' = IF koff = 0 THEN [list |-> content, ok |-> TRUE] ELSE snapshot
  /\ UNCHANGED <<mode, content, changes, scans>>

(* rewinddir, seekdir to the start *)
Rewind ==
  /\ seen.eof /\ scans < MaxScans /\ scans' = scans + 1
  /\ koff' = 0 /\ seen' = [names |-> <<>>, eof |-> FALSE]
  /\ UNCHANGED <<mode, content, filled, first, snapshot, unreported, changes, dirFaults>>

(* A name comes or goes in the file system. *)
DirChanges ==
  /\ changes < MaxChanges /\ changes' = changes + 1
  /\ \E n \in Entries : content' = IF n \in Range(content) THEN Remove(content, n)
                                   ELSE Append(content, n)
  /\ snapshot' = [snapshot EXCEPT !.ok = @ /\ mode = "list"]
  /\ UNCHANGED <<mode, filled, first, koff, seen, unreported, dirFaults, scans>>

DirInit ==
  /\ mode \in {"offsets", "list"}
  /\ content \in {SetToSeq(S) : S \in SUBSET Entries}
  /\ filled = FALSE /\ first = <<>> /\ koff = 0 /\ scans = 0
  /\ snapshot = [list |-> <<>>, ok |-> FALSE]
  /\ seen = [names |-> <<>>, eof |-> FALSE]
  /\ unreported = [n \in Entries |-> 0]
  /\ changes = 0 /\ dirFaults = 0

DirNext == (\E plus \in BOOLEAN : fuse_readdir_common(plus)) \/ Rewind \/ DirChanges

(* Whatever the size of the replies, a directory that is read to the end     *)
(* shows every entry once; with a list in the handle even when it changes    *)
(* meanwhile, and a rewind shows it as it is then.                           *)
ScanExact == seen.eof /\ snapshot.ok => seen.names = snapshot.list

(* The kernel is told of no lookup that was not made: what it gives back     *)
(* later never exceeds nlookup (forget_node asserts it).                     *)
LookupsCovered == \A n \in Entries : unreported[n] >= 0

(* A scan in pieces shows the directory as a whole, and every lookup the    *)
(* kernel counts was made.                                                  *)
ReaddirExact ==
    ScanExact /\ LookupsCovered

(* "the lookup count of every entry returned by readdirplus(), except "."    *)
(* and "..", is incremented by one" (fuse_lowlevel.h): one lookup for every  *)
(* entry returned, so that the kernel's forgets can free the node.           *)
LookupsReported == \A n \in Entries : unreported[n] = 0
=============================================================================
