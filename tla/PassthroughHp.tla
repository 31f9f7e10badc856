--------------------------- MODULE PassthroughHp ---------------------------
(***************************************************************************)
(* The inode table of example/passthrough_hp.cc: Fs::inodes, which maps an  *)
(* inode number of the source directory to an Inode (its descriptor, its    *)
(* generation, its counts of lookups and opens), under Fs::mutex and one    *)
(* Inode::m per inode.  The model follows one inode number, which the       *)
(* underlying file system gives to a new file once the old one is unlinked  *)
(* and nobody has it open: the case sfs_unlink() exists to provoke when     *)
(* caching is off.  Taking a mutex is a step of its own.                    *)
(*                                                                          *)
(* fs.inodes.erase() frees an Inode that a thread in do_lookup() may be     *)
(* about to lock: the thread goes on with freed memory and the kernel gets  *)
(* its address, which hpDangling counts.  Requests that name such an        *)
(* address, whose effect is undefined, are not followed.                    *)
(*                                                                          *)
(* Left out: operations that only use a descriptor, READDIRPLUS (which      *)
(* looks entries up like LOOKUP), TMPFILE, and the backing files of         *)
(* passthrough mode.                                                        *)
(***************************************************************************)
EXTENDS Integers, FiniteSets, FiniteSetsExt

CONSTANTS HpThreads,   \* worker threads: one with --single
          NoCache,     \* --nocache: fs.timeout is 0
          HpRequests,  \* how many requests the kernel sends
          HpMaxKnown   \* cap on a lookup count

ASSUME HpAssumption ==
    /\ IsFiniteSet(HpThreads) /\ NoCache \in BOOLEAN
    /\ HpRequests \in Nat /\ HpMaxKnown \in Nat

VARIABLES hpFile,     \* the file that has the inode number now, 0: none
          hpFiles,    \* files made so far
          hpNames,    \* st_nlink
          inode,      \* the Inode in fs.inodes, or Gone
          fs_mutex,   \* holder of fs.mutex, as a set
          inode_m,    \* holder of Inode::m, as a set
          hpKnown,    \* kernel: lookup count of each <<generation, file>>
          hpOpen,     \* kernel: files open, and descriptors fi->fh behind them
          hpDangling, \* kernel: references to an Inode that has been freed
          hpThread,   \* what each thread is doing
          hpSent      \* requests so far

hpVars == <<hpFile, hpFiles, hpNames, inode, fs_mutex, inode_m, hpKnown, hpOpen,
            hpDangling, hpThread, hpSent>>

ENOENT == 2
Gone == [there |-> FALSE, fd |-> -1, of |-> 0, generation |-> 0, nlookup |-> 0, nopen |-> 0]
HpIdle == [at |-> "idle", op |-> "", file |-> 0, gen |-> 0, n |-> 0, freed |-> FALSE]
HpEntries == (0..HpRequests) \X (1..HpRequests)

HpInit ==
    /\ hpFile = 0 /\ hpFiles = 0 /\ hpNames = 0
    /\ inode = Gone /\ fs_mutex = {} /\ inode_m = {}
    /\ hpKnown = [e \in HpEntries |-> 0] /\ hpOpen = [f \in 1..HpRequests |-> 0]
    /\ hpDangling = 0 /\ hpThread = [t \in HpThreads |-> HpIdle]
    /\ hpSent = 0

HpGoto(t, at) == hpThread' = [hpThread EXCEPT ![t].at = at]
HpDone(t) == hpThread' = [hpThread EXCEPT ![t] = HpIdle]
HpHeld(e) == hpKnown[e] > 0

(* The underlying file system may give the number away: no name, no open    *)
(* descriptor, no O_PATH descriptor.                                        *)
NumberFree == /\ hpNames = 0
              /\ inode.fd <= 0
              /\ \A f \in DOMAIN hpOpen : hpOpen[f] = 0
              /\ \A t \in HpThreads : hpThread[t].at \in {"idle", "forget"}

(* The kernel locks the directory: lookups may run at once, what changes    *)
(* the directory runs alone, and only FORGET runs beside it.                *)
DirectoryFree(op) ==
    \A t \in HpThreads : hpThread[t].op \in {"", "forget", "open"} \cup
                              (IF op = "lookup" THEN {"lookup"} ELSE {})

(* A request arrives.  CREATE makes a new file or opens the one there is.   *)
(* The kernel unlinks a name whose inode it knows.                          *)
HpReceive(t, op) ==
    /\ hpThread[t].at = "idle" /\ hpSent < HpRequests /\ DirectoryFree(op)
    /\ hpSent' = hpSent + 1
    /\ \/ /\ op \in {"lookup", "unlink"} /\ hpNames > 0
          /\ op = "unlink" => \E e \in HpEntries : e[2] = hpFile /\ HpHeld(e)
          /\ UNCHANGED <<hpFile, hpFiles, hpNames, hpOpen>>
       \/ /\ op = "create" /\ hpNames > 0
          /\ hpOpen' = [hpOpen EXCEPT ![hpFile] = @ + 1]
          /\ UNCHANGED <<hpFile, hpFiles, hpNames>>
       \/ /\ op \in {"create", "mknod"} /\ NumberFree
          /\ hpFiles' = hpFiles + 1 /\ hpFile' = hpFiles + 1 /\ hpNames' = 1
          /\ hpOpen' = IF op = "create" THEN [hpOpen EXCEPT ![hpFiles + 1] = 1] ELSE hpOpen
    /\ hpThread' = [hpThread EXCEPT ![t] = [HpIdle EXCEPT !.op = op, !.file = hpFile',
                       !.at = IF op = "unlink" /\ ~NoCache THEN "unlinkat" ELSE "openat"]]
    /\ UNCHANGED <<hpDangling, inode, fs_mutex, inode_m, hpKnown>>

(* do_lookup() up to fs.mutex: the descriptor newfd pins the file. *)
do_lookup(t) ==
    /\ hpThread[t].at = "openat"
    /\ IF hpNames > 0
         THEN hpThread' = [hpThread EXCEPT ![t].at = "table", ![t].file = hpFile]
         ELSE HpDone(t)
    /\ UNCHANGED <<hpDangling, hpFile, hpFiles, hpNames, inode, fs_mutex, inode_m, hpKnown, hpOpen, hpSent>>

(* Under fs.mutex: the entry is found or made, and its generation taken.    *)
(* A known inode lets go of fs.mutex before its count is raised; a new one, *)
(* or an unlinked one, keeps it.                                            *)
do_lookup_table(t) ==
    /\ hpThread[t].at = "table" /\ fs_mutex = {}
    /\ inode' = [inode EXCEPT !.there = TRUE]
    /\ fs_mutex' = IF inode.fd > 0 THEN {} ELSE {t}
    /\ hpThread' = [hpThread EXCEPT ![t].gen = inode.generation,
                       ![t].at = IF inode.fd > 0 THEN "existing" ELSE "new"]
    /\ UNCHANGED <<hpDangling, hpFile, hpFiles, hpNames, inode_m, hpKnown, hpOpen, hpSent>>

After(t) == IF hpThread[t].op = "unlink" THEN "drop" ELSE "reply"

do_lookup_existing(t) ==
    /\ hpThread[t].at = "existing" /\ (hpThread[t].freed \/ inode_m = {})
    /\ inode' = IF hpThread[t].freed THEN inode ELSE [inode EXCEPT !.nlookup = @ + 1]
    /\ HpGoto(t, After(t))
    /\ UNCHANGED <<hpDangling, hpFile, hpFiles, hpNames, fs_mutex, inode_m, hpKnown, hpOpen, hpSent>>

do_lookup_new(t) ==
    /\ hpThread[t].at = "new" /\ inode_m = {}
    /\ inode' = [inode EXCEPT !.nlookup = @ + 1, !.fd = 1, !.of = hpThread[t].file]
    /\ fs_mutex' = {}
    /\ HpGoto(t, After(t))
    /\ UNCHANGED <<hpDangling, hpFile, hpFiles, hpNames, inode_m, hpKnown, hpOpen, hpSent>>

(* sfs_lookup(), mknod_symlink() and sfs_create() answer; sfs_create()      *)
(* counts the open file first, under Inode::m.                              *)
sfs_reply_entry(t) ==
    LET e == <<hpThread[t].gen, hpThread[t].file>>
    IN  /\ hpThread[t].at = "reply" /\ (hpThread[t].freed \/ inode_m = {}) /\ hpKnown[e] < HpMaxKnown
        /\ IF hpThread[t].freed
           THEN hpDangling' = hpDangling + 1 /\ UNCHANGED <<inode, hpKnown>>
           ELSE /\ inode' = IF hpThread[t].op = "create"
                            THEN [inode EXCEPT !.nopen = @ + 1] ELSE inode
                /\ hpKnown' = [hpKnown EXCEPT ![e] = @ + 1]
                /\ UNCHANGED hpDangling
        /\ HpDone(t)
        /\ UNCHANGED <<hpFile, hpFiles, hpNames, fs_mutex, inode_m, hpOpen, hpSent>>

(* sfs_unlink() without caching, after its lookup: the last name of a file  *)
(* nobody has open takes the inode's descriptor with it.                    *)
sfs_unlink(t) ==
    /\ hpThread[t].at = "drop" /\ inode_m = {}
    /\ IF hpNames = 1 /\ inode.fd > 0 /\ inode.nopen = 0
         THEN inode_m' = {t} /\ HpGoto(t, "close")
         ELSE hpThread' = [hpThread EXCEPT ![t].at = "forget", ![t].n = 1] /\ UNCHANGED inode_m
    /\ UNCHANGED <<hpDangling, hpFile, hpFiles, hpNames, inode, fs_mutex, hpKnown, hpOpen, hpSent>>

sfs_unlink_closes_only(t) ==
    /\ hpThread[t].at = "close" /\ fs_mutex = {}
    /\ inode' = [inode EXCEPT !.fd = -ENOENT]
    /\ inode_m' = {}
    /\ hpThread' = [hpThread EXCEPT ![t].at = "forget", ![t].n = 1]
    /\ UNCHANGED <<hpDangling, hpFile, hpFiles, hpNames, fs_mutex, hpKnown, hpOpen, hpSent>>
sfs_unlink_closes(t) ==
    /\ hpThread[t].at = "close" /\ fs_mutex = {}
    /\ inode' = [inode EXCEPT !.fd = -ENOENT, !.generation = @ + 1]
    /\ inode_m' = {}
    /\ hpThread' = [hpThread EXCEPT ![t].at = "forget", ![t].n = 1]
    /\ UNCHANGED <<hpDangling, hpFile, hpFiles, hpNames, fs_mutex, hpKnown, hpOpen, hpSent>>

unlinkat(t) ==
    /\ hpThread[t].at = "unlinkat"
    /\ hpNames' = IF hpNames > 0 THEN hpNames - 1 ELSE 0
    /\ HpDone(t)
    /\ UNCHANGED <<hpDangling, hpFile, hpFiles, inode, fs_mutex, inode_m, hpKnown, hpOpen, hpSent>>

(* FORGET: the kernel keeps an inode while a file of it is open or about to *)
(* be unlinked.                                                             *)
HpForget(t, e, n) ==
    /\ hpThread[t].at = "idle" /\ hpSent < HpRequests
    /\ n <= hpKnown[e]
    /\ n = hpKnown[e] => /\ hpOpen[e[2]] = 0
                         /\ \A u \in HpThreads : hpThread[u].op = "unlink" => hpThread[u].file # e[2]
    /\ hpKnown' = [hpKnown EXCEPT ![e] = @ - n]
    /\ hpThread' = [hpThread EXCEPT ![t] = [HpIdle EXCEPT !.at = "forget", !.op = "forget", !.n = n]]
    /\ hpSent' = hpSent + 1
    /\ UNCHANGED <<hpDangling, hpFile, hpFiles, hpNames, inode, fs_mutex, inode_m, hpOpen>>

AfterForget(t) == IF hpThread[t].op = "unlink" THEN HpGoto(t, "unlinkat") ELSE HpDone(t)

(* forget_one(): Inode::m first, and fs.mutex when the inode is to go. *)
forget_one(t) ==
    /\ hpThread[t].at = "forget" /\ inode_m = {}
    /\ inode' = [inode EXCEPT !.nlookup = @ - hpThread[t].n]
    /\ IF inode.nlookup = hpThread[t].n
         THEN inode_m' = {t} /\ HpGoto(t, "erase")
         ELSE AfterForget(t) /\ UNCHANGED inode_m
    /\ UNCHANGED <<hpDangling, hpFile, hpFiles, hpNames, fs_mutex, hpKnown, hpOpen, hpSent>>

(* fs.inodes.erase() frees the Inode, also under a thread that do_lookup()  *)
(* has between fs.mutex and Inode::m.                                       *)
forget_one_erases(t) ==
    /\ hpThread[t].at = "erase" /\ fs_mutex = {}
    /\ inode_m' = {}
    /\ inode' = Gone
    /\ hpThread' = [u \in HpThreads |->
                      IF u # t
                      THEN [hpThread[u] EXCEPT !.freed = @ \/ hpThread[u].at = "existing"]
                      ELSE IF hpThread[t].op = "unlink"
                           THEN [hpThread[t] EXCEPT !.at = "unlinkat"] ELSE HpIdle]
    /\ UNCHANGED <<hpDangling, hpFile, hpFiles, hpNames, fs_mutex, hpKnown, hpOpen, hpSent>>

(* sfs_link(): another name, and one more lookup of the same inode.  The    *)
(* kernel sends no request for the inode of a file whose number it has seen *)
(* under a later generation.                                                *)
sfs_link(t, e) ==
    /\ hpThread[t].at = "idle" /\ hpSent < HpRequests /\ inode_m = {}
    /\ HpHeld(e) /\ inode.of = e[2] /\ hpKnown[e] < HpMaxKnown /\ DirectoryFree("link")
    /\ hpSent' = hpSent + 1
    /\ IF inode.fd > 0 /\ hpNames > 0 /\ inode.of = hpFile
         THEN /\ hpNames' = hpNames + 1
              /\ inode' = [inode EXCEPT !.nlookup = @ + 1]
              /\ hpKnown' = [hpKnown EXCEPT ![e] = @ + 1]
         ELSE UNCHANGED <<hpNames, inode, hpKnown>>
    /\ UNCHANGED <<hpDangling, hpFile, hpFiles, fs_mutex, inode_m, hpOpen, hpThread>>

(* sfs_open(): the file is opened through the inode's descriptor, and       *)
(* counted afterwards under Inode::m; sfs_unlink() may run in between.      *)
sfs_open(t, e) ==
    /\ hpThread[t].at = "idle" /\ hpSent < HpRequests
    /\ HpHeld(e) /\ inode.of = e[2]
    /\ hpSent' = hpSent + 1
    /\ IF inode.fd > 0
         THEN /\ hpThread' = [hpThread EXCEPT ![t] = [HpIdle EXCEPT
                                 !.at = "opened", !.op = "open", !.file = e[2]]]
              /\ hpOpen' = [hpOpen EXCEPT ![e[2]] = @ + 1]
         ELSE UNCHANGED <<hpThread, hpOpen>>
    /\ UNCHANGED <<hpDangling, hpFile, hpFiles, hpNames, inode, fs_mutex, inode_m, hpKnown>>

sfs_open_counts(t) ==
    /\ hpThread[t].at = "opened" /\ inode_m = {}
    /\ inode' = [inode EXCEPT !.nopen = @ + 1]
    /\ HpDone(t)
    /\ UNCHANGED <<hpDangling, hpFile, hpFiles, hpNames, fs_mutex, inode_m, hpKnown, hpOpen, hpSent>>

(* Threads that have opened file f and not answered yet. *)
Opening(f) == {t \in HpThreads : hpThread[t].op \in {"create", "open"} /\ hpThread[t].file = f}

sfs_release(t, f) ==
    /\ hpThread[t].at = "idle" /\ inode_m = {}
    /\ hpOpen[f] > Cardinality(Opening(f)) /\ \E e \in HpEntries : e[2] = f /\ HpHeld(e)
    /\ hpOpen' = [hpOpen EXCEPT ![f] = @ - 1]
    /\ inode' = [inode EXCEPT !.nopen = @ - 1]
    /\ UNCHANGED <<hpDangling, hpFile, hpFiles, hpNames, fs_mutex, inode_m, hpKnown, hpThread, hpSent>>

HpNext ==
    \E t \in HpThreads :
        \/ \E op \in {"lookup", "mknod", "create", "unlink"} : HpReceive(t, op)
        \/ do_lookup(t) \/ do_lookup_table(t) \/ do_lookup_existing(t) \/ do_lookup_new(t)
        \/ sfs_reply_entry(t) \/ sfs_open_counts(t)
        \/ sfs_unlink(t) \/ sfs_unlink_closes(t) \/ unlinkat(t)
        \/ forget_one(t) \/ forget_one_erases(t)
        \/ \E e \in HpEntries : \/ sfs_link(t, e) \/ sfs_open(t, e)
                              \/ \E n \in 1..HpMaxKnown : HpForget(t, e, n)
        \/ \E f \in DOMAIN hpOpen : sfs_release(t, f)
-----------------------------------------------------------------------------
HpInFlight(t) ==
    LET w == hpThread[t]
    IN  IF w.at \in {"reply", "drop", "close"} /\ ~w.freed THEN 1
        ELSE IF w.at = "forget" THEN w.n ELSE 0

(* An Inode's nlookup is what the kernel holds of it, over all generations, *)
(* plus what a request is about to report or give back: do_lookup() on a    *)
(* recycled inode number must keep the count of the unlinked file the       *)
(* kernel has not forgotten yet, or forget_one() aborts.                    *)
HpCountsExact ==
    inode.nlookup = FoldSet(LAMBDA e, sum : sum + hpKnown[e], 0, {e \in HpEntries : HpHeld(e)}) +
                    FoldSet(LAMBDA t, sum : sum + HpInFlight(t), 0, HpThreads)

(* Two files that had the same inode number are never known to the kernel   *)
(* under the same generation at the same time: sfs_unlink() closes the      *)
(* descriptor, which frees the number, only together with the step of the   *)
(* generation.                                                              *)
GenerationsDistinct ==
    LET held == {e \in HpEntries : HpHeld(e)}
    IN  \A d, e \in held : d[1] = e[1] => d[2] = e[2]

(* An inode number that is used again is a new inode to the kernel,         *)
(* although its counts go on.  This is about the Inode in the table: the    *)
(* kernel may hold one that was freed (hpDangling) after a last FORGET has  *)
(* overtaken a LOOKUP or CREATE of the same file in do_lookup(), and only   *)
(* LOOKUP and CREATE of a name that is there can be overtaken.              *)
HpExact ==
    /\ HpCountsExact
    /\ GenerationsDistinct
    /\ \A t \in HpThreads : hpThread[t].freed => hpThread[t].op \in {"lookup", "create"}

(* When do_lookup() takes Inode::m of an inode without a descriptor while   *)
(* it holds fs.mutex, no other thread has that mutex: the comment in        *)
(* do_lookup() that excuses the inverted lock order.  A thread that has it  *)
(* would be forget_one() or sfs_unlink() waiting for fs.mutex: a deadlock.  *)
MutexPrivate ==
    \A t \in HpThreads : hpThread[t].at = "new" => inode_m = {}
=============================================================================
