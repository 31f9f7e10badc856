--------------------------- MODULE PassthroughLl ---------------------------
(***************************************************************************)
(* The low-level file system of example/passthrough_ll.c: its list of       *)
(* struct lo_inode (one O_PATH descriptor and one reference count each),    *)
(* the descriptors of open files, and the kernel's own lookup counts.       *)
(* Requests run in several threads; every section under lo->mutex is one    *)
(* step, and so is every system call that opens or closes a descriptor.     *)
(*                                                                          *)
(* Operations that only use a descriptor (getattr, read, unlink, xattrs,    *)
(* ...) change none of this state and are left out.                         *)
(***************************************************************************)
EXTENDS Naturals, Sequences, FiniteSets, SequencesExt, FiniteSetsExt

CONSTANTS LoThreads,   \* worker threads of the session loop
          LoFiles,     \* files of the source directory (inode, device)
          LoSlots,     \* numbers standing for the addresses a struct lo_inode may have
          LoFds,       \* descriptor numbers
          LoMaxKnown,  \* cap on the kernel's lookup count of an inode
          LoRequests,  \* how many requests the kernel sends
          LoFaults     \* how many system calls and allocations may fail

ASSUME LoAssumption ==
    /\ IsFiniteSet(LoThreads) /\ IsFiniteSet(LoFiles)
    /\ LoSlots \subseteq Nat /\ LoFds \subseteq Nat
    /\ LoMaxKnown \in Nat \ {0} /\ LoRequests \in Nat /\ LoFaults \in Nat

VARIABLES loList,     \* the list behind lo->root: addresses, latest first
          loInode,    \* struct lo_inode at each address
          loFd,       \* open descriptors: number -> file
          loKnown,    \* the kernel's lookup count of each inode
          loHandles,  \* fi->fh of open files: <<inode, descriptor>>
          loLost,     \* descriptors an error path leaves open for good
          loThread,   \* what each thread is doing
          loSent,     \* requests sent so far
          loFaults    \* failures so far

loVars == <<loList, loInode, loFd, loKnown, loHandles, loLost, loThread,
           loSent, loFaults>>

(* A descriptor of 0 stands for -1, none.                                   *)
NoInode == [file |-> {}, ref |-> 0, fd |-> 0]
LoIdle == [at |-> "idle", op |-> "", file |-> {}, fd |-> 0, hfd |-> 0,
           slot |-> {}, n |-> 0, batch |-> <<>>]

LoInit ==
    /\ loList = <<>> /\ loInode = [s \in LoSlots |-> NoInode]
    /\ loFd = <<>> /\ loKnown = [s \in LoSlots |-> 0]
    /\ loHandles = {} /\ loLost = {}
    /\ loThread = [t \in LoThreads |-> LoIdle]
    /\ loSent = 0 /\ loFaults = 0

LoFails == loFaults < LoFaults /\ loFaults' = loFaults + 1
FreeFds == LoFds \ DOMAIN loFd
NewFd == Min(FreeFds)
Opened(fd, f) == [d \in DOMAIN loFd \cup {fd} |-> IF d = fd THEN f ELSE loFd[d]]
Closed(fd) == [d \in DOMAIN loFd \ {fd} |-> loFd[d]]
Unused == {s \in LoSlots : loInode[s] = NoInode}
NewSlot == IF Unused = {} THEN {} ELSE {Min(Unused)}
The(set) == CHOOSE x \in set : TRUE
LoSends == loSent < LoRequests /\ loSent' = loSent + 1
LoGoto(t, at) == loThread' = [loThread EXCEPT ![t].at = at]
LoDone(t) == loThread' = [loThread EXCEPT ![t] = LoIdle]

(* Inodes a request in flight or an open file keeps the kernel from         *)
(* forgetting completely.                                                   *)
Pinned(s) == \/ \E t \in LoThreads : loThread[t].op = "link" /\ loThread[t].slot = {s}
             \/ \E h \in loHandles : h[1] = s

(* LOOKUP, MKNOD, MKDIR, SYMLINK, CREATE, TMPFILE and READDIRPLUS arrive.   *)
LoReceive(t, op, f) ==
    /\ loThread[t].at = "idle" /\ LoSends
    /\ loThread' = [loThread EXCEPT ![t] = [LoIdle EXCEPT !.op = op, !.file = {f},
                       !.at = IF op \in {"mknod", "create", "tmpfile"} THEN op
                                                                      ELSE "openat"]]
    /\ UNCHANGED <<loList, loInode, loFd, loKnown, loHandles, loLost, loFaults>>

(* lo_mknod_symlink(): the new file is made, then looked up. *)
lo_mknod_symlink(t) ==
    /\ loThread[t].at = "mknod"
    /\ \/ LoGoto(t, "openat") /\ UNCHANGED loFaults
       \/ LoFails /\ LoDone(t)
    /\ UNCHANGED <<loSent, loList, loInode, loFd, loKnown, loHandles, loLost>>

(* lo_create(): the file is opened, then looked up. *)
lo_create(t) ==
    /\ loThread[t].at = "create" /\ FreeFds # {}
    /\ \/ /\ loFd' = Opened(NewFd, loThread[t].file)
          /\ loThread' = [loThread EXCEPT ![t].at = "openat", ![t].hfd = NewFd]
          /\ UNCHANGED loFaults
       \/ LoFails /\ LoDone(t) /\ UNCHANGED loFd
    /\ UNCHANGED <<loSent, loList, loInode, loKnown, loHandles, loLost>>

(* lo_do_lookup(), first part: the O_PATH descriptor is opened and its      *)
(* attributes are read.  The two failures differ only in that the second    *)
(* closes the descriptor again.                                             *)
lo_do_lookup(t) ==
    /\ loThread[t].at = "openat" /\ FreeFds # {}
    /\ \/ /\ loFd' = Opened(NewFd, loThread[t].file)
          /\ loThread' = [loThread EXCEPT ![t].at = "find", ![t].fd = NewFd]
          /\ UNCHANGED loFaults
       \/ LoFails /\ LoGoto(t, "failed") /\ UNCHANGED loFd
    /\ UNCHANGED <<loSent, loList, loInode, loKnown, loHandles, loLost>>

Listed(f) == SelectInSeq(loList, LAMBDA s : loInode[s].file = f)

(* lo_find(), under lo->mutex: a known file gets one more reference, and    *)
(* the new descriptor is closed.                                            *)
lo_find(t) ==
    LET i == Listed(loThread[t].file)
    IN  /\ loThread[t].at = "find"
        /\ IF i = 0
             THEN LoGoto(t, "new") /\ UNCHANGED <<loInode, loFd>>
             ELSE /\ loInode' = [loInode EXCEPT ![loList[i]].ref = @ + 1]
                  /\ loFd' = Closed(loThread[t].fd)
                  /\ loThread' = [loThread EXCEPT ![t].at = "found",
                                      ![t].slot = {loList[i]}, ![t].fd = 0]
        /\ UNCHANGED <<loSent, loList, loKnown, loHandles, loLost, loFaults>>

(* create_new_inode(): lo_find() has released the mutex, so another thread  *)
(* may have listed an inode of the same file in between.  Without memory    *)
(* lo_do_lookup() closes its descriptor; lo_tmpfile() sends an entry with   *)
(* inode number 0, which the kernel refuses, and loses both of its own.     *)
create_new_inode(t) ==
    /\ loThread[t].at = "new"
    /\ \/ \E s \in NewSlot :
          /\ loInode' = [loInode EXCEPT ![s] = [file |-> loThread[t].file, ref |-> 1,
                                                 fd |-> loThread[t].fd]]
          /\ loList' = <<s>> \o loList
          /\ loThread' = [loThread EXCEPT ![t].at = "found", ![t].slot = {s},
                                          ![t].fd = 0]
          /\ UNCHANGED <<loFd, loFaults>>
          /\ UNCHANGED loLost
       \/ /\ LoFails
          /\ IF loThread[t].op = "tmpfile"
             THEN /\ loLost' = loLost \cup ({loThread[t].hfd, loThread[t].fd} \ {0})
                  /\ LoDone(t) /\ UNCHANGED loFd
             ELSE /\ loFd' = Closed(loThread[t].fd) /\ UNCHANGED loLost
                  /\ loThread' = [loThread EXCEPT ![t].at = "failed", ![t].fd = 0]
          /\ UNCHANGED <<loList, loInode>>
    /\ UNCHANGED <<loSent, loKnown, loHandles>>

Counted(slots) == [s \in LoSlots |-> loKnown[s] +
                      Cardinality({i \in DOMAIN slots : slots[i] = s})]
CanCount(s) == loKnown[s] < LoMaxKnown

(* The lookup succeeded: lo_lookup(), lo_mknod_symlink() and lo_create()    *)
(* send the entry, and the kernel counts it.                                *)
lo_reply_entry(t) ==
    LET s == The(loThread[t].slot)
    IN  /\ loThread[t].at = "found" /\ loThread[t].op # "readdirplus"
        /\ CanCount(s)
        /\ loKnown' = Counted(<<s>>)
        /\ loHandles' = IF loThread[t].op \in {"create", "tmpfile"}
                        THEN loHandles \cup {<<s, loThread[t].hfd>>} ELSE loHandles
        /\ LoDone(t)
        /\ UNCHANGED <<loSent, loList, loInode, loFd, loLost, loFaults>>

(* The lookup failed: an error is sent; the descriptor lo_create() opened   *)
(* is not closed.                                                           *)
lo_reply_err(t) ==
    /\ loThread[t].at = "failed" /\ loThread[t].op # "readdirplus"
    /\ loLost' = IF loThread[t].op = "create" THEN loLost \cup {loThread[t].hfd} ELSE loLost
    /\ LoDone(t)
    /\ UNCHANGED <<loSent, loList, loInode, loFd, loKnown, loHandles, loFaults>>

(* unref_inode(): under lo->mutex the count is lowered and an inode at zero *)
(* taken off the list; its descriptor is closed and the memory freed after  *)
(* the unlock.                                                              *)
Unref(t, s, n, then) ==
    IF loInode[s].ref = n
    THEN /\ loInode' = [loInode EXCEPT ![s].ref = 0]
         /\ loList' = Remove(loList, s)
         /\ loThread' = [loThread EXCEPT ![t].at = "close", ![t].fd = loInode[s].fd]
    ELSE /\ loInode' = [loInode EXCEPT ![s].ref = @ - n]
         /\ loThread' = [loThread EXCEPT ![t] = then]
         /\ UNCHANGED loList

unref_inode_closes(t) ==
    /\ loThread[t].at = "close"
    /\ loFd' = Closed(loThread[t].fd)
    /\ loInode' = [loInode EXCEPT ![The(loThread[t].slot)] = NoInode]
    /\ loThread' = [loThread EXCEPT ![t] =
          IF @.op = "readdirplus" THEN [@ EXCEPT !.at = "filled", !.fd = 0] ELSE LoIdle]
    /\ UNCHANGED <<loSent, loList, loKnown, loHandles, loLost, loFaults>>

(* lo_do_readdir() with plus: an entry that does not fit any more is        *)
(* forgotten again and ends the loop; otherwise the next entry is looked    *)
(* up, or the directory ends.                                               *)
lo_do_readdir_full_counted(t) ==
    LoGoto(t, "filled") /\ UNCHANGED <<loInode, loList>>
lo_do_readdir_full(t) ==
    Unref(t, The(loThread[t].slot), 1, [loThread[t] EXCEPT !.at = "filled"])

lo_do_readdir_entry(t) ==
    /\ loThread[t].at = "found" /\ loThread[t].op = "readdirplus"
    /\ \/ lo_do_readdir_full(t)
       \/ LET s == The(loThread[t].slot) IN
          /\ Counted(loThread[t].batch \o <<s>>)[s] <= LoMaxKnown
          /\ \/ loThread' = [loThread EXCEPT ![t].at = "filled", ![t].batch = @ \o <<s>>]
             \/ /\ Len(loThread[t].batch) + 1 < LoMaxKnown
                /\ \E f \in LoFiles : loThread' = [loThread EXCEPT ![t].at = "openat",
                       ![t].file = {f}, ![t].batch = @ \o <<s>>]
          /\ UNCHANGED <<loInode, loList>>
    /\ UNCHANGED <<loSent, loFd, loKnown, loHandles, loLost, loFaults>>

(* The end of lo_do_readdir(): the entries collected so far are sent, also  *)
(* when a later lookup failed.                                              *)
lo_do_readdir_reply(t) ==
    /\ loThread[t].at \in {"filled", "failed"} /\ loThread[t].op = "readdirplus"
    /\ \A s \in LoSlots : Counted(loThread[t].batch)[s] <= LoMaxKnown
    /\ loKnown' = Counted(loThread[t].batch)
    /\ LoDone(t)
    /\ UNCHANGED <<loSent, loList, loInode, loFd, loHandles, loLost, loFaults>>

(* lo_tmpfile(): an unnamed file is opened.                                 *)
lo_tmpfile(t) ==
    /\ loThread[t].at = "tmpfile" /\ FreeFds # {}
    /\ \/ /\ loFd' = Opened(NewFd, loThread[t].file)
          /\ loThread' = [loThread EXCEPT ![t].at = "dup", ![t].hfd = NewFd]
          /\ UNCHANGED loFaults
       \/ LoFails /\ LoDone(t) /\ UNCHANGED loFd
    /\ UNCHANGED <<loSent, loList, loInode, loKnown, loHandles, loLost>>

(* fill_entry_param_new_inode(): a fresh inode is to own a duplicate of the *)
(* file's descriptor.  When fstatat() fails the descriptor stays open; when *)
(* dup() fails the inode is made with the descriptor -1.                    *)
fill_entry_param_new_inode(t) ==
    /\ loThread[t].at = "dup"
    /\ \/ /\ FreeFds # {} /\ loFd' = Opened(NewFd, loThread[t].file)
          /\ loThread' = [loThread EXCEPT ![t].at = "new", ![t].fd = NewFd]
          /\ UNCHANGED <<loLost, loFaults>>
       \/ LoFails /\ LoGoto(t, "new") /\ UNCHANGED <<loFd, loLost>>
       \/ LoFails /\ LoDone(t) /\ loLost' = loLost \cup {loThread[t].hfd} /\ UNCHANGED loFd
    /\ UNCHANGED <<loSent, loList, loInode, loKnown, loHandles>>

(* lo_link(): the inode gets one more reference once linkat() succeeded. *)
lo_link(t, s) ==
    /\ loThread[t].at = "idle" /\ LoSends /\ loKnown[s] > 0
    /\ loThread' = [loThread EXCEPT ![t] = [LoIdle EXCEPT !.at = "link", !.op = "link",
                                                !.slot = {s}]]
    /\ UNCHANGED <<loList, loInode, loFd, loKnown, loHandles, loLost, loFaults>>

lo_link_counts(t) ==
    /\ loThread[t].at = "link"
    /\ \/ /\ loInode' = [loInode EXCEPT ![The(loThread[t].slot)].ref = @ + 1]
          /\ loThread' = [loThread EXCEPT ![t].at = "found", ![t].op = "lookup"]
       \/ LoDone(t) /\ UNCHANGED loInode
    /\ UNCHANGED <<loSent, loList, loFd, loKnown, loHandles, loLost, loFaults>>

(* FORGET and BATCH_FORGET: the kernel gives up some of its lookups.        *)
LoForget(t, s, n) ==
    /\ loThread[t].at = "idle" /\ LoSends /\ n <= loKnown[s]
    /\ n = loKnown[s] => ~Pinned(s)
    /\ loKnown' = [loKnown EXCEPT ![s] = @ - n]
    /\ loThread' = [loThread EXCEPT ![t] = [LoIdle EXCEPT !.at = "forget", !.op = "forget",
                                                !.slot = {s}, !.n = n]]
    /\ UNCHANGED <<loList, loInode, loFd, loHandles, loLost, loFaults>>

lo_forget_one(t) ==
    /\ loThread[t].at = "forget"
    /\ Unref(t, The(loThread[t].slot), loThread[t].n, LoIdle)
    /\ UNCHANGED <<loSent, loFd, loKnown, loHandles, loLost, loFaults>>

(* lo_open() and lo_opendir(): the descriptor is the file's handle; a       *)
(* failure after it was opened closes it again.  An inode without a         *)
(* descriptor cannot be opened.                                             *)
lo_open(t, s) ==
    /\ loThread[t].at = "idle" /\ LoSends /\ loKnown[s] > 0 /\ FreeFds # {}
    /\ loInode[s].fd # 0
    /\ \A h \in loHandles : h[1] # s
    /\ loFd' = Opened(NewFd, loInode[s].file)
    /\ loHandles' = loHandles \cup {<<s, NewFd>>}
    /\ UNCHANGED <<loList, loInode, loKnown, loLost, loThread, loFaults>>

lo_release(t, h) ==
    /\ loThread[t].at = "idle" /\ LoSends /\ h \in loHandles
    /\ loFd' = Closed(h[2])
    /\ loHandles' = loHandles \ {h}
    /\ UNCHANGED <<loList, loInode, loKnown, loLost, loThread, loFaults>>

(* lo_destroy(), after the last request: every listed inode is closed and   *)
(* freed, whatever its count.                                               *)
lo_destroy ==
    /\ \A t \in LoThreads : loThread[t].at = "idle"
    /\ loList # <<>> /\ loHandles = {}
    /\ loFd' = [d \in DOMAIN loFd \ {loInode[s].fd : s \in ToSet(loList)} |-> loFd[d]]
    /\ loInode' = [s \in LoSlots |-> NoInode]
    /\ loKnown' = [s \in LoSlots |-> 0]
    /\ loList' = <<>>
    /\ loSent' = LoRequests
    /\ UNCHANGED <<loHandles, loLost, loThread, loFaults>>

LoNext ==
    \/ \E t \in LoThreads :
          \/ \E f \in LoFiles : \E op \in {"lookup", "mknod", "create", "tmpfile",
                                           "readdirplus"} : LoReceive(t, op, f)
          \/ lo_mknod_symlink(t) \/ lo_create(t) \/ lo_tmpfile(t)
          \/ fill_entry_param_new_inode(t) \/ unref_inode_closes(t)
          \/ lo_do_lookup(t) \/ lo_find(t) \/ create_new_inode(t)
          \/ lo_reply_entry(t) \/ lo_reply_err(t)
          \/ lo_do_readdir_entry(t) \/ lo_do_readdir_reply(t)
          \/ lo_link_counts(t) \/ lo_forget_one(t)
          \/ \E s \in LoSlots : \/ lo_link(t, s) \/ lo_open(t, s)
                                \/ \E n \in 1..LoMaxKnown : LoForget(t, s, n)
          \/ \E h \in loHandles : lo_release(t, h)
    \/ lo_destroy
-----------------------------------------------------------------------------
Occurrences(s, q) == Cardinality({i \in DOMAIN q : q[i] = s})
InFlight(t, s) ==
    LET w == loThread[t]
    IN  Occurrences(s, w.batch) +
        (IF w.at = "found" /\ w.slot = {s} THEN 1 ELSE 0) +
        (IF w.at = "forget" /\ w.slot = {s} THEN w.n ELSE 0)

(* An inode's reference count is the kernel's lookup count of it plus what  *)
(* threads are about to report or to forget, so that an inode the kernel    *)
(* knows is never freed and one it has forgotten always is: through         *)
(* concurrent lookups and forgets of one file, entries of READDIRPLUS that  *)
(* did not fit, and lookups that failed after some entries (lo_find,        *)
(* create_new_inode, unref_inode, lo_do_readdir).                           *)
LoRefsExact ==
    \A s \in LoSlots :
        loInode[s].ref = loKnown[s] +
            FoldSet(LAMBDA t, sum : sum + InFlight(t, s), 0, LoThreads)

(* A descriptor is owned by one inode, one open file or one request in      *)
(* flight, so that none is closed twice and none is closed under an inode   *)
(* the kernel knows; it is the owner's file that it names.  Two error paths *)
(* are the exceptions, and a system call or an allocation has failed in     *)
(* each: the inode that lo_tmpfile() makes when dup() fails has none, and   *)
(* the descriptors that a failing lo_create() or lo_tmpfile() has opened    *)
(* are nobody's, at most two for each failure.                              *)
LoFdsOwned ==
    LET inodes == {s \in ToSet(loList) : loInode[s].fd # 0}
        ofInode == {loInode[s].fd : s \in inodes}
        ofHandle == {h[2] : h \in loHandles}
        ofThread == ({loThread[t].fd : t \in LoThreads} \cup
                     {loThread[t].hfd : t \in LoThreads}) \ {0}
    IN  /\ DOMAIN loFd = ofInode \cup ofHandle \cup ofThread \cup loLost
        /\ Cardinality(ofInode) = Cardinality(inodes)
        /\ Cardinality(ofHandle) = Cardinality(loHandles)
        /\ ofInode \cap (ofHandle \cup ofThread \cup loLost) = {}
        /\ ofHandle \cap (ofThread \cup loLost) = {}
        /\ ofThread \cap loLost = {}
        /\ \A s \in inodes : loFd[loInode[s].fd] = loInode[s].file
        /\ 2 * Cardinality(ToSet(loList) \ inodes) + Cardinality(loLost) <= 2 * loFaults

(* Inodes live as long as the kernel may name them, and their descriptors   *)
(* as long as they.                                                         *)
LoExact ==
    LoRefsExact /\ LoFdsOwned
=============================================================================
