---------------------------- MODULE FuseAutoCache ----------------------------
(***************************************************************************)
(* The option auto_cache of fuse.c: on open the pages the kernel has       *)
(* cached of a file are kept if the file's mtime and size are those of the *)
(* last stat.  getattr, lookup, setattr and open call the filesystem       *)
(* without f->lock and note what they saw under it.                        *)
(*                                                                         *)
(* mtime and size are one version number, which a change of the file       *)
(* raises.                                                                 *)
(***************************************************************************)
EXTENDS Integers

CONSTANTS
    CacheThreads,
    MaxVersion,       \* changes of the file are bounded
    StatFaults,       \* times that the filesystem's getattr fails
    OpenInterrupts    \* opens whose answer the kernel no longer waits for

ASSUME AutoCacheAssumption == MaxVersion \in Nat /\ StatFaults \in Nat /\ OpenInterrupts \in Nat

VARIABLES
    version,    \* of the file
    cnode,      \* cache_valid, mtime and size, and whether stat_updated is recent
    page,       \* version of the page in the kernel's cache, or 0
    opens,      \* open files
    cthread,    \* per thread: what it does and the version its getattr saw
    cfault      \* faults and interrupts that may still happen

autoVars == <<version, cnode, page, opens, cthread, cfault>>

CacheIdle == [at |-> "idle", seen |-> 0, keep |-> FALSE]

AutoInit ==
    /\ version = 1 /\ page = 0 /\ opens = 0
    /\ cnode = [cache_valid |-> FALSE, mtime |-> 1, recent |-> TRUE]
    /\ cthread = [t \in CacheThreads |-> CacheIdle]
    /\ cfault = [stat |-> StatFaults, interrupt |-> OpenInterrupts]
-----------------------------------------------------------------------------
(* The file changes, by whatever means the filesystem has.                  *)
FileChanges ==
    /\ version < MaxVersion /\ version' = version + 1
    /\ UNCHANGED <<cnode, page, opens, cthread, cfault>>

(* stat_updated is ac_attr_timeout in the past.                             *)
TimeoutPasses ==
    /\ cnode.recent /\ cnode' = [cnode EXCEPT !.recent = FALSE]
    /\ UNCHANGED <<version, page, opens, cthread, cfault>>

(* An open file is read: a page that is not cached is read through the      *)
(* filesystem.                                                              *)
KernelReads ==
    /\ opens > 0 /\ page = 0 /\ page' = version
    /\ UNCHANGED <<version, cnode, opens, cthread, cfault>>
KernelReclaims ==
    /\ page # 0 /\ page' = 0
    /\ UNCHANGED <<version, cnode, opens, cthread, cfault>>
-----------------------------------------------------------------------------
(* Mutant: a change leaves the cache valid.                                 *)
update_stat_valid(seen) == [cnode EXCEPT !.mtime = seen, !.recent = TRUE]

update_stat(seen) ==
    [cache_valid |-> cnode.cache_valid /\ seen = cnode.mtime, mtime |-> seen, recent |-> TRUE]

(* fuse_fs_getattr, without f->lock: in fuse_lib_getattr, fuse_lib_setattr  *)
(* and lookup_path.                                                         *)
getattr_stats(t) ==
    /\ cthread[t].at = "idle"
    /\ cthread' = [cthread EXCEPT ![t] = [CacheIdle EXCEPT !.at = "stat", !.seen = version]]
    /\ UNCHANGED <<version, cnode, page, opens, cfault>>
(* ... and under f->lock: there, and in do_lookup.                          *)
getattr_updates(t) ==
    /\ cthread[t].at = "stat"
    /\ cnode' = update_stat(cthread[t].seen)
    /\ cthread' = [cthread EXCEPT ![t] = CacheIdle]
    /\ UNCHANGED <<version, page, opens, cfault>>

(* The end of open_auto_cache: fi->keep_cache.                              *)
Decides(n) == [keep |-> n.cache_valid, node |-> [n EXCEPT !.cache_valid = TRUE]]

(* open_auto_cache looks at the node, and again after a getattr for which   *)
(* it gave up f->lock.                                                      *)
open_auto_cache(t) ==
    /\ cthread[t].at = "idle"
    /\ IF cnode.cache_valid /\ ~cnode.recent
       THEN cthread' = [cthread EXCEPT ![t].at = "unlocked"] /\ UNCHANGED cnode
       ELSE /\ cthread' = [cthread EXCEPT ![t] = [at |-> "reply", seen |-> cnode.mtime,
                                                  keep |-> Decides(cnode).keep]]
            /\ cnode' = Decides(cnode).node
    /\ UNCHANGED <<version, page, opens, cfault>>
open_auto_cache_stats(t) ==
    /\ cthread[t].at = "unlocked"
    /\ \/ cthread' = [cthread EXCEPT ![t].at = "seen", ![t].seen = version] /\ UNCHANGED cfault
       \/ /\ cfault.stat > 0 /\ cfault' = [cfault EXCEPT !.stat = @ - 1]
          /\ cthread' = [cthread EXCEPT ![t].at = "seen", ![t].seen = 0]
    /\ UNCHANGED <<version, cnode, page, opens>>
open_auto_cache_decides(t) ==
    /\ cthread[t].at = "seen"
    /\ LET n == IF cthread[t].seen # 0 THEN update_stat(cthread[t].seen)
                ELSE [cnode EXCEPT !.cache_valid = FALSE]
       IN  /\ cnode' = Decides(n).node
           /\ cthread' = [cthread EXCEPT ![t] = [at |-> "reply", seen |-> n.mtime,
                                                 keep |-> Decides(n).keep]]
    /\ UNCHANGED <<version, page, opens, cfault>>

(* fuse_reply_open: the kernel drops the pages that are not to be kept.     *)
fuse_lib_open_replies(t) ==
    /\ cthread[t].at = "reply" /\ opens < 2
    /\ page' = IF cthread[t].keep THEN page ELSE 0
    /\ opens' = opens + 1 /\ cthread' = [cthread EXCEPT ![t] = CacheIdle]
    /\ UNCHANGED <<version, cnode, cfault>>
(* -ENOENT: the open was interrupted; it is undone by fuse_do_release.      *)
fuse_lib_open_interrupted(t) ==
    /\ cthread[t].at = "reply" /\ cfault.interrupt > 0
    /\ cfault' = [cfault EXCEPT !.interrupt = @ - 1]
    /\ cthread' = [cthread EXCEPT ![t] = CacheIdle]
    /\ UNCHANGED <<version, cnode, page, opens>>
Closes ==
    /\ opens > 0 /\ opens' = opens - 1
    /\ UNCHANGED <<version, cnode, page, cthread, cfault>>

AutoNext ==
    \/ FileChanges \/ TimeoutPasses \/ KernelReads \/ KernelReclaims \/ Closes
    \/ \E t \in CacheThreads :
          \/ getattr_stats(t) \/ getattr_updates(t) \/ open_auto_cache(t)
          \/ open_auto_cache_stats(t) \/ open_auto_cache_decides(t)
          \/ fuse_lib_open_replies(t) \/ fuse_lib_open_interrupted(t)
-----------------------------------------------------------------------------
AutoSpec == AutoInit /\ [][AutoNext]_autoVars

AutoTypeOK ==
    /\ version \in Nat /\ page \in Nat /\ opens \in Nat
    /\ cnode \in [cache_valid : BOOLEAN, mtime : Nat, recent : BOOLEAN]
    /\ cthread \in [CacheThreads -> [at : {"idle", "stat", "unlocked", "seen", "reply"},
                                     seen : Nat, keep : BOOLEAN]]
    /\ cfault \in [stat : 0..StatFaults, interrupt : 0..OpenInterrupts]

(* Opens whose answer will make the kernel drop its pages.                  *)
Dropping == {t \in CacheThreads : cthread[t].at = "reply" /\ ~cthread[t].keep}

(* While the node calls the cache valid, the kernel holds no page older     *)
(* than the mtime and size noted, however stats, opens and changes of the   *)
(* file cross each other: what an open keeps is never known to be stale.    *)
(* An open that has decided to drop the pages and whose answer is under way *)
(* is left out.  What is noted was the file's at some time.                 *)
KeptPagesFresh ==
    /\ AutoTypeOK
    /\ cnode.mtime <= version /\ \A t \in CacheThreads : cthread[t].seen <= version
    /\ cnode.cache_valid /\ Dropping = {} /\ page # 0 => page >= cnode.mtime
=============================================================================
