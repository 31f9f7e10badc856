-------------------------- MODULE FuseSessionProofs --------------------------
(***************************************************************************)
(* Invariants of a session and of the process around it, for every value   *)
(* of the constants: the daemon's life with its helper fusermount3, and    *)
(* the negotiation of FUSE_INIT.  The two share no state.                  *)
(***************************************************************************)
EXTENDS FuseInit, FuseMount, TLAPS

-----------------------------------------------------------------------------
(* The daemon and its helper: lib/helper.c, lib/mount.c, util/fusermount.c. *)

(* The inductive invariant of FuseMount: the session is in order, and       *)
(* daemon, helper and mount point are in step.                              *)
MountInv ==
    /\ TypeOK /\ SessionInOrder /\ HelperInStep /\ MountInStep /\ EndsKnown
    /\ ClosedBeforeUnmount

(* A new mount hides the others.                                            *)
LEMMA MountOnTop ==
    ASSUME NEW t \in Seq(Mounts), NEW x \in Mounts
    PROVE  /\ <<x>> \o t \in Seq(Mounts)
           /\ \A m : IsIn(m, <<x>> \o t) <=> (m = x \/ IsIn(m, t))
           /\ ~IsIn("ours", t) =>
                OnTop("ours", <<x>> \o t)
<1> DEFINE s == <<x>> \o t
<1>1. /\ s \in Seq(Mounts) /\ Len(s) = Len(t) + 1 /\ Len(t) \in Nat
      /\ s[1] = x /\ \A i \in 1..Len(t) : s[i + 1] = t[i]
  OBVIOUS
<1>2. \A i \in 1..Len(s) : i = 1 \/ (i - 1 \in 1..Len(t) /\ s[i] = t[i - 1])
  BY <1>1
<1> HIDE DEF s
<1>3. \A i \in 1..Len(t) : i + 1 \in 1..Len(s)
  BY <1>1
<1>4. 1 \in 1..Len(s)
  BY <1>1
<1>5. ASSUME NEW m PROVE IsIn(m, s) <=> (m = x \/ IsIn(m, t))
  <2>1. ASSUME NEW i \in 1..Len(s), s[i] = m PROVE m = x \/ IsIn(m, t)
    BY <1>1, <1>2, <2>1, Zenon DEF IsIn
  <2>2. m = x => IsIn(m, s)
    BY <1>1, <1>4, Zenon DEF IsIn
  <2>3. ASSUME NEW i \in 1..Len(t), t[i] = m PROVE IsIn(m, s)
    BY <1>1, <1>3, <2>3, Zenon DEF IsIn
  <2> QED
    BY <2>1, <2>2, <2>3, Zenon DEF IsIn
<1>6. ~IsIn("ours", t) => OnTop("ours", s)
  BY <1>2, Zenon DEF IsIn, OnTop
<1> QED
  BY <1>1, <1>5, <1>6 DEF s

(* Unmounting uncovers what was below, where the daemon's mount never is.   *)
LEMMA UmountTop ==
    ASSUME NEW t \in Seq(Mounts), OnTop("ours", t)
    PROVE  /\ Umount(t) \in Seq(Mounts)
           /\ \A m : IsIn(m, Umount(t)) => IsIn(m, t)
           /\ ~IsIn("ours", Umount(t))
           /\ OnTop("ours", Umount(t))
<1>1. CASE t = <<>>
  BY <1>1 DEF Umount, IsIn, OnTop
<1>2. CASE t # <<>>
  <2> DEFINE s == Tail(t)
  <2>1. /\ s \in Seq(Mounts) /\ Len(s) = Len(t) - 1 /\ Len(t) \in Nat \ {0}
        /\ \A i \in 1..Len(s) : s[i] = t[i + 1]
    BY <1>2
  <2>2. \A i \in 1..Len(s) : i + 1 \in 1..Len(t) /\ i + 1 # 1
    BY <2>1
  <2>3. Umount(t) = s
    BY <1>2, Zenon DEF Umount
  <2> HIDE DEF s
  <2>4. \A m : IsIn(m, s) => IsIn(m, t)
    BY <2>1, <2>2, Zenon DEF IsIn
  <2>5. \A i \in 1..Len(s) : s[i] # "ours"
    BY <2>1, <2>2, Zenon DEF OnTop
  <2> QED
    BY <2>1, <2>3, <2>4, <2>5, Zenon DEF IsIn, OnTop
<1> QED
  BY <1>1, <1>2

(* A mount the helper gives up on is the daemon's no more.                  *)
LEMMA OrphanTable ==
    ASSUME NEW t \in Seq(Mounts)
    PROVE  /\ Orphan(t) \in Seq(Mounts)
           /\ ~IsIn("ours", Orphan(t))
           /\ IsIn("orphan", Orphan(t)) => IsIn("ours", t) \/ IsIn("orphan", t)
           /\ OnTop("ours", Orphan(t))
<1>1. /\ Len(t) \in Nat /\ \A i \in 1..Len(t) : t[i] \in Mounts
  OBVIOUS
<1>2. \A i \in 1..Len(t) : Orphan(t)[i] \in Mounts \ {"ours"}
  BY <1>1 DEF Orphan, Mounts
<1>3. Orphan(t) \in Seq(Mounts) /\ Len(Orphan(t)) = Len(t)
  BY <1>1, <1>2 DEF Orphan
<1>4. \A i \in 1..Len(t) : Orphan(t)[i] = "orphan" => t[i] \in {"ours", "orphan"}
  BY DEF Orphan
<1> QED
  BY <1>2, <1>3, <1>4 DEF IsIn, OnTop

-----------------------------------------------------------------------------
(* What a step writes into the records.                                     *)

(* The part of the session that do_init, do_destroy and the functions that  *)
(* create and free it write.                                                *)
SessionSame ==
    /\ d'.life = d.life /\ d'.got_init = d.got_init
    /\ d'.got_destroy = d.got_destroy /\ d'.destroyed = d.destroyed

(* The same of the memory of the run.                                       *)
UnmountFails == g.faults < MaxFaults /\ g' = [g EXCEPT !.faults = @ + 1, !.stuck = TRUE]
LeavesMount == \/ g.faults < MaxFaults /\ g' = [g EXCEPT !.faults = @ + 1, !.left = TRUE]
               \/ g' = [g EXCEPT !.left = TRUE]
Quits == g.faults < MaxFaults /\ g' = [g EXCEPT !.faults = @ + 1, !.quit = TRUE]
OtherComes == g.others < MaxOthers /\ g' = [g EXCEPT !.others = @ + 1]
Looks == \/ g' = [g EXCEPT !.clean = NobodyMounted]
         \/ g.faults < MaxFaults /\ g' = [g EXCEPT !.faults = @ + 1, !.clean = NobodyMounted]

(* The daemon goes on, or leaves with a result.                             *)
LEMMA Moves ==
    ASSUME d \in Session, NEW pc, NEW res
    PROVE  /\ Goto(pc) =>
                /\ d'.pc = pc /\ d'.res = d.res /\ d'.mountpoint = d.mountpoint
                /\ SessionSame /\ (pc \in DaemonAt => d' \in Session)
           /\ Leave(pc, res) =>
                /\ d'.pc = pc /\ d'.res = res /\ d'.mountpoint = d.mountpoint
                /\ SessionSame /\ (pc \in DaemonAt /\ res \in 0..8 => d' \in Session)
<1>1. Goto(pc) =>
        /\ d'.pc = pc /\ d'.res = d.res /\ d'.mountpoint = d.mountpoint
        /\ pc \in DaemonAt => d' \in Session
  BY Zenon DEF Goto, Session
<1>2. Goto(pc) => SessionSame
  BY Zenon DEF Goto, Session, SessionSame
<1>3. Leave(pc, res) =>
        /\ d'.pc = pc /\ d'.res = res /\ d'.mountpoint = d.mountpoint
        /\ pc \in DaemonAt /\ res \in 0..8 => d' \in Session
  BY Zenon DEF Leave, Session
<1>4. Leave(pc, res) => SessionSame
  BY Zenon DEF Leave, Session, SessionSame
<1> QED
  BY <1>1, <1>2, <1>3, <1>4, Zenon

(* The daemon gets its device, with or without a mount point to remember.   *)
LEMMA DeviceMoves ==
    ASSUME d \in Session, NEW fd \in {"dev", "bad"}
    PROVE  /\ d' = [d EXCEPT !.pc = "daemonize", !.fd = fd] =>
                d' \in Session /\ d'.pc = "daemonize" /\ d'.res = d.res /\ SessionSame
           /\ d' = [d EXCEPT !.pc = "daemonize", !.fd = fd, !.mountpoint = TRUE] =>
                /\ d' \in Session /\ d'.pc = "daemonize" /\ d'.res = d.res
                /\ d'.mountpoint /\ SessionSame
<1>1. "daemonize" \in DaemonAt /\ fd \in {"none", "dev", "bad"}
  BY Zenon DEF DaemonAt
<1>2. d' = [d EXCEPT !.pc = "daemonize", !.fd = fd] =>
        d' \in Session /\ d'.pc = "daemonize" /\ d'.res = d.res
  BY <1>1, Zenon DEF Session
<1>3. d' = [d EXCEPT !.pc = "daemonize", !.fd = fd] => SessionSame
  BY Zenon DEF Session, SessionSame
<1>4. d' = [d EXCEPT !.pc = "daemonize", !.fd = fd, !.mountpoint = TRUE] =>
        d' \in Session /\ d'.pc = "daemonize" /\ d'.res = d.res /\ d'.mountpoint
  BY <1>1, Zenon DEF Session
<1>5. d' = [d EXCEPT !.pc = "daemonize", !.fd = fd, !.mountpoint = TRUE] => SessionSame
  BY Zenon DEF Session, SessionSame
<1> QED
  BY <1>2, <1>3, <1>4, <1>5, Zenon

(* The other writes of the daemon.                                          *)
LEMMA SessionMoves ==
    ASSUME d \in Session
    PROVE  /\ d' = [d EXCEPT !.pc = "mount", !.life = "live"] =>
                /\ d' \in Session /\ d'.pc = "mount" /\ d'.life = "live"
                /\ d'.got_init = d.got_init /\ d'.got_destroy = d.got_destroy
                /\ d'.destroyed = d.destroyed
           /\ d' = [d EXCEPT !.pc = "spawn", !.attempt = 2] =>
                d' \in Session /\ d'.pc = "spawn" /\ SessionSame
           /\ d' = [d EXCEPT !.exited = TRUE] =>
                /\ d' \in Session /\ d'.pc = d.pc /\ d'.res = d.res
                /\ d'.mountpoint = d.mountpoint /\ SessionSame
           /\ d' = [d EXCEPT !.got_init = TRUE] =>
                /\ d' \in Session /\ d'.pc = d.pc /\ d'.res = d.res
                /\ d'.mountpoint = d.mountpoint /\ d'.life = d.life /\ d'.got_init
                /\ d'.got_destroy = d.got_destroy /\ d'.destroyed = d.destroyed
           /\ d' = [d EXCEPT !.mountpoint = FALSE, !.got_destroy = TRUE, !.got_init = FALSE,
                             !.destroyed = 1] =>
                /\ d' \in Session /\ d'.pc = d.pc /\ d'.res = d.res /\ d'.life = d.life
                /\ ~d'.got_init /\ d'.got_destroy /\ d'.destroyed = 1
           /\ fuse_kern_unmount =>
                /\ d' \in Session /\ d'.pc = (IF Severed THEN "destroy" ELSE "umount")
                /\ d'.res = d.res /\ SessionSame
           /\ \A n \in 0..1 :
                d' = [d EXCEPT !.pc = "done", !.life = "freed", !.fd = "none", !.destroyed = n] =>
                  /\ d' \in Session /\ d'.pc = "done" /\ d'.res = d.res
                  /\ d'.life = "freed" /\ d'.got_init = d.got_init
                  /\ d'.got_destroy = d.got_destroy /\ d'.destroyed = n
<1>1. /\ 2 \in 1..2 /\ 1 \in 0..1
      /\ {"mount", "spawn", "destroy", "umount", "done"} \subseteq DaemonAt
  BY DEF DaemonAt
<1>2. d' = [d EXCEPT !.pc = "mount", !.life = "live"] =>
        /\ d' \in Session /\ d'.pc = "mount" /\ d'.life = "live"
        /\ d'.got_init = d.got_init /\ d'.got_destroy = d.got_destroy
        /\ d'.destroyed = d.destroyed
  BY <1>1, Zenon DEF Session
<1>3. d' = [d EXCEPT !.pc = "spawn", !.attempt = 2] =>
        d' \in Session /\ d'.pc = "spawn" /\ SessionSame
  BY <1>1, Zenon DEF Session, SessionSame
<1>4. d' = [d EXCEPT !.exited = TRUE] =>
        /\ d' \in Session /\ d'.pc = d.pc /\ d'.res = d.res
        /\ d'.mountpoint = d.mountpoint /\ SessionSame
  BY <1>1, Zenon DEF Session, SessionSame
<1>5. d' = [d EXCEPT !.got_init = TRUE] =>
        /\ d' \in Session /\ d'.pc = d.pc /\ d'.res = d.res
        /\ d'.mountpoint = d.mountpoint /\ d'.life = d.life /\ d'.got_init
        /\ d'.got_destroy = d.got_destroy /\ d'.destroyed = d.destroyed
  BY <1>1, Zenon DEF Session
<1>6. d' = [d EXCEPT !.mountpoint = FALSE, !.got_destroy = TRUE, !.got_init = FALSE,
                     !.destroyed = 1] =>
        /\ d' \in Session /\ d'.pc = d.pc /\ d'.res = d.res /\ d'.life = d.life
        /\ ~d'.got_init /\ d'.got_destroy /\ d'.destroyed = 1
  BY <1>1, Zenon DEF Session
<1>7. ASSUME fuse_kern_unmount
      PROVE  /\ d' \in Session /\ d'.pc = (IF Severed THEN "destroy" ELSE "umount")
             /\ d'.res = d.res /\ SessionSame
  <2> DEFINE pc == IF Severed THEN "destroy" ELSE "umount"
  <2>1. pc \in DaemonAt
    BY <1>1, Zenon
  <2>2. d' = [d EXCEPT !.pc = pc, !.mountpoint = FALSE, !.fd = "none"]
    BY <1>7, Zenon DEF fuse_kern_unmount
  <2> HIDE DEF pc
  <2>3. d' \in Session /\ d'.pc = pc /\ d'.res = d.res
    BY <2>1, <2>2, Zenon DEF Session
  <2>4. SessionSame
    BY <2>2, Zenon DEF Session, SessionSame
  <2> QED
    BY <2>3, <2>4, Zenon DEF pc
<1>8. ASSUME NEW n \in 0..1,
             d' = [d EXCEPT !.pc = "done", !.life = "freed", !.fd = "none", !.destroyed = n]
      PROVE  /\ d' \in Session /\ d'.pc = "done" /\ d'.res = d.res
             /\ d'.life = "freed" /\ d'.got_init = d.got_init
             /\ d'.got_destroy = d.got_destroy /\ d'.destroyed = n
  BY <1>1, <1>8, Zenon DEF Session
<1> QED
  BY <1>2, <1>3, <1>4, <1>5, <1>6, <1>7, <1>8, Zenon

(* An attempt at the mount succeeds, fails for good, or is repeated.        *)
LEMMA MountMoves ==
    ASSUME d \in Session
    PROVE  /\ Mounted =>
                /\ d' \in Session /\ d'.pc = "daemonize" /\ d'.mountpoint
                /\ d'.res = d.res /\ SessionSame
           /\ MountFails => d' \in Session /\ d'.pc = "destroy" /\ d'.res = 4 /\ SessionSame
           /\ AttemptFails => d' \in Session /\ d'.pc \in {"spawn", "destroy"} /\ SessionSame
<1>1. "destroy" \in DaemonAt /\ 4 \in 0..8
  BY DEF DaemonAt
<1>2. MountFails => d' \in Session /\ d'.pc = "destroy" /\ d'.res = 4 /\ SessionSame
  BY <1>1, Moves, Zenon DEF MountFails
<1> QED
  BY <1>2, DeviceMoves, SessionMoves, Zenon DEF Mounted, AttemptFails

(* What a step writes into the helper's record.                             *)
LEMMA HelperMoves ==
    ASSUME h \in Fusermount, NEW pc \in HelperAt
    PROVE  /\ h' = [h EXCEPT !.pc = pc] =>
                h' \in Fusermount /\ h'.pc = pc /\ h'.only = h.only /\ h'.took = h.took
           /\ h' = [h EXCEPT !.pc = pc, !.only = TRUE] =>
                h' \in Fusermount /\ h'.pc = pc /\ h'.only /\ h'.took = h.took
           /\ \A m \in Mounts \cup {"none"} : h' = [h EXCEPT !.pc = pc, !.took = m] =>
                h' \in Fusermount /\ h'.pc = pc /\ h'.only = h.only /\ h'.took = m
  BY Zenon DEF Fusermount

(* What a step writes into the memory of the run: a call fails, unmounting  *)
(* fails, a helper leaves a mount or ends, the mount point is looked at,    *)
(* someone else mounts.                                                     *)
LEMMA MemoryMoves ==
    ASSUME g \in Memory
    PROVE  /\ CallFails =>
                /\ g' \in Memory
                /\ g'.stuck = g.stuck /\ g'.left = g.left /\ g'.clean = g.clean
           /\ UnmountFails =>
                g' \in Memory /\ g'.stuck /\ g'.left = g.left /\ g'.clean = g.clean
           /\ LeavesMount =>
                g' \in Memory /\ g'.stuck = g.stuck /\ g'.left /\ g'.clean = g.clean
           /\ Quits =>
                /\ g' \in Memory
                /\ g'.stuck = g.stuck /\ g'.left = g.left /\ g'.clean = g.clean
           /\ OtherComes =>
                /\ g' \in Memory
                /\ g'.stuck = g.stuck /\ g'.left = g.left /\ g'.clean = g.clean
           /\ Looks =>
                /\ g' \in Memory
                /\ g'.stuck = g.stuck /\ g'.left = g.left /\ g'.clean = NobodyMounted
<1> USE MountAssumption
<1>1. /\ g.faults < MaxFaults => g.faults + 1 \in 0..MaxFaults
      /\ g.others < MaxOthers => g.others + 1 \in 0..MaxOthers
  BY DEF Memory
<1>2. CallFails =>
        g' \in Memory /\ g'.stuck = g.stuck /\ g'.left = g.left /\ g'.clean = g.clean
  BY <1>1, Zenon DEF CallFails, Memory
<1>3. UnmountFails => g' \in Memory /\ g'.stuck /\ g'.left = g.left /\ g'.clean = g.clean
  BY <1>1, Zenon DEF UnmountFails, Memory
<1>4. LeavesMount => g' \in Memory /\ g'.stuck = g.stuck /\ g'.left /\ g'.clean = g.clean
  BY <1>1, Zenon DEF LeavesMount, Memory
<1>5. Quits => g' \in Memory /\ g'.stuck = g.stuck /\ g'.left = g.left /\ g'.clean = g.clean
  BY <1>1, Zenon DEF Quits, Memory
<1>6. OtherComes =>
        g' \in Memory /\ g'.stuck = g.stuck /\ g'.left = g.left /\ g'.clean = g.clean
  BY <1>1, Zenon DEF OtherComes, Memory
<1>7. ASSUME Looks
      PROVE  /\ g' \in Memory
             /\ g'.stuck = g.stuck /\ g'.left = g.left /\ g'.clean = NobodyMounted
  <2> DEFINE c == NobodyMounted
  <2>1. c \in BOOLEAN
    BY Zenon DEF NobodyMounted, IsIn
  <2>2. \/ g' = [g EXCEPT !.clean = c]
        \/ g.faults < MaxFaults /\ g' = [g EXCEPT !.faults = @ + 1, !.clean = c]
    BY <1>7, Zenon DEF Looks
  <2> HIDE DEF c
  <2>3. g' \in Memory /\ g'.stuck = g.stuck /\ g'.left = g.left /\ g'.clean = c
    BY <1>1, <2>1, <2>2, Zenon DEF Memory
  <2> QED
    BY <2>3, Zenon DEF c
<1> QED
  BY <1>2, <1>3, <1>4, <1>5, <1>6, <1>7, Zenon

-----------------------------------------------------------------------------
(* One conjunct of the invariant at a time.                                 *)

(* The file system's destroy is called for the first time.                  *)
LEMMA DestroyCounts ==
    ASSUME TypeOK, SessionInOrder
    PROVE  /\ fuse_session_destroy =>
                /\ d.destroyed + DestroyCalls = (IF d.got_init \/ d.got_destroy THEN 1 ELSE 0)
                /\ d.destroyed + DestroyCalls \in 0..1
           /\ do_destroy => d' = [d EXCEPT !.mountpoint = FALSE, !.got_destroy = TRUE,
                                           !.got_init = FALSE, !.destroyed = 1]
<1>0. d.got_init \in BOOLEAN /\ d.got_destroy \in BOOLEAN
  BY Zenon DEF TypeOK, Session
<1>1. ASSUME fuse_session_destroy
      PROVE  d.destroyed + DestroyCalls = (IF d.got_init \/ d.got_destroy THEN 1 ELSE 0)
  <2>1. d.destroyed = (IF d.got_destroy THEN 1 ELSE 0)
    BY <1>1, Zenon DEF fuse_session_destroy, SessionInOrder
  <2> QED
    BY <1>0, <2>1 DEF DestroyCalls, SessionInOrder
<1>2. ASSUME do_destroy
      PROVE  d' = [d EXCEPT !.mountpoint = FALSE, !.got_destroy = TRUE, !.got_init = FALSE,
                            !.destroyed = 1]
  <2>1. d.destroyed = 0
    BY <1>2, Zenon DEF do_destroy, SessionInOrder
  <2>2. d.destroyed + 1 = 1
    BY <2>1
  <2> QED
    BY <1>2, <2>2, Zenon DEF do_destroy
<1> QED
  BY <1>1, <1>2

(* The session's order and fuse_instance.                                   *)
LEMMA SessionKept ==
    ASSUME TypeOK, SessionInOrder, [Next]_vars
    PROVE  SessionInOrder'
<1>0. d \in Session
  BY Zenon DEF TypeOK
<1>1. CASE fuse_parse_cmdline
  BY <1>0, <1>1, Moves, Zenon
    DEF fuse_parse_cmdline, SessionInOrder, DestroyPaired, SessionSame
<1>2. CASE fuse_session_new
  BY <1>0, <1>2, Moves, SessionMoves, Zenon
    DEF fuse_session_new, SessionInOrder, DestroyPaired, SessionSame
<1>3. CASE fuse_session_mount
  BY <1>0, <1>3, Moves, DeviceMoves, MountMoves, Zenon
    DEF fuse_session_mount, SessionInOrder, DestroyPaired, SessionSame
<1>4. CASE fuse_mount_sys
  BY <1>0, <1>4, Moves, MountMoves, Zenon
    DEF fuse_mount_sys, SessionInOrder, DestroyPaired, SessionSame
<1>5. CASE fuse_mount_sys_mtab
  BY <1>0, <1>5, Moves, MountMoves, Zenon
    DEF fuse_mount_sys_mtab, SessionInOrder, DestroyPaired, SessionSame
<1>6. CASE setup_auto_unmount
  BY <1>0, <1>6, Moves, MountMoves, Zenon
    DEF setup_auto_unmount, SessionInOrder, DestroyPaired, SessionSame
<1>7. CASE fuse_kern_mount
  <2>1. d.pc = "eperm" /\ UNCHANGED sig /\ SessionSame
    BY <1>0, <1>7, Moves, DeviceMoves, Zenon DEF fuse_kern_mount
  <2> QED
    BY <2>1, Zenon DEF SessionInOrder, DestroyPaired, SessionSame
<1>8. CASE fuse_mount_fusermount
  BY <1>0, <1>8, Moves, MountMoves, Zenon
    DEF fuse_mount_fusermount, SessionInOrder, DestroyPaired, SessionSame
<1>9. CASE receive_fd
  BY <1>0, <1>9, Moves, MountMoves, Zenon
    DEF receive_fd, SessionInOrder, DestroyPaired, SessionSame
<1>10. CASE fuse_daemonize_forks
  BY <1>0, <1>10, Moves, Zenon
    DEF fuse_daemonize_forks, SessionInOrder, DestroyPaired, SessionSame
<1>11. CASE fuse_daemonize_detaches
  BY <1>0, <1>11, Moves, Zenon
    DEF fuse_daemonize_detaches, SessionInOrder, DestroyPaired, SessionSame
<1>12. CASE fuse_set_signal_handlers
  <2>1. d.pc = "signals" /\ SessionSame /\ ~sig.instance
    BY <1>0, <1>12, Moves, Zenon DEF fuse_set_signal_handlers, SessionInOrder
  <2>2. d'.pc \in {"config", "loop"} \/ ~sig'.instance
    <3>1. d'.pc \in {"config", "loop"} \/ \E hs : sig' = [sig EXCEPT !.handlers = hs]
      BY <1>0, <1>12, Moves, Zenon DEF fuse_set_signal_handlers
    <3> QED
      BY <2>1, <3>1, Zenon DEF TypeOK
  <2> QED
    BY <2>1, <2>2, Zenon DEF SessionInOrder, DestroyPaired, SessionSame
<1>13. CASE fuse_loop_cfg_create
  BY <1>0, <1>13, Moves, Zenon
    DEF fuse_loop_cfg_create, SessionInOrder, DestroyPaired, SessionSame
<1>14. CASE fuse_loop
  BY <1>0, <1>14, Moves, Zenon
    DEF fuse_loop, SessionInOrder, DestroyPaired, SessionSame
<1>15. CASE loop_done
  BY <1>0, <1>15, Moves, Zenon
    DEF loop_done, fuse_remove_signal_handlers, SessionInOrder, DestroyPaired, SessionSame
<1>16. CASE fuse_session_unmount
  BY <1>0, <1>16, Moves, SessionMoves, Zenon
    DEF fuse_session_unmount, SessionInOrder, DestroyPaired, SessionSame
<1>17. CASE unmount_path
  BY <1>0, <1>17, Moves, Zenon
    DEF unmount_path, SessionInOrder, DestroyPaired, SessionSame
<1>18. CASE fuse_session_destroy
  BY <1>0, <1>18, DestroyCounts, SessionMoves, Zenon DEF fuse_session_destroy,
      SessionInOrder, DestroyPaired
<1>19. CASE daemon_exits
  BY <1>0, <1>19, Moves, Zenon
    DEF daemon_exits, SessionInOrder, DestroyPaired, SessionSame
<1>20. CASE exit_handler
  BY <1>0, <1>20, SessionMoves, Zenon
    DEF exit_handler, SessionInOrder, DestroyPaired, SessionSame
<1>21. CASE do_init
  BY <1>0, <1>21, SessionMoves, Zenon
    DEF do_init, SessionInOrder, DestroyPaired, SessionSame
<1>22. CASE do_destroy
  BY <1>0, <1>22, DestroyCounts, SessionMoves, Zenon DEF do_destroy, SessionInOrder,
      DestroyPaired
<1>23. CASE daemon_killed
  BY <1>0, <1>23, Moves, Zenon
    DEF daemon_killed, SessionInOrder, DestroyPaired, SessionSame
<1>24. CASE UNCHANGED <<d, sig>>
  BY <1>24, Zenon DEF SessionInOrder, DestroyPaired
<1>25. parent_exits \/ Helper \/ admin_unmounts \/ admin_aborts \/ other_mounts \/ UNCHANGED vars =>
        UNCHANGED <<d, sig>>
  BY Zenon
    DEF parent_exits, Helper, main, mount_fuse, check_perm, do_mount, add_mount, send_fd,
        close_fd, wait_for_auto_unmount, should_auto_unmount, should_auto_unmount_opens,
        unmount_fuse, admin_unmounts, admin_aborts, other_mounts, vars
<1> QED
  BY <1>1, <1>2, <1>3, <1>4, <1>5, <1>6, <1>7, <1>8, <1>9, <1>10, <1>11, <1>12, <1>13,
      <1>14, <1>15, <1>16, <1>17, <1>18, <1>19, <1>20, <1>21, <1>22, <1>23, <1>24, <1>25,
      Zenon DEF Next, Daemon, Environment

(* got_destroy is set by do_destroy alone, and stays.                       *)
LEMMA GotDestroyKept ==
    ASSUME TypeOK, SessionInOrder, [Next]_vars
    PROVE  d'.got_destroy = d.got_destroy \/ (do_destroy /\ d'.got_destroy)
<1>0. d \in Session
  BY Zenon DEF TypeOK
<1>1. CASE fuse_parse_cmdline
  BY <1>0, <1>1, Moves, Zenon DEF fuse_parse_cmdline, SessionSame
<1>2. CASE fuse_session_new
  BY <1>0, <1>2, Moves, SessionMoves, Zenon DEF fuse_session_new, SessionSame
<1>3. CASE fuse_session_mount
  BY <1>0, <1>3, Moves, DeviceMoves, MountMoves, Zenon DEF fuse_session_mount, SessionSame
<1>4. CASE fuse_mount_sys
  BY <1>0, <1>4, Moves, MountMoves, Zenon DEF fuse_mount_sys, SessionSame
<1>5. CASE fuse_mount_sys_mtab
  BY <1>0, <1>5, Moves, MountMoves, Zenon DEF fuse_mount_sys_mtab, SessionSame
<1>6. CASE setup_auto_unmount
  BY <1>0, <1>6, Moves, MountMoves, Zenon DEF setup_auto_unmount, SessionSame
<1>7. CASE fuse_kern_mount
  BY <1>0, <1>7, Moves, DeviceMoves, Zenon DEF fuse_kern_mount, SessionSame
<1>8. CASE fuse_mount_fusermount
  BY <1>0, <1>8, Moves, MountMoves, Zenon DEF fuse_mount_fusermount, SessionSame
<1>9. CASE receive_fd
  BY <1>0, <1>9, Moves, MountMoves, Zenon DEF receive_fd, SessionSame
<1>10. CASE fuse_daemonize_forks
  BY <1>0, <1>10, Moves, Zenon DEF fuse_daemonize_forks, SessionSame
<1>11. CASE fuse_daemonize_detaches
  BY <1>0, <1>11, Moves, Zenon DEF fuse_daemonize_detaches, SessionSame
<1>12. CASE fuse_set_signal_handlers
  BY <1>0, <1>12, Moves, Zenon DEF fuse_set_signal_handlers, SessionSame
<1>13. CASE fuse_loop_cfg_create
  BY <1>0, <1>13, Moves, Zenon DEF fuse_loop_cfg_create, SessionSame
<1>14. CASE fuse_loop
  BY <1>0, <1>14, Moves, Zenon DEF fuse_loop, SessionSame
<1>15. CASE loop_done
  BY <1>0, <1>15, Moves, Zenon DEF loop_done, SessionSame
<1>16. CASE fuse_session_unmount
  BY <1>0, <1>16, Moves, SessionMoves, Zenon DEF fuse_session_unmount, SessionSame
<1>17. CASE unmount_path
  BY <1>0, <1>17, Moves, Zenon DEF unmount_path, SessionSame
<1>18. CASE fuse_session_destroy
  BY <1>0, <1>18, DestroyCounts, SessionMoves, Zenon DEF fuse_session_destroy, SessionSame
<1>19. CASE daemon_exits
  BY <1>0, <1>19, Moves, Zenon DEF daemon_exits, SessionSame
<1>20. CASE exit_handler
  BY <1>0, <1>20, SessionMoves, Zenon DEF exit_handler, SessionSame
<1>21. CASE do_init
  BY <1>0, <1>21, SessionMoves, Zenon DEF do_init, SessionSame
<1>22. CASE daemon_killed
  BY <1>0, <1>22, Moves, Zenon DEF daemon_killed, SessionSame
<1>23. CASE do_destroy
  BY <1>0, <1>23, DestroyCounts, SessionMoves, Zenon
<1>24. parent_exits \/ Helper \/ admin_unmounts \/ admin_aborts \/ other_mounts \/ UNCHANGED vars =>
        UNCHANGED d
  BY Zenon DEF parent_exits, Helper, admin_unmounts, admin_aborts, other_mounts, vars,
      main, mount_fuse, check_perm, do_mount, add_mount, send_fd, close_fd,
      wait_for_auto_unmount, should_auto_unmount, should_auto_unmount_opens, unmount_fuse
<1> QED
  BY <1>1, <1>2, <1>3, <1>4, <1>5, <1>6, <1>7, <1>8, <1>9, <1>10, <1>11, <1>12, <1>13
     , <1>14, <1>15, <1>16, <1>17, <1>18, <1>19, <1>20, <1>21, <1>22, <1>23, <1>24,
      Zenon DEF Next, Daemon, Environment

(* Every step leaves the mount table alone or changes it in one of four     *)
(* ways.                                                                    *)
LEMMA TableSteps ==
    ASSUME [Next]_vars
    PROVE  \/ UNCHANGED table
           \/ table' = Umount(table)
           \/ table' = Orphan(table) /\ LeavesMount
           \/ table' = <<"ours">> \o table /\ (fuse_mount_sys \/ do_mount)
           \/ table' = <<"other">> \o table /\ other_mounts
<1>1. Daemon => \/ UNCHANGED table
                \/ table' = Umount(table)
                \/ table' = <<"ours">> \o table /\ fuse_mount_sys
  BY Zenon DEF Daemon, kernel, fuse_parse_cmdline, fuse_session_new, fuse_session_mount,
      fuse_mount_sys, fuse_mount_sys_mtab, setup_auto_unmount, fuse_kern_mount,
      fuse_mount_fusermount, receive_fd, fuse_daemonize_forks, fuse_daemonize_detaches,
      parent_exits, fuse_set_signal_handlers, fuse_loop_cfg_create, fuse_loop, loop_done,
      fuse_session_unmount, unmount_path, fuse_session_destroy, daemon_exits
<1>2. Helper => \/ UNCHANGED table
                \/ table' = Umount(table)
                \/ table' = Orphan(table) /\ LeavesMount
                \/ table' = <<"ours">> \o table /\ do_mount
  BY Zenon DEF Helper, LeavesMount, kernel, main, mount_fuse, check_perm, do_mount, add_mount, send_fd,
      close_fd, wait_for_auto_unmount, should_auto_unmount, should_auto_unmount_opens,
      unmount_fuse
<1>3. Environment => \/ UNCHANGED table
                     \/ table' = Umount(table)
                     \/ table' = <<"other">> \o table /\ other_mounts
  BY Zenon DEF Environment, kernel, Umount, exit_handler, do_init, do_destroy,
      daemon_killed, admin_unmounts, admin_aborts, other_mounts
<1> QED
  BY <1>1, <1>2, <1>3, Zenon DEF Next, vars

(* What every step does to the memory of the run.                           *)
LEMMA MemorySteps ==
    ASSUME [Next]_vars
    PROVE  \/ UNCHANGED g
           \/ CallFails \/ UnmountFails \/ LeavesMount \/ Quits \/ OtherComes
           \/ wait_for_auto_unmount /\ Looks
<1>1. Daemon => UNCHANGED g \/ CallFails \/ UnmountFails
  BY Zenon DEF Daemon, NothingFails, UnmountFails, fuse_parse_cmdline, fuse_session_new,
      fuse_session_mount, fuse_mount_sys, fuse_mount_sys_mtab, setup_auto_unmount,
      fuse_kern_mount, fuse_mount_fusermount, receive_fd, fuse_daemonize_forks,
      fuse_daemonize_detaches, parent_exits, fuse_set_signal_handlers,
      fuse_loop_cfg_create, fuse_loop, loop_done, fuse_session_unmount, unmount_path,
      fuse_session_destroy, daemon_exits
<1>2. Helper => \/ UNCHANGED g
                \/ CallFails \/ UnmountFails \/ LeavesMount \/ Quits
                \/ wait_for_auto_unmount /\ Looks
  BY Zenon DEF Helper, NothingFails, UnmountFails, LeavesMount, Quits, Looks, HelperQuits,
      main, mount_fuse, check_perm, do_mount, add_mount, send_fd, close_fd,
      wait_for_auto_unmount, should_auto_unmount, should_auto_unmount_opens, unmount_fuse
<1>3. Environment => UNCHANGED g \/ OtherComes
  BY Zenon DEF Environment, NothingFails, OtherComes, exit_handler, do_init, do_destroy,
      daemon_killed, admin_unmounts, admin_aborts, other_mounts
<1> QED
  BY <1>1, <1>2, <1>3, Zenon DEF Next, vars

(* The daemon's record keeps its type.                                      *)
LEMMA SessionTyped ==
    ASSUME TypeOK, SessionInOrder, [Next]_vars
    PROVE  d' \in Session
<1>0. d \in Session
  BY Zenon DEF TypeOK
<1>1. CASE UNCHANGED d
  BY <1>0, <1>1, Zenon
<1>2. CASE fuse_session_destroy
  BY <1>0, <1>2, DestroyCounts, SessionMoves, Zenon DEF fuse_session_destroy
<1>3. CASE do_destroy
  BY <1>0, <1>3, DestroyCounts, SessionMoves, Zenon
<1>4. /\ DaemonAt = {"parse", "new", "mount", "sys", "mtab", "auto", "eperm", "spawn",
                     "receive", "daemonize", "detach", "signals", "config", "loop", "remove",
                     "unmount", "umount", "destroy", "done", "exited", "dead"}
      /\ 0..8 = {0, 1, 2, 3, 4, 5, 6, 7, 8}
  BY DEF DaemonAt
<1>5. CASE fuse_parse_cmdline
  BY <1>0, <1>5, <1>4, Moves, Zenon
    DEF fuse_parse_cmdline
<1>6. CASE fuse_session_new
  BY <1>0, <1>6, <1>4, Moves, SessionMoves, Zenon
    DEF fuse_session_new
<1>7. CASE fuse_session_mount
  BY <1>0, <1>7, <1>4, Moves, DeviceMoves, MountMoves, Zenon
    DEF fuse_session_mount
<1>8. CASE fuse_mount_sys
  BY <1>0, <1>8, <1>4, Moves, MountMoves, Zenon
    DEF fuse_mount_sys
<1>9. CASE fuse_mount_sys_mtab
  BY <1>0, <1>9, <1>4, Moves, MountMoves, Zenon
    DEF fuse_mount_sys_mtab
<1>10. CASE setup_auto_unmount
  BY <1>0, <1>10, <1>4, Moves, MountMoves, Zenon
    DEF setup_auto_unmount
<1>11. CASE fuse_kern_mount
  BY <1>0, <1>11, <1>4, Moves, DeviceMoves, Zenon
    DEF fuse_kern_mount
<1>12. CASE fuse_mount_fusermount
  BY <1>0, <1>12, <1>4, Moves, MountMoves, Zenon
    DEF fuse_mount_fusermount
<1>13. CASE receive_fd
  BY <1>0, <1>13, <1>4, Moves, MountMoves, Zenon
    DEF receive_fd
<1>14. CASE fuse_daemonize_forks
  BY <1>0, <1>14, <1>4, Moves, Zenon
    DEF fuse_daemonize_forks
<1>15. CASE fuse_daemonize_detaches
  BY <1>0, <1>15, <1>4, Moves, Zenon
    DEF fuse_daemonize_detaches
<1>16. CASE fuse_set_signal_handlers
  BY <1>0, <1>16, <1>4, Moves, Zenon
    DEF fuse_set_signal_handlers
<1>17. CASE fuse_loop_cfg_create
  BY <1>0, <1>17, <1>4, Moves, Zenon
    DEF fuse_loop_cfg_create
<1>18. CASE fuse_loop
  BY <1>0, <1>18, <1>4, Moves, Zenon
    DEF fuse_loop
<1>19. CASE loop_done
  BY <1>0, <1>19, <1>4, Moves, Zenon
    DEF loop_done, fuse_remove_signal_handlers
<1>20. CASE fuse_session_unmount
  BY <1>0, <1>20, <1>4, Moves, SessionMoves, Zenon
    DEF fuse_session_unmount
<1>21. CASE unmount_path
  BY <1>0, <1>21, <1>4, Moves, Zenon
    DEF unmount_path
<1>22. CASE daemon_exits
  BY <1>0, <1>22, <1>4, Moves, Zenon
    DEF daemon_exits
<1>23. CASE exit_handler
  BY <1>0, <1>23, SessionMoves, Zenon
    DEF exit_handler
<1>24. CASE do_init
  BY <1>0, <1>24, SessionMoves, Zenon
    DEF do_init
<1>25. CASE daemon_killed
  BY <1>0, <1>25, <1>4, Moves, Zenon
    DEF daemon_killed
<1>26. parent_exits \/ Helper \/ admin_unmounts \/ admin_aborts \/ other_mounts \/ UNCHANGED vars =>
        UNCHANGED d
  BY Zenon DEF parent_exits, Helper, admin_unmounts, admin_aborts, other_mounts, vars,
      main, mount_fuse, check_perm, do_mount, add_mount, send_fd, close_fd,
      wait_for_auto_unmount, should_auto_unmount, should_auto_unmount_opens, unmount_fuse
<1> QED
  BY <1>1, <1>2, <1>3, <1>5, <1>6, <1>7, <1>8, <1>9, <1>10, <1>11, <1>12, <1>13, <1>14,
      <1>15, <1>16, <1>17, <1>18, <1>19, <1>20, <1>21, <1>22, <1>23, <1>24, <1>25, <1>26,
      Zenon DEF Next, Daemon, Environment

(* What is seen on the mount point.                                         *)
LEMMA VisibleTyped ==
    ASSUME TypeOK PROVE Visible \in Mounts \cup {"none"}
  BY DEF Visible, TypeOK

(* The helper's record keeps its type.                                      *)
LEMMA HelperTyped ==
    ASSUME TypeOK, [Next]_vars
    PROVE  h' \in Fusermount
<1>0. h \in Fusermount
  BY Zenon DEF TypeOK
<1>1. HelperAt = {"none", "start", "device", "perm", "mount", "mtab", "send", "close",
                  "wait", "check", "open", "lazy", "gone"}
  BY Zenon DEF HelperAt
<1>3. setup_auto_unmount \/ fuse_mount_fusermount => h' \in Fusermount
  BY <1>0, <1>1, HelperMoves, Zenon DEF setup_auto_unmount, fuse_mount_fusermount
<1>4. CASE main
  BY <1>0, <1>1, <1>4, HelperMoves, Zenon
    DEF main
<1>5. CASE mount_fuse
  BY <1>0, <1>1, <1>5, HelperMoves, Zenon
    DEF mount_fuse
<1>6. CASE check_perm
  BY <1>0, <1>1, <1>6, HelperMoves, Zenon
    DEF check_perm
<1>7. CASE do_mount
  BY <1>0, <1>1, <1>7, HelperMoves, Zenon
    DEF do_mount
<1>8. CASE add_mount
  BY <1>0, <1>1, <1>8, HelperMoves, Zenon
    DEF add_mount
<1>9. CASE send_fd
  BY <1>0, <1>1, <1>9, HelperMoves, Zenon
    DEF send_fd
<1>10. CASE close_fd
  BY <1>0, <1>1, <1>10, HelperMoves, Zenon
    DEF close_fd
<1>11. CASE wait_for_auto_unmount
  BY <1>0, <1>1, <1>11, HelperMoves, Zenon
    DEF wait_for_auto_unmount, HelperQuits
<1>12. CASE should_auto_unmount
  BY <1>0, <1>1, <1>12, HelperMoves, Zenon
    DEF should_auto_unmount, check_is_mount, HelperQuits
<1>13. CASE should_auto_unmount_opens
  BY <1>0, <1>1, <1>13, HelperMoves, Zenon
    DEF should_auto_unmount_opens, HelperQuits
<1>14. CASE unmount_fuse
  BY <1>0, <1>1, <1>14, VisibleTyped, HelperMoves, Zenon
    DEF unmount_fuse
<1>15. UNCHANGED h \/ setup_auto_unmount \/ fuse_mount_fusermount \/ Helper
  BY Zenon DEF Next, Daemon, Environment, vars, fuse_parse_cmdline, fuse_session_new,
      fuse_session_mount, fuse_mount_sys, fuse_mount_sys_mtab, fuse_kern_mount,
      receive_fd, fuse_daemonize_forks, fuse_daemonize_detaches, parent_exits,
      fuse_set_signal_handlers, fuse_loop_cfg_create, fuse_loop, loop_done,
      fuse_session_unmount, unmount_path, fuse_session_destroy, daemon_exits,
      exit_handler, do_init, do_destroy, daemon_killed, admin_unmounts, admin_aborts,
      other_mounts
<1> QED
  BY <1>0, <1>3, <1>4, <1>5, <1>6, <1>7, <1>8, <1>9, <1>10, <1>11, <1>12, <1>13, <1>14,
      <1>15, Zenon DEF Helper

(* Every variable keeps its type.                                           *)
LEMMA TypesKept ==
    ASSUME TypeOK, SessionInOrder, MountInStep, [Next]_vars
    PROVE  TypeOK'
<1>1. d' \in Session /\ h' \in Fusermount
  BY SessionTyped, HelperTyped, Zenon
<1>2. g' \in Memory
  <2>1. g \in Memory
    BY Zenon DEF TypeOK
  <2> QED
    BY <2>1, MemorySteps, MemoryMoves, Zenon
<1>3. table' \in Seq(Mounts)
  <2>1. table \in Seq(Mounts) /\ OnTop("ours", table) /\ "ours" \in Mounts /\ "other" \in Mounts
    BY Zenon DEF TypeOK, MountInStep, Mounts
  <2>2. <<"ours">> \o table \in Seq(Mounts) /\ <<"other">> \o table \in Seq(Mounts)
    BY <2>1, MountOnTop, Zenon
  <2>3. Umount(table) \in Seq(Mounts)
    BY <2>1, UmountTop, Zenon
  <2>4. Orphan(table) \in Seq(Mounts)
    BY <2>1, OrphanTable, Zenon
  <2> QED
    BY <2>1, <2>2, <2>3, <2>4, TableSteps, Zenon
<1> DEFINE Plain == /\ opt \in Options /\ parent \in {"none", "waiting", "gone"}
                    /\ waiter \in BOOLEAN /\ aborted \in BOOLEAN /\ msg \in BOOLEAN
           Signals == sig \in [instance: BOOLEAN,
                               handlers: SUBSET {"exit_handler", "do_nothing"}]
           Holders == /\ dev \subseteq {"daemon", "parent", "helper", "flight"}
                      /\ sock \subseteq {"daemon", "parent"}
<1>4. Plain /\ Signals /\ Holders
  BY Zenon DEF TypeOK
<1>5. Plain'
  <2>1. Daemon => Plain'
    BY <1>4, Zenon DEF Daemon, process, kernel, fuse_parse_cmdline, fuse_session_new,
        fuse_session_mount, fuse_mount_sys, fuse_mount_sys_mtab, setup_auto_unmount,
        fuse_kern_mount, fuse_mount_fusermount, receive_fd, fuse_daemonize_forks,
        fuse_daemonize_detaches, parent_exits, fuse_set_signal_handlers,
        fuse_loop_cfg_create, fuse_loop, loop_done, fuse_session_unmount, unmount_path,
        fuse_session_destroy, daemon_exits
  <2>2. Helper => Plain'
    BY <1>4, Zenon DEF Helper, process, kernel, main, mount_fuse, check_perm, do_mount,
        add_mount, send_fd, close_fd, wait_for_auto_unmount, should_auto_unmount,
        should_auto_unmount_opens, unmount_fuse
  <2>3. Environment => Plain'
    BY <1>4, Zenon DEF Environment, process, kernel, exit_handler, do_init, do_destroy,
        daemon_killed, admin_unmounts, admin_aborts, other_mounts
  <2> QED
    BY <1>4, <2>1, <2>2, <2>3, Zenon DEF Next, vars
<1>6. Signals'
  <2>1. fuse_set_signal_handlers \/ loop_done \/ UNCHANGED sig
    BY Zenon DEF Next, Daemon, Helper, Environment, vars, fuse_parse_cmdline,
        fuse_session_new, fuse_session_mount, fuse_mount_sys, fuse_mount_sys_mtab,
        setup_auto_unmount, fuse_kern_mount, fuse_mount_fusermount, receive_fd,
        fuse_daemonize_forks, fuse_daemonize_detaches, parent_exits, fuse_loop_cfg_create,
        fuse_loop, fuse_session_unmount, unmount_path, fuse_session_destroy, daemon_exits,
        main, mount_fuse, check_perm, do_mount, add_mount, send_fd, close_fd,
        wait_for_auto_unmount, should_auto_unmount, should_auto_unmount_opens,
        unmount_fuse, exit_handler, do_init, do_destroy, daemon_killed, admin_unmounts,
        admin_aborts, other_mounts
  <2> DEFINE both == {"exit_handler", "do_nothing"}
             S == [instance: BOOLEAN, handlers: SUBSET both]
  <2>2. both \in SUBSET both /\ {} \in SUBSET both /\ {"exit_handler"} \in SUBSET both
    BY Zenon
  <2>3. sig \in S
    BY <1>4, Zenon
  <2> HIDE DEF both
  <2>4. \A b \in BOOLEAN, hs \in SUBSET both : [instance |-> b, handlers |-> hs] \in S
    BY Zenon
  <2>5. \A hs \in SUBSET both : [sig EXCEPT !.handlers = hs] \in S
    BY <2>3, Zenon
  <2>6. /\ fuse_set_signal_handlers =>
            \/ sig' = [instance |-> TRUE, handlers |-> both]
            \/ sig' = [sig EXCEPT !.handlers = {}]
            \/ sig' = [sig EXCEPT !.handlers = {"exit_handler"}]
        /\ loop_done => sig' = [instance |-> FALSE, handlers |-> {}]
    BY Zenon DEF fuse_set_signal_handlers, loop_done, fuse_remove_signal_handlers, both
  <2> HIDE DEF S
  <2>7. sig' \in S
    BY <2>1, <2>2, <2>3, <2>4, <2>5, <2>6, Zenon
  <2> QED
    BY <2>7, Zenon DEF S, both
<1>7. Holders'
  <2>1. Daemon => Holders'
    BY <1>4, Zenon DEF Daemon, kernel, fuse_kern_unmount, fuse_parse_cmdline,
        fuse_session_new, fuse_session_mount, fuse_mount_sys, fuse_mount_sys_mtab,
        setup_auto_unmount, fuse_kern_mount, fuse_mount_fusermount, receive_fd,
        fuse_daemonize_forks, fuse_daemonize_detaches, parent_exits,
        fuse_set_signal_handlers, fuse_loop_cfg_create, fuse_loop, loop_done,
        fuse_session_unmount, unmount_path, fuse_session_destroy, daemon_exits
  <2>2. Helper => Holders'
    BY <1>4, Zenon DEF Helper, kernel, main, mount_fuse, check_perm, do_mount, add_mount,
        send_fd, close_fd, wait_for_auto_unmount, should_auto_unmount,
        should_auto_unmount_opens, unmount_fuse
  <2>3. Environment => Holders'
    BY <1>4, Zenon DEF Environment, kernel, exit_handler, do_init, do_destroy,
        daemon_killed, admin_unmounts, admin_aborts, other_mounts
  <2> QED
    BY <1>4, <2>1, <2>2, <2>3, Zenon DEF Next, vars
<1> QED
  BY <1>1, <1>2, <1>3, <1>5, <1>6, <1>7, Zenon DEF TypeOK

(* That unmounting failed, and that a helper left a mount, is never         *)
(* forgotten; the helper looks at the mount point once.                     *)
LEMMA MemoryKept ==
    ASSUME TypeOK, [Next]_vars
    PROVE  /\ g.stuck => g'.stuck
           /\ g.left => g'.left
           /\ LeavesMount => g'.left
           /\ g'.clean = g.clean \/ (wait_for_auto_unmount /\ g'.clean = NobodyMounted)
<1>1. g \in Memory
  BY Zenon DEF TypeOK
<1> QED
  BY <1>1, MemorySteps, MemoryMoves, Zenon

(* The daemon's mount is on top; none appears but by the two actions that   *)
(* mount, and none after the helper found none or the kernel's FUSE_DESTROY.*)
LEMMA TableKept ==
    ASSUME TypeOK, SessionInOrder, HelperInStep, MountInStep, EndsKnown, [Next]_vars
    PROVE  /\ OnTop("ours", table')
           /\ IsIn("ours", table') => IsIn("ours", table) \/ fuse_mount_sys \/ do_mount
           /\ g'.clean => ~IsIn("ours", table') /\ ~IsIn("orphan", table')
           /\ EndsKnown'
<1>1. table \in Seq(Mounts) /\ OnTop("ours", table) /\ "ours" \in Mounts /\ "other" \in Mounts
  BY Zenon DEF TypeOK, MountInStep, Mounts
<1>2. fuse_mount_sys \/ do_mount \/ other_mounts => ~IsIn("ours", table)
  <2>1. fuse_mount_sys => ~IsIn("ours", table)
    BY Zenon DEF fuse_mount_sys, HelperInStep, MountInStep, Before
  <2>2. do_mount => ~IsIn("ours", table)
    BY Zenon DEF do_mount, HelperInStep, MountInStep, Mounting
  <2> QED
    BY <2>1, <2>2, Zenon DEF other_mounts
<1> DEFINE Gains == /\ OnTop("ours", table')
                    /\ IsIn("ours", table') => IsIn("ours", table) \/ fuse_mount_sys \/ do_mount
                    /\ IsIn("orphan", table') =>
                         IsIn("orphan", table) \/ (IsIn("ours", table) /\ LeavesMount)
<1>3. Gains
  <2>1. CASE UNCHANGED table
    BY <1>1, <2>1, Zenon
  <2>2. CASE table' = Umount(table)
    BY <1>1, <2>2, UmountTop, Zenon
  <2>3. CASE table' = Orphan(table) /\ LeavesMount
    BY <1>1, <2>3, OrphanTable, Zenon
  <2>4. CASE table' = <<"ours">> \o table /\ (fuse_mount_sys \/ do_mount)
    BY <1>1, <1>2, <2>4, MountOnTop, Zenon
  <2>5. CASE table' = <<"other">> \o table /\ other_mounts
    BY <1>1, <1>2, <2>5, MountOnTop, Zenon
  <2> QED
    BY <2>1, <2>2, <2>3, <2>4, <2>5, TableSteps, Zenon
<1>4. g'.clean => ~IsIn("ours", table') /\ ~IsIn("orphan", table')
  <2>1. CASE wait_for_auto_unmount
    <3>1. ~g.clean /\ UNCHANGED table
      BY <2>1, Zenon DEF wait_for_auto_unmount, HelperInStep, kernel
    <3> QED
      BY <3>1, MemoryKept, Zenon DEF NobodyMounted
  <2>2. CASE ~wait_for_auto_unmount
    <3>1. g.clean => ~fuse_mount_sys /\ ~do_mount
      BY Zenon DEF HelperInStep, HelperAnswered, Before, fuse_mount_sys, do_mount
    <3> QED
      BY <1>3, <2>2, <3>1, MemoryKept, Zenon DEF MountInStep
  <2> QED
    BY <2>1, <2>2, Zenon
<1>5. EndsKnown'
  <2>1. d.got_destroy => ~fuse_mount_sys /\ ~do_mount
    BY Zenon DEF SessionInOrder, HelperInStep, Mounting, fuse_mount_sys, do_mount
  <2>2. do_destroy => ~IsIn("ours", table')
    BY Zenon DEF do_destroy, kernel
  <2>3. d'.got_destroy => ~IsIn("ours", table')
    BY <1>3, <2>1, <2>2, GotDestroyKept, Zenon DEF EndsKnown
  <2>4. IsIn("orphan", table') => g'.left
    BY <1>3, MemoryKept, Zenon DEF EndsKnown
  <2> QED
    BY <2>3, <2>4, Zenon DEF EndsKnown
<1> QED
  BY <1>3, <1>4, <1>5, Zenon

(* What a step other than a mount and the helper's look at the mount point  *)
(* leaves to show: the daemon's mount does not appear, and is gone after    *)
(* umount, after the helper gave up on it and after FUSE_DESTROY.           *)
OrdinaryStep ==
    /\ OnTop("ours", table')
    /\ IsIn("ours", table') => IsIn("ours", table)
    /\ table' \in {Umount(table), Orphan(table)} => ~IsIn("ours", table')
    /\ g.stuck => g'.stuck
    /\ g'.clean = g.clean
    /\ g'.clean => ~IsIn("ours", table') /\ ~IsIn("orphan", table')
    /\ d.got_destroy => d'.got_destroy
    /\ d'.got_destroy => (d.got_destroy \/ d.pc = "loop") /\ ~IsIn("ours", table')

(* Every other step of the daemon, the helper and their surroundings is     *)
(* ordinary in this sense.                                                  *)
LEMMA Ordinary ==
    ASSUME TypeOK, SessionInOrder, HelperInStep, MountInStep, EndsKnown, [Next]_vars,
           ~fuse_mount_sys, ~do_mount, ~wait_for_auto_unmount
    PROVE  OrdinaryStep
<1>1. table \in Seq(Mounts) /\ OnTop("ours", table)
  BY Zenon DEF TypeOK, MountInStep
<1>2. table' \in {Umount(table), Orphan(table)} => ~IsIn("ours", table')
  BY <1>1, UmountTop, OrphanTable, Zenon
<1>3. /\ d.got_destroy => d'.got_destroy
      /\ d'.got_destroy => d.got_destroy \/ d.pc = "loop"
  BY GotDestroyKept, Zenon DEF do_destroy
<1> QED
  BY <1>2, <1>3, TableKept, MemoryKept, Zenon DEF OrdinaryStep, EndsKnown

(* Daemon, helper and mount point stay in step when the daemon moves, which *)
(* unmounts after it has closed the device.                                 *)
LEMMA DaemonInStep ==
    ASSUME TypeOK, SessionInOrder, HelperInStep, MountInStep, OrdinaryStep,
           ClosedBeforeUnmount, Daemon, ~fuse_mount_sys
    PROVE  HelperInStep' /\ MountInStep' /\ ClosedBeforeUnmount'
<1> USE DEF process, kernel
<1>0. d \in Session /\ h \in Fusermount /\ g \in Memory
  BY Zenon DEF TypeOK
<1>1. CASE fuse_parse_cmdline
  <2>1. d.pc = "parse" /\ d'.pc \in {"new", "done"} /\ UNCHANGED <<opt, msg, sock, h, aborted>>
    BY <1>0, <1>1, Moves, Zenon DEF fuse_parse_cmdline
  <2> QED
    BY <2>1, SMT DEF HelperInStep, HelperAnswered, MountInStep, OrdinaryStep, Before,
        Mounting, ClosedBeforeUnmount
<1>2. CASE fuse_session_new
  <2>1. d.pc = "new" /\ d'.pc \in {"mount", "done"} /\ UNCHANGED <<opt, msg, sock, h, aborted>>
    BY <1>0, <1>2, Moves, SessionMoves, Zenon DEF fuse_session_new
  <2> QED
    BY <2>1, SMT DEF HelperInStep, HelperAnswered, MountInStep, OrdinaryStep, Before,
        Mounting, ClosedBeforeUnmount
<1>3. CASE fuse_session_mount
  <2>1. /\ d.pc = "mount" /\ UNCHANGED <<opt, msg, sock, h, aborted>>
        /\ \/ opt.fd /\ d'.pc = "daemonize"
           \/ ~opt.fd /\ d'.pc = "sys"
           \/ d'.pc = "destroy"
    BY <1>0, <1>3, Moves, DeviceMoves, MountMoves, Zenon DEF fuse_session_mount
  <2> QED
    BY <2>1, SMT DEF HelperInStep, HelperAnswered, MountInStep, OrdinaryStep, Before,
        Mounting, ClosedBeforeUnmount
<1>4. CASE fuse_mount_sys_mtab
  <2>1. /\ d.pc = "mtab" /\ UNCHANGED <<opt, msg, sock, h, aborted>>
        /\ \/ d'.pc = "auto"
           \/ d'.pc = "daemonize" /\ d'.mountpoint
           \/ d'.pc = "destroy" /\ table' = Umount(table)
    BY <1>0, <1>4, Moves, MountMoves, Zenon DEF fuse_mount_sys_mtab
  <2> QED
    BY <2>1, SMT DEF HelperInStep, HelperAnswered, MountInStep, OrdinaryStep, Before,
        Mounting, ClosedBeforeUnmount
<1>5. CASE setup_auto_unmount
  <2>1. /\ d.pc = "auto" /\ UNCHANGED <<opt, msg, aborted>>
        /\ \/ /\ d'.pc = "daemonize" /\ d'.mountpoint
              /\ h'.pc = "start" /\ h'.only /\ h'.took = h.took
           \/ d'.pc = "destroy" /\ UNCHANGED h /\ table' = Umount(table)
    BY <1>0, <1>5, MountMoves, HelperMoves, Zenon DEF setup_auto_unmount, HelperAt
  <2> QED
    BY <2>1, SMT DEF HelperInStep, HelperAnswered, MountInStep, OrdinaryStep, Before,
        Mounting, ClosedBeforeUnmount
<1>6. CASE fuse_kern_mount
  <2>1. /\ d.pc = "eperm" /\ UNCHANGED <<opt, msg, sock, h, aborted>>
        /\ d'.pc = "spawn" \/ (d'.pc = "daemonize" /\ d'.mountpoint)
    BY <1>0, <1>6, Moves, DeviceMoves, Zenon DEF fuse_kern_mount
  <2> QED
    BY <2>1, SMT DEF HelperInStep, HelperAnswered, MountInStep, OrdinaryStep, Before,
        Mounting, ClosedBeforeUnmount
<1>7. CASE fuse_mount_fusermount
  <2>1. /\ d.pc = "spawn" /\ UNCHANGED <<opt, aborted>>
        /\ \/ /\ d'.pc = "receive" /\ "daemon" \in sock' /\ ~msg'
              /\ h'.pc = "start" /\ h'.only = h.only /\ h'.took = h.took
           \/ d'.pc \in {"spawn", "destroy"} /\ UNCHANGED <<h, sock, msg>>
    BY <1>0, <1>7, Moves, MountMoves, HelperMoves, Zenon DEF fuse_mount_fusermount, HelperAt
  <2>2. ~d'.got_destroy
    BY <2>1, Zenon DEF SessionInOrder, OrdinaryStep
  <2> QED
    BY <2>1, <2>2, SMT DEF HelperInStep, HelperAnswered, MountInStep, OrdinaryStep, Before,
        Mounting, ClosedBeforeUnmount
<1>8. CASE receive_fd
  <2>1. /\ d.pc = "receive" /\ UNCHANGED <<opt, msg, h, aborted>>
        /\ \/ d'.pc = "daemonize" /\ d'.mountpoint /\ msg
           \/ d'.pc \in {"spawn", "destroy"} /\ ~msg /\ h.pc = "gone"
    BY <1>0, <1>8, MountMoves, Zenon DEF receive_fd
  <2> QED
    BY <2>1, SMT DEF HelperInStep, HelperAnswered, MountInStep, OrdinaryStep, Before,
        Mounting, ClosedBeforeUnmount
<1>9. CASE fuse_daemonize_forks
  <2>1. /\ d.pc = "daemonize" /\ d'.pc \in {"signals", "detach", "unmount"}
        /\ d'.mountpoint = d.mountpoint /\ UNCHANGED <<opt, msg, h, aborted>>
    BY <1>0, <1>9, Moves, Zenon DEF fuse_daemonize_forks
  <2> QED
    BY <2>1, SMT DEF HelperInStep, HelperAnswered, MountInStep, OrdinaryStep, Before,
        Mounting, ClosedBeforeUnmount
<1>10. CASE fuse_daemonize_detaches
  <2>1. /\ d.pc = "detach" /\ d'.pc \in {"signals", "unmount"}
        /\ d'.mountpoint = d.mountpoint /\ UNCHANGED <<opt, msg, h, aborted>>
    BY <1>0, <1>10, Moves, Zenon DEF fuse_daemonize_detaches
  <2> QED
    BY <2>1, SMT DEF HelperInStep, HelperAnswered, MountInStep, OrdinaryStep, Before,
        Mounting, ClosedBeforeUnmount
<1>11. CASE fuse_set_signal_handlers
  <2>1. /\ d.pc = "signals" /\ d'.pc \in {"loop", "config", "unmount"}
        /\ d'.mountpoint = d.mountpoint /\ UNCHANGED <<opt, msg, h, aborted>>
    BY <1>0, <1>11, Moves, Zenon DEF fuse_set_signal_handlers
  <2> QED
    BY <2>1, SMT DEF HelperInStep, HelperAnswered, MountInStep, OrdinaryStep, Before,
        Mounting, ClosedBeforeUnmount
<1>12. CASE fuse_loop_cfg_create
  <2>1. /\ d.pc = "config" /\ d'.pc \in {"loop", "unmount"}
        /\ d'.mountpoint = d.mountpoint /\ UNCHANGED <<opt, msg, h, aborted>>
    BY <1>0, <1>12, Moves, Zenon DEF fuse_loop_cfg_create
  <2> QED
    BY <2>1, SMT DEF HelperInStep, HelperAnswered, MountInStep, OrdinaryStep, Before,
        Mounting, ClosedBeforeUnmount
<1>13. CASE fuse_loop
  <2>1. /\ d.pc = "loop" /\ d'.pc \in {"remove"}
        /\ d'.mountpoint = d.mountpoint /\ UNCHANGED <<opt, msg, h, aborted>>
    BY <1>0, <1>13, Moves, Zenon DEF fuse_loop
  <2> QED
    BY <2>1, SMT DEF HelperInStep, HelperAnswered, MountInStep, OrdinaryStep, Before,
        Mounting, ClosedBeforeUnmount
<1>14. CASE loop_done
  <2>1. /\ d.pc = "remove" /\ d'.pc \in {"unmount"}
        /\ d'.mountpoint = d.mountpoint /\ UNCHANGED <<opt, msg, h, aborted>>
    BY <1>0, <1>14, Moves, Zenon DEF loop_done
  <2> QED
    BY <2>1, SMT DEF HelperInStep, HelperAnswered, MountInStep, OrdinaryStep, Before,
        Mounting, ClosedBeforeUnmount
<1>15. CASE fuse_session_unmount
  <2>1. /\ d.pc = "unmount" /\ UNCHANGED <<opt, msg, h, aborted>>
        /\ \/ ~d.mountpoint /\ d'.pc = "destroy"
           \/ d.mountpoint /\ d'.pc = "umount" /\ "daemon" \notin dev'
           \/ d.mountpoint /\ d'.pc = "destroy" /\ (aborted \/ ~IsIn("ours", table))
    BY <1>0, <1>15, Moves, SessionMoves, Zenon DEF fuse_session_unmount, Severed,
        fuse_kern_unmount
  <2> QED
    BY <2>1, SMT DEF HelperInStep, HelperAnswered, MountInStep, OrdinaryStep, Before,
        Mounting, ClosedBeforeUnmount
<1>16. CASE unmount_path
  <2>1. /\ d.pc = "umount" /\ d'.pc = "destroy" /\ UNCHANGED <<opt, msg, h, aborted>>
        /\ table' = Umount(table) \/ g'.stuck
    BY <1>0, <1>16, Moves, MemoryMoves, Zenon DEF unmount_path, UnmountFails, TypeOK
  <2> QED
    BY <2>1, SMT DEF HelperInStep, HelperAnswered, MountInStep, OrdinaryStep, Before,
        Mounting, ClosedBeforeUnmount
<1>17. CASE fuse_session_destroy
  <2>1. d.pc = "destroy" /\ d'.pc = "done" /\ UNCHANGED <<opt, msg, h, aborted>>
    BY <1>0, <1>17, DestroyCounts, SessionMoves, Zenon DEF fuse_session_destroy
  <2> QED
    BY <2>1, SMT DEF HelperInStep, HelperAnswered, MountInStep, OrdinaryStep, Before,
        Mounting, ClosedBeforeUnmount
<1>18. CASE daemon_exits
  <2>1. d.pc = "done" /\ d'.pc = "exited" /\ UNCHANGED <<opt, msg, h, aborted>>
    BY <1>0, <1>18, Moves, Zenon DEF daemon_exits
  <2> QED
    BY <2>1, SMT DEF HelperInStep, HelperAnswered, MountInStep, OrdinaryStep, Before,
        Mounting, ClosedBeforeUnmount
<1>19. CASE parent_exits
  <2>1. /\ UNCHANGED <<d, opt, msg, h, aborted>>
        /\ "daemon" \in sock => "daemon" \in sock'
        /\ "daemon" \in dev' => "daemon" \in dev
    BY <1>0, <1>19, Zenon DEF parent_exits
  <2> QED
    BY <2>1, SMT DEF HelperInStep, HelperAnswered, MountInStep, OrdinaryStep, Before,
        Mounting, ClosedBeforeUnmount
<1> QED
  BY <1>1, <1>2, <1>3, <1>4, <1>5, <1>6, <1>7, <1>8, <1>9, <1>10, <1>11, <1>12, <1>13,
      <1>14, <1>15, <1>16, <1>17, <1>18, <1>19, Zenon DEF Daemon

(* The same when the helper moves.                                          *)
LEMMA HelperMovesInStep ==
    ASSUME TypeOK, HelperInStep, MountInStep, OrdinaryStep,
           Helper, ~do_mount, ~wait_for_auto_unmount
    PROVE  HelperInStep' /\ MountInStep'
<1> USE DEF process, kernel
<1>0. h \in Fusermount /\ g \in Memory
  BY Zenon DEF TypeOK
<1>1. CASE main
  <2>1. /\ h.pc = "start"
        /\ UNCHANGED <<opt, d, sock, aborted, msg>> /\ h'.only = h.only /\ h'.took = h.took
        /\ h'.pc = (IF h.only THEN "wait" ELSE "device") \/ h'.pc = "gone" 
    BY <1>0, <1>1, HelperMoves, Zenon DEF main, HelperAt
  <2> QED
    BY <2>1, SMT DEF HelperInStep, HelperAnswered, MountInStep, OrdinaryStep, Before,
        Mounting
<1>2. CASE mount_fuse
  <2>1. /\ h.pc = "device" /\ h'.pc \in {"perm", "gone"}
        /\ UNCHANGED <<opt, d, sock, aborted, msg>> /\ h'.only = h.only /\ h'.took = h.took
    BY <1>0, <1>2, HelperMoves, Zenon DEF mount_fuse, HelperAt
  <2> QED
    BY <2>1, SMT DEF HelperInStep, HelperAnswered, MountInStep, OrdinaryStep, Before,
        Mounting
<1>3. CASE check_perm
  <2>1. /\ h.pc = "perm" /\ h'.pc \in {"mount", "gone"}
        /\ UNCHANGED <<opt, d, sock, aborted, msg>> /\ h'.only = h.only /\ h'.took = h.took
    BY <1>0, <1>3, HelperMoves, Zenon DEF check_perm, HelperAt
  <2> QED
    BY <2>1, SMT DEF HelperInStep, HelperAnswered, MountInStep, OrdinaryStep, Before,
        Mounting
<1>4. CASE add_mount
  <2>1. /\ h.pc = "mtab"
        /\ UNCHANGED <<opt, d, sock, aborted, msg>> /\ h'.only = h.only /\ h'.took = h.took
        /\ h'.pc = "send" \/ (h'.pc = "gone" /\ table' = Orphan(table))
    BY <1>0, <1>4, HelperMoves, Zenon DEF add_mount, HelperAt
  <2> QED
    BY <2>1, SMT DEF HelperInStep, HelperAnswered, MountInStep, OrdinaryStep, Before,
        Mounting
<1>5. CASE send_fd
  <2>1. /\ h.pc = "send"
        /\ UNCHANGED <<opt, d, sock, aborted>> /\ h'.only = h.only /\ h'.took = h.took
        /\ (h'.pc = "close" /\ msg') \/ (h'.pc = "gone" /\ sock = {} /\ UNCHANGED msg)
    BY <1>0, <1>5, HelperMoves, Zenon DEF send_fd, HelperAt
  <2> QED
    BY <2>1, SMT DEF HelperInStep, HelperAnswered, MountInStep, OrdinaryStep, Before,
        Mounting
<1>6. CASE close_fd
  <2>1. /\ h.pc = "close" /\ h'.pc \in {"wait", "gone"}
        /\ UNCHANGED <<opt, d, sock, aborted, msg>> /\ h'.only = h.only /\ h'.took = h.took
    BY <1>0, <1>6, HelperMoves, Zenon DEF close_fd, HelperAt
  <2> QED
    BY <2>1, SMT DEF HelperInStep, HelperAnswered, MountInStep, OrdinaryStep, Before,
        Mounting
<1>7. CASE should_auto_unmount
  <2>1. /\ h.pc = "check" /\ h'.pc \in {"open", "gone"}
        /\ UNCHANGED <<opt, d, sock, aborted, msg>> /\ h'.only = h.only /\ h'.took = h.took
    BY <1>0, <1>7, HelperMoves, Zenon
      DEF should_auto_unmount, HelperAt, check_is_mount, HelperQuits
  <2> QED
    BY <2>1, SMT DEF HelperInStep, HelperAnswered, MountInStep, OrdinaryStep, Before,
        Mounting
<1>8. CASE should_auto_unmount_opens
  <2>1. /\ h.pc = "open" /\ (h'.pc = "gone" \/ (NotConnected /\ h'.pc = "lazy"))
        /\ UNCHANGED <<opt, d, sock, aborted, msg>> /\ h'.only = h.only /\ h'.took = h.took
    BY <1>0, <1>8, HelperMoves, Zenon DEF should_auto_unmount_opens, HelperAt, HelperQuits
  <2>2. NotConnected => IsIn("ours", table) \/ IsIn("orphan", table)
    BY DEF NotConnected, Visible, IsIn, TypeOK
  <2> QED
    BY <2>1, <2>2, SMT DEF HelperInStep, HelperAnswered, MountInStep, OrdinaryStep,
        Before, Mounting
<1>9. CASE unmount_fuse
  <2>1. /\ h.pc = "lazy" /\ h'.pc = "gone"
        /\ UNCHANGED <<opt, d, sock, aborted, msg>> /\ h'.only = h.only
    BY <1>0, <1>9, VisibleTyped, HelperMoves, Zenon DEF unmount_fuse, HelperAt
  <2> QED
    BY <2>1, SMT DEF HelperInStep, HelperAnswered, MountInStep, OrdinaryStep, Before,
        Mounting
<1> QED
  BY <1>1, <1>2, <1>3, <1>4, <1>5, <1>6, <1>7, <1>8, <1>9, Zenon DEF Helper

(* The steps of the others, and those that touch nothing of the three.      *)
LEMMA RestInStep ==
    ASSUME TypeOK, SessionInOrder, HelperInStep, MountInStep, OrdinaryStep,
           Environment \/ UNCHANGED vars
    PROVE  HelperInStep' /\ MountInStep'
<1> USE DEF process, kernel
<1>0. d \in Session
  BY Zenon DEF TypeOK
<1>1. CASE daemon_killed
  <2>1. d'.pc = "dead" /\ UNCHANGED <<opt, msg, h, aborted>>
    BY <1>0, <1>1, Moves, Zenon DEF daemon_killed
  <2> QED
    BY <2>1, SMT DEF HelperInStep, HelperAnswered, MountInStep, OrdinaryStep, Before,
        Mounting
<1>2. CASE do_destroy
  <2>1. /\ d.pc = "loop" /\ d'.pc = "loop" /\ d'.got_destroy
        /\ UNCHANGED <<opt, msg, h, sock, aborted>>
    BY <1>0, <1>2, DestroyCounts, SessionMoves, Zenon DEF do_destroy
  <2> QED
    BY <2>1, SMT DEF HelperInStep, HelperAnswered, MountInStep, OrdinaryStep, Before,
        Mounting
<1>3. CASE ~daemon_killed /\ ~do_destroy
  <2>1. /\ d'.pc = d.pc /\ d'.mountpoint = d.mountpoint
        /\ UNCHANGED <<opt, msg, h, sock>> /\ (aborted => aborted')
        /\ d'.got_destroy = d.got_destroy
    <3>1. CASE exit_handler
      BY <1>0, <3>1, SessionMoves, Zenon DEF exit_handler, SessionSame
    <3>2. CASE do_init
      BY <1>0, <3>2, SessionMoves, Zenon DEF do_init
    <3>3. CASE admin_aborts
      BY <3>3 DEF admin_aborts
    <3>4. CASE admin_unmounts \/ other_mounts \/ UNCHANGED vars
      BY <3>4 DEF admin_unmounts, other_mounts, vars
    <3> QED
      BY <1>3, <3>1, <3>2, <3>3, <3>4, Zenon DEF Environment
  <2> QED
    BY <2>1, SMT DEF HelperInStep, HelperAnswered, MountInStep, OrdinaryStep, Before,
        Mounting
<1> QED
  BY <1>1, <1>2, <1>3

(* The three steps that are not ordinary.                                   *)
LEMMA MountsInStep ==
    ASSUME TypeOK, SessionInOrder, HelperInStep, MountInStep, EndsKnown, [Next]_vars,
           fuse_mount_sys \/ do_mount \/ wait_for_auto_unmount
    PROVE  HelperInStep' /\ MountInStep'
<1> USE DEF process, kernel
<1>0. d \in Session /\ h \in Fusermount
  BY Zenon DEF TypeOK
<1>1. /\ OnTop("ours", table')
      /\ IsIn("ours", table') => IsIn("ours", table) \/ fuse_mount_sys \/ do_mount
      /\ g'.clean => ~IsIn("ours", table') /\ ~IsIn("orphan", table')
      /\ g.stuck => g'.stuck
      /\ g'.clean = g.clean \/ wait_for_auto_unmount
  BY TableKept, MemoryKept, Zenon
<1>2. CASE wait_for_auto_unmount
  <2>1. /\ h.pc = "wait" /\ h'.pc \in {"check", "gone"} /\ h'.only = h.only /\ h'.took = h.took
        /\ UNCHANGED <<opt, d, msg, sock, aborted, table>>
    BY <1>0, <1>2, HelperMoves, Zenon DEF wait_for_auto_unmount, HelperAt, HelperQuits
  <2> QED
    BY <1>1, <2>1, SMT DEF HelperInStep, HelperAnswered, MountInStep, Before, Mounting
<1>3. CASE fuse_mount_sys /\ ~wait_for_auto_unmount
  <2>1. /\ d.pc = "sys" /\ UNCHANGED <<opt, msg, sock, h, aborted>>
        /\ \/ d'.pc = "mtab"
           \/ d'.pc \in {"eperm", "destroy"} /\ UNCHANGED table
    BY <1>0, <1>3, Moves, MountMoves, Zenon DEF fuse_mount_sys
  <2>2. ~d.got_destroy /\ d'.got_destroy = d.got_destroy
    BY <2>1, GotDestroyKept, Zenon DEF SessionInOrder, do_destroy
  <2> QED
    BY <1>1, <1>3, <2>1, <2>2, SMT DEF HelperInStep, HelperAnswered, MountInStep, Before, Mounting
<1>4. CASE do_mount /\ ~wait_for_auto_unmount
  <2>1. /\ h.pc = "mount" /\ h'.only = h.only /\ h'.took = h.took
        /\ UNCHANGED <<opt, d, msg, sock>>
        /\ h'.pc = "mtab" \/ (h'.pc = "gone" /\ UNCHANGED <<table, aborted>>)
    BY <1>0, <1>4, HelperMoves, Zenon DEF do_mount, HelperAt
  <2> QED
    BY <1>1, <1>4, <2>1, SMT DEF HelperInStep, HelperAnswered, MountInStep, Before, Mounting
<1> QED
  BY <1>2, <1>3, <1>4, Zenon

(* The daemon has closed the device when it unmounts.                       *)
LEMMA ClosedKept ==
    ASSUME TypeOK, ClosedBeforeUnmount,
           fuse_mount_sys \/ Helper \/ Environment \/ UNCHANGED vars
    PROVE  ClosedBeforeUnmount'
<1> USE DEF process, kernel
<1>0. d \in Session
  BY Zenon DEF TypeOK
<1>1. CASE fuse_mount_sys
  <2>1. d'.pc \in {"mtab", "eperm", "destroy"}
    BY <1>0, <1>1, Moves, MountMoves, Zenon DEF fuse_mount_sys
  <2> QED
    BY <2>1, SMT DEF ClosedBeforeUnmount
<1>2. CASE daemon_killed
  BY <1>0, <1>2, Moves, Zenon DEF daemon_killed, ClosedBeforeUnmount
<1>3. CASE Helper
  <2>1. UNCHANGED d /\ ("daemon" \in dev' => "daemon" \in dev)
    BY <1>3, Zenon DEF Helper, main, mount_fuse, check_perm, do_mount, add_mount, send_fd,
        close_fd, wait_for_auto_unmount, should_auto_unmount, should_auto_unmount_opens,
        unmount_fuse
  <2> QED
    BY <2>1, Zenon DEF ClosedBeforeUnmount
<1>4. CASE exit_handler \/ do_init \/ do_destroy
  <2>1. d'.pc = d.pc /\ UNCHANGED dev
    BY <1>0, <1>4, Zenon DEF exit_handler, do_init, do_destroy, Session
  <2> QED
    BY <2>1, Zenon DEF ClosedBeforeUnmount
<1>5. CASE admin_unmounts \/ admin_aborts \/ other_mounts \/ UNCHANGED vars
  BY <1>5, Zenon DEF admin_unmounts, admin_aborts, other_mounts, vars, ClosedBeforeUnmount
<1> QED
  BY <1>1, <1>2, <1>3, <1>4, <1>5, Zenon DEF Environment

-----------------------------------------------------------------------------
(* A daemon that has not started is in step with everything.                *)
LEMMA MountStart == Init => MountInv
<1> SUFFICES ASSUME Init PROVE MountInv
  OBVIOUS
<1> USE MountAssumption
<1>1. /\ d.pc = "parse" /\ d.life = "none" /\ d.destroyed = 0
      /\ d.got_init = FALSE /\ d.got_destroy = FALSE
      /\ h.pc = "none" /\ h.only = FALSE /\ h.took = "none"
      /\ g.clean = FALSE /\ sig.instance = FALSE
  BY Zenon DEF Init
<1>2. d \in Session
  <2>1. 0 \in 0..8 /\ 0 \in 0..1 /\ 1 \in 1..2 /\ "parse" \in DaemonAt
    BY DEF DaemonAt
  <2> QED
    BY <2>1, Zenon DEF Init, Session
<1>3. h \in Fusermount
  BY Zenon DEF Init, Fusermount, HelperAt
<1>4. g \in Memory
  <2>1. 0 \in 0..MaxFaults /\ 0 \in 0..MaxOthers
    OBVIOUS
  <2> QED
    BY <2>1, Zenon DEF Init, Memory
<1>5. sig \in [instance: BOOLEAN, handlers: SUBSET {"exit_handler", "do_nothing"}]
  BY DEF Init
<1>6. /\ table \in Seq(Mounts) /\ OnTop("ours", table)
      /\ ~opt.fd => ~IsIn("ours", table)
      /\ ~IsIn("orphan", table)
  <2> DEFINE b == IF opt.below THEN <<"other">> ELSE <<>>
  <2>1. b \in Seq(Mounts) /\ ~IsIn("ours", b) /\ ~IsIn("orphan", b)
    <3>1. /\ "other" \in Mounts /\ <<"other">> \in Seq(Mounts) /\ <<>> \in Seq(Mounts)
          /\ Len(<<"other">>) = 1 /\ <<"other">>[1] = "other" /\ Len(<<>>) = 0
      BY DEF Mounts
    <3>2. 1..1 = {1} /\ 1..0 = {}
      OBVIOUS
    <3>3. /\ ~IsIn("ours", <<"other">>) /\ ~IsIn("ours", <<>>)
          /\ ~IsIn("orphan", <<"other">>) /\ ~IsIn("orphan", <<>>)
      BY <3>1, <3>2, Zenon DEF IsIn
    <3> QED
      BY <3>1, <3>3, Zenon
  <2>2. OnTop("ours", b)
    BY <2>1 DEF OnTop, IsIn
  <2>3. table = (IF opt.fd THEN <<"ours">> \o b ELSE <<>> \o b)
    BY Zenon DEF Init
  <2> HIDE DEF b
  <2>4. <<>> \o b = b /\ "ours" \in Mounts
    BY <2>1 DEF Mounts
  <2>5. /\ <<"ours">> \o b \in Seq(Mounts) /\ OnTop("ours", <<"ours">> \o b)
        /\ ~IsIn("orphan", <<"ours">> \o b)
    BY <2>1, <2>4, MountOnTop, Zenon
  <2> QED
    BY <2>1, <2>2, <2>3, <2>4, <2>5, Zenon
<1>7. /\ opt \in Options /\ parent \in {"none", "waiting", "gone"} /\ waiter \in BOOLEAN
      /\ dev \subseteq {"daemon", "parent", "helper", "flight"}
      /\ sock \subseteq {"daemon", "parent"} /\ aborted \in BOOLEAN /\ msg \in BOOLEAN
  BY Zenon DEF Init
<1>8. TypeOK
  BY <1>2, <1>3, <1>4, <1>5, <1>6, <1>7, Zenon DEF TypeOK
<1>9. SessionInOrder /\ ClosedBeforeUnmount
  BY <1>1, Zenon DEF SessionInOrder, DestroyPaired, ClosedBeforeUnmount
<1>10. HelperInStep
  BY <1>1, SMT DEF HelperInStep, Before, Mounting
<1>11. MountInStep
  BY <1>1, <1>6, Zenon DEF MountInStep, Mounting
<1>12. EndsKnown
  BY <1>1, <1>6, Zenon DEF EndsKnown
<1> QED
  BY <1>8, <1>9, <1>10, <1>11, <1>12, Zenon DEF MountInv

(* Every step keeps the invariant.                                          *)
LEMMA MountStep == MountInv /\ [Next]_vars => MountInv'
<1> SUFFICES ASSUME MountInv, [Next]_vars PROVE MountInv'
  OBVIOUS
<1>1. /\ TypeOK /\ SessionInOrder /\ HelperInStep /\ MountInStep /\ EndsKnown
      /\ ClosedBeforeUnmount
  BY Zenon DEF MountInv
<1>2. TypeOK' /\ SessionInOrder' /\ EndsKnown'
  BY <1>1, TypesKept, SessionKept, TableKept, Zenon
<1>3. CASE fuse_mount_sys \/ do_mount \/ wait_for_auto_unmount
  <2>1. HelperInStep' /\ MountInStep'
    BY <1>1, <1>3, MountsInStep, Zenon
  <2>2. ClosedBeforeUnmount'
    BY <1>1, <1>3, ClosedKept, Zenon DEF Helper
  <2> QED
    BY <1>2, <2>1, <2>2, Zenon DEF MountInv
<1>4. CASE ~fuse_mount_sys /\ ~do_mount /\ ~wait_for_auto_unmount
  <2>1. OrdinaryStep
    BY <1>1, <1>4, Ordinary, Zenon
  <2>2. CASE Daemon
    BY <1>1, <1>2, <1>4, <2>1, <2>2, DaemonInStep, Zenon DEF MountInv
  <2>3. CASE Helper
    BY <1>1, <1>2, <1>4, <2>1, <2>3, HelperMovesInStep, ClosedKept, Zenon DEF MountInv
  <2>4. CASE Environment \/ UNCHANGED vars
    BY <1>1, <1>2, <2>1, <2>4, RestInStep, ClosedKept, Zenon DEF MountInv
  <2> QED
    BY <2>2, <2>3, <2>4, Zenon DEF Next
<1> QED
  BY <1>3, <1>4, Zenon

(* What the daemon leaves behind follows from it.                           *)
LEMMA MountInvSuffices == MountInv => DaemonLeavesNothing
<1> SUFFICES ASSUME MountInv PROVE DaemonLeavesNothing
  OBVIOUS
<1>1. /\ TypeOK /\ SessionInOrder /\ HelperInStep /\ MountInStep /\ EndsKnown
      /\ ClosedBeforeUnmount
  BY Zenon DEF MountInv
<1>2. NothingLeftMounted
  BY <1>1, Zenon DEF MountInStep, EndsKnown, NothingLeftMounted
<1>3. HelperSparesOthers
  BY <1>1, Zenon DEF HelperInStep, HelperSparesOthers
<1>4. DestroyPaired /\ HandlerSessionLive
  BY <1>1, Zenon DEF SessionInOrder, HandlerSessionLive
<1> QED
  BY <1>1, <1>2, <1>3, <1>4, Zenon DEF DaemonLeavesNothing

(* However fuse_main_real ends, and whatever the helper, the administrator, *)
(* signals and other mounts do meanwhile, the daemon's mount is gone unless *)
(* unmounting failed, the connection was aborted or a helper failed with    *)
(* the mount made (add_mount, send_fd), destroy was called exactly if init  *)
(* was, no handler is left with the freed session (but on   *)
(* the one path that forgets it), and the helper unmounts nobody else's     *)
(* mount: DaemonLeavesNothing is an invariant for any set of command lines  *)
(* and any number of failing calls and foreign mounts.                      *)
THEOREM DaemonUndone == Spec => []DaemonLeavesNothing
<1>1. Init => MountInv
  BY MountStart
<1>2. MountInv /\ [Next]_vars => MountInv'
  BY MountStep
<1>3. MountInv => DaemonLeavesNothing
  BY MountInvSuffices
<1> QED
  BY <1>1, <1>2, <1>3, PTL DEF Spec

-----------------------------------------------------------------------------
(* do_init of fuse_lowlevel.c.                                              *)

(* fuse_set_feature_flag adds the offered capabilities to all four sets:    *)
(* the pair that the handlers see and the pair that remembers it.           *)
LEMMA FlagSet ==
    ASSUME NEW c \in ConnInfo, NEW S, NEW e, e = fuse_set_feature_flag(c, S)
    PROVE  /\ e \in ConnInfo
           /\ e.want = c.want \cup (S \cap c.capable_ext)
           /\ e.want_ext = c.want_ext \cup (S \cap c.capable_ext)
           /\ e.conn_want = c.conn_want \cup (S \cap c.capable_ext)
           /\ e.conn_want_ext = c.conn_want_ext \cup (S \cap c.capable_ext)
           /\ e.capable_ext = c.capable_ext
BY Zenon DEF fuse_set_feature_flag, ConnInfo

(* fuse_unset_feature_flag takes the capabilities out of all four.          *)
LEMMA FlagUnset ==
    ASSUME NEW c \in ConnInfo, NEW S, NEW e, e = fuse_unset_feature_flag(c, S)
    PROVE  /\ e \in ConnInfo
           /\ e.want = c.want \ S /\ e.want_ext = c.want_ext \ S
           /\ e.conn_want = c.conn_want \ S /\ e.conn_want_ext = c.conn_want_ext \ S
           /\ e.capable_ext = c.capable_ext
BY Zenon DEF fuse_unset_feature_flag, ConnInfo

(* What was last said of each capability.                                   *)
LEMMA SaidNow ==
    ASSUME InitTypeOK, NEW on, NEW off, said' = Said(on, off)
    PROVE  /\ said' \in [Flags -> {"on", "off"}]
           /\ SaidOn' = ((SaidOn \cup on) \ off) \cap Flags
BY Zenon DEF InitTypeOK, Said, SaidOn

(* A step of the handlers leaves the answer and the buffers alone.          *)
LEMMA Unanswered ==
    ASSUME InitAgrees, phase # "done", phase' \in {"lib", "init"},
           conn'.capable_ext = Capable \cap Flags,
           UNCHANGED <<kin, sess, out, buffer>>
    PROVE  AnswerOffered' /\ ReadsFit' /\ ReadsInside' /\ PagesCover' /\ BackgroundOrdered'
<1>1. Capable' = Capable
  BY Zenon DEF Capable
<1>2. AnswerOffered'
  BY <1>1, Zenon DEF InitAgrees, AnswerOffered
<1>3. ReadsFit'
  <2>1. out.error # "ok"
    BY Zenon DEF InitAgrees, ReadsFit
  <2> QED  BY <2>1, Zenon DEF InitAgrees, ReadsFit
<1>4. ReadsInside' /\ PagesCover' /\ BackgroundOrdered'
  BY Zenon DEF InitAgrees, ReadsInside, PagesCover, BackgroundOrdered
<1> QED  BY <1>2, <1>3, <1>4, Zenon

(* The library's defaults, before any handler.                              *)
LEMMA BeginsAgree ==
    ASSUME InitAgrees, do_init_begins
    PROVE  InitAgrees'
<1> DEFINE b == [conn EXCEPT !.capable_ext = Capable \cap Flags, !.want_ext = {}]
<1>1. conn \in ConnInfo
  BY Zenon DEF InitAgrees, InitTypeOK
<1>2. /\ b \in ConnInfo /\ b.capable_ext = Capable \cap Flags /\ b.want_ext = {}
      /\ b.want = conn.want /\ b.conn_want = conn.conn_want /\ b.conn_want_ext = conn.conn_want_ext
  BY <1>1, Zenon DEF ConnInfo
<1>3. conn' = fuse_set_feature_flag(b, Default \cap Flags)
  BY Zenon DEF do_init_begins
<1> HIDE DEF b
<1>4. /\ conn' \in ConnInfo /\ conn'.capable_ext = Capable \cap Flags
      /\ conn'.want_ext = Default \cap Capable \cap Flags
      /\ conn'.want = conn.want \cup (Default \cap Capable \cap Flags)
      /\ conn'.conn_want = conn.conn_want \cup (Default \cap Capable \cap Flags)
      /\ conn'.conn_want_ext = conn.conn_want_ext \cup (Default \cap Capable \cap Flags)
  BY <1>2, <1>3, FlagSet
<1>5. said' \in [Flags -> {"on", "off"}] /\ SaidOn' = (SaidOn \cup (Default \cap Capable)) \cap Flags
  BY SaidNow DEF InitAgrees, do_init_begins
<1>6. /\ SaidOn = {} /\ wrote' = {} /\ conn.want = {} /\ conn.conn_want = {} /\ conn.conn_want_ext = {}
  BY Zenon DEF InitAgrees, WantHonoured, do_init_begins
<1>7. phase = "start" /\ phase' \in {"lib", "init"} /\ UNCHANGED <<kin, fs, sess, touches, wrote, out, buffer>>
  BY Zenon DEF do_init_begins
<1>8. InitTypeOK'
  BY <1>4, <1>5, <1>7, Zenon DEF InitAgrees, InitTypeOK
<1>9. WantHonoured'
  BY <1>4, <1>5, <1>6, <1>7, Zenon DEF WantHonoured
<1> QED  BY <1>4, <1>7, <1>8, <1>9, Unanswered, Zenon DEF InitAgrees

(* A call of the library on behalf of a handler: capabilities are switched  *)
(* on where offered, and then off.                                          *)
LEMMA CallAgrees ==
    ASSUME InitAgrees, phase \in {"lib", "init"}, phase' = "init", NEW on, NEW off,
           conn' = fuse_unset_feature_flag(fuse_set_feature_flag(conn, on), off),
           said' = Said(on \cap conn.capable_ext, off), touches' \in Nat,
           UNCHANGED <<kin, fs, sess, wrote, out, buffer>>
    PROVE  InitAgrees'
<1> DEFINE b == fuse_set_feature_flag(conn, on)
<1>1. conn \in ConnInfo /\ conn.capable_ext = Capable \cap Flags /\ conn.capable_ext \subseteq Flags
  BY Zenon DEF InitAgrees, InitTypeOK, AnswerOffered
<1>2. /\ b \in ConnInfo /\ b.capable_ext = conn.capable_ext
      /\ b.want = conn.want \cup (on \cap conn.capable_ext)
      /\ b.want_ext = conn.want_ext \cup (on \cap conn.capable_ext)
      /\ b.conn_want = conn.conn_want \cup (on \cap conn.capable_ext)
      /\ b.conn_want_ext = conn.conn_want_ext \cup (on \cap conn.capable_ext)
  BY <1>1, FlagSet
<1>3. conn' = fuse_unset_feature_flag(b, off)
  OBVIOUS
<1> HIDE DEF b
<1>4. /\ conn' \in ConnInfo /\ conn'.capable_ext = conn.capable_ext
      /\ conn'.want = (conn.want \cup (on \cap conn.capable_ext)) \ off
      /\ conn'.want_ext = (conn.want_ext \cup (on \cap conn.capable_ext)) \ off
      /\ conn'.conn_want = (conn.conn_want \cup (on \cap conn.capable_ext)) \ off
      /\ conn'.conn_want_ext = (conn.conn_want_ext \cup (on \cap conn.capable_ext)) \ off
  BY <1>2, <1>3, FlagUnset
<1>5. /\ said' \in [Flags -> {"on", "off"}]
      /\ SaidOn' = ((SaidOn \cup (on \cap conn.capable_ext)) \ off) \cap Flags
  BY SaidNow, Zenon DEF InitAgrees
<1>6. SaidOn' = (SaidOn \cup (on \cap conn.capable_ext)) \ off
  BY <1>1, <1>5, Zenon DEF SaidOn
<1>7. InitTypeOK'
  BY <1>4, <1>5, Zenon DEF InitAgrees, InitTypeOK
<1>8. WantHonoured'
  BY <1>4, <1>6, Zenon DEF InitAgrees, WantHonoured
<1> QED  BY <1>1, <1>4, <1>7, <1>8, Unanswered, Zenon DEF InitAgrees

(* A handler assigns conn->want or conn->want_ext itself.                   *)
LEMMA AssignmentAgrees ==
    ASSUME InitAgrees, NEW on \in SUBSET Flags, NEW off \in SUBSET Flags,
           init_writes_want(on, off) \/ init_writes_want_ext(on, off)
    PROVE  InitAgrees'
<1>1. /\ conn \in ConnInfo /\ conn.capable_ext = Capable \cap Flags /\ phase = "init" /\ phase' = "init"
      /\ touches' \in Nat /\ said' = Said(on, off) /\ UNCHANGED <<kin, fs, sess, out, buffer>>
  BY DEF InitAgrees, InitTypeOK, AnswerOffered, Touches, init_writes_want, init_writes_want_ext
<1>2. said' \in [Flags -> {"on", "off"}] /\ SaidOn' = ((SaidOn \cup on) \ off) \cap Flags
  BY <1>1, SaidNow, Zenon DEF InitAgrees
<1>3. SaidOn' = (SaidOn \cup on) \ off
  BY <1>2, Zenon DEF SaidOn
<1>4. CASE init_writes_want(on, off)
  <2>1. conn' = [conn EXCEPT !.want = (conn.want \cup on) \ off] /\ wrote' = wrote \cup {"want"}
    BY <1>4, Zenon DEF init_writes_want
  <2>2. /\ conn' \in ConnInfo /\ conn'.capable_ext = conn.capable_ext
        /\ conn'.want = (conn.want \cup on) \ off
        /\ conn'.want_ext = conn.want_ext /\ conn'.conn_want = conn.conn_want
        /\ conn'.conn_want_ext = conn.conn_want_ext
    BY <1>1, <2>1, Zenon DEF ConnInfo
  <2>3. InitTypeOK'
    BY <1>1, <1>2, <2>1, <2>2, Zenon DEF InitAgrees, InitTypeOK
  <2>4. WantHonoured'
    BY <1>1, <1>3, <2>1, <2>2, Zenon DEF InitAgrees, WantHonoured
  <2> QED  BY <1>1, <2>2, <2>3, <2>4, Unanswered, Zenon DEF InitAgrees
<1>5. CASE init_writes_want_ext(on, off)
  <2>1. conn' = [conn EXCEPT !.want_ext = (conn.want_ext \cup on) \ off] /\ wrote' = wrote \cup {"want_ext"}
    BY <1>5, Zenon DEF init_writes_want_ext
  <2>2. /\ conn' \in ConnInfo /\ conn'.capable_ext = conn.capable_ext
        /\ conn'.want_ext = (conn.want_ext \cup on) \ off
        /\ conn'.want = conn.want /\ conn'.conn_want = conn.conn_want
        /\ conn'.conn_want_ext = conn.conn_want_ext
    BY <1>1, <2>1, Zenon DEF ConnInfo
  <2>3. InitTypeOK'
    BY <1>1, <1>2, <2>1, <2>2, Zenon DEF InitAgrees, InitTypeOK
  <2>4. WantHonoured'
    BY <1>1, <1>3, <2>1, <2>2, Zenon DEF InitAgrees, WantHonoured
  <2> QED  BY <1>1, <2>2, <2>3, <2>4, Unanswered, Zenon DEF InitAgrees
<1> QED  BY <1>4, <1>5, Zenon

(* A handler sets the sizes or the limits.                                  *)
LEMMA SizesAgree ==
    ASSUME InitAgrees,
           \/ \E size \in WriteSizes, same \in BOOLEAN : init_sizes(size, same)
           \/ \E most, congested \in Backgrounds : init_background(most, congested)
    PROVE  InitAgrees'
<1>1. /\ conn \in ConnInfo /\ conn.capable_ext = Capable \cap Flags /\ phase = "init"
      /\ wrote' = wrote \cup {"sizes"} /\ UNCHANGED <<kin, fs, sess, phase, touches, said, out, buffer>>
  BY Zenon DEF InitAgrees, InitTypeOK, AnswerOffered, init_sizes, init_background
<1> DEFINE Kept == /\ conn' \in ConnInfo /\ conn'.capable_ext = conn.capable_ext
                   /\ conn'.want_ext = conn.want_ext /\ conn'.want = conn.want
                   /\ conn'.conn_want = conn.conn_want /\ conn'.conn_want_ext = conn.conn_want_ext
<1>2. Kept
  <2>1. ASSUME NEW size \in WriteSizes, NEW same \in BOOLEAN, init_sizes(size, same)  PROVE Kept
    BY <1>1, <2>1, InitAssumption, Zenon DEF init_sizes, ConnInfo
  <2>2. ASSUME NEW most \in Backgrounds, NEW congested \in Backgrounds, init_background(most, congested)
        PROVE  Kept
    BY <1>1, <2>2, InitAssumption, Zenon DEF init_background, ConnInfo
  <2> QED  BY <2>1, <2>2, Zenon
<1>3. InitTypeOK'
  BY <1>1, <1>2, Zenon DEF InitAgrees, InitTypeOK
<1>4. SaidOn' = SaidOn
  BY <1>1, Zenon DEF SaidOn
<1>5. WantHonoured'
  BY <1>1, <1>2, <1>4, Zenon DEF InitAgrees, WantHonoured
<1> QED  BY <1>1, <1>2, <1>3, <1>5, Unanswered, Zenon DEF InitAgrees

(* fuse_convert_to_conn_want_ext: the set that goes on to the answer is     *)
(* what was said, unless both fields were assigned.                         *)
LEMMA ConvertAgrees ==
    ASSUME InitAgrees, phase = "init", NEW c, c = fuse_convert_to_conn_want_ext(conn)
    PROVE  /\ c \in ConnInfo /\ c.capable_ext = Capable \cap Flags
           /\ ~({"want", "want_ext"} \subseteq wrote) => c.want_ext = SaidOn
<1>1. conn \in ConnInfo /\ conn.capable_ext = Capable \cap Flags
  BY Zenon DEF InitAgrees, InitTypeOK, AnswerOffered
<1> DEFINE changed == conn.want # conn.conn_want /\ conn.want_ext # conn.want
<1>2. CASE changed /\ conn.want_ext # conn.conn_want_ext
  <2>1. c = conn
    BY <1>2, Zenon DEF fuse_convert_to_conn_want_ext
  <2> QED  BY <1>1, <1>2, <2>1, Zenon DEF InitAgrees, WantHonoured
<1>3. CASE changed /\ conn.want_ext = conn.conn_want_ext
  <2>1. c = [conn EXCEPT !.want_ext = conn.want]
    BY <1>3, Zenon DEF fuse_convert_to_conn_want_ext
  <2>2. c \in ConnInfo /\ c.capable_ext = conn.capable_ext /\ c.want_ext = conn.want
    BY <1>1, <2>1, Zenon DEF ConnInfo
  <2> QED  BY <1>1, <1>3, <2>2, Zenon DEF InitAgrees, WantHonoured
<1>4. CASE ~changed
  <2>1. c = [conn EXCEPT !.want = conn.want_ext]
    BY <1>4, Zenon DEF fuse_convert_to_conn_want_ext
  <2>2. c \in ConnInfo /\ c.capable_ext = conn.capable_ext /\ c.want_ext = conn.want_ext
    BY <1>1, <2>1, Zenon DEF ConnInfo
  <2> QED  BY <1>1, <1>4, <2>2, Zenon DEF InitAgrees, WantHonoured
<1> QED  BY <1>2, <1>3, <1>4, Zenon

(* The sizes of the session before the answer, and the bound that do_init   *)
(* puts on max_write: no read of a program with its own loop may outgrow    *)
(* the buffer it had before.                                                *)
LEMMA SizesBounded ==
    ASSUME InitAgrees, phase = "init", NEW c \in ConnInfo,
           NEW size, size = InitMin(c.max_write, BufferFor(c) - HeaderSize)
    PROVE  /\ size \in 0..UINT_MAX /\ size + HeaderSize \in Nat
           /\ ~sess.internal => size + HeaderSize <= SessionBuffer
<1> DEFINE small == PagesPerReq * PageSize
<1>1. /\ SessionBuffer \in Nat /\ HeaderSize \in Nat \ {0} /\ HeaderSize <= SessionBuffer
      /\ FUSE_MIN_READ_BUFFER \in Nat /\ FUSE_MIN_READ_BUFFER <= SessionBuffer
      /\ UINT_MAX \in Nat /\ SessionBuffer <= UINT_MAX
  <2>1. DefaultPages * PageSize \in Nat /\ HeaderSize \in Nat \ {0}
    BY InitAssumption
  <2> QED  BY <2>1, InitAssumption DEF SessionBuffer
<1>2. small \in Nat
  BY InitAssumption
<1>3. sess.bufsize = SessionBuffer /\ c.max_write \in 0..UINT_MAX
  BY Zenon DEF InitAgrees, ReadsFit, ConnInfo
<1>4. /\ BufferFor(c) \in Nat /\ BufferFor(c) >= HeaderSize
      /\ ~sess.internal => BufferFor(c) <= SessionBuffer
  BY <1>1, <1>2, <1>3 DEF BufferFor, InitMin, InitMax
<1> QED  BY <1>1, <1>3, <1>4 DEF InitMin

(* (max_write - 1) / pagesize + 1 is the number of pages of max_write.      *)
LEMMA PagesOfSize ==
    ASSUME NEW size \in 0..UINT_MAX
    PROVE  /\ PagesOf(size) \in Nat
           /\ size > 0 /\ size <= (MaxPages - 1) * PageSize
              => PagesOf(size) * PageSize \in size..(size + PageSize - 1)
<1>1. PageSize \in Nat \ {0} /\ MaxPages \in Nat \ {0} /\ UINT_MAX \in Nat
  BY InitAssumption, Zenon
<1> DEFINE n == (size - 1) % (UINT_MAX + 1)
           q == n \div PageSize
<1>2. n \in Nat /\ (size > 0 => n = size - 1)
  BY <1>1
<1> HIDE DEF n
<1>3. q \in Nat /\ q * PageSize <= n /\ n < (q + 1) * PageSize
  BY <1>1, <1>2
<1>4. PagesOf(size) = (q + 1) % MaxPages
  BY Zenon DEF PagesOf, n
<1> HIDE DEF q
<1>5. PagesOf(size) \in Nat
  BY <1>1, <1>3, <1>4
<1>6. ASSUME size > 0, size <= (MaxPages - 1) * PageSize
      PROVE  PagesOf(size) * PageSize \in size..(size + PageSize - 1)
  <2>1. q * PageSize < (MaxPages - 1) * PageSize
    BY <1>1, <1>2, <1>3, <1>6
  <2>2. q < MaxPages - 1
    BY <1>1, <1>3, <2>1
  <2>3. PagesOf(size) = q + 1
    BY <1>1, <1>3, <1>4, <2>2
  <2>4. (q + 1) * PageSize = q * PageSize + PageSize
    BY <1>1, <1>3
  <2>5. (q + 1) * PageSize \in size..(size + PageSize - 1)
    BY <1>1, <1>2, <1>3, <1>6, <2>4
  <2> QED  BY <2>3, <2>5, Zenon
<1> QED  BY <1>5, <1>6, Zenon

(* The answer of do_init.                                                   *)
LEMMA EndsAgree ==
    ASSUME InitAgrees, do_init_ends
    PROVE  InitAgrees'
<1> DEFINE c == fuse_convert_to_conn_want_ext(conn)
           size == InitMin(c.max_write, BufferFor(c) - HeaderSize)
           bg == Background(c)
           refused == ~want_flags_valid(c) \/ ~c.max_read
<1>1. /\ phase = "init" /\ phase' = "done" /\ UNCHANGED <<kin, fs, touches, said, wrote, buffer>>
  BY Zenon DEF do_init_ends
<1>2. /\ c \in ConnInfo /\ c.capable_ext = Capable \cap Flags
      /\ ~({"want", "want_ext"} \subseteq wrote) => c.want_ext = SaidOn
  BY <1>1, ConvertAgrees, Zenon
<1>3. /\ size \in 0..UINT_MAX /\ size + HeaderSize \in Nat
      /\ ~sess.internal => size + HeaderSize <= SessionBuffer
  BY <1>1, <1>2, SizesBounded, Zenon
<1>4. /\ refused => /\ conn' = c /\ out' = [NoAnswer EXCEPT !.error = "EPROTO"]
                    /\ sess' = [sess EXCEPT !.exited = TRUE]
      /\ ~refused => /\ conn' = [c EXCEPT !.max_write = size]
                     /\ sess' = [sess EXCEPT !.bufsize = size + HeaderSize]
                     /\ out' = [error |-> "ok", flags |-> OutFlags(c), max_write |-> size,
                                max_pages |-> IF kin.pages THEN PagesOf(size) ELSE 0,
                                max_background |-> bg[1], congestion_threshold |-> bg[2]]
  BY Zenon DEF do_init_ends
<1>5. SaidOn' = SaidOn
  BY <1>1, Zenon DEF SaidOn
<1>6. sess \in [bufsize : Nat, internal : BOOLEAN, exited : BOOLEAN]
  BY Zenon DEF InitAgrees, InitTypeOK
<1>7. /\ sess.bufsize = SessionBuffer /\ SessionBuffer \in Nat
      /\ \A w \in InitWorkers : buffer[w].size \in {0, SessionBuffer} /\ ~buffer[w].failed
  BY <1>1, <1>6, Zenon DEF InitAgrees, ReadsFit
<1>8. \A w \in InitWorkers : buffer[w].asked <= buffer[w].size
  BY Zenon DEF InitAgrees, ReadsInside
<1> HIDE DEF c, size, bg
<1>9. CASE refused
  <2>1. /\ out'.error = "EPROTO" /\ out'.flags = {} /\ out' \in Answers
        /\ out'.max_background = 0 /\ out'.congestion_threshold = 0
    BY <1>4, <1>9, InitAssumption DEF NoAnswer, Answers
  <2>2. sess' \in [bufsize : Nat, internal : BOOLEAN, exited : BOOLEAN] /\ sess'.bufsize = sess.bufsize
    BY <1>4, <1>6, <1>9, Zenon
  <2>3. InitTypeOK'
    BY <1>1, <1>2, <1>4, <1>9, <2>1, <2>2 DEF InitAgrees, InitTypeOK
  <2>4. WantHonoured' /\ AnswerOffered' /\ ReadsFit' /\ PagesCover'
    BY <1>1, <2>1, Zenon DEF WantHonoured, AnswerOffered, ReadsFit, PagesCover
  <2>5. ReadsInside'
    BY <1>1, <1>7, <1>8, <2>2 DEF ReadsInside
  <2>6. BackgroundOrdered'
    BY <2>1, InitAssumption DEF BackgroundOrdered
  <2> QED  BY <2>3, <2>4, <2>5, <2>6, Zenon DEF InitAgrees
<1>10. CASE ~refused
  <2>1. c.want_ext \subseteq Capable /\ c.want_ext \subseteq Flags
    BY <1>2, <1>10, Zenon DEF want_flags_valid
  <2>2. OutFlags(c) \subseteq kin.flags /\ OutFlags(c) \subseteq Flags
    <3>1. (LowWire \cup HighWire) \cap (Splices \cup {"IOCTL_DIR", "EXPIRE_ONLY"}) = {}
      BY Zenon DEF LowWire, HighWire, Splices
    <3> HIDE DEF LowWire, HighWire, Splices
    <3>2. Capable \subseteq kin.flags \cup Splices \cup {"IOCTL_DIR", "EXPIRE_ONLY"}
      BY Zenon DEF Capable
    <3> QED  BY <2>1, <3>1, <3>2, Zenon DEF OutFlags
  <2>3. /\ bg[1] \in Nat /\ bg[2] \in Nat /\ bg[2] <= bg[1] /\ bg[1] <= BackgroundMax
    <3>1. c.max_background \in Nat /\ c.congestion_threshold \in Nat /\ BackgroundMax \in Nat
      BY <1>2, InitAssumption, Zenon DEF ConnInfo
    <3> QED  BY <3>1 DEF bg, Background, InitMin
  <2>4. /\ PagesOf(size) \in Nat
        /\ size > 0 /\ size <= (MaxPages - 1) * PageSize
           => PagesOf(size) * PageSize \in size..(size + PageSize - 1)
    BY <1>3, PagesOfSize, Zenon
  <2>5. /\ out'.error = "ok" /\ out'.flags = OutFlags(c) /\ out'.max_write = size
        /\ out'.max_pages = IF kin.pages THEN PagesOf(size) ELSE 0
        /\ out'.max_background = bg[1] /\ out'.congestion_threshold = bg[2]
    BY <1>4, <1>10
  <2>6. out' \in Answers
    BY <1>3, <1>4, <1>10, <2>2, <2>3, <2>4 DEF Answers
  <2>7. /\ sess' \in [bufsize : Nat, internal : BOOLEAN, exited : BOOLEAN]
        /\ sess'.bufsize = size + HeaderSize /\ sess'.internal = sess.internal
    BY <1>3, <1>4, <1>6, <1>10, Zenon
  <2>8. conn' \in ConnInfo /\ conn'.want_ext = c.want_ext
    BY <1>2, <1>3, <1>4, <1>10, Zenon DEF ConnInfo
  <2>9. InitTypeOK'
    BY <1>1, <2>6, <2>7, <2>8, Zenon DEF InitAgrees, InitTypeOK
  <2>10. WantHonoured'
    BY <1>1, <1>2, <1>5, <2>8, Zenon DEF WantHonoured
  <2>11. AnswerOffered'
    BY <1>1, <2>2, <2>5, Zenon DEF AnswerOffered
  <2>12. ReadsFit'
    BY <1>1, <1>7, <2>5, <2>7, Zenon DEF ReadsFit
  <2>13. ReadsInside'
    <3>1. HeaderSize \in Nat \ {0} /\ size \in Nat
      BY <1>3, InitAssumption
    <3> QED  BY <1>1, <1>3, <1>7, <1>8, <2>7, <3>1, Zenon DEF ReadsInside
  <2>14. PagesCover' /\ BackgroundOrdered'
    BY <1>1, <2>3, <2>4, <2>5, Zenon DEF PagesCover, BackgroundOrdered
  <2> QED  BY <2>9, <2>10, <2>11, <2>12, <2>13, <2>14, Zenon DEF InitAgrees
<1> QED  BY <1>9, <1>10, Zenon

(* A read of the device, before the answer or after it.                     *)
LEMMA ReceiveAgrees ==
    ASSUME InitAgrees, NEW v \in InitWorkers, receive_buf(v)
    PROVE  InitAgrees'
<1> DEFINE first == IF buffer[v].size = 0 THEN sess.bufsize ELSE buffer[v].size
           again == sess.internal /\ first < Required /\ first < sess.bufsize
           size == IF again THEN sess.bufsize ELSE first
           asked == IF sess.internal THEN size ELSE sess.bufsize
<1>1. /\ out.error # "EPROTO" /\ UNCHANGED <<kin, fs, conn, sess, phase, touches, said, wrote, out>>
      /\ buffer' = [buffer EXCEPT ![v] = [size |-> size, asked |-> asked, failed |-> asked < Required]]
  BY Zenon DEF receive_buf
<1>2. /\ sess.bufsize \in Nat /\ sess.internal \in BOOLEAN /\ out \in Answers
      /\ \A w \in InitWorkers : buffer[w].size \in Nat /\ buffer[w].asked \in Nat
  BY Zenon DEF InitAgrees, InitTypeOK
<1>3. /\ HeaderSize \in Nat \ {0} /\ FUSE_MIN_READ_BUFFER \in Nat /\ SessionBuffer \in Nat
      /\ FUSE_MIN_READ_BUFFER <= SessionBuffer /\ SessionBuffer # 0
  <2>1. DefaultPages * PageSize \in Nat /\ HeaderSize \in Nat \ {0}
    BY InitAssumption
  <2> QED  BY <2>1, InitAssumption DEF SessionBuffer
<1>4. out.max_write \in Nat
  BY <1>2, InitAssumption DEF Answers
<1>5. Required \in Nat
  BY <1>3, <1>4 DEF Required, InitMax
<1>6. size \in Nat /\ asked \in Nat
  BY <1>2, Zenon
<1>7. asked <= size /\ (~sess.internal => sess.bufsize <= size)
  BY <1>2, <1>6 DEF InitAgrees, ReadsInside
<1>8. phase # "done" => size = SessionBuffer /\ asked = SessionBuffer /\ Required <= SessionBuffer
  <2> SUFFICES ASSUME phase # "done"  PROVE size = SessionBuffer /\ asked = SessionBuffer /\ Required <= SessionBuffer
    OBVIOUS
  <2>1. sess.bufsize = SessionBuffer /\ buffer[v].size \in {0, SessionBuffer} /\ out.error # "ok"
    BY Zenon DEF InitAgrees, ReadsFit
  <2>2. Required = FUSE_MIN_READ_BUFFER
    BY <2>1, Zenon DEF Required
  <2> QED  BY <1>3, <2>1, <2>2, Zenon
<1>9. out.error = "ok" /\ out.max_write >= FUSE_MIN_READ_BUFFER - HeaderSize => asked >= Required
  <2> SUFFICES ASSUME out.error = "ok", out.max_write >= FUSE_MIN_READ_BUFFER - HeaderSize
               PROVE  asked >= Required
    OBVIOUS
  <2>1. sess.bufsize = out.max_write + HeaderSize
    BY Zenon DEF InitAgrees, ReadsFit
  <2>2. Required = sess.bufsize
    BY <1>3, <1>4, <2>1 DEF Required, InitMax
  <2> QED  BY <1>2, <1>6, <2>2
<1> HIDE DEF first, again, size, asked
<1>10. buffer \in [InitWorkers -> [size : Nat, asked : Nat, failed : BOOLEAN]]
  BY Zenon DEF InitAgrees, InitTypeOK
<1>11. /\ buffer' \in [InitWorkers -> [size : Nat, asked : Nat, failed : BOOLEAN]]
       /\ buffer'[v].size = size /\ buffer'[v].asked = asked
       /\ buffer'[v].failed <=> asked < Required
       /\ \A w \in InitWorkers : w # v => buffer'[w] = buffer[w]
  <2> DEFINE b == [size |-> size, asked |-> asked, failed |-> asked < Required]
  <2>1. (asked < Required) \in BOOLEAN
    BY <1>5, <1>6
  <2>2. b \in [size : Nat, asked : Nat, failed : BOOLEAN]
    BY <1>6, <2>1, Zenon
  <2>3. b.size = size /\ b.asked = asked /\ b.failed = (asked < Required)
    BY Zenon
  <2>4. buffer' = [buffer EXCEPT ![v] = b]
    BY <1>1, Zenon
  <2> HIDE DEF b
  <2>5. buffer'[v] = b /\ \A w \in InitWorkers : w # v => buffer'[w] = buffer[w]
    BY <1>10, <2>4, Zenon
  <2>6. buffer' \in [InitWorkers -> [size : Nat, asked : Nat, failed : BOOLEAN]]
    BY <1>10, <2>2, <2>4, Zenon
  <2> QED  BY <2>3, <2>5, <2>6, Zenon
<1>12. InitTypeOK'
  BY <1>1, <1>11 DEF InitAgrees, InitTypeOK
<1>13. WantHonoured' /\ AnswerOffered' /\ PagesCover' /\ BackgroundOrdered'
  <2>1. SaidOn' = SaidOn /\ Capable' = Capable
    BY <1>1, Zenon DEF SaidOn, Capable
  <2> QED  BY <1>1, <2>1, Zenon DEF InitAgrees, WantHonoured, AnswerOffered, PagesCover, BackgroundOrdered
<1>14. ReadsFit'
  <2>1. ASSUME phase # "done", NEW w \in InitWorkers
        PROVE  buffer'[w].size \in {0, SessionBuffer} /\ ~buffer'[w].failed
    BY <1>3, <1>5, <1>6, <1>8, <1>11, <2>1 DEF InitAgrees, ReadsFit
  <2>2. ASSUME out.error = "ok", ~(out.max_write < FUSE_MIN_READ_BUFFER - HeaderSize), NEW w \in InitWorkers
        PROVE  ~buffer'[w].failed
    BY <1>3, <1>4, <1>5, <1>6, <1>9, <1>11, <2>2 DEF InitAgrees, ReadsFit
  <2> QED  BY <1>1, <2>1, <2>2, Zenon DEF InitAgrees, ReadsFit
<1>15. ReadsInside'
  BY <1>1, <1>7, <1>11, Zenon DEF InitAgrees, ReadsInside
<1> QED  BY <1>12, <1>13, <1>14, <1>15, Zenon DEF InitAgrees

(* FUSE_INIT leaves the kernel, the library and the filesystem in agreement *)
(* for every set of capabilities, every mix of handlers and all sizes:      *)
(* do_init answers what was last asked and only what was offered, and no    *)
(* read is refused or overruns its buffer.                                  *)
THEOREM InitSettles == InitSpec => []InitAgrees
<1>1. InitInit => InitAgrees
  <2> SUFFICES ASSUME InitInit  PROVE InitAgrees
    OBVIOUS
  <2>1. DefaultPages * PageSize \in 0..UINT_MAX /\ SessionBuffer \in Nat
    <3>1. DefaultPages * PageSize \in Nat /\ HeaderSize \in Nat \ {0}
      BY InitAssumption
    <3> QED  BY <3>1, InitAssumption DEF SessionBuffer
  <2>2. conn \in ConnInfo /\ conn.want = {} /\ conn.want_ext = {} /\ conn.conn_want = {} /\ conn.conn_want_ext = {}
    BY <2>1, Zenon DEF InitInit, ConnInfo
  <2>3. out \in Answers /\ out.error = "none" /\ out.flags = {} /\ out.max_background = 0 /\ out.congestion_threshold = 0
    BY InitAssumption DEF InitInit, NoAnswer, Answers
  <2>4. sess \in [bufsize : Nat, internal : BOOLEAN, exited : BOOLEAN] /\ sess.bufsize = SessionBuffer
    BY <2>1, Zenon DEF InitInit
  <2>5. /\ buffer \in [InitWorkers -> [size : Nat, asked : Nat, failed : BOOLEAN]]
        /\ \A w \in InitWorkers : buffer[w].size = 0 /\ buffer[w].asked = 0 /\ ~buffer[w].failed
    BY Zenon DEF InitInit
  <2>6. /\ kin \in [major : {6, 7, 8}, minor : Nat, flags : SUBSET (Flags \ Splices),
                    pages : BOOLEAN, ext : BOOLEAN]
        /\ fs \in [ops : SUBSET AllOps, path : BOOLEAN]
    BY InitAssumption, Zenon DEF InitInit
  <2>7. InitTypeOK
    BY <2>2, <2>3, <2>4, <2>5, <2>6, Zenon DEF InitInit, InitTypeOK
  <2>8. WantHonoured
    BY <2>2, Zenon DEF InitInit, WantHonoured, SaidOn
  <2>9. AnswerOffered /\ ReadsFit /\ ReadsInside /\ PagesCover
    BY <2>3, <2>4, <2>5 DEF InitInit, AnswerOffered, ReadsFit, ReadsInside, PagesCover
  <2>10. BackgroundOrdered
    BY <2>3, InitAssumption DEF BackgroundOrdered
  <2> QED  BY <2>7, <2>8, <2>9, <2>10, Zenon DEF InitAgrees
<1>2. InitAgrees /\ [InitNext]_initVars => InitAgrees'
  <2> SUFFICES ASSUME InitAgrees, [InitNext]_initVars  PROVE InitAgrees'
    OBVIOUS
  <2>0. conn \in ConnInfo /\ touches \in Nat /\ {} \in SUBSET Flags
    BY Zenon DEF InitAgrees, InitTypeOK
  <2>1. CASE do_init_version
    <3>1. phase = "start" /\ UNCHANGED <<fs, conn, sess, touches, said, wrote, buffer>> /\ SaidOn' = SaidOn
      BY <2>1, Zenon DEF do_init_version, SaidOn
    <3>2. CASE kin.major < 7
      <4>1. phase' = "done" /\ out' = [NoAnswer EXCEPT !.error = "EPROTO"] /\ kin' = kin
        BY <2>1, <3>2, Zenon DEF do_init_version
      <4>2. /\ out' \in Answers /\ out'.error = "EPROTO" /\ out'.flags = {}
            /\ out'.max_background = 0 /\ out'.congestion_threshold = 0
        BY <4>1, InitAssumption DEF NoAnswer, Answers
      <4>3. InitTypeOK'
        BY <3>1, <4>1, <4>2, Zenon DEF InitAgrees, InitTypeOK
      <4>4. WantHonoured' /\ AnswerOffered' /\ ReadsFit' /\ ReadsInside' /\ PagesCover'
        BY <3>1, <4>1, <4>2, Zenon DEF InitAgrees, WantHonoured, AnswerOffered, ReadsFit, ReadsInside, PagesCover
      <4>5. BackgroundOrdered'
        BY <4>2, InitAssumption DEF BackgroundOrdered
      <4> QED  BY <4>3, <4>4, <4>5, Zenon DEF InitAgrees
    <3>3. CASE ~(kin.major < 7)
      <4>1. phase' = phase /\ out' = out /\ kin' = [kin EXCEPT !.major = 7]
        BY <2>1, <3>3, Zenon DEF do_init_version
      <4>2. kin \in [major : {6, 7, 8}, minor : Nat, flags : SUBSET (Flags \ Splices),
                     pages : BOOLEAN, ext : BOOLEAN]
        BY Zenon DEF InitAgrees, InitTypeOK
      <4>3. /\ kin' \in [major : {6, 7, 8}, minor : Nat, flags : SUBSET (Flags \ Splices),
                         pages : BOOLEAN, ext : BOOLEAN]
            /\ kin'.flags = kin.flags /\ kin'.pages = kin.pages
        BY <4>1, <4>2, Zenon
      <4>4. InitTypeOK'
        BY <3>1, <4>1, <4>3, Zenon DEF InitAgrees, InitTypeOK
      <4>5. WantHonoured' /\ AnswerOffered' /\ ReadsFit' /\ ReadsInside' /\ PagesCover' /\ BackgroundOrdered'
        BY <3>1, <4>1, <4>3, Zenon
           DEF InitAgrees, WantHonoured, AnswerOffered, ReadsFit, ReadsInside, PagesCover, BackgroundOrdered
      <4> QED  BY <4>4, <4>5, Zenon DEF InitAgrees
    <3> QED  BY <3>2, <3>3, Zenon
  <2>2. CASE do_init_begins
    BY <2>2, BeginsAgree, Zenon
  <2>3. CASE fuse_lib_init
    <3>1. /\ phase = "lib" /\ phase' = "init" /\ UNCHANGED <<kin, fs, sess, touches, wrote, out, buffer>>
          /\ conn' = fuse_unset_feature_flag(fuse_set_feature_flag(conn, {"EXPORT_SUPPORT"}), Unable)
          /\ said' = Said({"EXPORT_SUPPORT"} \cap conn.capable_ext, Unable)
      BY <2>3, Zenon DEF fuse_lib_init
    <3> QED  BY <2>0, <3>1, CallAgrees, Zenon
  <2>4. CASE do_init_ends
    BY <2>4, EndsAgree, Zenon
  <2>5. ASSUME NEW f \in Flags, init_sets_flag(f)  PROVE InitAgrees'
    <3>1. /\ phase = "init" /\ phase' = "init" /\ touches' \in Nat
          /\ UNCHANGED <<kin, fs, sess, wrote, out, buffer>>
          /\ conn' = fuse_set_feature_flag(conn, {f}) /\ said' = Said({f} \cap conn.capable_ext, {})
      BY <2>0, <2>5 DEF init_sets_flag, Touches
    <3>2. conn' \in ConnInfo
      BY <2>0, <3>1, FlagSet, Zenon
    <3>3. conn' = fuse_unset_feature_flag(conn', {})
      BY <3>2, Zenon DEF fuse_unset_feature_flag, ConnInfo
    <3> QED  BY <3>1, <3>3, CallAgrees, Zenon
  <2>6. ASSUME NEW f \in Flags, init_unsets_flag(f)  PROVE InitAgrees'
    <3>1. /\ phase = "init" /\ phase' = "init" /\ touches' \in Nat
          /\ UNCHANGED <<kin, fs, sess, wrote, out, buffer>>
          /\ conn' = fuse_unset_feature_flag(conn, {f}) /\ said' = Said({}, {f})
      BY <2>0, <2>6 DEF init_unsets_flag, Touches
    <3>2. conn = fuse_set_feature_flag(conn, {}) /\ {} = {} \cap conn.capable_ext
      BY <2>0, Zenon DEF fuse_set_feature_flag, ConnInfo
    <3> QED  BY <3>1, <3>2, CallAgrees, Zenon
  <2>7. ASSUME NEW f \in Flags,
               \/ init_writes_want({f}, {}) \/ init_writes_want({}, {f})
               \/ init_writes_want_ext({f}, {}) \/ init_writes_want_ext({}, {f})
        PROVE  InitAgrees'
    BY <2>0, <2>7, AssignmentAgrees, Zenon
  <2>8. ASSUME NEW on \in SUBSET (Flags \cap EnableOpts), NEW off \in SUBSET (Flags \cap DisableOpts),
               init_applies(on, off)
        PROVE  InitAgrees'
    <3>1. /\ phase = "init" /\ phase' = "init" /\ touches' \in Nat
          /\ UNCHANGED <<kin, fs, sess, wrote, out, buffer>>
          /\ conn' = fuse_unset_feature_flag(fuse_set_feature_flag(conn, on), off)
          /\ said' = Said(on \cap conn.capable_ext, off)
      BY <2>0, <2>8 DEF init_applies, Touches, fuse_apply_conn_info_opts
    <3> QED  BY <3>1, CallAgrees, Zenon
  <2>9. CASE \/ \E size \in WriteSizes, same \in BOOLEAN : init_sizes(size, same)
             \/ \E most, congested \in Backgrounds : init_background(most, congested)
    BY <2>9, SizesAgree, Zenon
  <2>10. CASE \E w \in InitWorkers : receive_buf(w)
    BY <2>10, ReceiveAgrees, Zenon
  <2>11. CASE UNCHANGED initVars
    BY <2>11 DEF initVars, InitAgrees, InitTypeOK, WantHonoured, SaidOn, AnswerOffered, Capable,
                 ReadsFit, ReadsInside, PagesCover, BackgroundOrdered
  <2> QED
    BY <2>1, <2>2, <2>3, <2>4, <2>5, <2>6, <2>7, <2>8, <2>9, <2>10, <2>11, Zenon DEF InitNext
<1> QED  BY <1>1, <1>2, PTL DEF InitSpec
=============================================================================
