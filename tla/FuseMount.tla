------------------------------ MODULE FuseMount ------------------------------
(***************************************************************************)
(* The life of a FUSE daemon around its request loop: fuse_main_real parses *)
(* the command line, creates and mounts the session (directly, through the  *)
(* helper fusermount3, or on a descriptor it was given), goes to the        *)
(* background, installs the signal handlers, loops, and takes everything    *)
(* down again in the reverse order (lib/helper.c, lib/mount.c,              *)
(* lib/fuse_signals.c and the session part of lib/fuse_lowlevel.c).  The    *)
(* helper (util/fusermount.c) is a process of its own: it mounts, sends the *)
(* device over a socket and, with auto_unmount, stays to clean up when its  *)
(* peer is gone.  Around them, an administrator unmounts or aborts, other   *)
(* file systems use the same mount point, and signals and crashes happen.   *)
(***************************************************************************)
EXTENDS Naturals, Sequences

CONSTANTS
  Options,     \* the command lines: records [root, auto, subtype, fg, fd, single, below]
  MaxFaults,   \* how many calls of the system or the allocator fail
  MaxOthers    \* how many foreign mounts appear on the mount point

ASSUME MountAssumption ==
  /\ \A o \in Options :
       o \in [root: BOOLEAN, auto: BOOLEAN, subtype: BOOLEAN, fg: BOOLEAN,
              fd: BOOLEAN, single: BOOLEAN, below: BOOLEAN]
  /\ MaxFaults \in Nat /\ MaxOthers \in Nat

VARIABLES
  opt,      \* the options of this run
  d,        \* the daemon: control state of fuse_main_real, and its session
  parent,   \* the process that waits in fuse_daemonize
  waiter,   \* the byte of fuse_daemonize's pipe was written
  sig,      \* fuse_instance and the installed handlers
  table,    \* the mounts on the mount point, the visible one first
  dev,      \* who holds the device of the connection: daemon, parent, helper, flight
  aborted,  \* the connection was aborted through sysfs
  sock,     \* who holds the daemon's end of the helper's socket
  msg,      \* the descriptor was sent over that socket
  h,        \* the fusermount3 process
  g         \* faults so far, foreign mounts so far, and what the properties remember

vars == <<opt, d, parent, waiter, sig, table, dev, aborted, sock, msg, h, g>>

kernel == <<table, dev, aborted, sock, msg>>
process == <<opt, parent, waiter>>

(* The daemon goes on at pc; it leaves for the exit label pc with result res. *)
Goto(pc) == d' = [d EXCEPT !.pc = pc]
Leave(pc, res) == d' = [d EXCEPT !.pc = pc, !.res = res]

(* A call fails; nothing fails. *)
CallFails == g.faults < MaxFaults /\ g' = [g EXCEPT !.faults = @ + 1]
NothingFails == g' = g

(* umount2 on the path takes the visible mount, whatever it is. *)
Umount(t) == IF t = <<>> THEN t ELSE Tail(t)

IsIn(m, t) == \E i \in 1..Len(t) : t[i] = m

Visible == IF table = <<>> THEN "none" ELSE Head(table)

(* The server side of the connection is there. *)
Alive == dev # {} /\ ~aborted

(* A mount that is left behind: nobody serves it, and nobody will unmount it. *)
Orphan(t) == [i \in 1..Len(t) |-> IF t[i] = "ours" THEN "orphan" ELSE t[i]]

-----------------------------------------------------------------------------
(* fuse_main_real: help, version, a bad command line or a missing mount      *)
(* point end it at once.                                                     *)
fuse_parse_cmdline ==
  /\ d.pc = "parse"
  /\ \/ Goto("new")
     \/ \E res \in {0, 1, 2} : Leave("done", res)
  /\ NothingFails /\ UNCHANGED <<process, kernel, sig, h>>

fuse_session_new ==
  /\ d.pc = "new"
  /\ \/ d' = [d EXCEPT !.pc = "mount", !.life = "live"] /\ NothingFails
     \/ Leave("done", 3) /\ CallFails
  /\ UNCHANGED <<process, kernel, sig, h>>

MountFails == Leave("destroy", 4)
Mounted == d' = [d EXCEPT !.pc = "daemonize", !.fd = "dev", !.mountpoint = TRUE]

(* /dev/fd/N: the descriptor is used as it is and the mount point is not     *)
(* remembered; otherwise the mount is up to fuse_kern_mount.                 *)
fuse_session_mount ==
  /\ d.pc = "mount"
  /\ \/ opt.fd /\ d' = [d EXCEPT !.pc = "daemonize", !.fd = "dev"] /\ NothingFails
     \/ ~opt.fd /\ Goto("sys") /\ NothingFails
     \/ MountFails /\ CallFails
  /\ UNCHANGED <<process, kernel, sig, h>>

(* mount(2) itself: refused with EPERM to an unprivileged daemon.            *)
fuse_mount_sys ==
  /\ d.pc = "sys"
  /\ \/ /\ opt.root /\ Goto("mtab") /\ NothingFails
        /\ table' = <<"ours">> \o table /\ dev' = {"daemon"}
        /\ UNCHANGED <<aborted, sock, msg>>
     \/ ~opt.root /\ Goto("eperm") /\ NothingFails /\ UNCHANGED kernel
     \/ MountFails /\ CallFails /\ UNCHANGED kernel
  /\ UNCHANGED <<process, sig, h>>

(* The mtab entry of a privileged daemon; when it fails the mount is undone. *)
fuse_mount_sys_mtab ==
  /\ d.pc = "mtab"
  /\ \/ /\ IF opt.auto THEN Goto("auto") ELSE Mounted
        /\ NothingFails /\ UNCHANGED kernel
     \/ /\ MountFails /\ CallFails
        /\ table' = Umount(table) /\ dev' = dev \ {"daemon"}
        /\ UNCHANGED <<aborted, sock, msg>>
  /\ UNCHANGED <<process, sig, h>>

setup_auto_unmount_left ==
  /\ d.pc = "auto"
  /\ \/ /\ Mounted /\ NothingFails
        /\ h' = [h EXCEPT !.pc = "start", !.only = TRUE] /\ sock' = {"daemon"}
     \/ MountFails /\ CallFails /\ UNCHANGED <<h, sock>>
  /\ UNCHANGED <<process, sig, table, dev, aborted, msg>>

(* A helper that only waits.  When it cannot be started the mount is undone, *)
(* and the device stays open.                                                *)
setup_auto_unmount ==
  /\ d.pc = "auto"
  /\ \/ /\ Mounted /\ NothingFails
        /\ h' = [h EXCEPT !.pc = "start", !.only = TRUE] /\ sock' = {"daemon"}
        /\ UNCHANGED <<table, dev, aborted, msg>>
     \/ /\ MountFails /\ CallFails /\ table' = Umount(table)
        /\ UNCHANGED <<h, dev, aborted, sock, msg>>
  /\ UNCHANGED <<process, sig>>

(* The fallback to fusermount3.  Without memory for its options,             *)
(* fuse_kern_mount returns the -2 of fuse_mount_sys, which                   *)
(* fuse_session_mount takes for a descriptor.                                *)
fuse_kern_mount ==
  /\ d.pc = "eperm"
  /\ \/ Goto("spawn") /\ NothingFails
     \/ d' = [d EXCEPT !.pc = "daemonize", !.fd = "bad", !.mountpoint = TRUE] /\ CallFails
  /\ UNCHANGED <<process, kernel, sig, h>>

(* A failed attempt is repeated once, without the subtype. *)
AttemptFails ==
  IF opt.subtype /\ d.attempt = 1
  THEN d' = [d EXCEPT !.pc = "spawn", !.attempt = 2]
  ELSE MountFails

fuse_mount_fusermount ==
  /\ d.pc = "spawn"
  /\ \/ /\ Goto("receive") /\ NothingFails
        /\ h' = [h EXCEPT !.pc = "start"] /\ sock' = {"daemon"} /\ msg' = FALSE
     \/ AttemptFails /\ CallFails /\ UNCHANGED <<h, sock, msg>>
  /\ UNCHANGED <<process, table, dev, aborted, sig>>

(* receive_fd gets the device or the end of the stream; with auto_unmount    *)
(* the socket stays open, else the helper is waited for.                     *)
receive_fd ==
  /\ d.pc = "receive"
  /\ \/ /\ msg /\ (opt.auto \/ h.pc = "gone") /\ Mounted
        /\ dev' = (dev \ {"flight"}) \cup {"daemon"}
     \/ ~msg /\ h.pc = "gone" /\ AttemptFails /\ UNCHANGED dev
  /\ sock' = IF opt.auto THEN sock ELSE {}
  /\ NothingFails /\ UNCHANGED <<process, table, aborted, msg, sig, h>>

(* The parent keeps every descriptor of the daemon while it waits. *)
fuse_daemonize_forks ==
  /\ d.pc = "daemonize"
  /\ \/ opt.fg /\ Goto("signals") /\ NothingFails /\ UNCHANGED <<parent, dev, sock>>
     \/ /\ ~opt.fg /\ Goto("detach") /\ NothingFails /\ parent' = "waiting"
        /\ dev' = IF "daemon" \in dev THEN dev \cup {"parent"} ELSE dev
        /\ sock' = IF "daemon" \in sock THEN sock \cup {"parent"} ELSE sock
     \/ ~opt.fg /\ Leave("unmount", 5) /\ CallFails /\ UNCHANGED <<parent, dev, sock>>
  /\ UNCHANGED <<opt, waiter, table, aborted, msg, sig, h>>

fuse_daemonize_detaches ==
  /\ d.pc = "detach"
  /\ \/ Goto("signals") /\ waiter' = TRUE /\ NothingFails
     \/ Leave("unmount", 5) /\ CallFails /\ UNCHANGED waiter
  /\ UNCHANGED <<opt, parent, kernel, sig, h>>

parent_exits ==
  /\ parent = "waiting" /\ waiter
  /\ parent' = "gone" /\ dev' = dev \ {"parent"} /\ sock' = sock \ {"parent"}
  /\ NothingFails /\ UNCHANGED <<opt, d, waiter, table, aborted, msg, sig, h>>

(* fuse_instance is set last; a failure leaves the handlers set before it.   *)
fuse_set_signal_handlers ==
  /\ d.pc = "signals"
  /\ \/ /\ Goto(IF opt.single THEN "loop" ELSE "config") /\ NothingFails
        /\ sig' = [instance |-> TRUE, handlers |-> {"exit_handler", "do_nothing"}]
     \/ /\ Leave("unmount", 6) /\ CallFails
        /\ \E hs \in {{}, {"exit_handler"}} : sig' = [sig EXCEPT !.handlers = hs]
  /\ UNCHANGED <<process, kernel, h>>

(* Without memory for its configuration the loop is not entered, and the     *)
(* signal handlers stay.                                                     *)
fuse_loop_cfg_create ==
  /\ d.pc = "config"
  /\ \/ Goto("loop") /\ NothingFails
     \/ Leave("unmount", 7) /\ CallFails
  /\ UNCHANGED <<process, kernel, sig, h>>

exit_handler ==
  /\ "exit_handler" \in sig.handlers /\ sig.instance
  /\ d.life = "live" /\ ~d.exited
  /\ d' = [d EXCEPT !.exited = TRUE]
  /\ NothingFails /\ UNCHANGED <<process, kernel, sig, h>>

do_init ==
  /\ d.pc = "loop" /\ d.fd = "dev" /\ Alive /\ IsIn("ours", table)
  /\ ~d.got_init /\ ~d.got_destroy
  /\ d' = [d EXCEPT !.got_init = TRUE]
  /\ NothingFails /\ UNCHANGED <<process, kernel, sig, h>>

(* FUSE_DESTROY, which the kernel sends for some mounts when they end: the   *)
(* session has no mount point any more, and is as before FUSE_INIT.          *)
do_destroy ==
  /\ d.pc = "loop" /\ d.fd = "dev" /\ Alive /\ ~IsIn("ours", table)
  /\ d.got_init /\ ~d.got_destroy
  /\ d' = [d EXCEPT !.mountpoint = FALSE, !.got_destroy = TRUE, !.got_init = FALSE,
                    !.destroyed = @ + 1]
  /\ NothingFails /\ UNCHANGED <<process, kernel, sig, h>>

(* The loop ends after a signal, when the mount or the connection is gone,   *)
(* or because the descriptor is none.                                        *)
fuse_loop ==
  /\ d.pc = "loop"
  /\ d.exited \/ ~Alive \/ ~IsIn("ours", table) \/ d.fd = "bad"
  /\ \E res \in {0, 8} : Leave("remove", res)
  /\ NothingFails /\ UNCHANGED <<process, kernel, sig, h>>

fuse_remove_signal_handlers == sig' = [instance |-> FALSE, handlers |-> {}]

loop_done ==
  /\ d.pc = "remove" /\ Goto("unmount") /\ fuse_remove_signal_handlers
  /\ NothingFails /\ UNCHANGED <<process, kernel, h>>

Severed == d.fd = "dev" /\ (aborted \/ ~IsIn("ours", table))

(* fuse_kern_unmount polls the device, closes it, and goes on to unmount     *)
(* unless the poll says that the mount or the connection is gone.            *)
fuse_kern_unmount ==
  /\ d' = [d EXCEPT !.pc = IF Severed THEN "destroy" ELSE "umount",
                    !.mountpoint = FALSE, !.fd = "none"]
  /\ dev' = dev \ {"daemon"}

fuse_session_unmount ==
  /\ d.pc = "unmount"
  /\ \/ ~d.mountpoint /\ Goto("destroy") /\ UNCHANGED dev
     \/ d.mountpoint /\ fuse_kern_unmount
  /\ NothingFails /\ UNCHANGED <<process, table, aborted, sock, msg, sig, h>>

(* umount2 or, for an unprivileged daemon, fusermount3 -u on the path. *)
unmount_path ==
  /\ d.pc = "umount" /\ Goto("destroy")
  /\ \/ table' = Umount(table) /\ NothingFails
     \/ /\ g.faults < MaxFaults /\ UNCHANGED table
        /\ g' = [g EXCEPT !.faults = @ + 1, !.stuck = TRUE]
  /\ UNCHANGED <<process, dev, aborted, sock, msg, sig, h>>

DestroyCalls == IF d.got_init /\ ~d.got_destroy THEN 1 ELSE 0

fuse_session_destroy ==
  /\ d.pc = "destroy"
  /\ d' = [d EXCEPT !.pc = "done", !.life = "freed", !.fd = "none",
                    !.destroyed = @ + DestroyCalls]
  /\ dev' = IF d.fd = "dev" THEN dev \ {"daemon"} ELSE dev
  /\ NothingFails /\ UNCHANGED <<process, table, aborted, sock, msg, sig, h>>

(* The end of the process closes what is still open. *)
daemon_exits ==
  /\ d.pc = "done" /\ Goto("exited")
  /\ dev' = dev \ {"daemon"} /\ sock' = sock \ {"daemon"}
  /\ NothingFails /\ UNCHANGED <<process, table, aborted, msg, sig, h>>

daemon_killed ==
  /\ d.pc \notin {"exited", "dead"} /\ Goto("dead")
  /\ dev' = dev \ {"daemon", "flight"} /\ sock' = sock \ {"daemon"}
  /\ NothingFails /\ UNCHANGED <<process, table, aborted, msg, sig, h>>

-----------------------------------------------------------------------------
(* fusermount3: its arguments, the mount point and the socket are looked     *)
(* over; a helper that only cleans up goes on to wait.                       *)
main ==
  /\ h.pc = "start"
  /\ \/ h' = [h EXCEPT !.pc = IF h.only THEN "wait" ELSE "device"] /\ NothingFails
     \/ h' = [h EXCEPT !.pc = "gone"] /\ CallFails
  /\ UNCHANGED <<process, kernel, d, sig>>

(* The device, the configuration and the number of mounts a user may have;   *)
(* then the user's rights on the mount point.                                *)
mount_fuse ==
  /\ h.pc = "device"
  /\ \/ h' = [h EXCEPT !.pc = "perm"] /\ NothingFails
     \/ h' = [h EXCEPT !.pc = "gone"] /\ CallFails
  /\ UNCHANGED <<process, kernel, d, sig>>

check_perm ==
  /\ h.pc = "perm"
  /\ \/ h' = [h EXCEPT !.pc = "mount"] /\ NothingFails
     \/ h' = [h EXCEPT !.pc = "gone"] /\ CallFails
  /\ UNCHANGED <<process, kernel, d, sig>>

do_mount ==
  /\ h.pc = "mount"
  /\ \/ /\ h' = [h EXCEPT !.pc = "mtab"] /\ NothingFails
        /\ table' = <<"ours">> \o table /\ dev' = {"helper"} /\ aborted' = FALSE
     \/ h' = [h EXCEPT !.pc = "gone"] /\ CallFails /\ UNCHANGED <<table, dev, aborted>>
  /\ UNCHANGED <<process, d, sock, msg, sig>>

(* The mtab entry; a failure after the mount is not cleaned up, and the      *)
(* mount stays without a server.                                             *)
add_mount ==
  /\ h.pc = "mtab"
  /\ \/ h' = [h EXCEPT !.pc = "send"] /\ NothingFails /\ UNCHANGED <<table, dev>>
     \/ /\ h' = [h EXCEPT !.pc = "gone"] /\ g.faults < MaxFaults
        /\ g' = [g EXCEPT !.faults = @ + 1, !.left = TRUE]
        /\ table' = Orphan(table) /\ dev' = dev \ {"helper"}
  /\ UNCHANGED <<process, d, aborted, sock, msg, sig>>

(* The device goes over the socket.  A peer that is gone is an error, after  *)
(* which the mount is undone, or SIGPIPE, which ends the helper.             *)
send_fd ==
  /\ h.pc = "send"
  /\ \/ /\ sock # {} /\ h' = [h EXCEPT !.pc = "close"]
        /\ msg' = TRUE /\ dev' = dev \cup {"flight"} /\ UNCHANGED table
        /\ NothingFails
     \/ /\ sock = {} /\ h' = [h EXCEPT !.pc = "gone"]
        /\ dev' = dev \ {"helper"} /\ UNCHANGED msg
        /\ \/ table' = Umount(table) /\ NothingFails
           \/ table' = Orphan(table) /\ g' = [g EXCEPT !.left = TRUE]
  /\ UNCHANGED <<process, d, aborted, sock, sig>>

close_fd_kept ==
  /\ h.pc = "close" /\ UNCHANGED dev
  /\ h' = [h EXCEPT !.pc = IF opt.auto THEN "wait" ELSE "gone"]
  /\ NothingFails /\ UNCHANGED <<process, d, table, aborted, sock, msg, sig>>

close_fd ==
  /\ h.pc = "close" /\ dev' = dev \ {"helper"}
  /\ h' = [h EXCEPT !.pc = IF opt.auto THEN "wait" ELSE "gone"]
  /\ NothingFails /\ UNCHANGED <<process, d, table, aborted, sock, msg, sig>>

(* A helper that stayed to wait ends although nothing was unmounted.         *)
HelperQuits ==
  /\ g.faults < MaxFaults /\ g' = [g EXCEPT !.faults = @ + 1, !.quit = TRUE]
  /\ h' = [h EXCEPT !.pc = "gone"]

NobodyMounted == ~IsIn("ours", table) /\ ~IsIn("orphan", table)

(* wait_for_auto_unmount: the socket has no other end any more, or cannot be *)
(* read; a helper that cannot settle down ends before it waits.              *)
wait_for_auto_unmount ==
  /\ h.pc = "wait"
  /\ \/ /\ sock = {} /\ h' = [h EXCEPT !.pc = "check"]
        /\ g' = [g EXCEPT !.clean = NobodyMounted]
     \/ /\ g.faults < MaxFaults /\ h' = [h EXCEPT !.pc = "check"]
        /\ g' = [g EXCEPT !.faults = @ + 1, !.clean = NobodyMounted]
     \/ HelperQuits
  /\ UNCHANGED <<process, kernel, d, sig>>

(* Something of the right type is still mounted (any type for a helper that  *)
(* only waits); a helper that cannot find out takes it for unmounted.        *)
check_is_mount ==
  \/ table # <<>> /\ h' = [h EXCEPT !.pc = "open"]
  \/ /\ Visible = "none" \/ (Visible = "other" /\ ~h.only)
     /\ h' = [h EXCEPT !.pc = "gone"]

should_auto_unmount ==
  /\ h.pc = "check"
  /\ \/ check_is_mount /\ NothingFails
     \/ HelperQuits
  /\ UNCHANGED <<process, kernel, d, sig>>

(* Opening it says that nobody serves it; any other error, and a second try  *)
(* as the owner that fails, leaves it.                                       *)
NotConnected == (Visible = "ours" /\ ~Alive) \/ Visible = "orphan"

should_auto_unmount_opens ==
  /\ h.pc = "open"
  /\ \/ h' = [h EXCEPT !.pc = IF NotConnected THEN "lazy" ELSE "gone"] /\ NothingFails
     \/ HelperQuits
  /\ UNCHANGED <<process, kernel, d, sig>>

unmount_fuse ==
  /\ h.pc = "lazy"
  /\ \/ /\ table' = Umount(table) /\ NothingFails
        /\ h' = [h EXCEPT !.pc = "gone", !.took = Visible]
     \/ /\ g.faults < MaxFaults /\ UNCHANGED table
        /\ g' = [g EXCEPT !.faults = @ + 1, !.stuck = TRUE]
        /\ h' = [h EXCEPT !.pc = "gone"]
  /\ UNCHANGED <<process, d, dev, aborted, sock, msg, sig>>

-----------------------------------------------------------------------------
(* The administrator unmounts the visible mount or aborts the connection; a  *)
(* free mount point may be used by someone else.                             *)
admin_unmounts ==
  /\ table # <<>> /\ table' = Tail(table)
  /\ NothingFails /\ UNCHANGED <<process, d, dev, aborted, sock, msg, sig, h>>

admin_aborts ==
  /\ IsIn("ours", table) /\ ~aborted /\ aborted' = TRUE
  /\ NothingFails /\ UNCHANGED <<process, d, table, dev, sock, msg, sig, h>>

other_mounts ==
  /\ ~IsIn("ours", table) /\ ~IsIn("orphan", table) /\ g.others < MaxOthers
  /\ table' = <<"other">> \o table /\ g' = [g EXCEPT !.others = @ + 1]
  /\ UNCHANGED <<process, d, dev, aborted, sock, msg, sig, h>>

-----------------------------------------------------------------------------
Init ==
  /\ opt \in Options
  /\ d = [pc |-> "parse", res |-> 0, life |-> "none", fd |-> "none",
          mountpoint |-> FALSE, exited |-> FALSE, got_init |-> FALSE,
          got_destroy |-> FALSE, destroyed |-> 0, attempt |-> 1]
  /\ parent = "none" /\ waiter = FALSE
  /\ sig = [instance |-> FALSE, handlers |-> {}]
  /\ table = (IF opt.fd THEN <<"ours">> ELSE <<>>)
              \o (IF opt.below THEN <<"other">> ELSE <<>>)
  /\ dev = IF opt.fd THEN {"daemon"} ELSE {}
  /\ aborted = FALSE /\ sock = {} /\ msg = FALSE
  /\ h = [pc |-> "none", only |-> FALSE, took |-> "none"]
  /\ g = [faults |-> 0, others |-> 0, stuck |-> FALSE, left |-> FALSE, quit |-> FALSE,
          clean |-> FALSE]

Daemon ==
  \/ fuse_parse_cmdline \/ fuse_session_new \/ fuse_session_mount
  \/ fuse_mount_sys \/ fuse_mount_sys_mtab \/ setup_auto_unmount
  \/ fuse_kern_mount \/ fuse_mount_fusermount \/ receive_fd
  \/ fuse_daemonize_forks \/ fuse_daemonize_detaches \/ parent_exits
  \/ fuse_set_signal_handlers \/ fuse_loop_cfg_create
  \/ fuse_loop \/ loop_done \/ fuse_session_unmount
  \/ unmount_path \/ fuse_session_destroy \/ daemon_exits

Helper ==
  \/ main \/ mount_fuse \/ check_perm \/ do_mount \/ add_mount \/ send_fd \/ close_fd
  \/ wait_for_auto_unmount \/ should_auto_unmount
  \/ should_auto_unmount_opens \/ unmount_fuse

Environment ==
  \/ exit_handler \/ do_init \/ do_destroy \/ daemon_killed
  \/ admin_unmounts \/ admin_aborts \/ other_mounts

Next == Daemon \/ Helper \/ Environment

(* The processes are scheduled; what the world does is not promised. *)
Spec == Init /\ [][Next]_vars /\ WF_vars(Daemon) /\ WF_vars(Helper)

-----------------------------------------------------------------------------
Mounts == {"ours", "orphan", "other"}
DaemonAt == {"parse", "new", "mount", "sys", "mtab", "auto", "eperm", "spawn", "receive",
             "daemonize", "detach", "signals", "config", "loop", "remove", "unmount",
             "umount", "destroy", "done", "exited", "dead"}
HelperAt == {"none", "start", "device", "perm", "mount", "mtab", "send", "close", "wait",
             "check", "open", "lazy", "gone"}

Session == [pc: DaemonAt, res: 0..8, life: {"none", "live", "freed"},
            fd: {"none", "dev", "bad"}, mountpoint: BOOLEAN, exited: BOOLEAN,
            got_init: BOOLEAN, got_destroy: BOOLEAN, destroyed: 0..1, attempt: 1..2]
Fusermount == [pc: HelperAt, only: BOOLEAN, took: Mounts \cup {"none"}]
Memory == [faults: 0..MaxFaults, others: 0..MaxOthers, stuck: BOOLEAN, left: BOOLEAN,
           quit: BOOLEAN, clean: BOOLEAN]

(* Every variable has its type; destroy is called at most once.              *)
TypeOK ==
  /\ opt \in Options /\ d \in Session /\ h \in Fusermount /\ g \in Memory
  /\ parent \in {"none", "waiting", "gone"} /\ waiter \in BOOLEAN
  /\ sig \in [instance: BOOLEAN, handlers: SUBSET {"exit_handler", "do_nothing"}]
  /\ table \in Seq(Mounts)
  /\ dev \subseteq {"daemon", "parent", "helper", "flight"}
  /\ sock \subseteq {"daemon", "parent"}
  /\ aborted \in BOOLEAN /\ msg \in BOOLEAN

(* A daemon that returns from fuse_main_real leaves a mount of its own in    *)
(* three cases only: the last umount failed; the connection was aborted,     *)
(* which fuse_kern_unmount takes for unmounted; or a helper failed after it  *)
(* had mounted (add_mount), in which case the dead mount stays below one     *)
(* that a second attempt made.  A mount on a descriptor the daemon was given *)
(* is not its own.                                                           *)
NothingLeftMounted ==
  d.pc \in {"done", "exited"} /\ ~opt.fd =>
    /\ ~g.stuck /\ ~aborted => ~IsIn("ours", table)
    /\ ~g.left => ~IsIn("orphan", table)

(* A file system that was unmounted before its daemon ended is left to       *)
(* whoever uses the mount point now: the waiting helper unmounts nothing     *)
(* else (should_auto_unmount).                                               *)
HelperSparesOthers == g.clean => h.took # "other"

(* An initialised file system is destroyed exactly once, by the kernel's     *)
(* message or by fuse_session_destroy; one that never got FUSE_INIT is not.  *)
DestroyPaired ==
  d.life = "freed" => d.destroyed = (IF d.got_init \/ d.got_destroy THEN 1 ELSE 0)

(* exit_handler never follows fuse_instance to a freed session, but for the  *)
(* one way out of fuse_main_real that leaves the handlers in place.          *)
HandlerSessionLive == sig.instance /\ d.life = "freed" => d.res = 7

(* The daemon unmounts only after it has closed the device: a mount that     *)
(* asks its server on the way out would wait for the process that unmounts.  *)
ClosedBeforeUnmount == d.pc = "umount" => "daemon" \notin dev

(* The session is created, initialised, destroyed and freed in this order,   *)
(* and fuse_instance is set only while fuse_main_real is between             *)
(* fuse_set_signal_handlers and fuse_remove_signal_handlers, but for the way *)
(* out that forgets the handlers and for a daemon killed in between.         *)
SessionInOrder ==
  /\ d.life = "freed" => d.pc \in {"done", "exited", "dead"}
  /\ d.life # "freed" => d.destroyed = (IF d.got_destroy THEN 1 ELSE 0)
  /\ d.got_destroy =>
       /\ ~d.got_init
       /\ d.pc \in {"loop", "remove", "unmount", "umount", "destroy", "done", "exited", "dead"}
  /\ DestroyPaired
  /\ sig.instance =>
       \/ d.pc \in {"config", "loop", "remove"}
       \/ d.pc = "dead" /\ d.life # "freed"
       \/ d.pc \in {"unmount", "umount", "destroy", "done", "exited", "dead"} /\ d.res = 7

(* Who is where: the daemon before it has a mount, and the helper while it   *)
(* makes one.                                                                *)
Before == {"parse", "new", "mount", "sys", "eperm", "spawn"}
Mounting == {"start", "device", "perm", "mount"}

(* The helper the daemon waits for in receive_fd has done its part, or there *)
(* never was one to wait for.                                                *)
HelperAnswered ==
  d.pc \notin Before \cup {"mtab", "auto"} /\ (d.pc = "receive" => msg)

(* The daemon and its helper in step: one attempt at a time, each with a     *)
(* helper of its own; a helper that mounts is one the daemon waits for (or   *)
(* has died waiting for), the daemon's end of the socket stays open          *)
(* meanwhile, and a helper that stays behind does so after the answer.       *)
HelperInStep ==
  /\ d.pc \in {"sys", "mtab", "auto", "eperm", "spawn", "receive"} => ~opt.fd
  /\ d.pc \in Before \cup {"mtab", "auto"} =>
       h.pc = "none" \/ (d.pc = "spawn" /\ h.pc = "gone")
  /\ d.pc = "receive" => "daemon" \in sock /\ h.pc # "none"
  /\ h.pc \in Mounting \cup {"mtab", "send"} /\ ~h.only =>
       d.pc \in {"receive", "dead"} /\ ~msg /\ ~d.got_destroy
  /\ h.pc \in {"device", "perm", "mount", "mtab", "send", "close"} => ~h.only
  /\ h.only => HelperAnswered /\ d.pc # "receive"
  /\ h.pc \in {"close", "wait", "check", "open", "lazy"} => HelperAnswered
  /\ h.took # "none" => HelperAnswered /\ h.pc = "gone"
  /\ g.clean => HelperAnswered /\ h.pc \in {"check", "open", "gone"} /\ h.took = "none"

OnTop(m, t) == \A i \in 1..Len(t) : t[i] = m => i = 1

(* The daemon's mount: it is the topmost one, is there only after the daemon *)
(* or the helper has made it, is remembered by a daemon that serves it, and  *)
(* outlasts neither a failed attempt nor fuse_session_unmount, unless        *)
(* unmounting failed or the connection was aborted.  Once the helper has     *)
(* seen the mount point without a mount of the daemon, none appears.         *)
MountInStep ==
  /\ OnTop("ours", table)
  /\ d.pc \in Before /\ ~opt.fd => ~IsIn("ours", table)
  /\ h.pc \in Mounting /\ ~h.only => ~IsIn("ours", table)
  /\ d.pc = "receive" /\ h.pc = "gone" /\ ~msg => ~IsIn("ours", table)
  /\ d.pc \in {"daemonize", "detach", "signals", "config", "loop", "remove", "unmount"} =>
       opt.fd \/ d.mountpoint \/ d.got_destroy
  /\ d.pc \in {"destroy", "done", "exited"} /\ ~opt.fd /\ ~g.stuck /\ ~aborted =>
       ~IsIn("ours", table)
  /\ g.clean => ~IsIn("ours", table) /\ ~IsIn("orphan", table)

(* FUSE_DESTROY comes after the mount has gone, which does not come back;    *)
(* and a dead mount is there only when a helper has left one.                *)
EndsKnown ==
  /\ d.got_destroy => ~IsIn("ours", table)
  /\ IsIn("orphan", table) => g.left

(* However fuse_main_real ends, it has undone what it did, in an order that *)
(* works, and nothing that belongs to others: its mount is gone, the file   *)
(* system's destroy was called if its init was, and no signal handler has   *)
(* the freed session; the helper that stays behind unmounts no file system  *)
(* but its own.  Until then daemon, helper and mount point are in step.     *)
DaemonLeavesNothing ==
    /\ TypeOK /\ SessionInOrder /\ HelperInStep /\ MountInStep /\ EndsKnown
    /\ NothingLeftMounted /\ HelperSparesOthers
    /\ DestroyPaired /\ HandlerSessionLive /\ ClosedBeforeUnmount

(* With auto_unmount the mount of a daemon that is gone goes away, however   *)
(* the daemon ended, unless the helper that waits for it cannot find out     *)
(* what is mounted or cannot unmount it.                                     *)
AutoUnmountCleans ==
  (h.pc = "wait" /\ sock = {}) ~> (~IsIn("ours", table) \/ g.stuck \/ g.quit)

(* The process that started the daemon returns to its caller, but for one    *)
(* case: a daemon that ends between the fork and its write to the pipe       *)
(* leaves its parent in read(2), since the parent holds the writing end too. *)
ParentReturns ==
  (parent = "waiting") ~>
     (parent = "gone" \/ (~waiter /\ d.pc \in {"exited", "dead"}))

(* The processes that wait for the daemon get on: the helper of             *)
(* auto_unmount takes the mount of a daemon that is gone down, and the      *)
(* parent of fuse_daemonize returns to its caller.                          *)
PeersFinish ==
    AutoUnmountCleans /\ ParentReturns
=============================================================================
