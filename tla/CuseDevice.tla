----------------------------- MODULE CuseDevice -----------------------------
(***************************************************************************)
(* The character-device side of the library (cuse_lowlevel.c): the set-up  *)
(* of a CUSE session with the failure of any of its steps, CUSE_INIT,      *)
(* which answers before it calls init_done, the requests that other        *)
(* workers handle meanwhile, and the tear-down.  The parent process of     *)
(* fuse_daemonize is in FuseMount.                                         *)
(***************************************************************************)
EXTENDS Integers, FiniteSets

CONSTANTS CuseWorkers, CuseFaults, MaxCuseOps

ASSUME CuseAssumption == CuseFaults \in Nat /\ MaxCuseOps \in Nat

VARIABLES
    cmain,       \* position of cuse_lowlevel_main
    cheld,       \* what the process holds
    cfaults,     \* steps that may still fail
    cdev,        \* the kernel: "none", "init" (CUSE_INIT sent), "ready", "gone"
    csess,       \* got_init, exited
    cwork,       \* per worker: what it does
    ccalls,      \* calls of init, init_done and destroy, made and returned
    cops         \* operations asked for so far

cuseVars == <<cmain, cheld, cfaults, cdev, csess, cwork, ccalls, cops>>

CuseInit ==
    /\ cmain = "start" /\ cheld = {} /\ cfaults = CuseFaults /\ cdev = "none"
    /\ csess = [got_init |-> FALSE, exited |-> FALSE]
    /\ cwork = [w \in CuseWorkers |-> "none"]
    /\ ccalls = [init |-> 0, inited |-> 0, init_done |-> 0, destroy |-> 0]
    /\ cops = 0

(* A step of the set-up: it succeeds and holds more, or fails and goes on   *)
(* with the clean-up.                                                       *)
Step(from, to, gains, cleanup) ==
    /\ cmain = from
    /\ \/ cmain' = to /\ cheld' = cheld \cup gains /\ UNCHANGED cfaults
       \/ cmain' = cleanup /\ cfaults > 0 /\ cfaults' = cfaults - 1 /\ UNCHANGED cheld
    /\ UNCHANGED <<cdev, csess, cwork, ccalls, cops>>

(* fuse_parse_cmdline, whose failure returns at once, and the option        *)
(* subtype= that it added.                                                  *)
cuse_parses ==
    /\ cmain = "start" /\ cheld' = {"args", "mountpoint"}
    /\ \/ cmain' = "subtype" /\ UNCHANGED cfaults
       \/ cmain' = "refused" /\ cfaults > 0 /\ cfaults' = cfaults - 1
    /\ UNCHANGED <<cdev, csess, cwork, ccalls, cops>>
cuse_kill_subtype == Step("subtype", "new", {}, "out1")
(* cuse_prep_data and fuse_session_new; cuse_data is freed when the second  *)
(* fails.                                                                   *)
cuse_lowlevel_new == Step("new", "open", {"session", "data"}, "out1")
cuse_opens == Step("open", "signals", {"fd"}, "err_se")
cuse_signals == Step("signals", "daemonize", {"handlers"}, "err_se")
cuse_daemonizes == Step("daemonize", "looping", {}, "err_sig")

(* What fuse_session_destroy releases: se->cuse_data and se->fd with the    *)
(* session.                                                                 *)
fuse_session_destroy_cuse == {"session", "data", "fd"}

err_sig ==
    /\ cmain = "err_sig" /\ cmain' = "err_se" /\ cheld' = cheld \ {"handlers"}
    /\ UNCHANGED <<cfaults, cdev, csess, cwork, ccalls, cops>>
err_se ==
    /\ cmain = "err_se" /\ cmain' = "out1" /\ cheld' = cheld \ fuse_session_destroy_cuse
    /\ UNCHANGED <<cfaults, cdev, csess, cwork, ccalls, cops>>
out1 ==
    /\ cmain = "out1" /\ cmain' = "failed" /\ cheld' = cheld \ {"mountpoint", "args"}
    /\ UNCHANGED <<cfaults, cdev, csess, cwork, ccalls, cops>>

(* The set-up is done and the loop begins; the kernel has sent CUSE_INIT    *)
(* when /dev/cuse was opened.                                               *)
cuse_loop ==
    /\ cmain = "looping" /\ cdev = "none"
    /\ cdev' = "init" /\ cheld' = cheld \ {"args"}
    /\ UNCHANGED <<cmain, cfaults, csess, cwork, ccalls, cops>>
-----------------------------------------------------------------------------
CanReceive(w) == cmain = "looping" /\ ~csess.exited /\ cwork[w] = "none"

(* CUSE_INIT of an old kernel is refused, and the device is gone.           *)
cuse_lowlevel_init_old(w) ==
    /\ CanReceive(w) /\ cdev = "init" /\ ~csess.got_init /\ ccalls.init = 0
    /\ cdev' = "gone"
    /\ UNCHANGED <<cmain, cheld, cfaults, csess, cwork, ccalls, cops>>

(* Mutant: the answer goes out before the handler is called.                *)
cuse_lowlevel_init_early(w) ==
    /\ CanReceive(w) /\ cdev = "init" /\ ccalls.init = 0
    /\ csess' = [csess EXCEPT !.got_init = TRUE]
    /\ ccalls' = [ccalls EXCEPT !.init = @ + 1]
    /\ cwork' = [cwork EXCEPT ![w] = "init"] /\ cdev' = "ready"
    /\ UNCHANGED <<cmain, cheld, cfaults, cops>>

cuse_lowlevel_init(w) ==
    /\ CanReceive(w) /\ cdev = "init" /\ ccalls.init = 0
    /\ csess' = [csess EXCEPT !.got_init = TRUE]
    /\ ccalls' = [ccalls EXCEPT !.init = @ + 1]
    /\ cwork' = [cwork EXCEPT ![w] = "init"]
    /\ UNCHANGED <<cmain, cheld, cfaults, cdev, cops>>

(* init has returned: the answer (which may fail, and is not looked at).    *)
cuse_reply_init(w) ==
    /\ cwork[w] = "init"
    /\ ccalls' = [ccalls EXCEPT !.inited = @ + 1]
    /\ cwork' = [cwork EXCEPT ![w] = "replied"]
    /\ \/ cdev' = (IF cdev = "init" THEN "ready" ELSE cdev) /\ UNCHANGED cfaults
       \/ cfaults > 0 /\ cfaults' = cfaults - 1 /\ cdev' = "gone"
    /\ UNCHANGED <<cmain, cheld, csess, cops>>
cuse_init_done(w) ==
    /\ cwork[w] = "replied"
    /\ ccalls' = [ccalls EXCEPT !.init_done = @ + 1]
    /\ cwork' = [cwork EXCEPT ![w] = "none"]
    /\ UNCHANGED <<cmain, cheld, cfaults, cdev, csess, cops>>

(* cuse_fll_open and its kin hand an operation to the program.              *)
cuse_fll(w) ==
    /\ CanReceive(w) /\ cdev = "ready" /\ cops < MaxCuseOps
    /\ cops' = cops + 1 /\ cwork' = [cwork EXCEPT ![w] = "op"]
    /\ UNCHANGED <<cmain, cheld, cfaults, cdev, csess, ccalls>>
cuse_fll_ends(w) ==
    /\ cwork[w] = "op" /\ cwork' = [cwork EXCEPT ![w] = "none"]
    /\ UNCHANGED <<cmain, cheld, cfaults, cdev, csess, ccalls, cops>>

(* A signal, or the device is gone (ENODEV).                                *)
cuse_exits ==
    /\ cmain = "looping" /\ cdev # "none" /\ ~csess.exited
    /\ csess' = [csess EXCEPT !.exited = TRUE]
    /\ UNCHANGED <<cmain, cheld, cfaults, cdev, cwork, ccalls, cops>>
(* The loop has joined its workers: cuse_lowlevel_teardown, in which        *)
(* fuse_session_destroy calls destroy if init was called.                   *)
cuse_lowlevel_teardown ==
    /\ cmain = "looping" /\ csess.exited /\ \A w \in CuseWorkers : cwork[w] = "none"
    /\ cmain' = "done" /\ cdev' = "gone"
    /\ cheld' = cheld \ ({"handlers"} \cup fuse_session_destroy_cuse)
    /\ ccalls' = [ccalls EXCEPT !.destroy = @ + (IF csess.got_init THEN 1 ELSE 0)]
    /\ UNCHANGED <<cfaults, csess, cwork, cops>>

CuseNext ==
    \/ cuse_parses \/ cuse_kill_subtype \/ cuse_lowlevel_new \/ cuse_opens \/ cuse_signals
    \/ cuse_daemonizes \/ err_sig \/ err_se \/ out1 \/ cuse_loop
    \/ cuse_exits \/ cuse_lowlevel_teardown
    \/ \E w \in CuseWorkers :
          \/ cuse_lowlevel_init_old(w) \/ cuse_lowlevel_init(w) \/ cuse_reply_init(w)
          \/ cuse_init_done(w) \/ cuse_fll(w) \/ cuse_fll_ends(w)
-----------------------------------------------------------------------------
CuseSpec == CuseInit /\ [][CuseNext]_cuseVars

Acquired == {"args", "mountpoint", "session", "data", "fd", "handlers"}

CusePositions ==
    {"start", "refused", "subtype", "new", "open", "signals", "daemonize", "looping",
     "err_sig", "err_se", "out1", "failed", "done"}

CuseTypeOK ==
    /\ cmain \in CusePositions /\ cheld \subseteq Acquired /\ cfaults \in Nat
    /\ cdev \in {"none", "init", "ready", "gone"}
    /\ csess \in [got_init : BOOLEAN, exited : BOOLEAN]
    /\ cwork \in [CuseWorkers -> {"none", "init", "replied", "op"}]
    /\ ccalls \in [init : Nat, inited : Nat, init_done : Nat, destroy : Nat] /\ cops \in Nat

(* Whichever step of the set-up failed, and however the loop ended, nothing *)
(* is held when cuse_lowlevel_main returns, and no signal handler is left   *)
(* that would use the freed session; only opts.mountpoint is kept when the  *)
(* set-up succeeded, and what fuse_parse_cmdline allocated when it failed.  *)
(* On the way each label of the clean-up finds what it releases and what    *)
(* the labels after it do, and nothing else.                                *)
CuseReleased ==
    /\ cmain = "done" => cheld \subseteq {"mountpoint"}
    /\ cmain = "failed" => cheld = {}
    /\ cmain \in {"subtype", "new", "out1"} => cheld \subseteq {"args", "mountpoint"}
    /\ cmain \in {"open", "signals", "err_se"} => "handlers" \notin cheld
    /\ csess.exited \/ csess.got_init => cdev # "none"
    /\ cdev # "none" => cmain \in {"looping", "done"} /\ "args" \notin cheld

(* Workers that are in cuse_lowlevel_init.                                  *)
Initialising == {w \in CuseWorkers : cwork[w] \in {"init", "replied"}}

(* No operation reaches the program before its init has returned, even from *)
(* another worker; one worker at a time is in cuse_lowlevel_init, once; and *)
(* destroy is called once exactly if init was, when no operation and no     *)
(* init_done is running.                                                    *)
CuseOrdered ==
    /\ cdev = "ready" \/ (\E w \in CuseWorkers : cwork[w] = "op") => ccalls.inited = 1
    /\ ccalls.init = IF csess.got_init THEN 1 ELSE 0
    /\ \A v, w \in Initialising : v = w
    /\ \A w \in Initialising :
          ccalls.init = 1 /\ ccalls.inited = (IF cwork[w] = "init" THEN 0 ELSE 1) /\ ccalls.init_done = 0
    /\ Initialising = {} => ccalls.inited = ccalls.init /\ ccalls.init_done = ccalls.init
    /\ cmain # "looping" => \A w \in CuseWorkers : cwork[w] = "none"
    /\ ccalls.destroy = IF cmain = "done" THEN ccalls.init ELSE 0

(* Every call of the program comes between its init and its destroy, and    *)
(* the end releases what the set-up acquired.                               *)
CuseSound ==
    CuseTypeOK /\ CuseReleased /\ CuseOrdered
=============================================================================
