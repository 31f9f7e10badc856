------------------------------ MODULE FusePoll ------------------------------
(***************************************************************************)
(* poll, from the kernel's FUSE_POLL through do_poll of fuse_lowlevel.c    *)
(* and fuse_lib_poll of fuse.c to a filesystem that notifies pollers: the  *)
(* program poll.c, whose producer thread fills its files and wakes who     *)
(* waits for one.  The program runs in the foreground (-f): its producer   *)
(* is started before fuse_main and would not survive fuse_daemonize.       *)
(***************************************************************************)
EXTENDS Integers, FiniteSets

CONSTANTS
    FSEL_FILES, FSEL_CNT_MAX,
    FselOpened,     \* the files that are opened with -s, and without
    FselClients,    \* programs that open, poll and read
    FselModes,      \* whether the loop is single-threaded (-s)
    FselFaults      \* per client: bound on its polls that fail for want of memory

ASSUME FselAssumption ==
    /\ FSEL_FILES \in Nat \ {0} /\ FSEL_FILES % 4 = 0 /\ FSEL_CNT_MAX \in Nat \ {0}
    /\ FselOpened \in [BOOLEAN -> SUBSET (0..(FSEL_FILES - 1))]
    /\ FselModes \subseteq BOOLEAN /\ FselFaults \in [FselClients -> Nat]
    /\ "NULL" \notin FselClients

FselFiles == 0..(FSEL_FILES - 1)

VARIABLES
    fsel_open_mask,         \* files marked open
    fsel_cnt,               \* bytes in each file
    fsel_poll_notify_mask,  \* files whose poller wants to know
    fsel_poll_handle,       \* per file: the client whose handle is stored, or "NULL"
    handles,                \* per client: poll handles allocated and not freed
    leaked,                 \* per client: of these, the ones nobody knows any more
    producer,               \* idx and nr of fsel_producer, and whether it stopped
    client,                 \* per client: its request or state, its file, the mask it read
    serial,                 \* the loop is single-threaded
    shared                  \* clients that had their file open together with another

fselVars == <<fsel_open_mask, fsel_cnt, fsel_poll_notify_mask, fsel_poll_handle, handles,
              leaked, producer, client, serial, shared>>

NoFile == [at |-> "closed", file |-> 0, mask |-> {}]

FselInit ==
    /\ fsel_open_mask = {} /\ fsel_cnt = [f \in FselFiles |-> 0]
    /\ fsel_poll_notify_mask = {} /\ fsel_poll_handle = [f \in FselFiles |-> "NULL"]
    /\ handles = [c \in FselClients |-> 0] /\ leaked = [c \in FselClients |-> 0]
    /\ producer = [idx |-> 0, nr |-> 1, stop |-> FALSE]
    /\ client = [c \in FselClients |-> NoFile]
    /\ serial \in FselModes /\ shared = {}

(* A request begins; with -s only when no other is being handled.           *)
InRequest == {c \in FselClients : client[c].at \in {"opening", "releasing", "polling"}}
Begins(c) == serial => InRequest = {}

(* Clients whose open has been answered and whose release has not.          *)
Opened == {c \in FselClients : client[c].at \in {"open", "polling", "waiting", "releasing"}}
Sharers(f) == {c \in Opened : client[c].file = f}
-----------------------------------------------------------------------------

(* fsel_open_mask has no lock: it is read, and written in another step,     *)
(* from what was read or from what is there then.                           *)
fsel_open(c, f) ==
    /\ client[c].at = "closed" /\ ~producer.stop /\ Begins(c)
    /\ f \notin fsel_open_mask              \* else -EBUSY
    /\ client' = [client EXCEPT ![c] = [at |-> "opening", file |-> f, mask |-> fsel_open_mask]]
    /\ UNCHANGED <<fsel_open_mask, fsel_cnt, fsel_poll_notify_mask, fsel_poll_handle, handles,
                   leaked, producer, serial, shared>>
fsel_open_sets(c) ==
    /\ client[c].at = "opening"
    /\ \E mask \in {client[c].mask, fsel_open_mask} :
          fsel_open_mask' = mask \cup {client[c].file}
    /\ client' = [client EXCEPT ![c].at = "open", ![c].mask = {}]
    /\ shared' = IF Sharers(client[c].file) = {} THEN shared
                 ELSE shared \cup Sharers(client[c].file) \cup {c}
    /\ UNCHANGED <<fsel_cnt, fsel_poll_notify_mask, fsel_poll_handle, handles, leaked,
                   producer, serial>>

fsel_release(c) ==
    /\ client[c].at = "open" /\ Begins(c)
    /\ client' = [client EXCEPT ![c].at = "releasing", ![c].mask = fsel_open_mask]
    /\ UNCHANGED <<fsel_open_mask, fsel_cnt, fsel_poll_notify_mask, fsel_poll_handle, handles,
                   leaked, producer, serial, shared>>
fsel_release_clears(c) ==
    /\ client[c].at = "releasing"
    /\ \E mask \in {client[c].mask, fsel_open_mask} :
          fsel_open_mask' = mask \ {client[c].file}
    /\ client' = [client EXCEPT ![c] = NoFile] /\ shared' = shared \ {c}
    /\ UNCHANGED <<fsel_cnt, fsel_poll_notify_mask, fsel_poll_handle, handles, leaked,
                   producer, serial>>

(* Under fsel_mutex.                                                        *)
fsel_read(c) ==
    /\ client[c].at = "open" /\ Begins(c)
    /\ \E size \in 1..FSEL_CNT_MAX :
          fsel_cnt' = [fsel_cnt EXCEPT ![client[c].file] = IF @ < size THEN 0 ELSE @ - size]
    /\ UNCHANGED <<fsel_open_mask, fsel_poll_notify_mask, fsel_poll_handle, handles, leaked,
                   producer, client, serial, shared>>
-----------------------------------------------------------------------------
(* A handle is allocated for a poller that is going to wait; without memory *)
(* for it poll fails with ENOMEM, which changes nothing.                    *)
do_poll(c) ==
    /\ client[c].at = "open" /\ Begins(c)
    /\ handles' = [handles EXCEPT ![c] = @ + 1]
    /\ client' = [client EXCEPT ![c].at = "polling"]
    /\ UNCHANGED <<fsel_open_mask, fsel_cnt, fsel_poll_notify_mask, fsel_poll_handle, leaked,
                   producer, serial, shared>>

(* Without memory for the path fuse_lib_poll answers the error; the handle  *)
(* has not reached the filesystem, and nobody frees it.                     *)
fuse_lib_poll_fails(c) ==
    /\ client[c].at = "polling" /\ leaked[c] < FselFaults[c]
    /\ leaked' = [leaked EXCEPT ![c] = @ + 1]
    /\ client' = [client EXCEPT ![c].at = "open"]
    /\ UNCHANGED <<fsel_open_mask, fsel_cnt, fsel_poll_notify_mask, fsel_poll_handle, handles,
                   producer, serial, shared>>

(* fuse_pollhandle_destroy.                                                 *)
Freed(owner) == IF owner = "NULL" THEN handles ELSE [handles EXCEPT ![owner] = @ - 1]

(* Mutant: only a poller that has something to read is remembered.          *)
fsel_poll_inverted(c) ==
    LET f == client[c].file
    IN  /\ client[c].at = "polling"
        /\ handles' = Freed(IF fsel_cnt[f] > 0 THEN fsel_poll_handle[f] ELSE c)
        /\ fsel_poll_notify_mask' = fsel_poll_notify_mask \cup {g \in {f} : fsel_cnt[f] > 0}
        /\ fsel_poll_handle' = [fsel_poll_handle EXCEPT ![f] = IF fsel_cnt[f] > 0 THEN c ELSE @]
        /\ client' = [client EXCEPT ![c].at = IF fsel_cnt[f] > 0 THEN "open" ELSE "waiting"]
        /\ UNCHANGED <<fsel_open_mask, fsel_cnt, leaked, producer, serial, shared>>

(* Under fsel_mutex: the handle takes the place of the last one, and the    *)
(* answer says whether there is something to read.  The kernel lets the     *)
(* poller wait if there is not.                                             *)
fsel_poll(c) ==
    LET f == client[c].file
    IN  /\ client[c].at = "polling"
        /\ handles' = Freed(fsel_poll_handle[f])
        /\ fsel_poll_notify_mask' = fsel_poll_notify_mask \cup {f}
        /\ fsel_poll_handle' = [fsel_poll_handle EXCEPT ![f] = c]
        /\ client' = [client EXCEPT ![c].at = IF fsel_cnt[f] > 0 THEN "open" ELSE "waiting"]
        /\ UNCHANGED <<fsel_open_mask, fsel_cnt, leaked, producer, serial, shared>>

(* fuse_lowlevel_notify_poll: FUSE_NOTIFY_POLL wakes who waits on the file  *)
(* that the handle is for; the handle of a file since closed wakes nobody.  *)
Woken(told) ==
    [c \in FselClients |->
        IF client[c].at = "waiting" /\ client[c].file \in told
           /\ fsel_poll_handle[client[c].file] = c
        THEN [client[c] EXCEPT !.at = "open"] ELSE client[c]]

(* Mutant: the round always begins with the first file.                     *)
fsel_producer_advances_not == producer

(* 1, 2 or 4 files a round, beginning with each file in turn.               *)
fsel_producer_advances ==
    LET next == (producer.idx + 1) % FSEL_FILES
    IN  [producer EXCEPT !.idx = next, !.nr = IF next = 0 THEN (@ * 2) % 7 ELSE @]

(* One round, under fsel_mutex.                                             *)
fsel_producer ==
    LET round == {(producer.idx + i * (FSEL_FILES \div producer.nr)) % FSEL_FILES :
                     i \in 0..(producer.nr - 1)}
        filled == {t \in round : fsel_cnt[t] # FSEL_CNT_MAX}
        told == filled \cap fsel_poll_notify_mask
    IN  /\ ~producer.stop
        /\ fsel_cnt' = [t \in FselFiles |-> IF t \in filled THEN fsel_cnt[t] + 1 ELSE fsel_cnt[t]]
        /\ handles' = [c \in FselClients |->
                          handles[c] - Cardinality({t \in told : fsel_poll_handle[t] = c})]
        /\ client' = Woken(told)
        /\ fsel_poll_notify_mask' = fsel_poll_notify_mask \ told
        /\ fsel_poll_handle' = [t \in FselFiles |-> IF t \in told THEN "NULL" ELSE fsel_poll_handle[t]]
        /\ producer' = fsel_producer_advances
        /\ UNCHANGED <<fsel_open_mask, leaked, serial, shared>>

(* Unmounted: no file is open any more.                                     *)
fsel_destroy ==
    /\ \A c \in FselClients : client[c].at = "closed"
    /\ ~producer.stop /\ producer' = [producer EXCEPT !.stop = TRUE]
    /\ UNCHANGED <<fsel_open_mask, fsel_cnt, fsel_poll_notify_mask, fsel_poll_handle, handles,
                   leaked, client, serial, shared>>

FselNext ==
    \/ \E c \in FselClients :
          \/ \E f \in FselOpened[serial] : fsel_open(c, f)
          \/ fsel_open_sets(c) \/ fsel_release(c) \/ fsel_release_clears(c)
          \/ fsel_read(c) \/ do_poll(c) \/ fuse_lib_poll_fails(c) \/ fsel_poll(c)
    \/ fsel_producer \/ fsel_destroy
-----------------------------------------------------------------------------
FselSpec == FselInit /\ [][FselNext]_fselVars

FselStates ==
    [at : {"closed", "opening", "open", "polling", "waiting", "releasing"},
     file : FselFiles, mask : SUBSET FselFiles]

FselTypeOK ==
    /\ fsel_open_mask \subseteq FselFiles /\ fsel_cnt \in [FselFiles -> 0..FSEL_CNT_MAX]
    /\ fsel_poll_handle \in [FselFiles -> FselClients \cup {"NULL"}]
    /\ handles \in [FselClients -> Nat] /\ leaked \in [FselClients -> Nat]
    /\ producer \in [idx : FselFiles, nr : {1, 2, 4}, stop : BOOLEAN]
    /\ client \in [FselClients -> FselStates]
    /\ serial \in FselModes /\ shared \subseteq FselClients

(* No poll handle of do_poll is freed twice, and none gets lost but those   *)
(* of polls that fail before poll.c sees them: at any time the handles that *)
(* exist are the ones stored per file, the one each poll in progress brings *)
(* along, and the leaked ones.  A file has one exactly when its bit of      *)
(* fsel_poll_notify_mask is set.  Threads or not: fsel_mutex is held.       *)
PollHandlesOwned ==
    /\ \A c \in FselClients :
          handles[c] = Cardinality({f \in FselFiles : fsel_poll_handle[f] = c})
                       + (IF client[c].at = "polling" THEN 1 ELSE 0) + leaked[c]
    /\ fsel_poll_notify_mask = {f \in FselFiles : fsel_poll_handle[f] # "NULL"}

(* No wakeup is lost between poll's look at the file and its wait: whoever  *)
(* waits has its handle stored, and the file has stayed empty.  Clients     *)
(* that had a file open together share the place of one handle, and the     *)
(* poll of one takes it from the other.                                     *)
WaitersRegistered ==
    \A c \in FselClients \ shared : client[c].at = "waiting" =>
        fsel_poll_handle[client[c].file] = c /\ fsel_cnt[client[c].file] = 0

(* Whoever waits in poll, on a file that it had for itself, is woken: the   *)
(* producer comes to every file.                                            *)
PollersWoken ==
    \A c \in FselClients :
        (client[c].at = "waiting" /\ c \notin shared)
            ~> (client[c].at # "waiting" \/ c \in shared)

(* What poll.c says of fsel_open_mask, which has no lock, holds with -s:    *)
(* one open per file, and the mask has the files that are open.  What an    *)
(* open or a release has read is then still there when it writes.           *)
OneOpenPerFile ==
    /\ shared = {}
    /\ fsel_open_mask = {client[c].file : c \in Opened}
    /\ \A c, d \in InRequest : c = d
    /\ \A c \in FselClients :
          /\ client[c].at \in {"opening", "releasing"} => client[c].mask = fsel_open_mask
          /\ client[c].at = "opening" => client[c].file \notin fsel_open_mask

(* shared has every client that has a file open together with another.     *)
SharersNoted ==
    \A c, d \in Opened : c # d /\ client[c].file = client[d].file => c \in shared /\ d \in shared

(* Every poll handle has one owner, but for the leaked ones; a client that  *)
(* waits on a file of its own has its handle where the producer will find   *)
(* it; and with -s every file is its client's own.                          *)
PollHandlesSound ==
    /\ FselTypeOK /\ PollHandlesOwned /\ SharersNoted /\ WaitersRegistered
    /\ serial => OneOpenPerFile
=============================================================================
