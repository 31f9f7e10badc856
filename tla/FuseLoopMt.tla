----------------------------- MODULE FuseLoopMt -----------------------------
(***************************************************************************)
(* The multi-threaded session loop (lib/fuse_loop_mt.c): the main thread,  *)
(* which starts the first worker, waits for the end of the session and     *)
(* joins the workers; the workers, which read requests, start another      *)
(* worker when none is left to read, and end when there are too many; and  *)
(* the channels that the workers and their requests share.                 *)
(*                                                                         *)
(* A step is one critical section of mt->lock, or one call that blocks.    *)
(* The kernel is external: it sends requests and closes the connection.    *)
(* The handlers are external: they answer a request sooner or later,       *)
(* before or after they return, and they may end the session.              *)
(***************************************************************************)
EXTENDS Integers, FiniteSets

CONSTANTS
    Workers,      \* the worker structures
    NoWorker,
    Chans,        \* the channels fuse_clone_chan can make
    NoChan,       \* a worker that reads from the session's own descriptor
    MaxThreads,   \* config->max_threads
    MaxIdle,      \* config->max_idle_threads, -1 for no limit
    CloneFd,      \* config->clone_fd
    StartFails,   \* creating a thread, a channel or a request may fail
    Signals,      \* a signal with a handler of fuse_signals.c may arrive
    MaxInflight   \* bound on the unanswered requests of a channel

ASSUME WorkersAssumption ==
    IsFiniteSet(Workers) /\ NoWorker \notin Workers /\ NoChan \notin Chans
ASSUME ConfigAssumption ==
    /\ MaxThreads \in Nat /\ MaxIdle \in Nat \cup {-1} /\ MaxInflight \in Nat
    /\ CloneFd \in BOOLEAN /\ StartFails \in BOOLEAN /\ Signals \in BOOLEAN

VARIABLES
    pc,           \* per worker: where its thread is
    forget,       \* the workers whose request is a forget
    ch,           \* per worker: its channel
    list,         \* mt->main: the workers of the list
    numworker, numavail, exit, error, clone_fd, finish,   \* struct fuse_mt
    exited, se_error,             \* struct fuse_session
    cancelled,    \* the threads that pthread_cancel was called on
    main, joining,                \* the main thread and whom it joins
    ctr, inflight,                \* per channel: references, open requests
    quitter       \* a worker thread has ended the session

mt == <<list, numworker, numavail, exit, clone_fd>>
session == <<exited, se_error, error, quitter>>
chans == <<ctr, inflight>>
mainvars == <<main, joining, finish, cancelled>>
vars == <<pc, forget, ch, mt, session, chans, mainvars>>

Goto(w, l) == pc' = [pc EXCEPT ![w] = l]

-----------------------------------------------------------------------------
(* Channels.                                                                *)

fuse_chan_put(c) ==
    ctr' = IF c = NoChan THEN ctr ELSE [ctr EXCEPT ![c] = @ - 1]

(* The channel of a new worker; after a failure no other is cloned.         *)
fuse_clone_chan(c) ==
    \/ ~clone_fd /\ c = NoChan /\ UNCHANGED <<ctr, clone_fd>>
    \/ /\ clone_fd /\ c \in Chans /\ ctr[c] = 0
       /\ ctr' = [ctr EXCEPT ![c] = 1]
       /\ UNCHANGED clone_fd
    \/ /\ clone_fd /\ c = NoChan
       /\ StartFails \/ \A d \in Chans : ctr[d] > 0
       /\ clone_fd' = FALSE
       /\ UNCHANGED ctr

-----------------------------------------------------------------------------
(* Workers.                                                                 *)

(* Called under mt->lock with numavail at avail; the other threads are at   *)
(* the labels of at.  Having no worker left is a bound: the call waits.     *)
fuse_loop_start_thread(at, avail) ==
    \/ \E w \in Workers : \E c \in Chans \cup {NoChan} :
          /\ at[w] = "none"
          /\ fuse_clone_chan(c)
          /\ pc' = [at EXCEPT ![w] = "loop"]
          /\ ch' = [ch EXCEPT ![w] = c]
          /\ list' = list \cup {w}
          /\ numavail' = avail + 1
          /\ numworker' = numworker + 1
    \/ /\ StartFails
       /\ pc' = at
       /\ numavail' = avail
       /\ \/ UNCHANGED clone_fd
          \/ clone_fd /\ clone_fd' = FALSE
       /\ UNCHANGED <<ch, list, numworker, ctr>>

(* fuse_do_work: the loop condition; cancellation is enabled for the read.  *)
loop(w) ==
    /\ pc[w] = "loop"
    /\ Goto(w, IF exited THEN "post" ELSE "receive")
    /\ UNCHANGED <<forget, ch, mt, session, chans, mainvars>>

(* fuse_session_receive_buf_internal returns: a request, if the session has *)
(* not ended meanwhile.                                                     *)
receive(w) ==
    /\ pc[w] = "receive"
    /\ IF exited
       THEN Goto(w, "post") /\ UNCHANGED forget
       ELSE /\ Goto(w, "received")
            /\ forget' \in {forget, forget \cup {w}}
    /\ UNCHANGED <<ch, mt, session, chans, mainvars>>

(* -EINTR.                                                                  *)
receive_interrupted(w) ==
    /\ pc[w] = "receive"
    /\ Goto(w, IF exited THEN "post" ELSE "loop")
    /\ UNCHANGED <<forget, ch, mt, session, chans, mainvars>>

(* ENODEV: the file system was unmounted; another error, of the device or   *)
(* for want of a buffer, also ends the session and is the loop's result.    *)
receive_fails(w) ==
    /\ pc[w] = "receive"
    /\ error' \in {error, "errno"}
    /\ exited' = TRUE /\ quitter' = TRUE
    /\ Goto(w, "post")
    /\ UNCHANGED <<forget, ch, mt, se_error, chans, mainvars>>

(* A cancelled thread ends in its read.                                     *)
receive_cancelled(w) ==
    /\ pc[w] = "receive" /\ w \in cancelled
    /\ Goto(w, "done")
    /\ UNCHANGED <<forget, ch, mt, session, chans, mainvars>>

(* The worker takes its request: it leaves the available ones, and when no  *)
(* other is left it starts one.  A forget does not count.                   *)
take_request(w) ==
    LET avail == IF w \in forget THEN numavail ELSE numavail - 1
    IN  /\ pc[w] = "received"
        /\ IF exit
           THEN /\ Goto(w, "done")
                /\ UNCHANGED <<ch, list, numworker, numavail, clone_fd, ctr>>
           ELSE IF avail = 0 /\ numworker < MaxThreads
           THEN fuse_loop_start_thread([pc EXCEPT ![w] = "process"], avail)
           ELSE /\ Goto(w, "process")
                /\ numavail' = avail
                /\ UNCHANGED <<ch, list, numworker, clone_fd, ctr>>
        /\ UNCHANGED <<forget, exit, session, inflight, mainvars>>

(* fuse_session_process_buf_internal: the request holds the channel until   *)
(* it is answered; without memory for it, there is none.                    *)
process(w) ==
    /\ pc[w] = "process"
    /\ \/ ch[w] = NoChan /\ Goto(w, "handler") /\ UNCHANGED chans
       \/ /\ ch[w] # NoChan /\ inflight[ch[w]] < MaxInflight
          /\ inflight' = [inflight EXCEPT ![ch[w]] = @ + 1]
          /\ ctr' = [ctr EXCEPT ![ch[w]] = @ + 1]
          /\ Goto(w, "handler")
       \/ StartFails /\ Goto(w, "processed") /\ UNCHANGED chans
    /\ UNCHANGED <<forget, ch, mt, session, mainvars>>

(* The handler calls fuse_session_exit.                                     *)
fuse_session_exit(w) ==
    /\ pc[w] = "handler" /\ ~exited
    /\ exited' = TRUE /\ quitter' = TRUE
    /\ UNCHANGED <<pc, forget, ch, mt, se_error, error, chans, mainvars>>

(* The handler returns; its request may have been answered or not.          *)
handler_returns(w) ==
    /\ pc[w] = "handler"
    /\ Goto(w, "processed")
    /\ UNCHANGED <<forget, ch, mt, session, chans, mainvars>>

(* A request of channel c is answered and freed.                            *)
reply(c) ==
    /\ inflight[c] > 0
    /\ inflight' = [inflight EXCEPT ![c] = @ - 1]
    /\ fuse_chan_put(c)
    /\ UNCHANGED <<pc, forget, ch, mt, session, mainvars>>

(* Mutant: a forget, too, is given back to numavail.                        *)
Avail_forget(w) == numavail + 1

(* numavail after the request.                                              *)
Avail(w) == IF w \in forget THEN numavail ELSE numavail + 1

(* Mutant: the limit is off by one.                                         *)
Surplus_at_limit(w) == MaxIdle # -1 /\ Avail(w) >= MaxIdle /\ numworker > 1

(* The worker is one too many.                                              *)
Surplus(w) == MaxIdle # -1 /\ Avail(w) > MaxIdle /\ numworker > 1

(* Mutant: a worker ends while the main thread joins.                       *)
Ends_unchecked(w) == Surplus(w)

(* It ends, unless the main thread is going to join it.                     *)
Ends(w) == Surplus(w) /\ ~exit

(* The request is processed: the worker is available again, or leaves.      *)
finish_request(w) ==
    /\ pc[w] = "processed"
    /\ forget' = forget \ {w}
    /\ IF Ends(w)
       THEN /\ list' = list \ {w}
            /\ numavail' = Avail(w) - 1
            /\ numworker' = numworker - 1
            /\ Goto(w, "ending")
       ELSE /\ numavail' = Avail(w)
            /\ Goto(w, IF Surplus(w) THEN "done" ELSE "loop")
            /\ UNCHANGED <<list, numworker>>
    /\ UNCHANGED <<ch, exit, clone_fd, session, chans, mainvars>>

(* The thread is detached; it frees its channel and itself.                 *)
free_worker(w) ==
    /\ pc[w] = "ending"
    /\ fuse_chan_put(ch[w])
    /\ ch' = [ch EXCEPT ![w] = NoChan]
    /\ Goto(w, "none")
    /\ UNCHANGED <<forget, mt, session, inflight, mainvars>>

(* Mutant: no sem_post.                                                     *)
post_missing(w) ==
    /\ pc[w] = "post"
    /\ Goto(w, "done")
    /\ UNCHANGED <<forget, ch, mt, session, chans, mainvars>>

(* The loop is left: sem_post(&mt->finish).                                 *)
post(w) ==
    /\ pc[w] = "post"
    /\ finish' = finish + 1
    /\ Goto(w, "done")
    /\ UNCHANGED <<forget, ch, mt, session, chans, main, joining, cancelled>>

-----------------------------------------------------------------------------
(* The main thread, fuse_session_loop_mt_312.                               *)

main_start ==
    /\ main = "start"
    /\ fuse_loop_start_thread(pc, numavail)
    /\ main' = IF list' = list THEN "return" ELSE "check"
    /\ UNCHANGED <<forget, exit, session, inflight, joining, finish, cancelled>>

(* while (!fuse_session_exited(se)) sem_wait(&mt.finish)                    *)
main_check ==
    /\ main = "check"
    /\ main' = IF exited THEN "cancel" ELSE "wait"
    /\ UNCHANGED <<pc, forget, ch, mt, session, chans, joining, finish, cancelled>>

(* The call of sem_wait, and its return.                                    *)
sem_wait ==
    /\ main = "wait"
    /\ main' = "waiting"
    /\ UNCHANGED <<pc, forget, ch, mt, session, chans, joining, finish, cancelled>>

sem_wait_returns ==
    /\ main = "waiting" /\ finish > 0
    /\ finish' = finish - 1
    /\ main' = "check"
    /\ UNCHANGED <<pc, forget, ch, mt, session, chans, joining, cancelled>>

(* Mutant: the workers are not cancelled.                                   *)
main_cancel_none ==
    /\ main = "cancel"
    /\ exit' = TRUE
    /\ main' = "join"
    /\ UNCHANGED <<pc, forget, ch, list, numworker, numavail, clone_fd, session,
                   chans, joining, finish, cancelled>>

(* The workers are cancelled, those of the list, under mt->lock.            *)
main_cancel ==
    /\ main = "cancel"
    /\ cancelled' = list
    /\ exit' = TRUE
    /\ main' = "join"
    /\ UNCHANGED <<pc, forget, ch, list, numworker, numavail, clone_fd, session,
                   chans, joining, finish>>

(* The loop over the workers; which is the next of the list is left open.   *)
main_next ==
    /\ main = "join" /\ joining = NoWorker
    /\ IF list = {} THEN main' = "return" /\ UNCHANGED joining
       ELSE joining' \in list /\ UNCHANGED main
    /\ UNCHANGED <<pc, forget, ch, mt, session, chans, finish, cancelled>>

fuse_join_worker ==
    /\ main = "join" /\ joining # NoWorker /\ pc[joining] = "done"
    /\ list' = list \ {joining}
    /\ fuse_chan_put(ch[joining])
    /\ ch' = [ch EXCEPT ![joining] = NoChan]
    /\ Goto(joining, "none")
    /\ forget' = forget \ {joining}
    /\ cancelled' = cancelled \ {joining}
    /\ joining' = NoWorker
    /\ UNCHANGED <<numworker, numavail, exit, clone_fd, session, inflight, main, finish>>

(* The mutex and the semaphore are destroyed, the session is reset.         *)
main_return ==
    /\ main = "return"
    /\ main' = "returned"
    /\ error' = IF se_error # "none" THEN se_error ELSE error
    /\ exited' = FALSE /\ se_error' = "none"
    /\ UNCHANGED <<pc, forget, ch, mt, quitter, chans, joining, finish, cancelled>>

(* A signal reaches the main thread: exit_handler ends the session; the     *)
(* wait for the semaphore, if it has begun, returns.  One signal is enough. *)
exit_handler ==
    /\ Signals /\ main # "returned"
    /\ se_error = "none"
    /\ exited' = TRUE /\ se_error' = "signal"
    /\ main' = IF main = "waiting" THEN "check" ELSE main
    /\ UNCHANGED <<pc, forget, ch, mt, error, quitter, chans, joining, finish,
                   cancelled>>

-----------------------------------------------------------------------------
Init ==
    /\ pc = [w \in Workers |-> "none"]
    /\ forget = {} /\ ch = [w \in Workers |-> NoChan]
    /\ list = {} /\ numworker = 0 /\ numavail = 0 /\ exit = FALSE
    /\ error = "none" /\ clone_fd = CloneFd /\ finish = 0
    /\ exited = FALSE /\ se_error = "none" /\ quitter = FALSE
    /\ cancelled = {} /\ main = "start" /\ joining = NoWorker
    /\ ctr = [c \in Chans |-> 0] /\ inflight = [c \in Chans |-> 0]

(* What a worker does by itself, and what it needs the kernel for.          *)
Run(w) ==
    \/ loop(w) \/ receive_cancelled(w) \/ take_request(w) \/ process(w)
    \/ handler_returns(w) \/ finish_request(w) \/ free_worker(w) \/ post(w)
Wakeup(w) == receive(w) \/ receive_interrupted(w) \/ receive_fails(w)
Main ==
    \/ main_start \/ main_check \/ sem_wait \/ sem_wait_returns
    \/ main_cancel \/ main_next \/ fuse_join_worker \/ main_return

Next ==
    \/ \E w \in Workers : Run(w) \/ Wakeup(w) \/ fuse_session_exit(w)
    \/ \E c \in Chans : reply(c)
    \/ Main \/ exit_handler

Spec == Init /\ [][Next]_vars

-----------------------------------------------------------------------------
(* Properties.                                                              *)

Labels == {"none", "loop", "receive", "received", "process", "handler",
           "processed", "ending", "post", "done"}

(* The variables of struct fuse_mt, the workers and the channels keep their *)
(* types; the counters are never negative.                                  *)
TypeOK ==
    /\ pc \in [Workers -> Labels] /\ ch \in [Workers -> Chans \cup {NoChan}]
    /\ forget \subseteq Workers /\ list \subseteq Workers
    /\ numworker \in Nat /\ numavail \in Nat /\ finish \in Nat
    /\ exit \in BOOLEAN /\ exited \in BOOLEAN /\ quitter \in BOOLEAN
    /\ clone_fd \in BOOLEAN
    /\ error \in {"none", "errno", "signal"} /\ se_error \in {"none", "signal"}
    /\ cancelled \subseteq Workers /\ joining \in Workers \cup {NoWorker}
    /\ main \in {"start", "check", "wait", "waiting", "cancel", "join", "return",
                 "returned"}
    /\ ctr \in [Chans -> Nat] /\ inflight \in [Chans -> Nat]

(* numworker and numavail, which decide whether threads are started or end, *)
(* count the workers of the list and those of them that are not busy with a *)
(* request other than a forget.                                             *)
Busy(w) == pc[w] \in {"process", "handler", "processed"} /\ w \notin forget
Available == {w \in list : ~Busy(w)}
WorkerCounts ==
    ~exit => /\ numworker = Cardinality(list)
             /\ numavail = Cardinality(Available)

(* As long as the loop runs, a worker is left to read the next request, or  *)
(* as many as max_threads allows are busy, provided starting a thread never *)
(* fails and at least one idle worker is allowed.                           *)
ReaderLeft ==
    ~exit /\ main # "start" =>
       Available # {} \/ numworker >= MaxThreads

(* Joining and ending exclude each other: the list holds the workers whose  *)
(* thread runs or waits to be joined, so that one the main thread joins is  *)
(* never one that detaches and frees itself; workers are joined once        *)
(* mt->exit keeps them from ending; and when the main thread returns, which *)
(* ends the life of struct fuse_mt, no thread that still uses it is left.   *)
JoinedOnce ==
    /\ joining # NoWorker => joining \in list /\ main = "join"
    /\ \A w \in Workers : w \in list <=> pc[w] \notin {"none", "ending"}
    /\ main = "join" => exit
    /\ exit => main \in {"join", "return", "returned"}
    /\ main \in {"start", "return", "returned"} => list = {}

(* A channel has a reference for its worker and one for each request that   *)
(* is not answered: it is closed once, after the last reply.                *)
Owners(c) == {w \in Workers : ch[w] = c}
ChanCounts ==
    /\ \A c \in Chans : ctr[c] = inflight[c] + Cardinality(Owners(c))
    /\ \A w \in Workers : pc[w] = "none" => ch[w] = NoChan

(* The counts the pool decides by are exact: its workers, those that are    *)
(* available, and the users of every channel, which is closed with the last *)
(* of them.                                                                 *)
PoolCounts ==
    TypeOK /\ WorkerCounts /\ ChanCounts
=============================================================================
