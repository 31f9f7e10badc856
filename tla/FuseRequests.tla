---------------------------- MODULE FuseRequests ----------------------------
(***************************************************************************)
(* The life of a request in the low-level library (lib/fuse_lowlevel.c):   *)
(* the session's list of requests, the INTERRUPT messages that may arrive  *)
(* before, during or after the request they name, the function a handler   *)
(* registers to be interrupted (lib/fuse.c), and the retrievals, whose     *)
(* answers arrive as requests.                                             *)
(*                                                                         *)
(* A step is one critical section of se->lock, req->lock or f->lock, or    *)
(* one call that leaves the library.  The kernel is external: it sends     *)
(* INIT first, DESTROY last, one INTERRUPT for a request it has sent, and  *)
(* sends it again when the answer to it is EAGAIN (doc/kernel.txt).        *)
(***************************************************************************)
EXTENDS Naturals, Sequences, FiniteSets, Functions

CONSTANTS
    Workers,      \* the threads that process messages
    NoWorker,
    Requests,     \* the requests with a handler, by their unique number
    Blocking,     \* those whose operation blocks until it gets a signal
    FUSE_INIT, FUSE_DESTROY,
    Retrieves     \* calls of fuse_lowlevel_notify_retrieve

ASSUME RequestsAssumption ==
    /\ IsFiniteSet(Workers) /\ NoWorker \notin Workers
    /\ Blocking \subseteq Requests
    /\ FUSE_INIT \notin Requests /\ FUSE_DESTROY \notin Requests
    /\ FUSE_INIT # FUSE_DESTROY
    /\ Retrieves \cap (Requests \cup {FUSE_INIT, FUSE_DESTROY}) = {}

Uniques == Requests \cup {FUSE_INIT, FUSE_DESTROY} \cup Retrieves

VARIABLES
    ksent, answered,       \* kernel: requests the library has read, answered
    kasked,                \* kernel: requests an INTERRUPT was made for
    kintr,                \* kernel: INTERRUPTs that wait to be read
    knosys,                 \* kernel: INTERRUPT was answered with ENOSYS
    intr,                 \* f->conf.intr
    got_init, got_destroy, no_interrupt,      \* struct fuse_session
    list, interrupts, notify_list,            \* its lists
    ref_cnt, interrupted, func, lock,         \* struct fuse_req
    data,                 \* struct fuse_intr_data, in the handler's frame
    sig,                  \* threads interrupted by the signal
    pc, cur, popped,      \* per thread: place, request, interrupt to answer
    retrieve,             \* per retrieval: where its caller is
    rreq                  \* per retrieval: its struct fuse_retrieve_req

kernelVars == <<ksent, answered, kasked, kintr, knosys>>
sessionVars == <<intr, got_init, got_destroy, no_interrupt>>
reqVars == <<ref_cnt, interrupted, func, lock>>
workerVars == <<pc, cur, popped>>
noteVars == <<notify_list, retrieve, rreq>>
requestVars ==
    <<kernelVars, sessionVars, list, interrupts, reqVars, data, sig, workerVars, noteVars>>

GotoLabel(w, l) == pc' = [pc EXCEPT ![w] = l]
WorkerAt(w, l) == pc[w] = l

(* The thread goes back to read the next message.                           *)
NextMessage(w) == GotoLabel(w, "idle") /\ cur' = [cur EXCEPT ![w] = FUSE_INIT]

RequestsInit ==
    /\ ksent = {} /\ answered = {} /\ kasked = {} /\ kintr = {} /\ knosys = FALSE
    /\ intr \in BOOLEAN
    /\ got_init = FALSE /\ got_destroy = FALSE /\ no_interrupt = FALSE
    /\ list = {} /\ interrupts = <<>> /\ notify_list = {}
    /\ ref_cnt = [u \in Uniques |-> 0]
    /\ interrupted = [u \in Uniques |-> FALSE]
    /\ func = [u \in Uniques |-> FALSE]
    /\ lock = [u \in Uniques |-> NoWorker]
    /\ data = [u \in Uniques |-> "none"]
    /\ sig = {}
    /\ pc = [w \in Workers |-> "idle"]
    /\ cur = [w \in Workers |-> FUSE_INIT]
    /\ popped = [w \in Workers |-> FUSE_INIT]
    /\ retrieve = [n \in Retrieves |-> "none"]
    /\ rreq = [n \in Retrieves |-> "none"]

-----------------------------------------------------------------------------
(* The kernel.                                                              *)

(* Other requests follow the answer to INIT, DESTROY follows the answers to *)
(* them, and a retrieval is answered once its notification was sent.        *)
Sendable(u) ==
    /\ u \notin ksent
    /\ u # FUSE_INIT => FUSE_INIT \in answered
    /\ u \in Requests => FUSE_DESTROY \notin ksent
    /\ u = FUSE_DESTROY => ksent \cap Requests \subseteq answered
    /\ u \in Retrieves => retrieve[u] = "sent"

(* fuse_session_receive_buf and fuse_ll_alloc_req: a thread reads a message *)
(* and makes a request for it.                                              *)
ReceiveRequest(w) ==
    \E u \in Uniques :
        /\ WorkerAt(w, "idle") /\ Sendable(u)
        /\ ksent' = ksent \cup {u}
        /\ cur' = [cur EXCEPT ![w] = u]
        /\ ref_cnt' = [ref_cnt EXCEPT ![u] = 1]
        /\ GotoLabel(w, "process")
        /\ UNCHANGED <<answered, kasked, kintr, knosys, sessionVars, list, interrupts,
                       interrupted, func, lock, data, sig, popped, noteVars>>

(* The process that waits for a request is interrupted.                     *)
Ask ==
    \E u \in Requests \cap ksent :
        /\ u \notin answered \cup kasked /\ ~knosys
        /\ kasked' = kasked \cup {u} /\ kintr' = kintr \cup {u}
        /\ UNCHANGED <<ksent, answered, knosys, sessionVars, list, interrupts, reqVars,
                       data, sig, workerVars, noteVars>>

ReceiveInterrupt(w) ==
    \E u \in kintr :
        /\ WorkerAt(w, "idle")
        /\ kintr' = kintr \ {u}
        /\ cur' = [cur EXCEPT ![w] = u]
        /\ GotoLabel(w, "interrupt")
        /\ UNCHANGED <<ksent, answered, kasked, knosys, sessionVars, list, interrupts,
                       reqVars, data, sig, popped, noteVars>>

-----------------------------------------------------------------------------
(* Requests.                                                                *)

(* fuse_free_req: the last reference destroys the request.                  *)
fuse_free_req(u) ==
    /\ ref_cnt' = [ref_cnt EXCEPT ![u] = @ - 1]
    /\ IF no_interrupt
       THEN UNCHANGED <<func, list>>
       ELSE /\ func' = [func EXCEPT ![u] = FALSE]
            /\ list' = list \ {u}

(* The list of interrupts without its i-th.                                 *)
list_del_req(s, i) == SubSeq(s, 1, i - 1) \o SubSeq(s, i + 1, Len(s))

(* check_interrupt: an interrupt that came before its request marks it; any *)
(* other one is taken off the list to be answered with EAGAIN.              *)
check_interrupt(w, u) ==
    IF u \in Range(interrupts)
    THEN /\ interrupted' = [interrupted EXCEPT ![u] = TRUE]
         /\ \E i \in DOMAIN interrupts :
               interrupts[i] = u /\ interrupts' = list_del_req(interrupts, i)
         /\ GotoLabel(w, "dispatch") /\ UNCHANGED popped
    ELSE /\ UNCHANGED interrupted
         /\ IF interrupts = <<>>
            THEN GotoLabel(w, "dispatch") /\ UNCHANGED <<interrupts, popped>>
            ELSE /\ popped' = [popped EXCEPT ![w] = Head(interrupts)]
                 /\ interrupts' = Tail(interrupts)
                 /\ GotoLabel(w, "eagain")

(* fuse_session_process_buf_internal: INIT is the first request, and the    *)
(* only one with that opcode; the request is then listed.  There is memory  *)
(* for the request: without it any message is answered ENOMEM and dropped,  *)
(* an INTERRUPT with the others.                                            *)
fuse_session_process_buf_internal(w) ==
    LET u == cur[w] IN
    /\ WorkerAt(w, "process")
    /\ IF got_init = (u = FUSE_INIT)
       THEN GotoLabel(w, "reply") /\ UNCHANGED <<list, interrupts, interrupted, popped>>
       ELSE IF no_interrupt
       THEN GotoLabel(w, "dispatch") /\ UNCHANGED <<list, interrupts, interrupted, popped>>
       ELSE check_interrupt(w, u) /\ list' = list \cup {u}
    /\ UNCHANGED <<kernelVars, sessionVars, ref_cnt, func, lock, data, sig, cur, noteVars>>

(* fuse_reply_err(intr, EAGAIN): the kernel sends the INTERRUPT again if    *)
(* the request still waits.                                                 *)
reply_again(w) ==
    LET i == popped[w] IN
    /\ WorkerAt(w, "eagain")
    /\ kintr' = IF i \in answered \/ knosys THEN kintr ELSE kintr \cup {i}
    /\ popped' = [popped EXCEPT ![w] = FUSE_INIT]
    /\ GotoLabel(w, "dispatch")
    /\ UNCHANGED <<ksent, answered, kasked, knosys, sessionVars, list, interrupts, reqVars,
                   data, sig, cur, noteVars>>

do_init(w) ==
    /\ WorkerAt(w, "dispatch") /\ cur[w] = FUSE_INIT
    /\ got_init' = TRUE
    /\ no_interrupt' = ~intr
    /\ GotoLabel(w, "reply")
    /\ UNCHANGED <<kernelVars, intr, got_destroy, list, interrupts, reqVars, data, sig,
                   cur, popped, noteVars>>

do_destroy(w) ==
    /\ WorkerAt(w, "dispatch") /\ cur[w] = FUSE_DESTROY
    /\ got_destroy' = TRUE /\ got_init' = FALSE
    /\ GotoLabel(w, "reply")
    /\ UNCHANGED <<kernelVars, intr, no_interrupt, list, interrupts, reqVars, data, sig,
                   cur, popped, noteVars>>

(* The other handlers, up to fuse_prepare_interrupt.  (FORGET, which the    *)
(* kernel does not interrupt, is freed with no answer, like a retrieval.)   *)
do_request(w) ==
    LET u == cur[w] IN
    /\ WorkerAt(w, "dispatch") /\ u \in Requests
    /\ GotoLabel(w, IF intr THEN "prepare" ELSE "op")
    /\ UNCHANGED <<kernelVars, sessionVars, list, interrupts, reqVars, data, sig, cur,
                   popped, noteVars>>

send_reply(w) ==
    /\ WorkerAt(w, "reply")
    /\ answered' = answered \cup {cur[w]}
    /\ GotoLabel(w, "free")
    /\ UNCHANGED <<ksent, kasked, kintr, knosys, sessionVars, list, interrupts, reqVars,
                   data, sig, cur, popped, noteVars>>

reply_none(w) ==
    /\ WorkerAt(w, "free")
    /\ fuse_free_req(cur[w])
    /\ NextMessage(w)
    /\ UNCHANGED <<kernelVars, sessionVars, interrupts, interrupted, lock, data, sig,
                   popped, noteVars>>

-----------------------------------------------------------------------------
(* A handler of lib/fuse.c with conf.intr.                                  *)

(* Mutant: the function is set without req->lock.                           *)
fuse_req_interrupt_func_unlocked(u, f) == func' = [func EXCEPT ![u] = f]

(* fuse_req_interrupt_func holds req->lock throughout; called by the        *)
(* handler's own thread, fuse_interrupt returns at once.                    *)
fuse_req_interrupt_func(u, f) ==
    /\ lock[u] = NoWorker
    /\ func' = [func EXCEPT ![u] = f]

fuse_do_prepare_interrupt(w) ==
    LET u == cur[w] IN
    /\ WorkerAt(w, "prepare")
    /\ fuse_req_interrupt_func(u, TRUE)
    /\ data' = [data EXCEPT ![u] = "live"]
    /\ GotoLabel(w, "begin")
    /\ UNCHANGED <<kernelVars, sessionVars, list, interrupts, ref_cnt, interrupted, lock,
                   sig, cur, popped, noteVars>>

(* The operation asks fuse_interrupted() before it blocks.                  *)
OpBegin(w) ==
    /\ \/ WorkerAt(w, "begin") /\ interrupted[cur[w]] /\ GotoLabel(w, "finish")
       \/ WorkerAt(w, "begin") /\ ~interrupted[cur[w]] /\ GotoLabel(w, "asked")
       \/ WorkerAt(w, "asked") /\ GotoLabel(w, "op")
    /\ UNCHANGED <<kernelVars, sessionVars, list, interrupts, reqVars, data, sig, cur,
                   popped, noteVars>>

(* A signal ends an operation that blocks, others end by themselves.        *)
OpEnd(w) ==
    /\ WorkerAt(w, "op")
    /\ cur[w] \in Blocking /\ intr => w \in sig
    /\ sig' = sig \ {w}
    /\ GotoLabel(w, IF intr THEN "finish" ELSE "reply")
    /\ UNCHANGED <<kernelVars, sessionVars, list, interrupts, reqVars, data, cur, popped,
                   noteVars>>

set_finished(w) ==
    /\ WorkerAt(w, "finish")
    /\ data' = [data EXCEPT ![cur[w]] = "finished"]
    /\ sig' = sig \ {w}
    /\ GotoLabel(w, "unregister")
    /\ UNCHANGED <<kernelVars, sessionVars, list, interrupts, reqVars, cur, popped, noteVars>>

unregister(w) ==
    /\ WorkerAt(w, "unregister")
    /\ fuse_req_interrupt_func(cur[w], FALSE)
    /\ data' = [data EXCEPT ![cur[w]] = "gone"]
    /\ GotoLabel(w, "reply")
    /\ UNCHANGED <<kernelVars, sessionVars, list, interrupts, ref_cnt, interrupted, lock,
                   sig, cur, popped, noteVars>>

fuse_do_finish_interrupt(w) == set_finished(w) \/ unregister(w)

-----------------------------------------------------------------------------
(* Interrupts.                                                              *)

(* fuse_session_process_buf_internal answers EIO or ENOSYS.                 *)
interrupt_early(w) ==
    /\ ~got_init
    /\ NextMessage(w) /\ UNCHANGED <<knosys, ref_cnt, interrupts>>

interrupt_nosys(w) ==
    /\ got_init /\ no_interrupt
    /\ knosys' = TRUE
    /\ NextMessage(w) /\ UNCHANGED <<ref_cnt, interrupts>>

(* The search of find_interrupted, under se->lock.                          *)
find_listed(w) ==
    /\ got_init /\ ~no_interrupt /\ cur[w] \in list
    /\ ref_cnt' = [ref_cnt EXCEPT ![cur[w]] = @ + 1]
    /\ GotoLabel(w, "lock") /\ UNCHANGED <<knosys, interrupts, cur>>

(* It has not come, or is gone: the interrupt is listed, once.              *)
list_interrupt(w) ==
    /\ got_init /\ ~no_interrupt /\ cur[w] \notin list
    /\ interrupts' = IF cur[w] \in Range(interrupts) THEN interrupts
                     ELSE Append(interrupts, cur[w])
    /\ NextMessage(w) /\ UNCHANGED <<knosys, ref_cnt>>

do_interrupt(w) ==
    /\ WorkerAt(w, "interrupt")
    /\ interrupt_early(w) \/ interrupt_nosys(w) \/ find_listed(w) \/ list_interrupt(w)
    /\ UNCHANGED <<ksent, answered, kasked, kintr, sessionVars, list, interrupted, func,
                   lock, data, sig, popped, noteVars>>

(* find_interrupted: both locks are taken to mark the request, and its own  *)
(* is held while the registered function runs.                              *)
mark_interrupted(w) ==
    LET u == cur[w] IN
    /\ WorkerAt(w, "lock") /\ lock[u] = NoWorker
    /\ lock' = [lock EXCEPT ![u] = w]
    /\ interrupted' = [interrupted EXCEPT ![u] = TRUE]
    /\ GotoLabel(w, IF func[u] THEN "call" ELSE "unlock")
    /\ UNCHANGED <<kernelVars, sessionVars, list, interrupts, ref_cnt, func, data, sig, cur,
                   popped, noteVars>>

unlock_request(w) ==
    /\ WorkerAt(w, "unlock")
    /\ lock' = [lock EXCEPT ![cur[w]] = NoWorker]
    /\ GotoLabel(w, "put")
    /\ UNCHANGED <<kernelVars, sessionVars, list, interrupts, ref_cnt, interrupted, func,
                   data, sig, cur, popped, noteVars>>

put_request(w) ==
    /\ WorkerAt(w, "put")
    /\ ref_cnt' = [ref_cnt EXCEPT ![cur[w]] = @ - 1]
    /\ NextMessage(w)
    /\ UNCHANGED <<kernelVars, sessionVars, list, interrupts, interrupted, func, lock, data,
                   sig, popped, noteVars>>

find_interrupted(w) == mark_interrupted(w) \/ unlock_request(w) \/ put_request(w)

(* Mutant: one signal, which may come before the operation blocks.          *)
fuse_interrupt_once(w) ==
    LET u == cur[w] IN
    /\ WorkerAt(w, "call")
    /\ sig' = sig \cup {v \in Workers : cur[v] = u /\ WorkerAt(v, "op")}
    /\ GotoLabel(w, "unlock")
    /\ UNCHANGED <<kernelVars, sessionVars, list, interrupts, reqVars, data, cur, popped,
                   noteVars>>

(* fuse_interrupt: signals the handler's thread, once a second, until the   *)
(* handler has finished; a signal that comes before the operation blocks    *)
(* does nothing.                                                            *)
fuse_interrupt(w) ==
    LET u == cur[w] IN
    /\ WorkerAt(w, "call")
    /\ IF data[u] = "live"
       THEN /\ sig' = sig \cup {v \in Workers : cur[v] = u /\ WorkerAt(v, "op")}
            /\ sig' # sig /\ UNCHANGED pc
       ELSE GotoLabel(w, "unlock") /\ UNCHANGED sig
    /\ UNCHANGED <<kernelVars, sessionVars, list, interrupts, reqVars, data, cur, popped,
                   noteVars>>

-----------------------------------------------------------------------------
(* Retrievals.                                                              *)

(* fuse_lowlevel_notify_retrieve and send_notify_iov, which fails before    *)
(* INIT and after DESTROY, and when the kernel refuses.                     *)
list_retrieve(n) ==
    /\ retrieve[n] = "none"
    /\ retrieve' = [retrieve EXCEPT ![n] = "listed"]
    /\ rreq' = [rreq EXCEPT ![n] = "live"]
    /\ notify_list' = notify_list \cup {n}
    /\ UNCHANGED <<kernelVars, sessionVars, list, interrupts, reqVars, data, sig, workerVars>>

send_notify_iov(n) ==
    /\ retrieve[n] = "listed"
    /\ \/ got_init /\ retrieve' = [retrieve EXCEPT ![n] = "sent"]
       \/ retrieve' = [retrieve EXCEPT ![n] = "error"]
    /\ UNCHANGED <<kernelVars, sessionVars, list, interrupts, reqVars, data, sig, workerVars,
                   notify_list, rreq>>

drop_retrieve(n) ==
    /\ retrieve[n] = "error"
    /\ retrieve' = [retrieve EXCEPT ![n] = "failed"]
    /\ notify_list' = notify_list \ {n}
    /\ rreq' = [rreq EXCEPT ![n] = "freed"]
    /\ UNCHANGED <<kernelVars, sessionVars, list, interrupts, reqVars, data, sig, workerVars>>

fuse_lowlevel_notify_retrieve(n) == list_retrieve(n) \/ send_notify_iov(n) \/ drop_retrieve(n)

(* The answer takes the entry off the list; without one, nobody answers the *)
(* message and its request is never freed.                                  *)
find_notify(w) ==
    LET n == cur[w] IN
    /\ WorkerAt(w, "dispatch") /\ n \in Retrieves
    /\ notify_list' = notify_list \ {n}
    /\ IF n \in notify_list THEN GotoLabel(w, "retrieved") /\ UNCHANGED cur ELSE NextMessage(w)
    /\ UNCHANGED <<kernelVars, sessionVars, list, interrupts, reqVars, data, sig, popped,
                   retrieve, rreq>>

fuse_ll_retrieve_reply(w) ==
    /\ WorkerAt(w, "retrieved")
    /\ rreq' = [rreq EXCEPT ![cur[w]] = "freed"]
    /\ GotoLabel(w, "free")
    /\ UNCHANGED <<kernelVars, sessionVars, list, interrupts, reqVars, data, sig, cur,
                   popped, notify_list, retrieve>>

do_notify_reply(w) == find_notify(w) \/ fuse_ll_retrieve_reply(w)

-----------------------------------------------------------------------------
WorkerStep(w) ==
    \/ fuse_session_process_buf_internal(w) \/ reply_again(w)
    \/ do_init(w) \/ do_destroy(w) \/ do_request(w)
    \/ send_reply(w) \/ reply_none(w)
    \/ fuse_do_prepare_interrupt(w) \/ OpBegin(w) \/ OpEnd(w)
    \/ fuse_do_finish_interrupt(w)
    \/ do_interrupt(w) \/ find_interrupted(w) \/ fuse_interrupt(w)
    \/ do_notify_reply(w)

RequestsNext ==
    \/ \E w \in Workers : ReceiveRequest(w) \/ ReceiveInterrupt(w) \/ WorkerStep(w)
    \/ Ask
    \/ \E n \in Retrieves : fuse_lowlevel_notify_retrieve(n)

RequestsSpec == RequestsInit /\ [][RequestsNext]_requestVars

(* Some thread works on its message, or reads an INTERRUPT the kernel has    *)
(* queued.                                                                  *)
SessionWorks == \E w \in Workers : ReceiveInterrupt(w) \/ WorkerStep(w)

-----------------------------------------------------------------------------
(* Properties.                                                              *)

Labels == {"idle", "process", "eagain", "dispatch", "prepare", "begin", "asked",
           "op", "finish", "unregister", "reply", "free", "retrieved", "interrupt",
           "lock", "call", "unlock", "put"}

(* Every variable has its type.                                             *)
RequestsTypeOK ==
    /\ ksent \subseteq Uniques /\ answered \subseteq ksent
    /\ kasked \subseteq Requests /\ kintr \subseteq kasked /\ knosys \in BOOLEAN
    /\ intr \in BOOLEAN /\ got_init \in BOOLEAN /\ got_destroy \in BOOLEAN
    /\ no_interrupt \in BOOLEAN
    /\ list \subseteq Uniques /\ notify_list \subseteq Retrieves
    /\ interrupts \in Seq(Requests)
    /\ ref_cnt \in [Uniques -> Nat]
    /\ interrupted \in [Uniques -> BOOLEAN] /\ func \in [Uniques -> BOOLEAN]
    /\ lock \in [Uniques -> Workers \cup {NoWorker}]
    /\ data \in [Uniques -> {"none", "live", "finished", "gone"}]
    /\ sig \subseteq Workers
    /\ pc \in [Workers -> Labels]
    /\ cur \in [Workers -> Uniques] /\ popped \in [Workers -> Uniques]
    /\ retrieve \in [Retrieves -> {"none", "listed", "sent", "error", "failed"}]
    /\ rreq \in [Retrieves -> {"none", "live", "freed"}]

Handling == {"process", "eagain", "dispatch", "prepare", "begin", "asked", "op",
             "finish", "unregister", "reply", "free", "retrieved"}
Interrupting == {"lock", "call", "unlock", "put"}

(* The threads that handle or interrupt a request.                          *)
Users(u) == {w \in Workers : cur[w] = u /\ pc[w] \in Handling \cup Interrupting}

(* Before and in the operation of a request.                                *)
Arriving == {"process", "eagain", "dispatch"}
InOperation == {"prepare", "begin", "asked", "op", "finish", "unregister"}

(* Every message a thread has was sent by the kernel, once, and is where    *)
(* its kind may be: a request has one handler, and what is interrupted was  *)
(* asked for.                                                               *)
MessagesSent ==
    /\ kasked \subseteq ksent /\ Range(interrupts) \subseteq kasked
    /\ \A w \in Workers :
          /\ pc[w] \in Handling => cur[w] \in ksent
          /\ pc[w] \in Interrupting \cup {"interrupt"} => cur[w] \in kasked
          /\ pc[w] \in InOperation => cur[w] \in Requests
          /\ pc[w] = "retrieved" => cur[w] \in Retrieves
          /\ pc[w] = "eagain" => popped[w] \in kasked
    /\ \A v, w \in Workers :
          pc[v] \in Handling /\ pc[w] \in Handling /\ cur[v] = cur[w] => v = w

(* got_init is set as long as the kernel may wait for a request: INIT is    *)
(* answered before the others are sent, and DESTROY is sent after they are  *)
(* answered.                                                                *)
InitFirst ==
    /\ \A u \in ksent : u # FUSE_INIT => FUSE_INIT \in answered
    /\ FUSE_DESTROY \in ksent => ksent \cap Requests \subseteq answered
    /\ got_init => FUSE_INIT \in ksent
    /\ no_interrupt => ~intr
    /\ FUSE_INIT \in answered => got_init \/ FUSE_DESTROY \in ksent
    /\ \A w \in Workers : cur[w] = FUSE_INIT =>
          /\ pc[w] \in Arriving => ~got_init
          /\ pc[w] \in {"reply", "free"} => got_init \/ FUSE_DESTROY \in ksent

(* As long as the session's list is searched, it holds no request that was  *)
(* destroyed.                                                               *)
ListHandled ==
    ~no_interrupt => \A u \in list : \E w \in Workers : cur[w] = u /\ pc[w] \in Handling

(* A request has one reference for the thread that handles it and one for   *)
(* every thread that interrupts it, so that fuse_free_req and               *)
(* find_interrupted destroy it once, after its last use.                    *)
RequestsCounted ==
    /\ \A u \in Uniques : ref_cnt[u] = Cardinality(Users(u))
    /\ ListHandled

(* While find_interrupted runs the function a handler registered, the       *)
(* handler is still in the frame its data lives in (fuse_do_finish_interrupt*)
(* waits for req->lock before it returns).                                  *)
InterruptDataLive ==
    /\ \A w \in Workers :
          /\ pc[w] = "call" => data[cur[w]] \in {"live", "finished"}
          /\ pc[w] \in {"call", "unlock"} => lock[cur[w]] = w
    /\ \A u \in Uniques : func[u] => data[u] \in {"live", "finished"}

(* "hence it's not possible for interrupts to be lost" (fuse_lowlevel.h):   *)
(* until the request is answered, its INTERRUPT waits in the kernel, is in  *)
(* the hands of a thread, waits in se->interrupts, or has marked it.        *)
InterruptKept ==
    \A u \in kasked \ answered :
        \/ u \in kintr \/ knosys \/ interrupted[u]
        \/ u \in Range(interrupts) /\ u \notin list
        \/ \E w \in Workers :
              \/ cur[w] = u /\ pc[w] \in {"interrupt", "lock"}
              \/ popped[w] = u /\ pc[w] = "eagain"

(* An answer to a retrieval finds the entry that notify_retrieve listed     *)
(* before it sent the notification, and the entry is freed by one of them.  *)
RetrieveExpected ==
    \A n \in Retrieves :
        /\ retrieve[n] = "listed" => n \in notify_list
        /\ retrieve[n] = "sent" /\ n \notin ksent => n \in notify_list
        /\ n \in ksent => retrieve[n] = "sent"
        /\ n \in notify_list => rreq[n] = "live"
        /\ retrieve[n] = "error" => rreq[n] = "live"
        /\ \A w \in Workers :
              /\ pc[w] \in Arriving /\ cur[w] = n => n \in notify_list
              /\ pc[w] = "retrieved" /\ cur[w] = n => rreq[n] = "live" /\ n \notin notify_list

(* Nothing of a request is used after it is gone, and no interrupt of one   *)
(* is lost: not the request itself, not the data in its handler's frame,    *)
(* not the entry of a retrieval.  (The inductive invariant of the proofs.)  *)
RequestsLive ==
    /\ RequestsTypeOK /\ MessagesSent /\ InitFirst
    /\ RequestsCounted /\ InterruptDataLive /\ InterruptKept /\ RetrieveExpected

(* An operation that blocks until it is interrupted ends, and its request   *)
(* is answered, once the kernel was asked to interrupt it, whatever the     *)
(* order in which threads see the request and its INTERRUPT.                *)
InterruptEnds ==
    \A u \in Blocking : u \in kasked /\ intr ~> u \in answered
=============================================================================
