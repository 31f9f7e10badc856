------------------------- MODULE FuseRequestsProofs -------------------------
(***************************************************************************)
(* RequestsLive is an invariant of FuseRequests for any number of threads, *)
(* requests and retrievals.                                                *)
(***************************************************************************)
EXTENDS FuseRequests, FiniteSetTheorems, TLAPS

USE RequestsAssumption

-----------------------------------------------------------------------------
(* Sequences.                                                               *)

(* check_interrupt takes one interrupt off the list and leaves the others.  *)
LEMMA UnlinkLeaves ==
    ASSUME NEW S, NEW s \in Seq(S), NEW k \in DOMAIN s
    PROVE  /\ list_del_req(s, k) \in Seq(S)
           /\ Range(list_del_req(s, k)) \subseteq Range(s)
           /\ \A x \in Range(s) : x # s[k] => x \in Range(list_del_req(s, k))
<1> DEFINE r == list_del_req(s, k)
<1>1. k \in 1..Len(s) /\ Len(s) \in Nat
  OBVIOUS
<1> DEFINE a == SubSeq(s, 1, k - 1)
           b == SubSeq(s, k + 1, Len(s))
<1>a. a \in Seq(S) /\ Len(a) = k - 1 /\ \A i \in 1..k - 1 : a[i] = s[i]
  BY <1>1
<1>b. b \in Seq(S) /\ Len(b) = Len(s) - k /\ \A i \in 1..Len(s) - k : b[i] = s[k + i]
  BY <1>1
<1>2. /\ r \in Seq(S) /\ Len(r) = Len(s) - 1
      /\ \A i \in 1..k - 1 : r[i] = s[i]
      /\ \A i \in k..Len(s) - 1 : r[i] = s[i + 1]
  <2> HIDE DEF a, b
  <2>1. r = a \o b
    BY Zenon DEF list_del_req, a, b
  <2>2. r \in Seq(S) /\ Len(r) = Len(a) + Len(b)
    <3>1. a \in Seq(S) /\ b \in Seq(S)
      BY <1>a, <1>b, Zenon
    <3> QED
      BY <2>1, <3>1
  <2>3. \A i \in 1..Len(r) : r[i] = IF i <= Len(a) THEN a[i] ELSE b[i - Len(a)]
    BY <1>a, <1>b, <2>1
  <2>a. Len(a) = k - 1 /\ Len(r) = Len(s) - 1
    BY <1>1, <1>a, <1>b, <2>2
  <2>4. ASSUME NEW i \in k..Len(s) - 1 PROVE r[i] = s[i + 1]
    <3>0. i \in 1..Len(r) /\ ~(i <= Len(a)) /\ Len(a) = k - 1
      BY <1>1, <2>a
    <3>1. r[i] = b[i - (k - 1)]
      BY <2>3, <3>0, Zenon
    <3>2. i - (k - 1) \in 1..Len(s) - k /\ k + (i - (k - 1)) = i + 1
      BY <1>1
    <3> QED
      BY <1>b, <3>1, <3>2, Zenon
  <2>5. ASSUME NEW i \in 1..k - 1 PROVE r[i] = s[i]
    <3>1. i \in 1..Len(r) /\ i <= Len(a)
      BY <1>1, <2>a
    <3> QED
      BY <1>a, <2>3, <3>1, Zenon
  <2> QED
    BY <2>2, <2>a, <2>4, <2>5, Zenon
<1> HIDE DEF r
<1>d. DOMAIN r = 1..Len(s) - 1 /\ DOMAIN s = 1..Len(s)
  <2>1. r \in Seq(S) /\ Len(r) = Len(s) - 1
    BY <1>2, Zenon
  <2> QED
    BY <2>1
<1>3. \A i \in DOMAIN r : \E j \in DOMAIN s : r[i] = s[j]
  <2> SUFFICES ASSUME NEW i \in 1..Len(s) - 1
               PROVE  \E j \in 1..Len(s) : r[i] = s[j]
    BY <1>d, Zenon
  <2>1. CASE i < k
    <3>1. i \in 1..Len(s) /\ r[i] = s[i]
      BY <1>1, <1>2, <2>1
    <3> QED
      BY <3>1, Zenon
  <2>2. CASE i >= k
    <3>1. i \in k..Len(s) - 1 /\ i + 1 \in 1..Len(s)
      BY <1>1, <2>2
    <3> QED
      BY <1>2, <3>1, Zenon
  <2> QED
    BY <1>1, <2>1, <2>2
<1>4. \A j \in DOMAIN s : j # k => \E i \in DOMAIN r : r[i] = s[j]
  <2> SUFFICES ASSUME NEW j \in 1..Len(s), j # k
               PROVE  \E i \in 1..Len(s) - 1 : r[i] = s[j]
    BY <1>d, Zenon
  <2>1. CASE j < k
    <3>1. j \in 1..Len(s) - 1 /\ r[j] = s[j]
      BY <1>1, <1>2, <2>1
    <3> QED
      BY <3>1, Zenon
  <2>2. CASE j > k
    <3>1. j - 1 \in k..Len(s) - 1 /\ r[j - 1] = s[j]
      BY <1>1, <1>2, <2>2
    <3> QED
      BY <1>1, <3>1
  <2> QED
    BY <1>1, <2>1, <2>2
<1> QED
  BY <1>2, <1>3, <1>4 DEF Range, r

(* The first interrupt of the list is the only one that Tail takes away.    *)
LEMMA TailLeaves ==
    ASSUME NEW S, NEW s \in Seq(S), s # <<>>
    PROVE  /\ Tail(s) \in Seq(S) /\ Head(s) \in Range(s)
           /\ Range(Tail(s)) \subseteq Range(s)
           /\ \A x \in Range(s) : x # Head(s) => x \in Range(Tail(s))
<1>1. /\ Len(s) \in Nat /\ Len(s) > 0 /\ Tail(s) \in Seq(S) /\ Len(Tail(s)) = Len(s) - 1
      /\ Head(s) = s[1] /\ \A i \in 1..Len(s) - 1 : Tail(s)[i] = s[i + 1]
  OBVIOUS
<1>2. \A j \in 1..Len(s) : j # 1 => j - 1 \in 1..Len(s) - 1 /\ Tail(s)[j - 1] = s[j]
  BY <1>1
<1>3. \A i \in DOMAIN Tail(s) : i + 1 \in DOMAIN s /\ Tail(s)[i] = s[i + 1]
  BY <1>1
<1>4. DOMAIN s = 1..Len(s) /\ DOMAIN Tail(s) = 1..Len(s) - 1 /\ 1 \in DOMAIN s
  BY <1>1
<1>5. Range(Tail(s)) \subseteq Range(s) /\ Head(s) \in Range(s)
  BY <1>1, <1>3, <1>4, Zenon DEF Range
<1>6. \A x \in Range(s) : x # Head(s) => x \in Range(Tail(s))
  <2> SUFFICES ASSUME NEW j \in 1..Len(s), s[j] # s[1]
               PROVE  s[j] \in Range(Tail(s))
    BY <1>1, <1>4 DEF Range
  <2>1. j # 1 /\ j - 1 \in DOMAIN Tail(s) /\ Tail(s)[j - 1] = s[j]
    BY <1>2, <1>4, Zenon
  <2> QED
    BY <2>1, Zenon DEF Range
<1> QED
  BY <1>1, <1>5, <1>6, Zenon

(* An interrupt joins the end of the list.                                  *)
LEMMA AppendAdds ==
    ASSUME NEW S, NEW s \in Seq(S), NEW e \in S
    PROVE  Append(s, e) \in Seq(S) /\ Range(Append(s, e)) = Range(s) \cup {e}
<1>1. /\ Len(s) \in Nat /\ Append(s, e) \in Seq(S) /\ Len(Append(s, e)) = Len(s) + 1
      /\ Append(s, e)[Len(s) + 1] = e /\ \A i \in 1..Len(s) : Append(s, e)[i] = s[i]
  OBVIOUS
<1> QED
  BY <1>1 DEF Range

-----------------------------------------------------------------------------
(* What the steps do.                                                       *)

(* What fuse_session_process_buf_internal does with a request: it refuses   *)
(* it, passes it on unlisted, or lists it, and then finds its interrupt     *)
(* (Marked), none (Plain) or another one (Pops).                            *)
Refused(w) ==
    /\ got_init <=> cur[w] = FUSE_INIT
    /\ GotoLabel(w, "reply") /\ UNCHANGED <<list, interrupts, interrupted, popped>>
Unlisted(w) ==
    /\ (got_init <=> cur[w] # FUSE_INIT) /\ no_interrupt
    /\ GotoLabel(w, "dispatch") /\ UNCHANGED <<list, interrupts, interrupted, popped>>
Marked(w) ==
    /\ (got_init <=> cur[w] # FUSE_INIT) /\ ~no_interrupt /\ cur[w] \in Range(interrupts)
    /\ interrupted' = [interrupted EXCEPT ![cur[w]] = TRUE]
    /\ \A x \in Range(interrupts) : x # cur[w] => x \in Range(interrupts')
    /\ list' = list \cup {cur[w]} /\ GotoLabel(w, "dispatch") /\ UNCHANGED popped
Plain(w) ==
    /\ (got_init <=> cur[w] # FUSE_INIT) /\ ~no_interrupt /\ cur[w] \notin Range(interrupts)
    /\ list' = list \cup {cur[w]} /\ GotoLabel(w, "dispatch")
    /\ UNCHANGED <<interrupts, interrupted, popped>>
Pops(w) ==
    /\ (got_init <=> cur[w] # FUSE_INIT) /\ ~no_interrupt /\ cur[w] \notin Range(interrupts)
    /\ popped' = [popped EXCEPT ![w] = Head(interrupts)]
    /\ Head(interrupts) \in Range(interrupts)
    /\ \A x \in Range(interrupts) : x # Head(interrupts) => x \in Range(interrupts')
    /\ list' = list \cup {cur[w]} /\ GotoLabel(w, "eagain") /\ UNCHANGED interrupted
Processed(w) ==
    /\ WorkerAt(w, "process")
    /\ \E l \in {"reply", "dispatch", "eagain"} :
          GotoLabel(w, l) /\ (l = "reply" => (got_init <=> cur[w] = FUSE_INIT))
    /\ interrupts' \in Seq(Requests) /\ Range(interrupts') \subseteq Range(interrupts)
    /\ UNCHANGED <<kernelVars, sessionVars, ref_cnt, func, lock, data, sig, cur, noteVars>>

(* One of the five happens, and the list of interrupts only shrinks.        *)
LEMMA ProcessSteps ==
    ASSUME NEW w \in Workers, RequestsTypeOK, fuse_session_process_buf_internal(w)
    PROVE  /\ Processed(w)
           /\ Refused(w) \/ Unlisted(w) \/ Marked(w) \/ Plain(w) \/ Pops(w)
<1>1. interrupts \in Seq(Requests) /\ got_init \in BOOLEAN
  BY Zenon DEF RequestsTypeOK
<1>2. CASE got_init = (cur[w] = FUSE_INIT)
  BY <1>1, <1>2, Zenon DEF fuse_session_process_buf_internal, Processed, Refused
<1>3. CASE got_init # (cur[w] = FUSE_INIT) /\ no_interrupt
  BY <1>1, <1>3, Zenon DEF fuse_session_process_buf_internal, Processed, Unlisted
<1>4. CASE got_init # (cur[w] = FUSE_INIT) /\ ~no_interrupt
  <2>0. ~no_interrupt /\ (got_init <=> cur[w] # FUSE_INIT)
    BY <1>1, <1>4, Zenon
  <2>1. check_interrupt(w, cur[w]) /\ list' = list \cup {cur[w]} /\ WorkerAt(w, "process")
        /\ UNCHANGED <<kernelVars, sessionVars, ref_cnt, func, lock, data, sig, cur, noteVars>>
    BY <1>4, Zenon DEF fuse_session_process_buf_internal
  <2>2. CASE cur[w] \in Range(interrupts)
    <3>1. PICK i \in DOMAIN interrupts :
             interrupts[i] = cur[w] /\ interrupts' = list_del_req(interrupts, i)
      BY <2>1, <2>2, Zenon DEF check_interrupt
    <3>2. /\ interrupts' \in Seq(Requests) /\ Range(interrupts') \subseteq Range(interrupts)
          /\ \A x \in Range(interrupts) : x # cur[w] => x \in Range(interrupts')
      BY <1>1, <3>1, UnlinkLeaves, Zenon
    <3>3. /\ interrupted' = [interrupted EXCEPT ![cur[w]] = TRUE]
          /\ GotoLabel(w, "dispatch") /\ UNCHANGED popped
      BY <2>1, <2>2, Zenon DEF check_interrupt
    <3> QED
      BY <2>0, <2>1, <2>2, <3>2, <3>3, Zenon DEF Processed, Marked
  <2>3. CASE cur[w] \notin Range(interrupts) /\ interrupts = <<>>
    BY <1>1, <2>0, <2>1, <2>3, Zenon DEF check_interrupt, Processed, Plain
  <2>4. CASE cur[w] \notin Range(interrupts) /\ interrupts # <<>>
    <3>1. /\ Tail(interrupts) \in Seq(Requests) /\ Head(interrupts) \in Range(interrupts)
          /\ Range(Tail(interrupts)) \subseteq Range(interrupts)
          /\ \A x \in Range(interrupts) : x # Head(interrupts) => x \in Range(Tail(interrupts))
      BY <1>1, <2>4, TailLeaves, Zenon
    <3>2. /\ popped' = [popped EXCEPT ![w] = Head(interrupts)] /\ UNCHANGED interrupted
          /\ interrupts' = Tail(interrupts) /\ GotoLabel(w, "eagain")
      BY <2>1, <2>4, Zenon DEF check_interrupt
    <3> QED
      BY <2>0, <2>1, <2>4, <3>1, <3>2, Zenon DEF Processed, Pops
  <2> QED
    BY <2>2, <2>3, <2>4, Zenon
<1> QED
  BY <1>2, <1>3, <1>4, Zenon

(* do_interrupt lists an interrupt once.                                    *)
LEMMA InterruptListed ==
    ASSUME NEW w \in Workers, RequestsTypeOK, MessagesSent, WorkerAt(w, "interrupt"),
           list_interrupt(w)
    PROVE  interrupts' \in Seq(Requests) /\ Range(interrupts') = Range(interrupts) \cup {cur[w]}
<1>1. interrupts \in Seq(Requests) /\ cur[w] \in Requests
  BY Zenon DEF RequestsTypeOK, MessagesSent, WorkerAt
<1> QED
  BY <1>1, AppendAdds, Zenon DEF list_interrupt

(* A step of one thread leaves the requests that the others handle listed.  *)
Handles(w, u) == cur[w] = u /\ pc[w] \in Handling
LEMMA OthersHandle ==
    ASSUME ListHandled, NEW w \in Workers, ~no_interrupt' => ~no_interrupt,
           \A v \in Workers \ {w} : pc'[v] = pc[v] /\ cur'[v] = cur[v],
           \A u \in list' : u \in list /\ (Handles(w, u) => Handles(w, u)')
    PROVE  ListHandled'
<1> SUFFICES ASSUME ~no_interrupt, NEW u \in list' PROVE \E v \in Workers : Handles(v, u)'
  BY Zenon DEF ListHandled, Handles
<1>1. PICK v \in Workers : Handles(v, u)
  BY Zenon DEF ListHandled, Handles
<1> QED
  BY <1>1, Zenon DEF Handles

(* A handler of lib/fuse.c goes on, up to its answer.                       *)
HandlerMove(w) ==
    /\ pc[w] \in {"dispatch"} \cup InOperation /\ cur[w] \in Requests
    /\ \E l \in InOperation \cup {"reply"} : GotoLabel(w, l)
    /\ UNCHANGED <<kernelVars, sessionVars, list, interrupts, ref_cnt, interrupted, lock,
                   cur, popped, noteVars>>
LEMMA HandlerMoves ==
    ASSUME NEW w \in Workers, MessagesSent,
           \/ do_request(w) \/ fuse_do_prepare_interrupt(w) \/ OpBegin(w) \/ OpEnd(w)
           \/ fuse_do_finish_interrupt(w)
    PROVE  HandlerMove(w)
<1> USE DEF HandlerMove, InOperation, WorkerAt, reqVars
<1>0. pc[w] \in InOperation => cur[w] \in Requests
  BY Zenon DEF MessagesSent
<1>1. CASE do_request(w)
  BY <1>1, Zenon DEF do_request
<1>2. CASE fuse_do_prepare_interrupt(w)
  BY <1>0, <1>2, Zenon DEF fuse_do_prepare_interrupt
<1>3. CASE OpBegin(w)
  BY <1>0, <1>3, Zenon DEF OpBegin
<1>4. CASE OpEnd(w)
  BY <1>0, <1>4, Zenon DEF OpEnd
<1>5. CASE set_finished(w)
  BY <1>0, <1>5, Zenon DEF set_finished
<1>6. CASE unregister(w)
  BY <1>0, <1>6, Zenon DEF unregister
<1> QED
  BY <1>1, <1>2, <1>3, <1>4, <1>5, <1>6, Zenon DEF fuse_do_finish_interrupt

(* A thread that interrupts a request goes on, up to put_request.           *)
InterrupterMove(w) ==
    /\ pc[w] \in {"lock", "call", "unlock"}
    /\ \E l \in {"call", "unlock", "put"} : GotoLabel(w, l)
    /\ UNCHANGED <<kernelVars, sessionVars, list, interrupts, ref_cnt, func, data, cur,
                   popped, noteVars>>
LEMMA InterrupterMoves ==
    ASSUME NEW w \in Workers, RequestsTypeOK,
           mark_interrupted(w) \/ unlock_request(w) \/ fuse_interrupt(w)
    PROVE  InterrupterMove(w)
<1> USE DEF InterrupterMove, WorkerAt, GotoLabel, reqVars
<1>1. CASE mark_interrupted(w)
  BY <1>1, Zenon DEF mark_interrupted
<1>2. CASE unlock_request(w)
  BY <1>2, Zenon DEF unlock_request
<1>3. CASE fuse_interrupt(w)
  <2>1. pc = [pc EXCEPT ![w] = pc[w]]
    BY Zenon DEF RequestsTypeOK
  <2> QED
    BY <1>3, <2>1, Zenon DEF fuse_interrupt
<1> QED
  BY <1>1, <1>2, <1>3, Zenon

(* A thread has read an INTERRUPT: it reads on, or has found the request.   *)
InterruptMove(w) ==
    /\ pc[w] = "interrupt"
    /\ NextMessage(w) \/ (GotoLabel(w, "lock") /\ UNCHANGED cur)
    /\ UNCHANGED <<ksent, answered, kasked, kintr, sessionVars, list, interrupted, func,
                   lock, data, sig, popped, noteVars>>
LEMMA InterruptMoves ==
    ASSUME NEW w \in Workers, do_interrupt(w) PROVE InterruptMove(w)
  BY DEF do_interrupt, interrupt_early, interrupt_nosys, find_listed, list_interrupt,
         InterruptMove, WorkerAt

(* The callers of fuse_lowlevel_notify_retrieve are not threads of the      *)
(* session.                                                                 *)
LEMMA RetrieveMoves ==
    ASSUME \/ \E n \in Retrieves : fuse_lowlevel_notify_retrieve(n)
           \/ UNCHANGED requestVars
    PROVE  UNCHANGED <<kernelVars, sessionVars, list, interrupts, reqVars, data, sig,
                       workerVars>>
  BY DEF fuse_lowlevel_notify_retrieve, list_retrieve, send_notify_iov, drop_retrieve,
         requestVars

-----------------------------------------------------------------------------
(* Messages, INIT and DESTROY, the list, the data of a handler, retrievals. *)

(* A message has one reader, and an interrupt names a request that was sent.*)
LEMMA MessagesKept ==
    ASSUME RequestsLive, [RequestsNext]_requestVars
    PROVE  MessagesSent'
<1> USE DEF MessagesSent, Labels, Uniques, Handling, Interrupting, InOperation, GotoLabel,
            WorkerAt, NextMessage, kernelVars, sessionVars, reqVars, workerVars, noteVars
<1>0. /\ RequestsTypeOK /\ MessagesSent
      /\ pc \in [Workers -> Labels] /\ cur \in [Workers -> Uniques]
      /\ popped \in [Workers -> Uniques] /\ kintr \subseteq kasked /\ kasked \subseteq Requests
  BY Zenon DEF RequestsLive, RequestsTypeOK
<1>1. ASSUME NEW w \in Workers, ReceiveRequest(w) PROVE MessagesSent'
  BY <1>0, <1>1 DEF ReceiveRequest, Sendable
<1>2. ASSUME NEW w \in Workers, ReceiveInterrupt(w) PROVE MessagesSent'
  BY <1>0, <1>2 DEF ReceiveInterrupt
<1>3. ASSUME NEW w \in Workers, fuse_session_process_buf_internal(w) PROVE MessagesSent'
  <2>a. Processed(w)
    BY <1>0, <1>3, ProcessSteps, Zenon
  <2>b. Refused(w) \/ Unlisted(w) \/ Marked(w) \/ Plain(w) \/ Pops(w)
    BY <1>0, <1>3, ProcessSteps, Zenon
  <2>1. CASE Refused(w)
    BY <1>0, <2>a, <2>1 DEF Refused, Processed
  <2>2. CASE Unlisted(w)
    BY <1>0, <2>a, <2>2 DEF Unlisted, Processed
  <2>3. CASE Marked(w)
    BY <1>0, <2>a, <2>3 DEF Marked, Processed
  <2>4. CASE Plain(w)
    BY <1>0, <2>a, <2>4 DEF Plain, Processed
  <2>5. CASE Pops(w)
    BY <1>0, <2>a, <2>5 DEF Pops, Processed
  <2> QED
    BY <2>b, <2>1, <2>2, <2>3, <2>4, <2>5, Zenon
<1>4. ASSUME NEW w \in Workers, reply_again(w) PROVE MessagesSent'
  BY <1>0, <1>4 DEF reply_again
<1>5. ASSUME NEW w \in Workers, do_init(w) PROVE MessagesSent'
  BY <1>0, <1>5 DEF do_init
<1>6. ASSUME NEW w \in Workers, do_destroy(w) PROVE MessagesSent'
  BY <1>0, <1>6 DEF do_destroy
<1>7. ASSUME NEW w \in Workers,
             do_request(w) \/ fuse_do_prepare_interrupt(w) \/ OpBegin(w) \/ OpEnd(w)
                 \/ fuse_do_finish_interrupt(w)
      PROVE  MessagesSent'
  <2>1. HandlerMove(w)
    BY <1>0, <1>7, HandlerMoves, Zenon
  <2> QED
    BY <1>0, <2>1 DEF HandlerMove
<1>8. ASSUME NEW w \in Workers, send_reply(w) PROVE MessagesSent'
  BY <1>0, <1>8 DEF send_reply
<1>9. ASSUME NEW w \in Workers, reply_none(w) PROVE MessagesSent'
  BY <1>0, <1>9, Zenon DEF reply_none, fuse_free_req
<1>10. ASSUME NEW w \in Workers, do_interrupt(w) PROVE MessagesSent'
  <2>1. CASE interrupt_early(w)
    BY <1>0, <1>10, <2>1, Zenon DEF interrupt_early, do_interrupt
  <2>2. CASE interrupt_nosys(w)
    BY <1>0, <1>10, <2>2, Zenon DEF interrupt_nosys, do_interrupt
  <2>3. CASE find_listed(w)
    BY <1>0, <1>10, <2>3 DEF find_listed, do_interrupt
  <2>4. CASE list_interrupt(w)
    <3>1. interrupts' \in Seq(Requests) /\ Range(interrupts') = Range(interrupts) \cup {cur[w]}
      BY <1>0, <1>10, <2>4, InterruptListed, Zenon DEF do_interrupt
    <3> QED
      BY <1>0, <1>10, <2>4, <3>1 DEF list_interrupt, do_interrupt
  <2> QED
    BY <1>10, <2>1, <2>2, <2>3, <2>4, Zenon DEF do_interrupt
<1>11. ASSUME NEW w \in Workers, mark_interrupted(w) \/ unlock_request(w) \/ fuse_interrupt(w)
      PROVE  MessagesSent'
  <2>1. InterrupterMove(w)
    BY <1>0, <1>11, InterrupterMoves, Zenon
  <2> QED
    BY <1>0, <2>1 DEF InterrupterMove
<1>12. ASSUME NEW w \in Workers, put_request(w) PROVE MessagesSent'
  BY <1>0, <1>12, Zenon DEF put_request
<1>13. ASSUME NEW w \in Workers, find_notify(w) PROVE MessagesSent'
  <2>0. /\ pc[w] = "dispatch" /\ cur[w] \in Retrieves /\ notify_list' = notify_list \ {cur[w]}
        /\ UNCHANGED <<kernelVars, sessionVars, list, interrupts, reqVars, data, sig, popped,
                       retrieve, rreq>>
    BY <1>13, Zenon DEF find_notify
  <2>1. CASE cur[w] \in notify_list
    <3>1. GotoLabel(w, "retrieved") /\ UNCHANGED cur
      BY <1>13, <2>1, Zenon DEF find_notify
    <3> QED
      BY <1>0, <2>0, <3>1, Zenon
  <2>2. CASE cur[w] \notin notify_list
    <3>1. NextMessage(w)
      BY <1>13, <2>2, Zenon DEF find_notify
    <3> QED
      BY <1>0, <2>0, <3>1, Zenon
  <2> QED
    BY <2>1, <2>2, Zenon
<1>14. ASSUME NEW w \in Workers, fuse_ll_retrieve_reply(w) PROVE MessagesSent'
  BY <1>0, <1>14 DEF fuse_ll_retrieve_reply
<1>15. ASSUME Ask PROVE MessagesSent'
  BY <1>0, <1>15, Zenon DEF Ask
<1>16. ASSUME (\E n \in Retrieves : fuse_lowlevel_notify_retrieve(n)) \/ UNCHANGED requestVars
      PROVE  MessagesSent'
  <2>1. UNCHANGED <<kernelVars, sessionVars, list, interrupts, reqVars, data, sig, workerVars>>
    BY <1>0, <1>16, RetrieveMoves, Zenon
  <2> QED
    BY <1>0, <2>1, Zenon
<1> QED
  BY <1>1, <1>2, <1>3, <1>4, <1>5, <1>6, <1>7, <1>8, <1>9, <1>10, <1>11, <1>12, <1>13,
     <1>14, <1>15, <1>16, Zenon
  DEF RequestsNext, WorkerStep, find_interrupted, do_notify_reply

(* got_init stays set until DESTROY, which follows the other answers.       *)
LEMMA InitKept ==
    ASSUME RequestsLive, [RequestsNext]_requestVars
    PROVE  InitFirst'
<1> USE DEF InitFirst, Arriving, Labels, Uniques, Handling, Interrupting, InOperation,
            GotoLabel, WorkerAt, NextMessage, kernelVars, sessionVars, reqVars, workerVars,
            noteVars
<1>0. /\ RequestsTypeOK /\ MessagesSent
      /\ pc \in [Workers -> Labels] /\ cur \in [Workers -> Uniques]
      /\ ksent \subseteq Uniques /\ answered \subseteq ksent /\ kasked \subseteq Requests
      /\ got_init \in BOOLEAN /\ no_interrupt \in BOOLEAN /\ intr \in BOOLEAN
      /\ \A w \in Workers : pc[w] \in Handling => cur[w] \in ksent
      /\ \A w \in Workers : pc[w] \in Interrupting \cup {"interrupt"} => cur[w] \in kasked
      /\ \A w \in Workers : pc[w] \in InOperation => cur[w] \in Requests
      /\ \A w \in Workers : pc[w] = "retrieved" => cur[w] \in Retrieves
      /\ \A v, w \in Workers : pc[v] \in Handling /\ pc[w] \in Handling
          /\ cur[v] = cur[w] => v = w
      /\ InitFirst
  BY Zenon DEF RequestsLive, RequestsTypeOK, MessagesSent
<1>1. ASSUME NEW w \in Workers, ReceiveRequest(w) PROVE InitFirst'
  BY <1>0, <1>1 DEF ReceiveRequest, Sendable
<1>2. ASSUME NEW w \in Workers, ReceiveInterrupt(w) PROVE InitFirst'
  BY <1>0, <1>2 DEF ReceiveInterrupt
<1>3. ASSUME NEW w \in Workers, fuse_session_process_buf_internal(w) PROVE InitFirst'
  <2>1. Processed(w)
    BY <1>0, <1>3, ProcessSteps, Zenon
  <2> QED
    BY <1>0, <2>1, Zenon DEF Processed
<1>4. ASSUME NEW w \in Workers, reply_again(w) PROVE InitFirst'
  BY <1>0, <1>4 DEF reply_again
<1>5. ASSUME NEW w \in Workers, do_init(w) PROVE InitFirst'
  BY <1>0, <1>5, Zenon DEF do_init
<1>6. ASSUME NEW w \in Workers, do_destroy(w) PROVE InitFirst'
  BY <1>0, <1>6, Zenon DEF do_destroy
<1>7. ASSUME NEW w \in Workers,
             do_request(w) \/ fuse_do_prepare_interrupt(w) \/ OpBegin(w) \/ OpEnd(w)
                 \/ fuse_do_finish_interrupt(w)
      PROVE  InitFirst'
  <2>1. HandlerMove(w)
    BY <1>0, <1>7, HandlerMoves, Zenon
  <2> QED
    BY <1>0, <2>1, Zenon DEF HandlerMove
<1>8. ASSUME NEW w \in Workers, send_reply(w) PROVE InitFirst'
  BY <1>0, <1>8, Zenon DEF send_reply
<1>9. ASSUME NEW w \in Workers, reply_none(w) PROVE InitFirst'
  BY <1>0, <1>9, Zenon DEF reply_none, fuse_free_req
<1>10. ASSUME NEW w \in Workers, do_interrupt(w) PROVE InitFirst'
  <2>1. InterruptMove(w)
    BY <1>0, <1>10, InterruptMoves, Zenon
  <2> QED
    BY <1>0, <2>1 DEF InterruptMove
<1>11. ASSUME NEW w \in Workers, mark_interrupted(w) \/ unlock_request(w) \/ fuse_interrupt(w)
      PROVE  InitFirst'
  <2>1. InterrupterMove(w)
    BY <1>0, <1>11, InterrupterMoves, Zenon
  <2> QED
    BY <1>0, <2>1, Zenon DEF InterrupterMove
<1>12. ASSUME NEW w \in Workers, put_request(w) PROVE InitFirst'
  BY <1>0, <1>12 DEF put_request
<1>13. ASSUME NEW w \in Workers, find_notify(w) PROVE InitFirst'
  <2>0. /\ pc[w] = "dispatch" /\ cur[w] \in Retrieves /\ notify_list' = notify_list \ {cur[w]}
        /\ UNCHANGED <<kernelVars, sessionVars, list, interrupts, reqVars, data, sig, popped,
                       retrieve, rreq>>
    BY <1>13, Zenon DEF find_notify
  <2>1. CASE cur[w] \in notify_list
    <3>1. GotoLabel(w, "retrieved") /\ UNCHANGED cur
      BY <1>13, <2>1, Zenon DEF find_notify
    <3> QED
      BY <1>0, <2>0, <3>1, Zenon
  <2>2. CASE cur[w] \notin notify_list
    <3>1. NextMessage(w)
      BY <1>13, <2>2, Zenon DEF find_notify
    <3> QED
      BY <1>0, <2>0, <3>1, Zenon
  <2> QED
    BY <2>1, <2>2, Zenon
<1>14. ASSUME NEW w \in Workers, fuse_ll_retrieve_reply(w) PROVE InitFirst'
  BY <1>0, <1>14, Zenon DEF fuse_ll_retrieve_reply
<1>15. ASSUME Ask PROVE InitFirst'
  BY <1>0, <1>15 DEF Ask
<1>16. ASSUME (\E n \in Retrieves : fuse_lowlevel_notify_retrieve(n)) \/ UNCHANGED requestVars
      PROVE  InitFirst'
  <2>1. UNCHANGED <<kernelVars, sessionVars, list, interrupts, reqVars, data, sig, workerVars>>
    BY <1>0, <1>16, RetrieveMoves, Zenon
  <2> QED
    BY <1>0, <2>1, Zenon
<1> QED
  BY <1>1, <1>2, <1>3, <1>4, <1>5, <1>6, <1>7, <1>8, <1>9, <1>10, <1>11, <1>12, <1>13,
     <1>14, <1>15, <1>16, Zenon
  DEF RequestsNext, WorkerStep, find_interrupted, do_notify_reply

(* fuse_free_req takes a request off the list with its handler.             *)
LEMMA ListKept ==
    ASSUME RequestsLive, [RequestsNext]_requestVars
    PROVE  ListHandled'
<1> USE DEF Labels, Uniques, Handling, Interrupting, InOperation, GotoLabel, WorkerAt,
            NextMessage, kernelVars, sessionVars, reqVars, workerVars, noteVars
<1>0. /\ RequestsTypeOK /\ MessagesSent
      /\ pc \in [Workers -> Labels] /\ cur \in [Workers -> Uniques]
      /\ no_interrupt \in BOOLEAN /\ intr \in BOOLEAN
      /\ InitFirst /\ RetrieveExpected /\ ListHandled
  BY Zenon DEF RequestsLive, RequestsTypeOK, MessagesSent, RequestsCounted
<1>1. ASSUME NEW w \in Workers, ReceiveRequest(w) PROVE ListHandled'
  <2>1. \A v \in Workers \ {w} : pc'[v] = pc[v] /\ cur'[v] = cur[v]
    BY <1>0, <1>1 DEF ReceiveRequest
  <2>2. \A u \in list' : u \in list /\ (Handles(w, u) => Handles(w, u)')
    BY <1>0, <1>1, Zenon DEF ReceiveRequest, Handles
  <2> QED
    BY <1>0, <1>1, <2>1, <2>2, OthersHandle DEF ReceiveRequest
<1>2. ASSUME NEW w \in Workers, ReceiveInterrupt(w) PROVE ListHandled'
  <2>1. \A v \in Workers \ {w} : pc'[v] = pc[v] /\ cur'[v] = cur[v]
    BY <1>0, <1>2, Zenon DEF ReceiveInterrupt
  <2>2. \A u \in list' : u \in list /\ (Handles(w, u) => Handles(w, u)')
    BY <1>0, <1>2, Zenon DEF ReceiveInterrupt, Handles
  <2> QED
    BY <1>0, <1>2, <2>1, <2>2, OthersHandle DEF ReceiveInterrupt
<1>3. ASSUME NEW w \in Workers, fuse_session_process_buf_internal(w) PROVE ListHandled'
  <2>a. Processed(w)
    BY <1>0, <1>3, ProcessSteps, Zenon
  <2>b. Refused(w) \/ Unlisted(w) \/ Marked(w) \/ Plain(w) \/ Pops(w)
    BY <1>0, <1>3, ProcessSteps, Zenon
  <2>1. CASE Refused(w)
    BY <1>0, <2>a, <2>1 DEF Refused, Processed, ListHandled
  <2>2. CASE Unlisted(w)
    BY <1>0, <2>a, <2>2, Zenon DEF Unlisted, Processed, ListHandled
  <2>3. CASE Marked(w)
    BY <1>0, <2>a, <2>3 DEF Marked, Processed, ListHandled
  <2>4. CASE Plain(w)
    BY <1>0, <2>a, <2>4 DEF Plain, Processed, ListHandled
  <2>5. CASE Pops(w)
    BY <1>0, <2>a, <2>5 DEF Pops, Processed, ListHandled
  <2> QED
    BY <2>b, <2>1, <2>2, <2>3, <2>4, <2>5, Zenon
<1>4. ASSUME NEW w \in Workers, reply_again(w) PROVE ListHandled'
  BY <1>0, <1>4 DEF reply_again, ListHandled
<1>5. ASSUME NEW w \in Workers, do_init(w) PROVE ListHandled'
  BY <1>0, <1>5 DEF do_init, ListHandled, InitFirst
<1>6. ASSUME NEW w \in Workers, do_destroy(w) PROVE ListHandled'
  BY <1>0, <1>6 DEF do_destroy, ListHandled
<1>7. ASSUME NEW w \in Workers,
             do_request(w) \/ fuse_do_prepare_interrupt(w) \/ OpBegin(w) \/ OpEnd(w)
                 \/ fuse_do_finish_interrupt(w)
      PROVE  ListHandled'
  <2>1. HandlerMove(w)
    BY <1>0, <1>7, HandlerMoves, Zenon
  <2> QED
    BY <1>0, <2>1 DEF HandlerMove, ListHandled
<1>8. ASSUME NEW w \in Workers, send_reply(w) PROVE ListHandled'
  BY <1>0, <1>8 DEF send_reply, ListHandled
<1>9. ASSUME NEW w \in Workers, reply_none(w) PROVE ListHandled'
  BY <1>0, <1>9 DEF reply_none, fuse_free_req, ListHandled
<1>10. ASSUME NEW w \in Workers, do_interrupt(w) PROVE ListHandled'
  <2>1. InterruptMove(w)
    BY <1>0, <1>10, InterruptMoves, Zenon
  <2> QED
    BY <1>0, <2>1 DEF InterruptMove, ListHandled
<1>11. ASSUME NEW w \in Workers, mark_interrupted(w) \/ unlock_request(w) \/ fuse_interrupt(w)
      PROVE  ListHandled'
  <2>1. InterrupterMove(w)
    BY <1>0, <1>11, InterrupterMoves, Zenon
  <2> QED
    BY <1>0, <2>1 DEF InterrupterMove, ListHandled
<1>12. ASSUME NEW w \in Workers, put_request(w) PROVE ListHandled'
  <2>1. \A v \in Workers \ {w} : pc'[v] = pc[v] /\ cur'[v] = cur[v]
    BY <1>0, <1>12, Zenon DEF put_request
  <2>2. \A u \in list' : u \in list /\ (Handles(w, u) => Handles(w, u)')
    BY <1>0, <1>12, Zenon DEF put_request, Handles
  <2> QED
    BY <1>0, <1>12, <2>1, <2>2, OthersHandle, Zenon DEF put_request
<1>13. ASSUME NEW w \in Workers, find_notify(w) PROVE ListHandled'
  <2>0. pc[w] = "dispatch" /\ cur[w] \in notify_list
    BY <1>0, <1>13, Zenon DEF find_notify, RetrieveExpected, Arriving
  <2>1. \A v \in Workers \ {w} : pc'[v] = pc[v] /\ cur'[v] = cur[v]
    BY <1>0, <1>13, <2>0, Zenon DEF find_notify
  <2>2. \A u \in list' : u \in list /\ (Handles(w, u) => Handles(w, u)')
    BY <1>0, <1>13, <2>0, Zenon DEF find_notify, Handles
  <2> QED
    BY <1>0, <1>13, <2>0, <2>1, <2>2, OthersHandle, Zenon DEF find_notify
<1>14. ASSUME NEW w \in Workers, fuse_ll_retrieve_reply(w) PROVE ListHandled'
  BY <1>0, <1>14 DEF fuse_ll_retrieve_reply, ListHandled
<1>15. ASSUME Ask PROVE ListHandled'
  BY <1>0, <1>15 DEF Ask, ListHandled
<1>16. ASSUME (\E n \in Retrieves : fuse_lowlevel_notify_retrieve(n)) \/ UNCHANGED requestVars
      PROVE  ListHandled'
  <2>1. UNCHANGED <<kernelVars, sessionVars, list, interrupts, reqVars, data, sig, workerVars>>
    BY <1>0, <1>16, RetrieveMoves, Zenon
  <2> QED
    BY <1>0, <2>1 DEF ListHandled
<1> QED
  BY <1>1, <1>2, <1>3, <1>4, <1>5, <1>6, <1>7, <1>8, <1>9, <1>10, <1>11, <1>12, <1>13,
     <1>14, <1>15, <1>16, Zenon
  DEF RequestsNext, WorkerStep, find_interrupted, do_notify_reply

(* The handler takes its data back under req->lock, which the thread that   *)
(* runs fuse_interrupt holds.                                               *)
LEMMA DataKept ==
    ASSUME RequestsLive, [RequestsNext]_requestVars
    PROVE  InterruptDataLive'
<1> USE DEF InterruptDataLive, Labels, Uniques, Handling, Interrupting, InOperation,
            GotoLabel, WorkerAt, NextMessage, kernelVars, sessionVars, reqVars, workerVars,
            noteVars
<1>0. /\ RequestsTypeOK /\ MessagesSent
      /\ pc \in [Workers -> Labels] /\ cur \in [Workers -> Uniques]
      /\ func \in [Uniques -> BOOLEAN] /\ lock \in [Uniques -> Workers \cup {NoWorker}]
      /\ data \in [Uniques -> {"none", "live", "finished", "gone"}]
      /\ \A v, w \in Workers : pc[v] \in Handling /\ pc[w] \in Handling
          /\ cur[v] = cur[w] => v = w
      /\ InterruptDataLive
  BY Zenon DEF RequestsLive, RequestsTypeOK, MessagesSent
<1>1. ASSUME NEW w \in Workers, ReceiveRequest(w) PROVE InterruptDataLive'
  <2>1. /\ pc[w] = "idle" /\ pc' = [pc EXCEPT ![w] = "process"]
        /\ \E u \in Uniques : cur' = [cur EXCEPT ![w] = u]
        /\ UNCHANGED <<func, lock, data>>
    BY <1>1, Zenon DEF ReceiveRequest
  <2> QED
    BY <1>0, <2>1, Zenon
<1>2. ASSUME NEW w \in Workers, ReceiveInterrupt(w) PROVE InterruptDataLive'
  BY <1>0, <1>2 DEF ReceiveInterrupt
<1>3. ASSUME NEW w \in Workers, fuse_session_process_buf_internal(w)
      PROVE  InterruptDataLive'
  <2>1. Processed(w)
    BY <1>0, <1>3, ProcessSteps, Zenon
  <2> QED
    BY <1>0, <2>1, Zenon DEF Processed
<1>4. ASSUME NEW w \in Workers, reply_again(w) PROVE InterruptDataLive'
  BY <1>0, <1>4, Zenon DEF reply_again
<1>5. ASSUME NEW w \in Workers, do_init(w) PROVE InterruptDataLive'
  BY <1>0, <1>5, Zenon DEF do_init
<1>6. ASSUME NEW w \in Workers, do_destroy(w) PROVE InterruptDataLive'
  BY <1>0, <1>6, Zenon DEF do_destroy
<1>7. ASSUME NEW w \in Workers, do_request(w) PROVE InterruptDataLive'
  BY <1>0, <1>7, Zenon DEF do_request
<1>8. ASSUME NEW w \in Workers, fuse_do_prepare_interrupt(w) PROVE InterruptDataLive'
  BY <1>0, <1>8, Zenon DEF fuse_do_prepare_interrupt, fuse_req_interrupt_func
<1>9. ASSUME NEW w \in Workers, OpBegin(w) PROVE InterruptDataLive'
  BY <1>0, <1>9 DEF OpBegin
<1>10. ASSUME NEW w \in Workers, OpEnd(w) PROVE InterruptDataLive'
  BY <1>0, <1>10, Zenon DEF OpEnd
<1>11. ASSUME NEW w \in Workers, set_finished(w) PROVE InterruptDataLive'
  BY <1>0, <1>11, Zenon DEF set_finished
<1>12. ASSUME NEW w \in Workers, unregister(w) PROVE InterruptDataLive'
  BY <1>0, <1>12 DEF unregister, fuse_req_interrupt_func
<1>13. ASSUME NEW w \in Workers, send_reply(w) PROVE InterruptDataLive'
  BY <1>0, <1>13, Zenon DEF send_reply
<1>14. ASSUME NEW w \in Workers, reply_none(w) PROVE InterruptDataLive'
  BY <1>0, <1>14 DEF reply_none, fuse_free_req
<1>15. ASSUME NEW w \in Workers, do_interrupt(w) PROVE InterruptDataLive'
  <2>1. InterruptMove(w)
    BY <1>0, <1>15, InterruptMoves, Zenon
  <2> QED
    BY <1>0, <2>1, Zenon DEF InterruptMove
<1>16. ASSUME NEW w \in Workers, mark_interrupted(w) PROVE InterruptDataLive'
  BY <1>0, <1>16, Zenon DEF mark_interrupted
<1>17. ASSUME NEW w \in Workers, unlock_request(w) PROVE InterruptDataLive'
  BY <1>0, <1>17, Zenon DEF unlock_request
<1>18. ASSUME NEW w \in Workers, fuse_interrupt(w) PROVE InterruptDataLive'
  BY <1>0, <1>18, Zenon DEF fuse_interrupt
<1>19. ASSUME NEW w \in Workers, put_request(w) PROVE InterruptDataLive'
  BY <1>0, <1>19, Zenon DEF put_request
<1>20. ASSUME NEW w \in Workers, find_notify(w) PROVE InterruptDataLive'
  BY <1>0, <1>20 DEF find_notify
<1>21. ASSUME NEW w \in Workers, fuse_ll_retrieve_reply(w) PROVE InterruptDataLive'
  BY <1>0, <1>21, Zenon DEF fuse_ll_retrieve_reply
<1>22. ASSUME Ask PROVE InterruptDataLive'
  BY <1>0, <1>22 DEF Ask
<1>23. ASSUME (\E n \in Retrieves : fuse_lowlevel_notify_retrieve(n)) \/ UNCHANGED requestVars
      PROVE  InterruptDataLive'
  <2>1. UNCHANGED <<kernelVars, sessionVars, list, interrupts, reqVars, data, sig, workerVars>>
    BY <1>0, <1>23, RetrieveMoves, Zenon
  <2> QED
    BY <1>0, <2>1, Zenon
<1> QED
  BY <1>1, <1>2, <1>3, <1>4, <1>5, <1>6, <1>7, <1>8, <1>9, <1>10, <1>11, <1>12, <1>13,
     <1>14, <1>15, <1>16, <1>17, <1>18, <1>19, <1>20, <1>21, <1>22, <1>23, Zenon
  DEF RequestsNext, WorkerStep, find_interrupted, do_notify_reply, fuse_do_finish_interrupt

(* A retrieval is listed before it is sent, and its entry is taken once.    *)
LEMMA RetrievesKept ==
    ASSUME RequestsLive, [RequestsNext]_requestVars
    PROVE  RetrieveExpected'
<1> USE DEF RetrieveExpected, Arriving, Labels, Uniques, Handling, Interrupting,
            InOperation, GotoLabel, WorkerAt, NextMessage, kernelVars, sessionVars, reqVars,
            workerVars, noteVars
<1>0. /\ RequestsTypeOK /\ MessagesSent
      /\ pc \in [Workers -> Labels] /\ cur \in [Workers -> Uniques]
      /\ notify_list \subseteq Retrieves /\ DOMAIN retrieve = Retrieves
          /\ DOMAIN rreq = Retrieves
      /\ \A w \in Workers : pc[w] \in Handling => cur[w] \in ksent
      /\ \A w \in Workers : pc[w] \in InOperation => cur[w] \in Requests
      /\ \A v, w \in Workers : pc[v] \in Handling /\ pc[w] \in Handling
          /\ cur[v] = cur[w] => v = w
      /\ RetrieveExpected
  BY Zenon DEF RequestsLive, RequestsTypeOK, MessagesSent
<1>1. ASSUME NEW w \in Workers, ReceiveRequest(w) PROVE RetrieveExpected'
  <2>1. PICK u \in Uniques :
           /\ pc[w] = "idle" /\ u \notin ksent /\ (u \in Retrieves => retrieve[u] = "sent")
           /\ ksent' = ksent \cup {u} /\ cur' = [cur EXCEPT ![w] = u]
           /\ pc' = [pc EXCEPT ![w] = "process"]
    BY <1>1, Zenon DEF ReceiveRequest, Sendable
  <2>2. UNCHANGED <<notify_list, retrieve, rreq>>
    BY <1>1, Zenon DEF ReceiveRequest
  <2> QED
    BY <1>0, <2>1, <2>2, Zenon
<1>2. ASSUME NEW w \in Workers, ReceiveInterrupt(w) PROVE RetrieveExpected'
  BY <1>0, <1>2 DEF ReceiveInterrupt
<1>3. ASSUME NEW w \in Workers, fuse_session_process_buf_internal(w) PROVE RetrieveExpected'
  <2>1. Processed(w)
    BY <1>0, <1>3, ProcessSteps, Zenon
  <2> QED
    BY <1>0, <2>1 DEF Processed
<1>4. ASSUME NEW w \in Workers, reply_again(w) PROVE RetrieveExpected'
  BY <1>0, <1>4, Zenon DEF reply_again
<1>5. ASSUME NEW w \in Workers, do_init(w) PROVE RetrieveExpected'
  BY <1>0, <1>5, Zenon DEF do_init
<1>6. ASSUME NEW w \in Workers, do_destroy(w) PROVE RetrieveExpected'
  BY <1>0, <1>6, Zenon DEF do_destroy
<1>7. ASSUME NEW w \in Workers,
             do_request(w) \/ fuse_do_prepare_interrupt(w) \/ OpBegin(w) \/ OpEnd(w)
                 \/ fuse_do_finish_interrupt(w)
      PROVE  RetrieveExpected'
  <2>1. HandlerMove(w)
    BY <1>0, <1>7, HandlerMoves, Zenon
  <2> QED
    BY <1>0, <2>1 DEF HandlerMove
<1>8. ASSUME NEW w \in Workers, send_reply(w) PROVE RetrieveExpected'
  BY <1>0, <1>8 DEF send_reply
<1>9. ASSUME NEW w \in Workers, reply_none(w) PROVE RetrieveExpected'
  BY <1>0, <1>9 DEF reply_none, fuse_free_req
<1>10. ASSUME NEW w \in Workers, do_interrupt(w) PROVE RetrieveExpected'
  <2>1. InterruptMove(w)
    BY <1>0, <1>10, InterruptMoves, Zenon
  <2> QED
    BY <1>0, <2>1 DEF InterruptMove
<1>11. ASSUME NEW w \in Workers, mark_interrupted(w) \/ unlock_request(w) \/ fuse_interrupt(w)
      PROVE  RetrieveExpected'
  <2>1. InterrupterMove(w)
    BY <1>0, <1>11, InterrupterMoves, Zenon
  <2> QED
    BY <1>0, <2>1 DEF InterrupterMove
<1>12. ASSUME NEW w \in Workers, put_request(w) PROVE RetrieveExpected'
  BY <1>0, <1>12, Zenon DEF put_request
<1>13. ASSUME NEW w \in Workers, find_notify(w) PROVE RetrieveExpected'
  BY <1>0, <1>13 DEF find_notify
<1>14. ASSUME NEW w \in Workers, fuse_ll_retrieve_reply(w) PROVE RetrieveExpected'
  BY <1>0, <1>14 DEF fuse_ll_retrieve_reply
<1>15. ASSUME Ask PROVE RetrieveExpected'
  BY <1>0, <1>15 DEF Ask
<1>16. ASSUME NEW n \in Retrieves, list_retrieve(n) PROVE RetrieveExpected'
  BY <1>0, <1>16 DEF list_retrieve
<1>17. ASSUME NEW n \in Retrieves, send_notify_iov(n) PROVE RetrieveExpected'
  BY <1>0, <1>17 DEF send_notify_iov
<1>18. ASSUME NEW n \in Retrieves, drop_retrieve(n) PROVE RetrieveExpected'
  BY <1>0, <1>18, Zenon DEF drop_retrieve
<1>19. ASSUME UNCHANGED requestVars PROVE RetrieveExpected'
  BY <1>0, <1>19 DEF requestVars
<1> QED
  BY <1>1, <1>2, <1>3, <1>4, <1>5, <1>6, <1>7, <1>8, <1>9, <1>10, <1>11, <1>12, <1>13,
     <1>14, <1>15, <1>16, <1>17, <1>18, <1>19, Zenon
  DEF RequestsNext, WorkerStep, find_interrupted, do_notify_reply, fuse_lowlevel_notify_retrieve

-----------------------------------------------------------------------------
(* References.                                                              *)

(* Two sets that differ in one element.                                     *)
LEMMA CountChanges ==
    ASSUME NEW S, NEW T, NEW x, IsFiniteSet(S), S \ {x} = T \ {x}
    PROVE  /\ Cardinality(S) \in Nat /\ Cardinality(T) \in Nat
           /\ (x \in S <=> x \in T) => Cardinality(T) = Cardinality(S)
           /\ x \notin S /\ x \in T => Cardinality(T) = Cardinality(S) + 1
           /\ x \in S /\ x \notin T => Cardinality(T) = Cardinality(S) - 1
           /\ x \in S => Cardinality(S) > 0
<1>1. (x \in T => T = S \cup {x}) /\ (x \notin T => T = S \ {x})
  OBVIOUS
<1>2. Cardinality(S) \in Nat /\ (Cardinality(S) = 0 <=> S = {})
  BY FS_CardinalityType, FS_EmptySet, Zenon
<1>a. Cardinality(S \cup {x}) = IF x \in S THEN Cardinality(S) ELSE Cardinality(S) + 1
  BY FS_AddElement, Zenon
<1>b. Cardinality(S \ {x}) = IF x \in S THEN Cardinality(S) - 1 ELSE Cardinality(S)
  BY FS_RemoveElement, Zenon
<1>4. CASE x \in T
  <2>1. Cardinality(T) = IF x \in S THEN Cardinality(S) ELSE Cardinality(S) + 1
    BY <1>1, <1>a, <1>4, Zenon
  <2> QED
    BY <1>2, <1>4, <2>1
<1>5. CASE x \notin T
  <2>1. Cardinality(T) = IF x \in S THEN Cardinality(S) - 1 ELSE Cardinality(S)
    BY <1>1, <1>b, <1>5, Zenon
  <2>2. x \in S => Cardinality(S) - 1 \in Nat
    BY <1>2
  <2> QED
    BY <1>2, <1>5, <2>1, <2>2
<1> QED
  BY <1>4, <1>5, Zenon

(* A request that a thread handles or interrupts is not freed.              *)
LEMMA Referenced ==
    ASSUME RequestsTypeOK, RequestsCounted
    PROVE  \A w \in Workers : pc[w] \in Handling \cup Interrupting => ref_cnt[cur[w]] > 0
<1> SUFFICES ASSUME NEW w \in Workers, pc[w] \in Handling \cup Interrupting
             PROVE  ref_cnt[cur[w]] > 0
  OBVIOUS
<1> DEFINE U == Users(cur[w])
<1>1. IsFiniteSet(U) /\ w \in U
  BY FS_Subset, Zenon DEF Users
<1>2. Cardinality(U) > 0
  BY <1>1, CountChanges, Zenon
<1> QED
  BY <1>2 DEF RequestsTypeOK, RequestsCounted

(* A step of a thread changes whether it uses a request, and the count of   *)
(* the request with it.                                                     *)
Uses(w, u) == cur[w] = u /\ pc[w] \in Handling \cup Interrupting
UserMoves(w) ==
    /\ \A v \in Workers \ {w} : pc'[v] = pc[v] /\ cur'[v] = cur[v]
    /\ \A u \in Uniques :
          \/ (Uses(w, u) <=> Uses(w, u)') /\ ref_cnt'[u] = ref_cnt[u]
          \/ ~Uses(w, u) /\ Uses(w, u)' /\ ref_cnt'[u] = ref_cnt[u] + 1
          \/ Uses(w, u) /\ ~Uses(w, u)' /\ ref_cnt'[u] = ref_cnt[u] - 1

(* Then the count stays the number of users.                                *)
LEMMA CountsFollow ==
    ASSUME RequestsTypeOK, RequestsCounted, NEW w \in Workers, UserMoves(w)
    PROVE  \A u \in Uniques : ref_cnt'[u] = Cardinality(Users(u)')
<1> SUFFICES ASSUME NEW u \in Uniques PROVE ref_cnt'[u] = Cardinality(Users(u)')
  OBVIOUS
<1> DEFINE S == Users(u)
           T == {v \in Workers : cur'[v] = u /\ pc'[v] \in Handling \cup Interrupting}
<1>1. IsFiniteSet(S) /\ S \ {w} = T \ {w} /\ Users(u)' = T
  BY FS_Subset, Zenon DEF Users, UserMoves
<1>2. (w \in S <=> Uses(w, u)) /\ (w \in T <=> Uses(w, u)')
  BY Zenon DEF Users, Uses
<1>3. ref_cnt[u] = Cardinality(S)
  BY Zenon DEF RequestsCounted
<1> HIDE DEF S, T
<1>4. /\ Cardinality(S) \in Nat /\ Cardinality(T) \in Nat
      /\ (w \in S <=> w \in T) => Cardinality(T) = Cardinality(S)
      /\ w \notin S /\ w \in T => Cardinality(T) = Cardinality(S) + 1
      /\ w \in S /\ w \notin T => Cardinality(T) = Cardinality(S) - 1
  BY <1>1, CountChanges, Zenon
<1>5. \/ (w \in S <=> w \in T) /\ ref_cnt'[u] = ref_cnt[u]
      \/ w \notin S /\ w \in T /\ ref_cnt'[u] = ref_cnt[u] + 1
      \/ w \in S /\ w \notin T /\ ref_cnt'[u] = ref_cnt[u] - 1
  BY <1>2, Zenon DEF UserMoves
<1>6. ref_cnt'[u] = Cardinality(T)
  BY <1>3, <1>4, <1>5, Zenon
<1> QED
  BY <1>1, <1>6, Zenon

(* Where the INTERRUPT of a request may be: with a thread, or elsewhere.    *)
Carries(w, u) ==
    \/ cur[w] = u /\ pc[w] \in {"interrupt", "lock"}
    \/ popped[w] = u /\ pc[w] = "eagain"
Waits(u) ==
    \/ u \in kintr \/ knosys \/ interrupted[u]
    \/ u \in Range(interrupts) /\ u \notin list
Kept(u) == Waits(u) \/ \E w \in Workers : Carries(w, u)

(* What the other threads carry, a step of one thread leaves with them.     *)
LEMMA OthersCarry ==
    ASSUME InterruptKept, NEW w \in Workers,
           \A v \in Workers \ {w} : pc'[v] = pc[v] /\ cur'[v] = cur[v]
               /\ popped'[v] = popped[v],
           \A u \in kasked' \ answered' :
              u \in kasked \ answered
                  /\ (Waits(u) \/ Carries(w, u) => Waits(u)' \/ Carries(w, u)')
    PROVE  InterruptKept'
<1>1. ASSUME NEW u \in kasked' \ answered' PROVE Kept(u)'
  <2>1. u \in kasked \ answered /\ Kept(u)
    BY Zenon DEF InterruptKept, Kept, Waits, Carries
  <2>2. CASE Waits(u) \/ Carries(w, u)
    BY <2>2, Zenon DEF Kept
  <2>3. CASE \E v \in Workers \ {w} : Carries(v, u)
    BY <2>3, Zenon DEF Kept, Carries
  <2> QED
    BY <2>1, <2>2, <2>3, Zenon DEF Kept
<1> QED
  BY <1>1, Zenon DEF InterruptKept, Kept, Waits, Carries

-----------------------------------------------------------------------------
(* Types, references and the interrupts.                                    *)

(* Every step keeps the types: a reference is only dropped by a thread that *)
(* has one.                                                                 *)
LEMMA TypesKept ==
    ASSUME RequestsLive, [RequestsNext]_requestVars
    PROVE  RequestsTypeOK'
<1> USE DEF RequestsTypeOK, MessagesSent, Labels, Uniques, Handling, Interrupting,
            InOperation, GotoLabel, WorkerAt, NextMessage, kernelVars, sessionVars, reqVars,
            workerVars, noteVars
<1>0. /\ RequestsTypeOK
      /\ MessagesSent
  BY Zenon DEF RequestsLive
<1>a. \A v \in Workers : pc[v] \in Handling \cup Interrupting => ref_cnt[cur[v]] > 0
  BY Referenced, Zenon DEF RequestsLive
<1>1. ASSUME NEW w \in Workers, ReceiveRequest(w) PROVE RequestsTypeOK'
  BY <1>0, <1>1 DEF ReceiveRequest, Sendable
<1>2. ASSUME NEW w \in Workers, ReceiveInterrupt(w) PROVE RequestsTypeOK'
  BY <1>0, <1>2 DEF ReceiveInterrupt
<1>3. ASSUME NEW w \in Workers, fuse_session_process_buf_internal(w) PROVE RequestsTypeOK'
  <2>a. Processed(w)
    BY <1>0, <1>3, ProcessSteps, Zenon
  <2>b. Refused(w) \/ Unlisted(w) \/ Marked(w) \/ Plain(w) \/ Pops(w)
    BY <1>0, <1>3, ProcessSteps, Zenon
  <2>1. CASE Refused(w)
    BY <1>0, <2>a, <2>1, Zenon DEF Refused, Processed
  <2>2. CASE Unlisted(w)
    BY <1>0, <2>a, <2>2, Zenon DEF Unlisted, Processed
  <2>3. CASE Marked(w)
    BY <1>0, <2>a, <2>3 DEF Marked, Processed
  <2>4. CASE Plain(w)
    BY <1>0, <2>a, <2>4 DEF Plain, Processed
  <2>5. CASE Pops(w)
    BY <1>0, <2>a, <2>5 DEF Pops, Processed
  <2> QED
    BY <2>b, <2>1, <2>2, <2>3, <2>4, <2>5, Zenon
<1>4. ASSUME NEW w \in Workers, reply_again(w) PROVE RequestsTypeOK'
  BY <1>0, <1>4 DEF reply_again
<1>5. ASSUME NEW w \in Workers, do_init(w) PROVE RequestsTypeOK'
  BY <1>0, <1>5, Zenon DEF do_init
<1>6. ASSUME NEW w \in Workers, do_destroy(w) PROVE RequestsTypeOK'
  BY <1>0, <1>6, Zenon DEF do_destroy
<1>7. ASSUME NEW w \in Workers, do_request(w) PROVE RequestsTypeOK'
  BY <1>0, <1>7, Zenon DEF do_request
<1>8. ASSUME NEW w \in Workers, fuse_do_prepare_interrupt(w) PROVE RequestsTypeOK'
  BY <1>0, <1>8, Zenon DEF fuse_do_prepare_interrupt, fuse_req_interrupt_func
<1>9. ASSUME NEW w \in Workers, OpBegin(w) PROVE RequestsTypeOK'
  BY <1>0, <1>9, Zenon DEF OpBegin
<1>10. ASSUME NEW w \in Workers, OpEnd(w) PROVE RequestsTypeOK'
  BY <1>0, <1>10, Zenon DEF OpEnd
<1>11. ASSUME NEW w \in Workers, set_finished(w) PROVE RequestsTypeOK'
  BY <1>0, <1>11, Zenon DEF set_finished
<1>12. ASSUME NEW w \in Workers, unregister(w) PROVE RequestsTypeOK'
  BY <1>0, <1>12 DEF unregister, fuse_req_interrupt_func
<1>13. ASSUME NEW w \in Workers, send_reply(w) PROVE RequestsTypeOK'
  BY <1>0, <1>13 DEF send_reply
<1>14. ASSUME NEW w \in Workers, reply_none(w) PROVE RequestsTypeOK'
  <2>1. ref_cnt[cur[w]] - 1 \in Nat
    BY <1>0, <1>a, <1>14 DEF reply_none
  <2>2. CASE no_interrupt
    BY <1>0, <1>14, <2>1, <2>2, Zenon DEF reply_none, fuse_free_req
  <2>3. CASE ~no_interrupt
    <3>1. ref_cnt' \in [Uniques -> Nat]
      BY <1>0, <1>14, <2>1, Zenon DEF reply_none, fuse_free_req
    <3>2. func' \in [Uniques -> BOOLEAN] /\ list' \subseteq Uniques
      <4>1. func' = [func EXCEPT ![cur[w]] = FALSE] /\ list' = list \ {cur[w]}
        BY <1>14, <2>3, Zenon DEF reply_none, fuse_free_req
      <4>2. func \in [Uniques -> BOOLEAN] /\ list \subseteq Uniques
        BY <1>0, Zenon
      <4> HIDE DEF RequestsTypeOK, Uniques
      <4> QED
        BY <4>1, <4>2, Zenon
    <3>3. pc' \in [Workers -> Labels] /\ cur' \in [Workers -> Uniques]
      BY <1>0, <1>14, Zenon DEF reply_none
    <3> QED
      BY <1>0, <1>14, <3>1, <3>2, <3>3, Zenon DEF reply_none
  <2> QED
    BY <2>2, <2>3, Zenon
<1>15. ASSUME NEW w \in Workers, do_interrupt(w) PROVE RequestsTypeOK'
  <2>1. CASE interrupt_early(w)
    BY <1>0, <1>15, <2>1, Zenon DEF interrupt_early, do_interrupt
  <2>2. CASE interrupt_nosys(w)
    BY <1>0, <1>15, <2>2, Zenon DEF interrupt_nosys, do_interrupt
  <2>3. CASE find_listed(w)
    BY <1>0, <1>15, <2>3 DEF find_listed, do_interrupt
  <2>4. CASE list_interrupt(w)
    <3>1. interrupts' \in Seq(Requests) /\ Range(interrupts') = Range(interrupts) \cup {cur[w]}
      BY <1>0, <1>15, <2>4, InterruptListed, Zenon DEF do_interrupt
    <3> QED
      BY <1>0, <1>15, <2>4, <3>1, Zenon DEF list_interrupt, do_interrupt
  <2> QED
    BY <1>15, <2>1, <2>2, <2>3, <2>4, Zenon DEF do_interrupt
<1>16. ASSUME NEW w \in Workers, mark_interrupted(w) PROVE RequestsTypeOK'
  BY <1>0, <1>16 DEF mark_interrupted
<1>17. ASSUME NEW w \in Workers, unlock_request(w) PROVE RequestsTypeOK'
  BY <1>0, <1>17, Zenon DEF unlock_request
<1>18. ASSUME NEW w \in Workers, fuse_interrupt(w) PROVE RequestsTypeOK'
  BY <1>0, <1>18 DEF fuse_interrupt
<1>19. ASSUME NEW w \in Workers, put_request(w) PROVE RequestsTypeOK'
  <2>1. ref_cnt[cur[w]] - 1 \in Nat
    BY <1>0, <1>a, <1>19 DEF put_request
  <2> QED
    BY <1>0, <1>19, <2>1 DEF put_request
<1>20. ASSUME NEW w \in Workers, find_notify(w) PROVE RequestsTypeOK'
  <2>0. /\ pc[w] = "dispatch" /\ cur[w] \in Retrieves /\ notify_list' = notify_list \ {cur[w]}
        /\ UNCHANGED <<kernelVars, sessionVars, list, interrupts, reqVars, data, sig, popped,
                       retrieve, rreq>>
    BY <1>20, Zenon DEF find_notify
  <2>1. CASE cur[w] \in notify_list
    <3>1. GotoLabel(w, "retrieved") /\ UNCHANGED cur
      BY <1>20, <2>1, Zenon DEF find_notify
    <3> QED
      BY <1>0, <2>0, <3>1, Zenon
  <2>2. CASE cur[w] \notin notify_list
    <3>1. NextMessage(w)
      BY <1>20, <2>2, Zenon DEF find_notify
    <3> QED
      BY <1>0, <2>0, <3>1, Zenon
  <2> QED
    BY <2>1, <2>2, Zenon
<1>21. ASSUME NEW w \in Workers, fuse_ll_retrieve_reply(w) PROVE RequestsTypeOK'
  BY <1>0, <1>21, Zenon DEF fuse_ll_retrieve_reply
<1>22. ASSUME Ask PROVE RequestsTypeOK'
  BY <1>0, <1>22 DEF Ask
<1>23. ASSUME NEW n \in Retrieves, list_retrieve(n) PROVE RequestsTypeOK'
  BY <1>0, <1>23 DEF list_retrieve
<1>24. ASSUME NEW n \in Retrieves, send_notify_iov(n) PROVE RequestsTypeOK'
  BY <1>0, <1>24, Zenon DEF send_notify_iov
<1>25. ASSUME NEW n \in Retrieves, drop_retrieve(n) PROVE RequestsTypeOK'
  BY <1>0, <1>25 DEF drop_retrieve
<1>26. ASSUME UNCHANGED requestVars PROVE RequestsTypeOK'
  BY <1>0, <1>26, Zenon DEF requestVars
<1> QED
  BY <1>1, <1>2, <1>3, <1>4, <1>5, <1>6, <1>7, <1>8, <1>9, <1>10, <1>11, <1>12, <1>13,
     <1>14, <1>15, <1>16, <1>17, <1>18, <1>19, <1>20, <1>21, <1>22, <1>23, <1>24, <1>25,
     <1>26, Zenon
  DEF RequestsNext, WorkerStep, find_interrupted, do_notify_reply, fuse_do_finish_interrupt,
      fuse_lowlevel_notify_retrieve

(* Every step of a thread that makes it use a request, or leave it, moves   *)
(* the count of that request.                                               *)
LEMMA UsersCounted ==
    ASSUME RequestsLive, NEW w \in Workers,
           ReceiveRequest(w) \/ ReceiveInterrupt(w) \/ WorkerStep(w)
    PROVE  UserMoves(w)
<1> USE DEF Labels, Uniques, Handling, Interrupting, InOperation, GotoLabel, WorkerAt,
            NextMessage, kernelVars, sessionVars, reqVars, workerVars, noteVars
<1>0. /\ RequestsTypeOK /\ MessagesSent
      /\ pc \in [Workers -> Labels] /\ cur \in [Workers -> Uniques]
      /\ ref_cnt \in [Uniques -> Nat] /\ kasked \subseteq ksent
      /\ \A x \in Workers : pc[x] \in Handling => cur[x] \in ksent
      /\ \A x \in Workers : pc[x] \in Interrupting \cup {"interrupt"} => cur[x] \in kasked
      /\ RetrieveExpected
  BY Zenon DEF RequestsLive, RequestsTypeOK, MessagesSent
<1>1. ASSUME ReceiveRequest(w) PROVE UserMoves(w)
  <2>1. PICK u \in Uniques :
           /\ pc[w] = "idle" /\ u \notin ksent /\ cur' = [cur EXCEPT ![w] = u]
           /\ ref_cnt' = [ref_cnt EXCEPT ![u] = 1] /\ GotoLabel(w, "process")
    BY <1>1, Zenon DEF ReceiveRequest, Sendable
  <2>2. Users(u) = {}
    BY <1>0, <2>1, Zenon DEF Users
  <2>3. ref_cnt[u] = 0
    BY <2>2, FS_EmptySet, Zenon DEF RequestsLive, RequestsCounted
  <2> QED
    BY <1>0, <2>1, <2>3 DEF UserMoves, Uses
<1>2. ASSUME ReceiveInterrupt(w) PROVE UserMoves(w)
  BY <1>0, <1>2, Zenon DEF ReceiveInterrupt, UserMoves, Uses
<1>3. ASSUME fuse_session_process_buf_internal(w) PROVE UserMoves(w)
  <2>1. Processed(w)
    BY <1>0, <1>3, ProcessSteps, Zenon
  <2> QED
    BY <1>0, <2>1 DEF Processed, UserMoves, Uses
<1>4. ASSUME reply_again(w) PROVE UserMoves(w)
  BY <1>0, <1>4, Zenon DEF reply_again, UserMoves, Uses
<1>5. ASSUME do_init(w) PROVE UserMoves(w)
  BY <1>0, <1>5, Zenon DEF do_init, UserMoves, Uses
<1>6. ASSUME do_destroy(w) PROVE UserMoves(w)
  BY <1>0, <1>6, Zenon DEF do_destroy, UserMoves, Uses
<1>7. ASSUME do_request(w) \/ fuse_do_prepare_interrupt(w) \/ OpBegin(w) \/ OpEnd(w)
          \/ fuse_do_finish_interrupt(w)
      PROVE  UserMoves(w)
  <2>1. HandlerMove(w)
    BY <1>0, <1>7, HandlerMoves, Zenon
  <2> QED
    BY <1>0, <2>1, Zenon DEF HandlerMove, UserMoves, Uses
<1>8. ASSUME send_reply(w) PROVE UserMoves(w)
  BY <1>0, <1>8, Zenon DEF send_reply, UserMoves, Uses
<1>9. ASSUME reply_none(w) PROVE UserMoves(w)
  BY <1>0, <1>9, Zenon DEF reply_none, fuse_free_req, UserMoves, Uses
<1>10. ASSUME do_interrupt(w) PROVE UserMoves(w)
  <2>1. CASE interrupt_early(w)
    BY <1>0, <1>10, <2>1, Zenon DEF interrupt_early, do_interrupt, UserMoves, Uses
  <2>2. CASE interrupt_nosys(w)
    BY <1>0, <1>10, <2>2, Zenon DEF interrupt_nosys, do_interrupt, UserMoves, Uses
  <2>3. CASE find_listed(w)
    BY <1>0, <1>10, <2>3, Zenon DEF find_listed, do_interrupt, UserMoves, Uses
  <2>4. CASE list_interrupt(w)
    BY <1>0, <1>10, <2>4, Zenon DEF list_interrupt, do_interrupt, UserMoves, Uses
  <2> QED
    BY <1>10, <2>1, <2>2, <2>3, <2>4, Zenon DEF do_interrupt
<1>11. ASSUME mark_interrupted(w) \/ unlock_request(w) \/ fuse_interrupt(w)
      PROVE  UserMoves(w)
  <2>1. InterrupterMove(w)
    BY <1>0, <1>11, InterrupterMoves, Zenon
  <2> QED
    BY <1>0, <2>1, Zenon DEF InterrupterMove, UserMoves, Uses
<1>12. ASSUME put_request(w) PROVE UserMoves(w)
  BY <1>0, <1>12, Zenon DEF put_request, UserMoves, Uses
<1>13. ASSUME find_notify(w) PROVE UserMoves(w)
  <2>1. pc[w] = "dispatch" /\ cur[w] \in notify_list
    BY <1>0, <1>13, Zenon DEF find_notify, RetrieveExpected, Arriving
  <2> QED
    BY <1>0, <1>13, <2>1, Zenon DEF find_notify, UserMoves, Uses
<1>14. ASSUME fuse_ll_retrieve_reply(w) PROVE UserMoves(w)
  BY <1>0, <1>14, Zenon DEF fuse_ll_retrieve_reply, UserMoves, Uses
<1> QED
  BY <1>1, <1>2, <1>3, <1>4, <1>5, <1>6, <1>7, <1>8, <1>9, <1>10, <1>11, <1>12, <1>13,
     <1>14, Zenon
  DEF WorkerStep, find_interrupted, do_notify_reply

(* An interrupt moves from the kernel to a thread, to the list or back, or  *)
(* marks its request: do_interrupt refuses one only when INIT was not, or   *)
(* DESTROY was, processed, and then no request waits.                       *)
LEMMA InterruptsKept ==
    ASSUME RequestsLive, [RequestsNext]_requestVars
    PROVE  InterruptKept'
<1> USE DEF Labels, Uniques, Handling, Interrupting, InOperation, GotoLabel, WorkerAt,
            NextMessage, kernelVars, sessionVars, reqVars, workerVars, noteVars
<1>0. /\ RequestsTypeOK /\ MessagesSent
      /\ pc \in [Workers -> Labels] /\ cur \in [Workers -> Uniques]
      /\ kasked \subseteq ksent /\ kasked \subseteq Requests /\ kintr \subseteq kasked
      /\ DOMAIN popped = Workers /\ DOMAIN interrupted = Uniques
      /\ \A w \in Workers : pc[w] \in Interrupting \cup {"interrupt"} => cur[w] \in kasked
      /\ InitFirst /\ InterruptKept
  BY Zenon DEF RequestsLive, RequestsTypeOK, MessagesSent
<1>1. ASSUME NEW w \in Workers, ReceiveRequest(w) PROVE InterruptKept'
  <2>1. \A v \in Workers \ {w} : pc'[v] = pc[v] /\ cur'[v] = cur[v] /\ popped'[v] = popped[v]
    BY <1>0, <1>1, Zenon DEF ReceiveRequest
  <2>2. ASSUME NEW u \in kasked' \ answered', Waits(u) \/ Carries(w, u)
        PROVE  u \in kasked \ answered /\ (Waits(u)' \/ Carries(w, u)')
    BY <1>0, <1>1, <2>2 DEF ReceiveRequest, Waits, Carries
  <2>3. kasked' \ answered' \subseteq kasked \ answered
    BY <1>0, <1>1, Zenon DEF ReceiveRequest
  <2> QED
    BY <1>0, <2>1, <2>2, <2>3, OthersCarry, Zenon
<1>2. ASSUME NEW w \in Workers, ReceiveInterrupt(w) PROVE InterruptKept'
  <2>1. \A v \in Workers \ {w} : pc'[v] = pc[v] /\ cur'[v] = cur[v] /\ popped'[v] = popped[v]
    BY <1>0, <1>2, Zenon DEF ReceiveInterrupt
  <2>2. ASSUME NEW u \in kasked' \ answered', Waits(u) \/ Carries(w, u)
        PROVE  u \in kasked \ answered /\ (Waits(u)' \/ Carries(w, u)')
    BY <1>0, <1>2, <2>2 DEF ReceiveInterrupt, Waits, Carries
  <2>3. kasked' \ answered' \subseteq kasked \ answered
    BY <1>0, <1>2, Zenon DEF ReceiveInterrupt
  <2> QED
    BY <1>0, <2>1, <2>2, <2>3, OthersCarry, Zenon
<1>3. ASSUME NEW w \in Workers, fuse_session_process_buf_internal(w) PROVE InterruptKept'
  <2>a. Processed(w)
    BY <1>0, <1>3, ProcessSteps, Zenon
  <2>b. Refused(w) \/ Unlisted(w) \/ Marked(w) \/ Plain(w) \/ Pops(w)
    BY <1>0, <1>3, ProcessSteps, Zenon
  <2>1. CASE Refused(w)
    BY <1>0, <2>a, <2>1 DEF Refused, Processed, InterruptKept
  <2>2. CASE Unlisted(w)
    BY <1>0, <2>a, <2>2, Zenon DEF Unlisted, Processed, InterruptKept
  <2>3. CASE Marked(w)
    BY <1>0, <2>a, <2>3, Zenon DEF Marked, Processed, InterruptKept
  <2>4. CASE Plain(w)
    <3>1. \A v \in Workers \ {w} : pc'[v] = pc[v] /\ cur'[v] = cur[v] /\ popped'[v] = popped[v]
      BY <1>0, <2>a, <2>4, Zenon DEF Plain, Processed
    <3>2. ASSUME NEW u \in kasked' \ answered', Waits(u) \/ Carries(w, u)
          PROVE  u \in kasked \ answered /\ (Waits(u)' \/ Carries(w, u)')
      BY <1>0, <2>a, <2>4, <3>2, Zenon DEF Plain, Processed, Waits, Carries
    <3>3. kasked' \ answered' \subseteq kasked \ answered
      BY <1>0, <2>a, <2>4, Zenon DEF Plain, Processed
    <3> QED
      BY <1>0, <3>1, <3>2, <3>3, OthersCarry, Zenon
  <2>5. CASE Pops(w)
    <3>1. \A v \in Workers \ {w} : pc'[v] = pc[v] /\ cur'[v] = cur[v] /\ popped'[v] = popped[v]
      BY <1>0, <2>a, <2>5, Zenon DEF Pops, Processed
    <3>2. ASSUME NEW u \in kasked' \ answered', Waits(u) \/ Carries(w, u)
          PROVE  u \in kasked \ answered /\ (Waits(u)' \/ Carries(w, u)')
      BY <1>0, <2>a, <2>5, <3>2, Zenon DEF Pops, Processed, Waits, Carries
    <3>3. kasked' \ answered' \subseteq kasked \ answered
      BY <1>0, <2>a, <2>5, Zenon DEF Pops, Processed
    <3> QED
      BY <1>0, <3>1, <3>2, <3>3, OthersCarry, Zenon
  <2> QED
    BY <2>b, <2>1, <2>2, <2>3, <2>4, <2>5, Zenon
<1>4. ASSUME NEW w \in Workers, reply_again(w) PROVE InterruptKept'
  <2>1. \A v \in Workers \ {w} : pc'[v] = pc[v] /\ cur'[v] = cur[v] /\ popped'[v] = popped[v]
    BY <1>0, <1>4, Zenon DEF reply_again
  <2>2. ASSUME NEW u \in kasked' \ answered', Waits(u) \/ Carries(w, u)
        PROVE  u \in kasked \ answered /\ (Waits(u)' \/ Carries(w, u)')
    BY <1>0, <1>4, <2>2, Zenon DEF reply_again, Waits, Carries
  <2>3. kasked' \ answered' \subseteq kasked \ answered
    BY <1>0, <1>4, Zenon DEF reply_again
  <2> QED
    BY <1>0, <2>1, <2>2, <2>3, OthersCarry, Zenon
<1>5. ASSUME NEW w \in Workers, do_init(w) PROVE InterruptKept'
  BY <1>0, <1>5 DEF do_init, InterruptKept
<1>6. ASSUME NEW w \in Workers, do_destroy(w) PROVE InterruptKept'
  BY <1>0, <1>6, Zenon DEF do_destroy, InterruptKept
<1>7. ASSUME NEW w \in Workers,
             do_request(w) \/ fuse_do_prepare_interrupt(w) \/ OpBegin(w) \/ OpEnd(w)
                 \/ fuse_do_finish_interrupt(w)
      PROVE  InterruptKept'
  <2>1. HandlerMove(w)
    BY <1>0, <1>7, HandlerMoves, Zenon
  <2> QED
    BY <1>0, <2>1 DEF HandlerMove, InterruptKept
<1>8. ASSUME NEW w \in Workers, send_reply(w) PROVE InterruptKept'
  BY <1>0, <1>8, Zenon DEF send_reply, InterruptKept
<1>9. ASSUME NEW w \in Workers, reply_none(w) PROVE InterruptKept'
  BY <1>0, <1>9 DEF reply_none, fuse_free_req, InterruptKept
<1>10. ASSUME NEW w \in Workers, do_interrupt(w) PROVE InterruptKept'
  <2>1. CASE interrupt_early(w)
    <3>0. cur[w] \in answered
      BY <1>0, <1>10, <2>1, Zenon DEF interrupt_early, do_interrupt, InitFirst
    <3>1. \A v \in Workers \ {w} : pc'[v] = pc[v] /\ cur'[v] = cur[v] /\ popped'[v] = popped[v]
      BY <1>0, <1>10, <2>1, <3>0, Zenon DEF interrupt_early, do_interrupt
    <3>2. ASSUME NEW u \in kasked' \ answered', Waits(u) \/ Carries(w, u)
          PROVE  u \in kasked \ answered /\ (Waits(u)' \/ Carries(w, u)')
      BY <1>0, <1>10, <2>1, <3>0, <3>2, Zenon DEF interrupt_early, do_interrupt, Waits, Carries
    <3>3. kasked' \ answered' \subseteq kasked \ answered
      BY <1>0, <1>10, <2>1, <3>0, Zenon DEF interrupt_early, do_interrupt
    <3> QED
      BY <1>0, <3>1, <3>2, <3>3, OthersCarry, Zenon
  <2>2. CASE interrupt_nosys(w)
    BY <1>0, <1>10, <2>2, Zenon DEF interrupt_nosys, do_interrupt, InterruptKept
  <2>3. CASE find_listed(w)
    <3>1. \A v \in Workers \ {w} : pc'[v] = pc[v] /\ cur'[v] = cur[v] /\ popped'[v] = popped[v]
      BY <1>0, <1>10, <2>3, Zenon DEF find_listed, do_interrupt
    <3>2. ASSUME NEW u \in kasked' \ answered', Waits(u) \/ Carries(w, u)
          PROVE  u \in kasked \ answered /\ (Waits(u)' \/ Carries(w, u)')
      BY <1>0, <1>10, <2>3, <3>2, Zenon DEF find_listed, do_interrupt, Waits, Carries
    <3>3. kasked' \ answered' \subseteq kasked \ answered
      BY <1>0, <1>10, <2>3, Zenon DEF find_listed, do_interrupt
    <3> QED
      BY <1>0, <3>1, <3>2, <3>3, OthersCarry, Zenon
  <2>4. CASE list_interrupt(w)
    <3>0. interrupts' \in Seq(Requests) /\ Range(interrupts') = Range(interrupts) \cup {cur[w]}
      BY <1>0, <1>10, <2>4, InterruptListed, Zenon DEF do_interrupt
    <3>1. \A v \in Workers \ {w} : pc'[v] = pc[v] /\ cur'[v] = cur[v] /\ popped'[v] = popped[v]
      BY <1>0, <1>10, <2>4, <3>0, Zenon DEF list_interrupt, do_interrupt
    <3>2. ASSUME NEW u \in kasked' \ answered', Waits(u) \/ Carries(w, u)
          PROVE  u \in kasked \ answered /\ (Waits(u)' \/ Carries(w, u)')
      BY <1>0, <1>10, <2>4, <3>0, <3>2, Zenon DEF list_interrupt, do_interrupt, Waits, Carries
    <3>3. kasked' \ answered' \subseteq kasked \ answered
      BY <1>0, <1>10, <2>4, <3>0, Zenon DEF list_interrupt, do_interrupt
    <3> QED
      BY <1>0, <3>1, <3>2, <3>3, OthersCarry, Zenon
  <2> QED
    BY <1>10, <2>1, <2>2, <2>3, <2>4, Zenon DEF do_interrupt
<1>11. ASSUME NEW w \in Workers, mark_interrupted(w) PROVE InterruptKept'
  BY <1>0, <1>11 DEF mark_interrupted, InterruptKept
<1>12. ASSUME NEW w \in Workers, unlock_request(w) PROVE InterruptKept'
  BY <1>0, <1>12 DEF unlock_request, InterruptKept
<1>13. ASSUME NEW w \in Workers, fuse_interrupt(w) PROVE InterruptKept'
  BY <1>0, <1>13 DEF fuse_interrupt, InterruptKept
<1>14. ASSUME NEW w \in Workers, put_request(w) PROVE InterruptKept'
  BY <1>0, <1>14 DEF put_request, InterruptKept
<1>15. ASSUME NEW w \in Workers, find_notify(w) PROVE InterruptKept'
  <2>0. /\ pc[w] = "dispatch" /\ cur[w] \in Retrieves /\ notify_list' = notify_list \ {cur[w]}
        /\ UNCHANGED <<kernelVars, sessionVars, list, interrupts, reqVars, data, sig, popped,
                       retrieve, rreq>>
    BY <1>15, Zenon DEF find_notify
  <2>1. CASE cur[w] \in notify_list
    <3>1. GotoLabel(w, "retrieved") /\ UNCHANGED cur
      BY <1>15, <2>1, Zenon DEF find_notify
    <3> QED
      BY <1>0, <2>0, <3>1, Zenon DEF InterruptKept
  <2>2. CASE cur[w] \notin notify_list
    <3>1. NextMessage(w)
      BY <1>15, <2>2, Zenon DEF find_notify
    <3> QED
      BY <1>0, <2>0, <3>1, Zenon DEF InterruptKept
  <2> QED
    BY <2>1, <2>2, Zenon
<1>16. ASSUME NEW w \in Workers, fuse_ll_retrieve_reply(w) PROVE InterruptKept'
  BY <1>0, <1>16 DEF fuse_ll_retrieve_reply, InterruptKept
<1>17. ASSUME Ask PROVE InterruptKept'
  BY <1>0, <1>17 DEF Ask, InterruptKept
<1>18. ASSUME (\E n \in Retrieves : fuse_lowlevel_notify_retrieve(n)) \/ UNCHANGED requestVars
      PROVE  InterruptKept'
  <2>1. UNCHANGED <<kernelVars, sessionVars, list, interrupts, reqVars, data, sig, workerVars>>
    BY <1>0, <1>18, RetrieveMoves, Zenon
  <2> QED
    BY <1>0, <2>1 DEF InterruptKept
<1> QED
  BY <1>1, <1>2, <1>3, <1>4, <1>5, <1>6, <1>7, <1>8, <1>9, <1>10, <1>11, <1>12, <1>13,
     <1>14, <1>15, <1>16, <1>17, <1>18, Zenon
  DEF RequestsNext, WorkerStep, find_interrupted, do_notify_reply

(* The counts follow the steps of the threads; the kernel and the callers   *)
(* of fuse_lowlevel_notify_retrieve leave them alone.                       *)
LEMMA CountsKept ==
    ASSUME RequestsLive, [RequestsNext]_requestVars
    PROVE  RequestsCounted'
<1>0. RequestsTypeOK /\ RequestsCounted
  BY Zenon DEF RequestsLive
<1>1. ASSUME NEW w \in Workers, ReceiveRequest(w) \/ ReceiveInterrupt(w) \/ WorkerStep(w)
      PROVE  \A u \in Uniques : ref_cnt'[u] = Cardinality(Users(u)')
  BY <1>0, <1>1, UsersCounted, CountsFollow, Zenon
<1>2. ASSUME Ask \/ (\E n \in Retrieves : fuse_lowlevel_notify_retrieve(n))
          \/ UNCHANGED requestVars
      PROVE  \A u \in Uniques : ref_cnt'[u] = Cardinality(Users(u)')
  <2>1. UNCHANGED <<ref_cnt, pc, cur>>
    BY <1>2 DEF Ask, fuse_lowlevel_notify_retrieve, list_retrieve, send_notify_iov,
                drop_retrieve, requestVars, workerVars, reqVars
  <2>2. \A u \in Uniques : Users(u)' = Users(u)
    BY <2>1, Zenon DEF Users
  <2> QED
    BY <1>0, <2>1, <2>2, Zenon DEF RequestsCounted
<1>3. \A u \in Uniques : ref_cnt'[u] = Cardinality(Users(u)')
  BY <1>1, <1>2, Zenon DEF RequestsNext
<1> QED
  BY <1>3, ListKept, Zenon DEF RequestsCounted

(* A session starts with no request, no interrupt and no retrieval.         *)
LEMMA RequestsStart == RequestsInit => RequestsLive
<1> SUFFICES ASSUME RequestsInit PROVE RequestsLive
  OBVIOUS
<1> USE DEF RequestsInit
<1>0. FUSE_INIT \in Uniques /\ <<>> \in Seq(Requests)
  BY DEF Uniques
<1>1. RequestsTypeOK
  <2>1. /\ ksent \subseteq Uniques /\ answered \subseteq ksent
        /\ kasked \subseteq Requests /\ kintr \subseteq kasked /\ knosys \in BOOLEAN
        /\ intr \in BOOLEAN /\ got_init \in BOOLEAN /\ got_destroy \in BOOLEAN
        /\ no_interrupt \in BOOLEAN
        /\ list \subseteq Uniques /\ notify_list \subseteq Retrieves /\ sig \subseteq Workers
    OBVIOUS
  <2>2. /\ interrupts \in Seq(Requests) /\ pc \in [Workers -> Labels]
        /\ cur \in [Workers -> Uniques] /\ popped \in [Workers -> Uniques]
    BY <1>0, Zenon DEF Labels
  <2>3. /\ ref_cnt \in [Uniques -> Nat] /\ interrupted \in [Uniques -> BOOLEAN]
        /\ func \in [Uniques -> BOOLEAN] /\ lock \in [Uniques -> Workers \cup {NoWorker}]
        /\ data \in [Uniques -> {"none", "live", "finished", "gone"}]
    OBVIOUS
  <2>4. /\ retrieve \in [Retrieves -> {"none", "listed", "sent", "error", "failed"}]
        /\ rreq \in [Retrieves -> {"none", "live", "freed"}]
    OBVIOUS
  <2> QED
    BY <2>1, <2>2, <2>3, <2>4, Zenon, Zenon DEF RequestsTypeOK
<1>2. MessagesSent
  BY DEF MessagesSent, Handling, Interrupting, InOperation, Range
<1>3. InitFirst
  BY Zenon DEF InitFirst, Arriving
<1>4. \A u \in Uniques : Users(u) = {}
  BY Zenon DEF Users, Handling, Interrupting
<1>5. RequestsCounted
  BY <1>4, FS_EmptySet, Zenon DEF RequestsCounted, ListHandled
<1>6. InterruptDataLive /\ InterruptKept
  BY Zenon DEF InterruptDataLive, InterruptKept
<1>7. RetrieveExpected
  BY Zenon DEF RetrieveExpected, Arriving
<1> QED
  BY <1>1, <1>2, <1>3, <1>5, <1>6, <1>7, Zenon DEF RequestsLive

(* Nothing of a request is used after it is gone and no interrupt is lost,  *)
(* in every session, whatever the number of threads, requests and           *)
(* retrievals: fuse_free_req frees what nobody uses, fuse_interrupt finds   *)
(* the handler's frame, an interrupt is never dropped before its request is *)
(* answered, and the answer to a retrieval finds its entry.                 *)
THEOREM RequestsSafe == RequestsSpec => []RequestsLive
<1>1. RequestsInit => RequestsLive
  BY RequestsStart, Zenon
<1>2. RequestsLive /\ [RequestsNext]_requestVars => RequestsLive'
  <2> SUFFICES ASSUME RequestsLive, [RequestsNext]_requestVars PROVE RequestsLive'
    OBVIOUS
  <2> QED
    BY TypesKept, MessagesKept, InitKept, CountsKept, DataKept, InterruptsKept,
       RetrievesKept DEF RequestsLive
<1> QED
  BY <1>1, <1>2, PTL DEF RequestsSpec
=============================================================================
