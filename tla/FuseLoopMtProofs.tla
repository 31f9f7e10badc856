-------------------------- MODULE FuseLoopMtProofs --------------------------
(***************************************************************************)
(* PoolInv is an inductive invariant of FuseLoopMt, for any number of      *)
(* workers and channels and any configuration; where threads can be        *)
(* started, ReaderLeft follows from it.  After that, PipeClean is one of   *)
(* FusePipe, the pipe through which a worker splices.  The two share no    *)
(* state.                                                                  *)
(***************************************************************************)
EXTENDS FuseLoopMt, FusePipe, FiniteSetTheorems, SequenceTheorems, TLAPS

USE WorkersAssumption, ConfigAssumption

(* The counts are exact, and the list and the main thread agree on who is   *)
(* joined.                                                                  *)
PoolInv == PoolCounts /\ JoinedOnce

-----------------------------------------------------------------------------
(* Counting.                                                                *)

(* A set of workers gains a member.                                         *)
LEMMA OneMore ==
    ASSUME NEW S \in SUBSET Workers, NEW w \in Workers, w \notin S
    PROVE  /\ Cardinality(S) \in Nat /\ Cardinality(S \cup {w}) = Cardinality(S) + 1
<1>1. IsFiniteSet(S)
  BY FS_Subset, Zenon
<1> QED
  BY <1>1, FS_AddElement, FS_CardinalityType, Zenon

(* A set of workers loses a member.                                         *)
LEMMA OneLess ==
    ASSUME NEW S \in SUBSET Workers, NEW w \in S
    PROVE  /\ Cardinality(S) \in Nat /\ Cardinality(S) > 0
           /\ Cardinality(S \ {w}) = Cardinality(S) - 1
<1>1. w \in Workers /\ w \notin S \ {w} /\ S \ {w} \in SUBSET Workers /\ S = (S \ {w}) \cup {w}
  OBVIOUS
<1>2. Cardinality(S \ {w}) \in Nat /\ Cardinality(S) = Cardinality(S \ {w}) + 1
  BY <1>1, OneMore, Zenon
<1> QED
  BY <1>2

(* A set of workers counts as many as it has, none if it is empty.          *)
LEMMA CountNone ==
    ASSUME NEW S \in SUBSET Workers
    PROVE  Cardinality(S) \in Nat /\ (Cardinality(S) = 0 <=> S = {})
<1>1. IsFiniteSet(S)
  BY FS_Subset, Zenon
<1> QED
  BY <1>1, FS_CardinalityType, FS_EmptySet, Zenon

(* A worker of the list that is not busy is one of numavail.                *)
LEMMA AvailCounted ==
    ASSUME PoolInv, ~exit, NEW w \in list, ~Busy(w)
    PROVE  numavail > 0
<1>1. Available \in SUBSET Workers /\ w \in Available /\ numavail = Cardinality(Available)
  BY Zenon DEF PoolInv, PoolCounts, TypeOK, WorkerCounts, Available
<1> QED
  BY <1>1, OneLess, Zenon

(* The channel of a worker has a reference for it.                          *)
LEMMA OwnerCounted ==
    ASSUME PoolInv, NEW w \in Workers, ch[w] # NoChan
    PROVE  ch[w] \in Chans /\ ctr[ch[w]] \in Nat /\ ctr[ch[w]] > 0
<1>1. /\ ch[w] \in Chans /\ ctr[ch[w]] \in Nat /\ inflight[ch[w]] \in Nat
      /\ Owners(ch[w]) \in SUBSET Workers /\ w \in Owners(ch[w])
      /\ ctr[ch[w]] = inflight[ch[w]] + Cardinality(Owners(ch[w]))
  BY Zenon DEF PoolInv, PoolCounts, TypeOK, ChanCounts, Owners
<1>2. Cardinality(Owners(ch[w])) \in Nat /\ Cardinality(Owners(ch[w])) > 0
  BY <1>1, OneLess, Zenon
<1> QED
  BY <1>1, <1>2

-----------------------------------------------------------------------------
(* What the steps do.                                                       *)

(* fuse_loop_start_thread makes a worker of a free structure and lists it,  *)
(* or fails.                                                                *)
StartsAt(v, c, at, avail) ==
    /\ at[v] = "none" /\ c \in Chans \cup {NoChan}
    /\ pc' = [at EXCEPT ![v] = "loop"] /\ ch' = [ch EXCEPT ![v] = c]
    /\ list' = list \cup {v} /\ numavail' = avail + 1 /\ numworker' = numworker + 1
    /\ clone_fd' \in BOOLEAN
    /\ \/ c = NoChan /\ UNCHANGED ctr
       \/ c # NoChan /\ ctr[c] = 0 /\ ctr' = [ctr EXCEPT ![c] = 1]
StartFailsAt(at, avail) ==
    /\ StartFails /\ pc' = at /\ numavail' = avail /\ clone_fd' \in BOOLEAN
    /\ UNCHANGED <<ch, list, numworker, ctr>>
LEMMA StartSteps ==
    ASSUME TypeOK, NEW at, NEW avail, fuse_loop_start_thread(at, avail)
    PROVE  \/ \E v \in Workers : \E c \in Chans \cup {NoChan} : StartsAt(v, c, at, avail)
           \/ StartFailsAt(at, avail)
<1>1. CASE \E v \in Workers : \E c \in Chans \cup {NoChan} :
              /\ at[v] = "none" /\ fuse_clone_chan(c)
              /\ pc' = [at EXCEPT ![v] = "loop"] /\ ch' = [ch EXCEPT ![v] = c]
              /\ list' = list \cup {v} /\ numavail' = avail + 1 /\ numworker' = numworker + 1
  <2>1. PICK v \in Workers, c \in Chans \cup {NoChan} :
              /\ at[v] = "none" /\ fuse_clone_chan(c)
              /\ pc' = [at EXCEPT ![v] = "loop"] /\ ch' = [ch EXCEPT ![v] = c]
              /\ list' = list \cup {v} /\ numavail' = avail + 1 /\ numworker' = numworker + 1
    BY <1>1, Zenon
  <2>2. /\ clone_fd' \in BOOLEAN
        /\ \/ c = NoChan /\ UNCHANGED ctr
           \/ c # NoChan /\ ctr[c] = 0 /\ ctr' = [ctr EXCEPT ![c] = 1]
    BY <2>1, Zenon DEF fuse_clone_chan, TypeOK
  <2> QED
    BY <2>1, <2>2, Zenon DEF StartsAt
<1>2. CASE /\ StartFails /\ pc' = at /\ numavail' = avail
           /\ UNCHANGED clone_fd \/ (clone_fd /\ clone_fd' = FALSE)
           /\ UNCHANGED <<ch, list, numworker, ctr>>
  BY <1>2, Zenon DEF StartFailsAt, TypeOK
<1> QED
  BY <1>1, <1>2, Zenon DEF fuse_loop_start_thread

(* take_request: the worker ends with the loop, or is busy, and where none  *)
(* else is available it starts another.                                     *)
AvailLeft(w) == IF w \in forget THEN numavail ELSE numavail - 1
AtProcess(w) == [pc EXCEPT ![w] = "process"]
TakeEnds(w) ==
    /\ exit /\ pc' = [pc EXCEPT ![w] = "done"]
    /\ UNCHANGED <<ch, list, numworker, numavail, clone_fd, ctr>>
TakeStarts(w) ==
    /\ ~exit /\ AvailLeft(w) = 0 /\ numworker < MaxThreads
    /\ fuse_loop_start_thread(AtProcess(w), AvailLeft(w))
TakePlain(w) ==
    /\ ~exit /\ (AvailLeft(w) = 0 => ~(numworker < MaxThreads))
    /\ pc' = AtProcess(w) /\ numavail' = AvailLeft(w)
    /\ UNCHANGED <<ch, list, numworker, clone_fd, ctr>>
LEMMA TakeSteps ==
    ASSUME NEW w \in Workers, take_request(w)
    PROVE  /\ pc[w] = "received"
           /\ UNCHANGED <<forget, exit, session, inflight, mainvars>>
           /\ TakeEnds(w) \/ TakeStarts(w) \/ TakePlain(w)
BY Zenon DEF take_request, TakeEnds, TakeStarts, TakePlain, AvailLeft, AtProcess, Goto

(* The other steps of a worker leave the pool as it is: the worker is of    *)
(* the list and stays so, and is busy or available as before.               *)
Quiet(w) ==
    /\ UNCHANGED <<ch, list, numworker, numavail, exit, main, joining>>
    /\ \A v \in Workers \ {w} : pc'[v] = pc[v] /\ (v \in forget' <=> v \in forget)
    /\ pc[w] \notin {"none", "ending"} /\ pc'[w] \notin {"none", "ending"}
    /\ Busy(w)' <=> Busy(w)
QuietStep(w) ==
    \/ loop(w) \/ receive(w) \/ receive_interrupted(w) \/ receive_fails(w)
    \/ receive_cancelled(w) \/ process(w) \/ fuse_session_exit(w)
    \/ handler_returns(w) \/ post(w)
LEMMA QuietSteps ==
    ASSUME TypeOK, NEW w \in Workers, QuietStep(w)
    PROVE  Quiet(w)
<1> USE DEF TypeOK, Quiet, Busy, Goto, mt, session, chans, mainvars
<1>1. CASE loop(w)
  BY <1>1, Zenon DEF loop
<1>2. CASE receive(w)
  BY <1>2, Zenon DEF receive
<1>3. CASE receive_interrupted(w)
  BY <1>3, Zenon DEF receive_interrupted
<1>4. CASE receive_fails(w)
  BY <1>4, Zenon DEF receive_fails
<1>5. CASE receive_cancelled(w)
  BY <1>5, Zenon DEF receive_cancelled
<1>6. CASE process(w)
  BY <1>6, Zenon DEF process
<1>7. CASE fuse_session_exit(w)
  BY <1>7, Zenon DEF fuse_session_exit
<1>8. CASE handler_returns(w)
  BY <1>8, Zenon DEF handler_returns
<1>9. CASE post(w)
  BY <1>9, Zenon DEF post
<1> QED
  BY <1>1, <1>2, <1>3, <1>4, <1>5, <1>6, <1>7, <1>8, <1>9, Zenon DEF QuietStep

(* The steps between those in which the main thread starts, cancels and     *)
(* joins workers, and the answer to a request, do so too.                   *)
Rest ==
    /\ UNCHANGED <<pc, forget, ch, list, numworker, numavail, exit, joining>>
    /\ \/ UNCHANGED main
       \/ /\ main \in {"check", "wait", "waiting"}
          /\ main' \in {"check", "wait", "waiting", "cancel"}
       \/ main = "return" /\ main' = "returned"
RestStep ==
    \/ main_check \/ sem_wait \/ sem_wait_returns \/ main_return \/ exit_handler
    \/ (\E c \in Chans : reply(c)) \/ UNCHANGED vars
LEMMA RestSteps ==
    ASSUME RestStep
    PROVE  Rest
<1> USE DEF Rest, mt, session, chans, mainvars
<1>1. CASE main_check
  BY <1>1, Zenon DEF main_check
<1>2. CASE sem_wait
  BY <1>2, Zenon DEF sem_wait
<1>3. CASE sem_wait_returns
  BY <1>3, Zenon DEF sem_wait_returns
<1>4. CASE main_return
  BY <1>4, Zenon DEF main_return
<1>5. CASE exit_handler
  BY <1>5, Zenon DEF exit_handler
<1>6. CASE \E c \in Chans : reply(c)
  BY <1>6, Zenon DEF reply
<1>7. CASE UNCHANGED vars
  BY <1>7, Zenon DEF vars
<1> QED
  BY <1>1, <1>2, <1>3, <1>4, <1>5, <1>6, <1>7, Zenon DEF RestStep

(* Every step is one of these, or one of the steps that change the pool.    *)
LEMMA Steps ==
    ASSUME [Next]_vars
    PROVE  \/ \E w \in Workers :
                 QuietStep(w) \/ take_request(w) \/ finish_request(w) \/ free_worker(w)
           \/ RestStep \/ main_start \/ main_cancel \/ main_next \/ fuse_join_worker
BY Zenon DEF Next, Run, Wakeup, Main, QuietStep, RestStep

-----------------------------------------------------------------------------
(* Types.                                                                   *)

(* fuse_chan_put is called with a reference to the channel.                 *)
LEMMA ChanPut ==
    ASSUME PoolInv, NEW w \in Workers, fuse_chan_put(ch[w])
    PROVE  ctr' \in [Chans -> Nat]
<1>1. ctr \in [Chans -> Nat]
  BY Zenon DEF PoolInv, PoolCounts, TypeOK
<1>2. CASE ch[w] = NoChan
  BY <1>1, <1>2, Zenon DEF fuse_chan_put
<1>3. CASE ch[w] # NoChan
  BY <1>1, <1>3, OwnerCounted DEF fuse_chan_put
<1> QED
  BY <1>2, <1>3, Zenon

(* Starting a thread keeps the types.                                       *)
StartTypes ==
    /\ pc' \in [Workers -> Labels] /\ ch' \in [Workers -> Chans \cup {NoChan}]
    /\ list' \subseteq Workers /\ numworker' \in Nat /\ numavail' \in Nat
    /\ clone_fd' \in BOOLEAN /\ ctr' \in [Chans -> Nat]
LEMMA StartTyped ==
    ASSUME TypeOK, NEW at \in [Workers -> Labels], NEW avail \in Nat,
           fuse_loop_start_thread(at, avail)
    PROVE  StartTypes
<1>1. ASSUME NEW v \in Workers, NEW c \in Chans \cup {NoChan}, StartsAt(v, c, at, avail)
      PROVE  StartTypes
  BY <1>1 DEF StartsAt, TypeOK, Labels, StartTypes
<1>2. CASE StartFailsAt(at, avail)
  BY <1>2, Zenon DEF StartFailsAt, TypeOK, StartTypes
<1> QED
  BY <1>1, <1>2, StartSteps, Zenon

(* Every step keeps the types: no counter becomes negative.                 *)
LEMMA TypesKept ==
    ASSUME PoolInv, [Next]_vars
    PROVE  TypeOK'
<1>0. TypeOK
  BY Zenon DEF PoolInv, PoolCounts
<1> USE DEF TypeOK, Labels, Goto, mt, session, chans, mainvars
<1>1. ASSUME NEW w \in Workers, QuietStep(w)
      PROVE  TypeOK'
  <2>1. CASE loop(w)
    BY <1>0, <2>1 DEF loop
  <2>2. CASE receive(w)
    BY <1>0, <2>2 DEF receive
  <2>3. CASE receive_interrupted(w)
    BY <1>0, <2>3, Zenon DEF receive_interrupted
  <2>4. CASE receive_fails(w)
    BY <1>0, <2>4, Zenon DEF receive_fails
  <2>5. CASE receive_cancelled(w)
    BY <1>0, <2>5, Zenon DEF receive_cancelled
  <2>6. CASE process(w)
    BY <1>0, <2>6 DEF process
  <2>7. CASE fuse_session_exit(w)
    BY <1>0, <2>7 DEF fuse_session_exit
  <2>8. CASE handler_returns(w)
    BY <1>0, <2>8 DEF handler_returns
  <2>9. CASE post(w)
    BY <1>0, <2>9 DEF post
  <2> QED
    BY <1>1, <2>1, <2>2, <2>3, <2>4, <2>5, <2>6, <2>7, <2>8, <2>9, Zenon DEF QuietStep
<1>2. ASSUME NEW w \in Workers, take_request(w)
      PROVE  TypeOK'
  <2>1. /\ pc[w] = "received" /\ UNCHANGED <<forget, exit, session, inflight, mainvars>>
        /\ TakeEnds(w) \/ TakeStarts(w) \/ TakePlain(w)
    BY <1>2, TakeSteps, Zenon
  <2>2. ~exit => AvailLeft(w) \in Nat
    <3>1. w \in list /\ ~Busy(w)
      BY <1>0, <2>1, Zenon DEF PoolInv, JoinedOnce, Busy
    <3>2. ~exit => numavail > 0
      BY <3>1, AvailCounted, Zenon
    <3> QED
      BY <1>0, <3>2 DEF AvailLeft
  <2>3. AtProcess(w) \in [Workers -> Labels]
    BY <1>0, Zenon DEF AtProcess
  <2>4. CASE TakeEnds(w)
    BY <1>0, <2>1, <2>4 DEF TakeEnds
  <2>5. CASE TakeStarts(w)
    <3>1. StartTypes
      BY <1>0, <2>2, <2>3, <2>5, StartTyped, Zenon DEF TakeStarts
    <3> QED
      BY <1>0, <2>1, <3>1, Zenon DEF StartTypes
  <2>6. CASE TakePlain(w)
    BY <1>0, <2>1, <2>2, <2>3, <2>6 DEF TakePlain
  <2> QED
    BY <2>1, <2>4, <2>5, <2>6, Zenon
<1>3. ASSUME NEW w \in Workers, finish_request(w)
      PROVE  TypeOK'
  <2>1. Avail(w) \in Nat
    BY <1>0 DEF Avail
  <2>2. CASE Ends(w)
    <3>1. Avail(w) - 1 \in Nat /\ numworker - 1 \in Nat
      BY <1>0, <2>1, <2>2 DEF Ends, Surplus
    <3> QED
      BY <1>0, <1>3, <2>2, <3>1 DEF finish_request
  <2>3. CASE ~Ends(w)
    BY <1>0, <1>3, <2>1, <2>3 DEF finish_request
  <2> QED
    BY <2>2, <2>3, Zenon
<1>4. ASSUME NEW w \in Workers, free_worker(w)
      PROVE  TypeOK'
  <2>1. ctr' \in [Chans -> Nat]
    BY <1>4, ChanPut, Zenon DEF free_worker
  <2> QED
    BY <1>0, <1>4, <2>1 DEF free_worker
<1>5. ASSUME RestStep
      PROVE  TypeOK'
  <2>1. CASE main_check
    BY <1>0, <2>1, Zenon DEF main_check
  <2>2. CASE sem_wait
    BY <1>0, <2>2, Zenon DEF sem_wait
  <2>3. CASE sem_wait_returns
    BY <1>0, <2>3 DEF sem_wait_returns
  <2>4. CASE main_return
    BY <1>0, <2>4, Zenon DEF main_return
  <2>5. CASE exit_handler
    BY <1>0, <2>5, Zenon DEF exit_handler
  <2>6. ASSUME NEW c \in Chans, reply(c)
        PROVE  TypeOK'
    <3>1. Owners(c) \in SUBSET Workers
      BY Zenon DEF Owners
    <3>2. ctr[c] = inflight[c] + Cardinality(Owners(c)) /\ Cardinality(Owners(c)) \in Nat
      BY <3>1, CountNone, Zenon DEF PoolInv, PoolCounts, ChanCounts
    <3>3. ctr[c] - 1 \in Nat /\ inflight[c] - 1 \in Nat
      BY <1>0, <2>6, <3>2 DEF reply
    <3> QED
      BY <1>0, <2>6, <3>3 DEF reply, fuse_chan_put
  <2>7. CASE UNCHANGED vars
    BY <1>0, <2>7 DEF vars
  <2> QED
    BY <1>5, <2>1, <2>2, <2>3, <2>4, <2>5, <2>6, <2>7, Zenon DEF RestStep
<1>6. ASSUME main_start
      PROVE  TypeOK'
  <2>1. StartTypes
    BY <1>0, <1>6, StartTyped, Zenon DEF main_start
  <2> QED
    BY <1>0, <1>6, <2>1, Zenon DEF main_start, StartTypes
<1>7. ASSUME main_cancel
      PROVE  TypeOK'
  BY <1>0, <1>7, Zenon DEF main_cancel
<1>8. ASSUME main_next
      PROVE  TypeOK'
  BY <1>0, <1>8, Zenon DEF main_next
<1>9. ASSUME fuse_join_worker
      PROVE  TypeOK'
  <2>1. ctr' \in [Chans -> Nat]
    BY <1>0, <1>9, ChanPut, Zenon DEF fuse_join_worker
  <2> QED
    BY <1>0, <1>9, <2>1, Zenon DEF fuse_join_worker
<1> QED
  BY <1>1, <1>2, <1>3, <1>4, <1>5, <1>6, <1>7, <1>8, <1>9, Steps, Zenon

-----------------------------------------------------------------------------
(* The list and the main thread.                                            *)

(* Every step keeps JoinedOnce: a worker leaves the list when it ends, which*)
(* it does not once the main thread joins, or when it is joined.            *)
LEMMA JoinKept ==
    ASSUME PoolInv, [Next]_vars
    PROVE  JoinedOnce'
<1>0. TypeOK /\ JoinedOnce
  BY Zenon DEF PoolInv, PoolCounts
<1> USE DEF TypeOK, JoinedOnce, Goto, mt, session, chans, mainvars
<1>1. ASSUME NEW w \in Workers, QuietStep(w)
      PROVE  JoinedOnce'
  <2>1. Quiet(w)
    BY <1>0, <1>1, QuietSteps, Zenon
  <2> QED
    BY <1>0, <2>1, Zenon DEF Quiet
<1>2. ASSUME NEW w \in Workers, take_request(w)
      PROVE  JoinedOnce'
  <2>1. /\ pc[w] = "received" /\ UNCHANGED <<forget, exit, session, inflight, mainvars>>
        /\ TakeEnds(w) \/ TakeStarts(w) \/ TakePlain(w)
    BY <1>2, TakeSteps, Zenon
  <2>2. CASE TakeEnds(w)
    BY <1>0, <2>1, <2>2, Zenon DEF TakeEnds
  <2>3. CASE TakeStarts(w)
    <3>1. ASSUME NEW v \in Workers, NEW c \in Chans \cup {NoChan},
                 StartsAt(v, c, AtProcess(w), AvailLeft(w))
          PROVE  JoinedOnce'
      BY <1>0, <2>1, <3>1, Zenon DEF StartsAt, AtProcess
    <3>2. CASE StartFailsAt(AtProcess(w), AvailLeft(w))
      BY <1>0, <2>1, <3>2, Zenon DEF StartFailsAt, AtProcess
    <3> QED
      BY <1>0, <2>3, <3>1, <3>2, StartSteps, Zenon DEF TakeStarts
  <2>4. CASE TakePlain(w)
    BY <1>0, <2>1, <2>4, Zenon DEF TakePlain, AtProcess
  <2> QED
    BY <2>1, <2>2, <2>3, <2>4, Zenon
<1>3. ASSUME NEW w \in Workers, finish_request(w)
      PROVE  JoinedOnce'
  BY <1>0, <1>3, Zenon DEF finish_request, Ends
<1>4. ASSUME NEW w \in Workers, free_worker(w)
      PROVE  JoinedOnce'
  BY <1>0, <1>4, Zenon DEF free_worker
<1>5. ASSUME RestStep
      PROVE  JoinedOnce'
  <2>1. Rest
    BY <1>5, RestSteps, Zenon
  <2> QED
    BY <1>0, <2>1, Zenon DEF Rest
<1>6. ASSUME main_start
      PROVE  JoinedOnce'
  <2>1. ASSUME NEW v \in Workers, NEW c \in Chans \cup {NoChan}, StartsAt(v, c, pc, numavail)
        PROVE  JoinedOnce'
    BY <1>0, <1>6, <2>1, Zenon DEF StartsAt, main_start
  <2>2. CASE StartFailsAt(pc, numavail)
    BY <1>0, <1>6, <2>2, Zenon DEF StartFailsAt, main_start
  <2> QED
    BY <1>0, <1>6, <2>1, <2>2, StartSteps, Zenon DEF main_start
<1>7. ASSUME main_cancel
      PROVE  JoinedOnce'
  BY <1>0, <1>7, Zenon DEF main_cancel
<1>8. ASSUME main_next
      PROVE  JoinedOnce'
  BY <1>0, <1>8, Zenon DEF main_next
<1>9. ASSUME fuse_join_worker
      PROVE  JoinedOnce'
  BY <1>0, <1>9, Zenon DEF fuse_join_worker
<1> QED
  BY <1>1, <1>2, <1>3, <1>4, <1>5, <1>6, <1>7, <1>8, <1>9, Steps, Zenon

-----------------------------------------------------------------------------
(* Workers.                                                                 *)

(* The workers that are available once w has taken its request are those    *)
(* that take_request counts.                                                *)
AvailableLeft(w) == IF w \in forget THEN Available ELSE Available \ {w}
LEMMA LeftCounted ==
    ASSUME PoolInv, ~exit, NEW w \in Workers, pc[w] = "received"
    PROVE  /\ AvailableLeft(w) \in SUBSET Workers
           /\ AvailLeft(w) = Cardinality(AvailableLeft(w))
<1>1. /\ Available \in SUBSET Workers /\ w \in Available
      /\ numavail = Cardinality(Available)
  BY Zenon DEF PoolInv, PoolCounts, JoinedOnce, TypeOK, WorkerCounts, Available, Busy
<1> QED
  BY <1>1, OneLess, Zenon DEF AvailLeft, AvailableLeft

(* A new worker is available.                                               *)
LEMMA StartCounted ==
    ASSUME PoolInv, ~exit, NEW S, S \subseteq list, NEW v \in Workers, pc[v] = "none",
           Available' = S \cup {v}, list' = list \cup {v}, exit' = exit,
           numavail' = Cardinality(S) + 1, numworker' = numworker + 1
    PROVE  WorkerCounts'
<1>1. /\ v \notin list /\ list \in SUBSET Workers /\ S \in SUBSET Workers
      /\ numworker = Cardinality(list)
  BY Zenon DEF PoolInv, PoolCounts, JoinedOnce, TypeOK, WorkerCounts
<1>2. Cardinality(list \cup {v}) = numworker + 1 /\ Cardinality(S \cup {v}) = Cardinality(S) + 1
  BY <1>1, OneMore, Zenon
<1> QED
  BY <1>2, Zenon DEF WorkerCounts

(* Every step keeps WorkerCounts.                                           *)
LEMMA WorkersKept ==
    ASSUME PoolInv, [Next]_vars
    PROVE  WorkerCounts'
<1>0. TypeOK /\ JoinedOnce /\ WorkerCounts
  BY Zenon DEF PoolInv, PoolCounts
<1> USE DEF TypeOK, JoinedOnce, Goto, mt, session, chans, mainvars
<1>1. ASSUME NEW w \in Workers, QuietStep(w)
      PROVE  WorkerCounts'
  <2>1. Quiet(w)
    BY <1>0, <1>1, QuietSteps, Zenon
  <2>2. Available' = Available
    BY <1>0, <2>1, Zenon DEF Quiet, Available, Busy
  <2> QED
    BY <1>0, <2>1, <2>2, Zenon DEF Quiet, WorkerCounts
<1>2. ASSUME NEW w \in Workers, take_request(w)
      PROVE  WorkerCounts'
  <2>1. /\ pc[w] = "received" /\ UNCHANGED <<forget, exit, session, inflight, mainvars>>
        /\ TakeEnds(w) \/ TakeStarts(w) \/ TakePlain(w)
    BY <1>2, TakeSteps, Zenon
  <2>2. CASE TakeEnds(w)
    BY <2>1, <2>2, Zenon DEF TakeEnds, WorkerCounts
  <2>3. ~exit => AvailLeft(w) = Cardinality(AvailableLeft(w))
    BY <2>1, LeftCounted, Zenon
  <2>4. ASSUME ~exit, pc' = AtProcess(w), numavail' = AvailLeft(w),
               UNCHANGED <<list, numworker>>
        PROVE  WorkerCounts'
    <3>1. Available' = AvailableLeft(w)
      BY <1>0, <2>1, <2>4, Zenon DEF Available, AvailableLeft, Busy, AtProcess
    <3> QED
      BY <1>0, <2>1, <2>3, <2>4, <3>1, Zenon DEF WorkerCounts
  <2>5. CASE TakeStarts(w)
    <3>1. ASSUME NEW v \in Workers, NEW c \in Chans \cup {NoChan},
                 StartsAt(v, c, AtProcess(w), AvailLeft(w))
          PROVE  WorkerCounts'
      <4>1. pc[v] = "none" /\ v # w
        BY <1>0, <3>1, Zenon DEF StartsAt, AtProcess
      <4>2. Available' = AvailableLeft(w) \cup {v}
        BY <1>0, <2>1, <3>1, <4>1, Zenon DEF StartsAt, AtProcess, Available, AvailableLeft, Busy
      <4>3. AvailableLeft(w) \subseteq list
        BY Zenon DEF AvailableLeft, Available
      <4>4. /\ list' = list \cup {v} /\ numworker' = numworker + 1 /\ ~exit /\ exit' = exit
            /\ numavail' = Cardinality(AvailableLeft(w)) + 1
        BY <2>1, <2>3, <2>5, <3>1, Zenon DEF StartsAt, TakeStarts
      <4> QED
        BY <4>1, <4>2, <4>3, <4>4, StartCounted, Zenon
    <3>2. CASE StartFailsAt(AtProcess(w), AvailLeft(w))
      BY <2>4, <2>5, <3>2, Zenon DEF StartFailsAt, TakeStarts
    <3> QED
      BY <1>0, <2>5, <3>1, <3>2, StartSteps, Zenon DEF TakeStarts
  <2>6. CASE TakePlain(w)
    BY <2>4, <2>6, Zenon DEF TakePlain
  <2> QED
    BY <2>1, <2>2, <2>5, <2>6, Zenon
<1>3. ASSUME NEW w \in Workers, finish_request(w)
      PROVE  WorkerCounts'
  <2> SUFFICES ASSUME ~exit
               PROVE  WorkerCounts'
    BY <1>3, Zenon DEF finish_request, WorkerCounts
  <2>1. /\ w \in list /\ list \in SUBSET Workers /\ Available \in SUBSET Workers
        /\ (w \in forget <=> w \in Available)
        /\ numworker = Cardinality(list) /\ numavail = Cardinality(Available)
    BY <1>0, <1>3, Zenon DEF finish_request, WorkerCounts, Available, Busy
  <2>2. Available \cup {w} \in SUBSET Workers /\ Avail(w) = Cardinality(Available \cup {w})
    <3>1. CASE w \in forget
      <4>1. Available \cup {w} = Available
        BY <2>1, <3>1, Zenon
      <4> QED
        BY <2>1, <3>1, <4>1, Zenon DEF Avail
    <3>2. CASE w \notin forget
      BY <2>1, <3>2, OneMore, Zenon DEF Avail
    <3> QED
      BY <3>1, <3>2, Zenon
  <2>3. CASE Ends(w)
    <3>1. /\ list' = list \ {w} /\ numworker' = numworker - 1 /\ numavail' = Avail(w) - 1
          /\ Available' = (Available \cup {w}) \ {w}
      BY <1>0, <1>3, <2>3, Zenon DEF finish_request, Available, Busy
    <3>2. Cardinality(list \ {w}) = Cardinality(list) - 1
      BY <2>1, OneLess, Zenon
    <3>3. Cardinality((Available \cup {w}) \ {w}) = Cardinality(Available \cup {w}) - 1
      BY <2>2, OneLess, Zenon
    <3> QED
      BY <2>1, <2>2, <3>1, <3>2, <3>3, Zenon DEF WorkerCounts
  <2>4. CASE ~Ends(w)
    <3>1. /\ UNCHANGED <<list, numworker>> /\ numavail' = Avail(w)
          /\ Available' = Available \cup {w}
      BY <1>0, <1>3, <2>1, <2>4 DEF finish_request, Available, Busy
    <3> QED
      BY <2>1, <2>2, <3>1, Zenon DEF WorkerCounts
  <2> QED
    BY <2>3, <2>4, Zenon
<1>4. ASSUME NEW w \in Workers, free_worker(w)
      PROVE  WorkerCounts'
  <2>1. UNCHANGED <<list, numworker, numavail, exit>> /\ Available' = Available
    BY <1>0, <1>4, Zenon DEF free_worker, Available, Busy
  <2> QED
    BY <1>0, <2>1, Zenon DEF WorkerCounts
<1>5. ASSUME RestStep
      PROVE  WorkerCounts'
  <2>1. Rest
    BY <1>5, RestSteps, Zenon
  <2> QED
    BY <1>0, <2>1, Zenon DEF Rest, WorkerCounts, Available, Busy
<1>6. ASSUME main_start
      PROVE  WorkerCounts'
  <2>1. ~exit /\ UNCHANGED <<exit, forget>> /\ numavail = Cardinality(Available)
    BY <1>0, <1>6, Zenon DEF main_start, WorkerCounts
  <2>2. ASSUME NEW v \in Workers, NEW c \in Chans \cup {NoChan}, StartsAt(v, c, pc, numavail)
        PROVE  WorkerCounts'
    <3>1. Available' = Available \cup {v} /\ Available \subseteq list
      BY <1>0, <2>1, <2>2 DEF StartsAt, Available, Busy
    <3>2. /\ pc[v] = "none" /\ list' = list \cup {v} /\ numworker' = numworker + 1
          /\ exit' = exit /\ numavail' = Cardinality(Available) + 1
      BY <2>1, <2>2, Zenon DEF StartsAt
    <3> QED
      BY <2>1, <3>1, <3>2, StartCounted, Zenon
  <2>3. CASE StartFailsAt(pc, numavail)
    BY <1>0, <2>1, <2>3, Zenon DEF StartFailsAt, WorkerCounts, Available, Busy
  <2> QED
    BY <1>0, <1>6, <2>2, <2>3, StartSteps, Zenon DEF main_start
<1>7. ASSUME main_cancel
      PROVE  WorkerCounts'
  BY <1>7, Zenon DEF main_cancel, WorkerCounts
<1>8. ASSUME main_next
      PROVE  WorkerCounts'
  BY <1>0, <1>8, Zenon DEF main_next, WorkerCounts, Available, Busy
<1>9. ASSUME fuse_join_worker
      PROVE  WorkerCounts'
  BY <1>0, <1>9, Zenon DEF fuse_join_worker, WorkerCounts
<1> QED
  BY <1>1, <1>2, <1>3, <1>4, <1>5, <1>6, <1>7, <1>8, <1>9, Steps, Zenon

-----------------------------------------------------------------------------
(* Channels.                                                                *)

(* A new worker takes the reference that its channel is made with.          *)
LEMMA StartChans ==
    ASSUME PoolInv, NEW v \in Workers, NEW c \in Chans \cup {NoChan}, NEW at, NEW avail,
           StartsAt(v, c, at, avail), pc[v] = "none", inflight' = inflight
    PROVE  \A d \in Chans : ctr'[d] = inflight'[d] + Cardinality(Owners(d)')
<1> SUFFICES ASSUME NEW d \in Chans
             PROVE  ctr'[d] = inflight'[d] + Cardinality(Owners(d)')
  OBVIOUS
<1>1. /\ ctr \in [Chans -> Nat] /\ inflight \in [Chans -> Nat] /\ ch[v] = NoChan
      /\ ch \in [Workers -> Chans \cup {NoChan}]
      /\ ctr[d] = inflight[d] + Cardinality(Owners(d)) /\ Owners(d) \in SUBSET Workers
  BY Zenon DEF PoolInv, PoolCounts, TypeOK, ChanCounts, Owners
<1>2. CASE d = c
  <2>1. v \notin Owners(d) /\ Owners(d)' = Owners(d) \cup {v}
    BY <1>1, <1>2 DEF StartsAt, Owners
  <2>2. /\ Cardinality(Owners(d)) \in Nat
        /\ Cardinality(Owners(d)') = Cardinality(Owners(d)) + 1
    BY <1>1, <2>1, OneMore, Zenon
  <2>3. ctr[d] = 0 /\ ctr'[d] = 1
    BY <1>1, <1>2, Zenon DEF StartsAt
  <2> QED
    BY <1>1, <2>2, <2>3
<1>3. CASE d # c
  <2>1. Owners(d)' = Owners(d) /\ ctr'[d] = ctr[d]
    BY <1>1, <1>3, Zenon DEF StartsAt, Owners
  <2> QED
    BY <1>1, <2>1, Zenon
<1> QED
  BY <1>2, <1>3, Zenon

(* A worker that is freed or joined gives its reference back.               *)
LEMMA PutChans ==
    ASSUME PoolInv, NEW w \in Workers, fuse_chan_put(ch[w]),
           ch' = [ch EXCEPT ![w] = NoChan], inflight' = inflight
    PROVE  \A d \in Chans : ctr'[d] = inflight'[d] + Cardinality(Owners(d)')
<1> SUFFICES ASSUME NEW d \in Chans
             PROVE  ctr'[d] = inflight'[d] + Cardinality(Owners(d)')
  OBVIOUS
<1>1. /\ ctr \in [Chans -> Nat] /\ inflight \in [Chans -> Nat]
      /\ ch \in [Workers -> Chans \cup {NoChan}]
      /\ ctr[d] = inflight[d] + Cardinality(Owners(d)) /\ Owners(d) \in SUBSET Workers
  BY Zenon DEF PoolInv, PoolCounts, TypeOK, ChanCounts, Owners
<1>2. CASE d = ch[w]
  <2>1. w \in Owners(d) /\ Owners(d)' = Owners(d) \ {w}
    BY <1>1, <1>2, Zenon DEF Owners
  <2>2. /\ Cardinality(Owners(d)) \in Nat
        /\ Cardinality(Owners(d)') = Cardinality(Owners(d)) - 1
    BY <1>1, <2>1, OneLess, Zenon
  <2>3. ctr'[d] = ctr[d] - 1
    BY <1>1, <1>2, Zenon DEF fuse_chan_put
  <2> QED
    BY <1>1, <2>2, <2>3
<1>3. CASE d # ch[w]
  <2>1. Owners(d)' = Owners(d) /\ ctr'[d] = ctr[d]
    BY <1>1, <1>3, Zenon DEF fuse_chan_put, Owners
  <2> QED
    BY <1>1, <2>1, Zenon
<1> QED
  BY <1>2, <1>3, Zenon

(* Every step keeps ChanCounts.                                             *)
LEMMA ChansKept ==
    ASSUME PoolInv, [Next]_vars
    PROVE  ChanCounts'
<1>0. TypeOK /\ JoinedOnce /\ ChanCounts
  BY Zenon DEF PoolInv, PoolCounts
<1>a. \A c \in Chans : Owners(c) \in SUBSET Workers /\ Cardinality(Owners(c)) \in Nat
  BY CountNone, Zenon DEF Owners
<1> USE DEF TypeOK, Goto, mt, session, chans, mainvars
<1>b. ASSUME UNCHANGED <<ch, chans>>, \A w \in Workers : pc'[w] = "none" => pc[w] = "none"
      PROVE  ChanCounts'
  BY <1>0, <1>b DEF ChanCounts, Owners
<1>1. ASSUME NEW w \in Workers, QuietStep(w)
      PROVE  ChanCounts'
  <2>1. Quiet(w)
    BY <1>0, <1>1, QuietSteps, Zenon
  <2>2. CASE UNCHANGED chans
    BY <1>b, <2>1, <2>2, Zenon DEF Quiet
  <2>3. CASE process(w)
    <3>1. \/ UNCHANGED chans
          \/ /\ ch[w] \in Chans /\ inflight' = [inflight EXCEPT ![ch[w]] = @ + 1]
             /\ ctr' = [ctr EXCEPT ![ch[w]] = @ + 1]
      BY <1>0, <2>3, Zenon DEF process
    <3> QED
      BY <1>0, <1>a, <2>1, <2>2, <3>1 DEF Quiet, ChanCounts, Owners
  <2> QED
    BY <1>1, <2>2, <2>3 DEF QuietStep, loop, receive, receive_interrupted, receive_fails,
       receive_cancelled, fuse_session_exit, handler_returns, post
<1>2. ASSUME NEW w \in Workers, take_request(w)
      PROVE  ChanCounts'
  <2>1. /\ pc[w] = "received" /\ UNCHANGED <<forget, exit, session, inflight, mainvars>>
        /\ TakeEnds(w) \/ TakeStarts(w) \/ TakePlain(w)
    BY <1>2, TakeSteps, Zenon
  <2>2. CASE TakeEnds(w)
    BY <1>0, <1>b, <2>1, <2>2, Zenon DEF TakeEnds
  <2>3. CASE TakeStarts(w)
    <3>1. ASSUME NEW v \in Workers, NEW c \in Chans \cup {NoChan},
                 StartsAt(v, c, AtProcess(w), AvailLeft(w))
          PROVE  ChanCounts'
      <4>1. pc[v] = "none" /\ inflight' = inflight
        BY <1>0, <2>1, <3>1, Zenon DEF StartsAt, AtProcess
      <4>2. \A d \in Chans : ctr'[d] = inflight'[d] + Cardinality(Owners(d)')
        BY <3>1, <4>1, StartChans, Zenon
      <4>3. \A u \in Workers : pc'[u] = "none" => ch'[u] = NoChan
        BY <1>0, <3>1, <4>1, Zenon DEF StartsAt, AtProcess, ChanCounts
      <4> QED
        BY <4>2, <4>3, Zenon DEF ChanCounts
    <3>2. CASE StartFailsAt(AtProcess(w), AvailLeft(w))
      BY <1>0, <1>b, <2>1, <3>2, Zenon DEF StartFailsAt, AtProcess
    <3> QED
      BY <1>0, <2>3, <3>1, <3>2, StartSteps, Zenon DEF TakeStarts
  <2>4. CASE TakePlain(w)
    BY <1>0, <1>b, <2>1, <2>4, Zenon DEF TakePlain, AtProcess
  <2> QED
    BY <2>1, <2>2, <2>3, <2>4, Zenon
<1>3. ASSUME NEW w \in Workers, finish_request(w)
      PROVE  ChanCounts'
  BY <1>0, <1>b, <1>3, Zenon DEF finish_request
<1>4. ASSUME NEW w \in Workers, free_worker(w)
      PROVE  ChanCounts'
  <2>1. \A d \in Chans : ctr'[d] = inflight'[d] + Cardinality(Owners(d)')
    BY <1>4, PutChans, Zenon DEF free_worker
  <2> QED
    BY <1>0, <1>4, <2>1, Zenon DEF free_worker, ChanCounts
<1>5. ASSUME RestStep
      PROVE  ChanCounts'
  <2>1. Rest
    BY <1>5, RestSteps, Zenon
  <2>2. CASE UNCHANGED chans
    BY <1>b, <2>1, <2>2, Zenon DEF Rest
  <2>3. ASSUME NEW c \in Chans, reply(c)
        PROVE  ChanCounts'
    BY <1>0, <1>a, <2>1, <2>3 DEF Rest, reply, fuse_chan_put, ChanCounts, Owners
  <2> QED
    BY <1>5, <2>2, <2>3 DEF RestStep, main_check, sem_wait, sem_wait_returns, main_return,
       exit_handler, vars
<1>6. ASSUME main_start
      PROVE  ChanCounts'
  <2>1. ASSUME NEW v \in Workers, NEW c \in Chans \cup {NoChan}, StartsAt(v, c, pc, numavail)
        PROVE  ChanCounts'
    <3>1. pc[v] = "none" /\ inflight' = inflight
      BY <1>6, <2>1, Zenon DEF StartsAt, main_start
    <3>2. \A d \in Chans : ctr'[d] = inflight'[d] + Cardinality(Owners(d)')
      BY <2>1, <3>1, StartChans, Zenon
    <3>3. \A u \in Workers : pc'[u] = "none" => ch'[u] = NoChan
      BY <1>0, <2>1, Zenon DEF StartsAt, ChanCounts
    <3> QED
      BY <3>2, <3>3, Zenon DEF ChanCounts
  <2>2. CASE StartFailsAt(pc, numavail)
    BY <1>b, <1>6, <2>2, Zenon DEF StartFailsAt, main_start
  <2> QED
    BY <1>0, <1>6, <2>1, <2>2, StartSteps, Zenon DEF main_start
<1>7. ASSUME main_cancel
      PROVE  ChanCounts'
  BY <1>b, <1>7, Zenon DEF main_cancel
<1>8. ASSUME main_next
      PROVE  ChanCounts'
  BY <1>b, <1>8, Zenon DEF main_next
<1>9. ASSUME fuse_join_worker
      PROVE  ChanCounts'
  <2>1. joining \in Workers
    BY <1>0, <1>9, Zenon DEF fuse_join_worker
  <2>2. \A d \in Chans : ctr'[d] = inflight'[d] + Cardinality(Owners(d)')
    BY <1>9, <2>1, PutChans, Zenon DEF fuse_join_worker
  <2> QED
    BY <1>0, <1>9, <2>1, <2>2, Zenon DEF fuse_join_worker, ChanCounts
<1> QED
  BY <1>1, <1>2, <1>3, <1>4, <1>5, <1>6, <1>7, <1>8, <1>9, Steps, Zenon

-----------------------------------------------------------------------------
(* Readers.                                                                 *)

(* What take_request and finish_request see of it.                          *)
ReaderCounted == ~exit /\ main # "start" => numavail > 0 \/ numworker >= MaxThreads

(* numavail tells whether a worker is left to read.                         *)
LEMMA ReaderSeen ==
    ASSUME PoolInv
    PROVE  ReaderLeft <=> ReaderCounted
<1>1. Available \in SUBSET Workers
  BY Zenon DEF PoolInv, PoolCounts, TypeOK, Available
<1>2. Cardinality(Available) \in Nat /\ (Cardinality(Available) = 0 <=> Available = {})
  BY <1>1, CountNone, Zenon
<1> QED
  BY <1>2 DEF PoolInv, PoolCounts, WorkerCounts, ReaderLeft, ReaderCounted

(* No step leaves the pool without a reader: the one that takes the last    *)
(* place starts another worker, and one ends only if another stays.         *)
LEMMA ReadersKept ==
    ASSUME PoolInv, ReaderCounted, [Next]_vars, ~StartFails, MaxIdle # 0
    PROVE  ReaderCounted'
<1>0. TypeOK /\ JoinedOnce
  BY Zenon DEF PoolInv, PoolCounts
<1> USE DEF ReaderCounted, mt, session, chans, mainvars
<1>t. /\ numavail \in Nat /\ numworker \in Nat /\ pc \in [Workers -> Labels]
      /\ list \subseteq Workers
  BY <1>0, Zenon DEF TypeOK
<1>1. ASSUME NEW w \in Workers, QuietStep(w)
      PROVE  ReaderCounted'
  BY <1>0, <1>1, QuietSteps, Zenon DEF Quiet
<1>2. ASSUME NEW w \in Workers, take_request(w)
      PROVE  ReaderCounted'
  <2>1. /\ pc[w] = "received" /\ UNCHANGED <<forget, exit, session, inflight, mainvars>>
        /\ TakeEnds(w) \/ TakeStarts(w) \/ TakePlain(w)
    BY <1>2, TakeSteps, Zenon
  <2>2. ~exit => AvailLeft(w) \in Nat
    <3>1. w \in list /\ ~Busy(w)
      BY <1>0, <2>1, Zenon DEF JoinedOnce, Busy
    <3>2. ~exit => numavail > 0
      BY <3>1, AvailCounted, Zenon
    <3> QED
      BY <1>t, <3>2 DEF AvailLeft
  <2>3. CASE TakeStarts(w)
    <3>1. PICK v \in Workers, c \in Chans \cup {NoChan} :
                  StartsAt(v, c, AtProcess(w), AvailLeft(w))
      BY <1>0, <2>3, StartSteps, Zenon DEF TakeStarts, StartFailsAt
    <3> QED
      BY <2>2, <2>3, <3>1 DEF StartsAt, TakeStarts
  <2> QED
    BY <1>t, <2>1, <2>2, <2>3 DEF TakeEnds, TakePlain
<1>3. ASSUME NEW w \in Workers, finish_request(w)
      PROVE  ReaderCounted'
  <2>1. CASE Ends(w)
    BY <1>t, <1>3, <2>1 DEF finish_request, Ends, Surplus, Avail
  <2>2. CASE ~Ends(w)
    BY <1>t, <1>3, <2>2 DEF finish_request, Avail
  <2> QED
    BY <2>1, <2>2, Zenon
<1>4. ASSUME NEW w \in Workers, free_worker(w)
      PROVE  ReaderCounted'
  BY <1>4, Zenon DEF free_worker
<1>5. ASSUME RestStep
      PROVE  ReaderCounted'
  BY <1>5, RestSteps, Zenon DEF Rest
<1>6. ASSUME main_start
      PROVE  ReaderCounted'
  <2>1. PICK v \in Workers, c \in Chans \cup {NoChan} : StartsAt(v, c, pc, numavail)
    BY <1>0, <1>6, StartSteps, Zenon DEF main_start, StartFailsAt
  <2> QED
    BY <1>t, <2>1 DEF StartsAt
<1>7. ASSUME main_cancel
      PROVE  ReaderCounted'
  BY <1>7, Zenon DEF main_cancel
<1>8. ASSUME main_next
      PROVE  ReaderCounted'
  BY <1>0, <1>8, Zenon DEF main_next, JoinedOnce
<1>9. ASSUME fuse_join_worker
      PROVE  ReaderCounted'
  BY <1>9, Zenon DEF fuse_join_worker
<1> QED
  BY <1>1, <1>2, <1>3, <1>4, <1>5, <1>6, <1>7, <1>8, <1>9, Steps, Zenon

-----------------------------------------------------------------------------
(* The pool starts with no worker and no reference.                         *)
LEMMA PoolStart == Init => PoolInv
<1> SUFFICES ASSUME Init
             PROVE  PoolInv
  OBVIOUS
<1>1. TypeOK
  BY Zenon DEF Init, TypeOK, Labels
<1>2. JoinedOnce
  BY Zenon DEF Init, JoinedOnce
<1>3. Cardinality({}) = 0
  BY FS_EmptySet, Zenon
<1>4. Available = {} /\ list = {} /\ \A c \in Chans : Owners(c) = {}
  BY Zenon DEF Init, Available, Owners
<1>5. WorkerCounts /\ ChanCounts
  BY <1>3, <1>4 DEF Init, WorkerCounts, ChanCounts
<1> QED
  BY <1>1, <1>2, <1>5, Zenon DEF PoolInv, PoolCounts

(* PoolInv is an invariant: fuse_loop_mt.c counts its workers and its       *)
(* channels exactly and joins every worker once.                            *)
THEOREM PoolInvariant == Spec => []PoolInv
<1>1. Init => PoolInv
  BY PoolStart, Zenon
<1>2. PoolInv /\ [Next]_vars => PoolInv'
  BY TypesKept, WorkersKept, ChansKept, JoinKept, Zenon DEF PoolInv, PoolCounts
<1> QED
  BY <1>1, <1>2, PTL DEF Spec

(* numworker, numavail and the references of the channels are exact, so a   *)
(* channel is closed with its last user.                                    *)
THEOREM PoolCounted == Spec => []PoolCounts
<1>1. PoolInv => PoolCounts
  BY Zenon DEF PoolInv
<1> QED
  BY <1>1, PoolInvariant, PTL

(* A worker ends by itself or is joined, never both, and none is left when  *)
(* fuse_session_loop_mt returns.                                            *)
THEOREM WorkersJoined == Spec => []JoinedOnce
<1>1. PoolInv => JoinedOnce
  BY Zenon DEF PoolInv
<1> QED
  BY <1>1, PoolInvariant, PTL

(* Where threads can be started and max_idle_threads is not 0, there is     *)
(* always a worker to read the next request, or max_threads are at work.    *)
THEOREM ReaderAlwaysLeft ==
    ASSUME ~StartFails, MaxIdle # 0
    PROVE  Spec => []ReaderLeft
<1>1. Init => ReaderCounted
  BY Zenon DEF Init, ReaderCounted
<1>2. PoolInv /\ ReaderCounted /\ [Next]_vars => ReaderCounted'
  BY ReadersKept, Zenon
<1>3. PoolInv /\ ReaderCounted => ReaderLeft
  BY ReaderSeen, Zenon
<1> QED
  BY <1>1, <1>2, <1>3, PoolInvariant, PTL DEF Spec

-----------------------------------------------------------------------------
(* The pipe of a worker thread.                                             *)

UnitsOf(n) == {Unit(n, part) : part \in {"header", "reply", "data", "more"}}

(* The messages as sequences of units.                                      *)
LEMMA Messages ==
    ASSUME NEW n, NEW kind \in RequestKinds, NEW k \in 0..2
    PROVE  /\ RequestUnits(n, kind) \in Seq(UnitsOf(n)) /\ RequestUnits(n, kind) # <<>>
           /\ Len(RequestUnits(n, kind)) = IF kind = "read" THEN 1 ELSE 3
           /\ Reply(n) \in Seq(UnitsOf(n)) /\ Len(Reply(n)) = 3
           /\ WithData(n, k) \in Seq(UnitsOf(n)) /\ Len(WithData(n, k)) = 1 + k
<1>1. /\ Unit(n, "header") \in UnitsOf(n) /\ Unit(n, "reply") \in UnitsOf(n)
      /\ Unit(n, "data") \in UnitsOf(n) /\ Unit(n, "more") \in UnitsOf(n)
  BY Zenon DEF UnitsOf
<1>2. /\ RequestUnits(n, kind) \in Seq(UnitsOf(n)) /\ RequestUnits(n, kind) # <<>>
      /\ Len(RequestUnits(n, kind)) = IF kind = "read" THEN 1 ELSE 3
  BY <1>1 DEF RequestUnits
<1>3. Reply(n) \in Seq(UnitsOf(n)) /\ Len(Reply(n)) = 3
  BY <1>1 DEF Reply
<1>4. \A i \in 1..(1 + k) : Reply(n)[i] \in UnitsOf(n)
  <2>1. \A i \in 1..Len(Reply(n)) : Reply(n)[i] \in UnitsOf(n)
    BY <1>3, ElementOfSeq, Zenon
  <2> QED
    BY <1>3, <2>1
<1>5. WithData(n, k) \in Seq(UnitsOf(n)) /\ Len(WithData(n, k)) = 1 + k
  <2>1. 1 + k \in Int /\ 1 <= 1 + k /\ 1 \in Int
    OBVIOUS
  <2>2. /\ SubSeq(Reply(n), 1, 1 + k) \in Seq(UnitsOf(n))
        /\ Len(SubSeq(Reply(n), 1, 1 + k)) = (1 + k) - 1 + 1
    BY <1>4, <2>1, SubSeqProperties
  <2> QED
    BY <2>2 DEF WithData
<1> QED
  BY <1>2, <1>3, <1>5, Zenon

(* A message is taken out of the pipe whole.                                *)
LEMMA TakenWhole ==
    ASSUME NEW S, NEW s \in Seq(S)
    PROVE  /\ <<>> \o s = s /\ SubSeq(s, 1, Len(s)) = s
           /\ SubSeq(s, Len(s) + 1, Len(s)) = <<>>
           /\ s # <<>> => Tail(s) = SubSeq(s, 2, Len(s))
<1>1. <<>> \o s = s /\ SubSeq(s, 1, Len(s)) = s
  BY ConcatEmptySeq, SubSeqFull, Zenon
<1>2. SubSeq(s, Len(s) + 1, Len(s)) = <<>>
  BY SubSeqEmpty, LenProperties
<1>3. s # <<>> => Tail(s) = SubSeq(s, 2, Len(s))
  BY TailIsSubSeq, Zenon
<1> QED
  BY <1>1, <1>2, <1>3, Zenon

(* Pipes that are cleared, got, marked as too small, filled and drained.    *)
LEMMA Pipes ==
    ASSUME NEW p, IsPipe(p)
    PROVE  /\ IsPipe(fuse_ll_clear_pipe) /\ fuse_ll_clear_pipe.data = <<>>
           /\ IsPipe([p EXCEPT !.open = TRUE]) /\ [p EXCEPT !.open = TRUE].data = p.data
           /\ IsPipe([p EXCEPT !.grows = FALSE]) /\ [p EXCEPT !.grows = FALSE].data = p.data
           /\ \A s : IsPipe([p EXCEPT !.data = s]) /\ [p EXCEPT !.data = s].data = s
           /\ \A k : IsPipe(Drained(p, k)) /\ Drained(p, k).data = SubSeq(p.data, k + 1, Len(p.data))
<1>1. IsPipe(fuse_ll_clear_pipe) /\ fuse_ll_clear_pipe.data = <<>>
  BY Zenon DEF IsPipe, fuse_ll_clear_pipe, NoPipe
<1>2. IsPipe([p EXCEPT !.open = TRUE]) /\ [p EXCEPT !.open = TRUE].data = p.data
  BY Zenon DEF IsPipe
<1>3. IsPipe([p EXCEPT !.grows = FALSE]) /\ [p EXCEPT !.grows = FALSE].data = p.data
  BY Zenon DEF IsPipe
<1>4. \A s : IsPipe([p EXCEPT !.data = s]) /\ [p EXCEPT !.data = s].data = s
  BY Zenon DEF IsPipe
<1> QED
  BY <1>1, <1>2, <1>3, <1>4, Zenon DEF Drained

(* A step after which the thread is in its loop again, or ends.             *)
LEMMA EndsClean ==
    ASSUME PipeClean, pipePhase' \in {"loop", "exit"}, IsPipe(pipe'), pipe'.data = <<>>,
           broken' \in BOOLEAN, UNCHANGED pipeRequest
    PROVE  PipeTypeOK' /\ PipeEmpty'
BY Zenon DEF PipeClean, PipeTypeOK, PipeEmpty, Left, Working

(* A reply is an error or has its own data.                                 *)
LEMMA SentWhole ==
    ASSUME PipeClean,
           \/ UNCHANGED pipeSent
           \/ Working /\ SendError(pipeRequest.n)
           \/ Working /\ \E k \in 0..2 : pipeSent' = WithData(pipeRequest.n, k)
    PROVE  RepliesWhole'
<1>1. Working => pipeRequest.n \in 1..MaxMessages
  BY PipeAssumption DEF PipeClean, PipeTypeOK
<1> QED
  BY <1>1, Zenon DEF PipeClean, RepliesWhole, SendError

(* A request arrives in the pipe.                                           *)
LEMMA ReceiveSplicedKept ==
    ASSUME PipeClean, NEW kind \in RequestKinds, receive_spliced(kind)
    PROVE  PipeClean'
<1> DEFINE n == pipeRequest.n + 1
           units == RequestUnits(n, kind)
           full == [fuse_ll_get_pipe EXCEPT !.data = @ \o units]
<1>1. n \in 1..MaxMessages /\ pipe.data = <<>> /\ IsPipe(pipe) /\ broken \in BOOLEAN
  BY PipeAssumption DEF PipeClean, PipeTypeOK, PipeEmpty, Left, Working, receive_spliced
<1> HIDE DEF n
<1>2. IsPipe(fuse_ll_get_pipe) /\ fuse_ll_get_pipe.data = <<>>
  BY <1>1, Pipes, Zenon DEF fuse_ll_get_pipe
<1>3. IsPipe(full) /\ full.data = units
  <2>1. <<>> \o units = units
    BY Messages, TakenWhole
  <2>2. full = [fuse_ll_get_pipe EXCEPT !.data = units]
    BY <1>2, <2>1, Zenon
  <2> HIDE DEF units, full
  <2> QED
    BY <1>2, <2>2, Pipes, Zenon
<1> HIDE DEF full, units
<1>4. RepliesWhole'
  BY SentWhole, Zenon DEF receive_spliced
<1>5. CASE pipePhase' = "process"
  <2>1. /\ pipeRequest' = [n |-> n, kind |-> kind,
                           where |-> IF kind = "read" THEN "mem" ELSE "pipe"]
        /\ pipe' = IF kind = "read" THEN Drained(full, 1) ELSE full
        /\ broken' = broken
    BY <1>5, Zenon DEF receive_spliced, n, full, units
  <2>2. IsPipe(pipe') /\ pipe'.data = IF kind = "read" THEN <<>> ELSE units
    <3>1. kind = "read" => SubSeq(units, 1 + 1, Len(units)) = <<>>
      <4>1. kind = "read" => Len(units) = 1
        BY Messages DEF units
      <4>2. SubSeq(units, Len(units) + 1, Len(units)) = <<>>
        BY Messages, TakenWhole DEF units
      <4> QED
        BY <4>1, <4>2, Zenon
    <3> QED
      BY <1>3, <2>1, <3>1, Pipes, ZenonT(30)
  <2>3. PipeTypeOK'
    BY <1>1, <1>5, <2>1, <2>2 DEF PipeTypeOK, Working
  <2>4. PipeEmpty'
    BY <1>5, <2>1, <2>2, Zenon DEF PipeEmpty, Left, Working, units
  <2> QED
    BY <1>4, <2>3, <2>4, Zenon DEF PipeClean
<1>6. CASE pipePhase' # "process"
  <2>1. pipe' = fuse_ll_clear_pipe /\ pipePhase' = "exit" /\ UNCHANGED <<pipeRequest, broken>>
    BY <1>6, Zenon DEF receive_spliced
  <2> QED
    BY <1>1, <1>4, <2>1, Pipes, EndsClean, Zenon DEF PipeClean
<1> QED
  BY <1>5, <1>6, Zenon

(* A request is read into memory.                                           *)
LEMMA ReceiveFallbackKept ==
    ASSUME PipeClean, NEW kind \in RequestKinds, receive_fallback(kind)
    PROVE  PipeClean'
<1>1. /\ pipeRequest.n + 1 \in 1..MaxMessages /\ pipe.data = <<>> /\ IsPipe(pipe)
      /\ broken \in BOOLEAN
  BY PipeAssumption DEF PipeClean, PipeTypeOK, PipeEmpty, Left, Working, receive_fallback
<1>2. IsPipe(pipe') /\ pipe'.data = <<>>
  <2>1. pipe' = pipe \/ pipe' = [fuse_ll_get_pipe EXCEPT !.grows = FALSE]
    BY Zenon DEF receive_fallback
  <2>2. IsPipe(fuse_ll_get_pipe) /\ fuse_ll_get_pipe.data = <<>>
    BY <1>1, Pipes, Zenon DEF fuse_ll_get_pipe
  <2> QED
    BY <1>1, <2>1, <2>2, Pipes, Zenon
<1>3. /\ pipeRequest' = [n |-> pipeRequest.n + 1, kind |-> kind, where |-> "mem"]
      /\ pipePhase' = "process" /\ broken' = broken
  BY Zenon DEF receive_fallback
<1>4. PipeTypeOK' /\ PipeEmpty'
  BY <1>1, <1>2, <1>3 DEF PipeTypeOK, PipeEmpty, Left, Working
<1>5. RepliesWhole'
  BY SentWhole, Zenon DEF receive_fallback
<1> QED
  BY <1>4, <1>5, Zenon DEF PipeClean

(* What is in the pipe when a request is processed and when it is handled.  *)
LEMMA InPipe ==
    ASSUME PipeClean, Working
    PROVE  /\ IsPipe(pipe) /\ broken \in BOOLEAN /\ pipeRequest.kind \in RequestKinds
           /\ pipeRequest.where \in {"mem", "pipe"}
           /\ pipeRequest.where = "mem" => pipe.data = <<>>
           /\ pipeRequest.where = "pipe" =>
                 /\ pipeRequest.kind # "read"
                 /\ pipePhase = "process" =>
                       pipe.data = RequestUnits(pipeRequest.n, pipeRequest.kind)
                 /\ pipePhase = "handler" =>
                       pipe.data = IF pipeRequest.kind = "xattr" THEN <<>>
                                   ELSE Tail(RequestUnits(pipeRequest.n, pipeRequest.kind))
BY Zenon DEF PipeClean, PipeTypeOK, PipeEmpty, Left, Working

(* A request is refused, or given to its handler.                           *)
LEMMA ProcessKept ==
    ASSUME PipeClean, process_refuses \/ process_dispatches
    PROVE  PipeClean'
<1> DEFINE all == RequestUnits(pipeRequest.n, pipeRequest.kind)
<1>1. Working /\ pipePhase = "process"
  BY Zenon DEF process_refuses, process_dispatches, Working
<1>2. RepliesWhole'
  BY <1>1, SentWhole, Zenon DEF process_refuses, process_dispatches
<1>3. CASE pipePhase' = "loop"
  <2>1. /\ pipe' = IF pipeRequest.where = "pipe" THEN fuse_ll_clear_pipe ELSE pipe
        /\ UNCHANGED <<broken, pipeRequest>>
    BY <1>3, Zenon DEF process_refuses, process_dispatches
  <2>2. IsPipe(pipe') /\ pipe'.data = <<>>
    BY <1>1, <2>1, InPipe, Pipes, Zenon
  <2> QED
    BY <1>1, <1>2, <1>3, <2>1, <2>2, InPipe, EndsClean, Zenon DEF PipeClean
<1>4. CASE pipePhase' # "loop"
  <2>1. /\ pipe' = IF pipeRequest.where = "mem" THEN pipe
                   ELSE IF pipeRequest.kind # "xattr" THEN Drained(pipe, 1)
                   ELSE Drained(pipe, Len(all))
        /\ pipePhase' = "handler" /\ UNCHANGED <<broken, pipeRequest>>
    BY <1>1, <1>4, InPipe, Zenon DEF process_refuses, process_dispatches
  <2>2. all \in Seq(UnitsOf(pipeRequest.n)) /\ all # <<>>
    BY <1>1, InPipe, Messages
  <2>3. SubSeq(all, 1 + 1, Len(all)) = Tail(all) /\ SubSeq(all, Len(all) + 1, Len(all)) = <<>>
    BY <2>2, TakenWhole
  <2> HIDE DEF all
  <2>4. /\ IsPipe(pipe')
        /\ pipe'.data = IF pipeRequest.where = "mem" \/ pipeRequest.kind = "xattr" THEN <<>>
                        ELSE Tail(all)
    <3>1. CASE pipeRequest.where = "mem"
      BY <1>1, <2>1, <3>1, InPipe, Zenon
    <3>2. CASE pipeRequest.where = "pipe"
      <4>1. IsPipe(pipe) /\ pipe.data = all
        BY <1>1, <3>2, InPipe, Zenon DEF all
      <4>2. \A k : IsPipe(Drained(pipe, k)) /\ Drained(pipe, k).data = SubSeq(all, k + 1, Len(all))
        BY <4>1, Pipes, Zenon
      <4> QED
        BY <2>1, <2>3, <3>2, <4>2, Zenon
    <3> QED
      BY <1>1, <3>1, <3>2, InPipe, Zenon
  <2>5. PipeTypeOK'
    BY <1>1, <2>1, <2>4, Zenon DEF PipeClean, PipeTypeOK, Working
  <2>6. PipeEmpty'
    BY <1>1, <2>1, <2>4, InPipe, Zenon DEF PipeEmpty, Left, Working, all
  <2> QED
    BY <1>2, <2>5, <2>6, Zenon DEF PipeClean
<1> QED
  BY <1>3, <1>4, Zenon

(* do_write_buf, fuse_ll_retrieve_reply and do_setxattr.                    *)
LEMMA HandlerKept ==
    ASSUME PipeClean, do_write_buf \/ do_setxattr
    PROVE  PipeClean'
<1> DEFINE all == RequestUnits(pipeRequest.n, pipeRequest.kind)
<1>1. Working /\ pipePhase = "handler" /\ pipePhase' = "loop" /\ UNCHANGED <<broken, pipeRequest>>
  BY Zenon DEF do_write_buf, do_setxattr, Working
<1>2. RepliesWhole'
  BY <1>1, SentWhole, Zenon DEF do_write_buf, do_setxattr, SendError
<1>3. IsPipe(pipe') /\ pipe'.data = <<>>
  <2>1. CASE do_setxattr
    BY <1>1, <2>1, InPipe, Zenon DEF do_setxattr
  <2>2. CASE do_write_buf /\ pipeRequest.where = "mem"
    BY <1>1, <2>2, InPipe, Zenon DEF do_write_buf
  <2>3. CASE do_write_buf /\ pipeRequest.where = "pipe"
    <3>1. pipe' = fuse_ll_clear_pipe \/ pipe' = Drained(pipe, 2)
      BY <2>3 DEF do_write_buf
    <3>2. IsPipe(pipe) /\ pipe.data = Tail(all)
      BY <1>1, <2>3, InPipe, Zenon DEF do_write_buf
    <3>3. all \in Seq(UnitsOf(pipeRequest.n)) /\ all # <<>> /\ Len(all) = 3
      BY <1>1, <2>3, InPipe, Messages, Zenon DEF do_write_buf
    <3>4. Tail(all) \in Seq(UnitsOf(pipeRequest.n)) /\ Len(Tail(all)) = 2
      BY <3>3, HeadTailProperties
    <3>5. SubSeq(Tail(all), 2 + 1, Len(Tail(all))) = <<>>
      BY <3>4, TakenWhole, Zenon
    <3> HIDE DEF all
    <3>6. /\ IsPipe(Drained(pipe, 2))
          /\ Drained(pipe, 2).data = SubSeq(Tail(all), 2 + 1, Len(Tail(all)))
      <4>1. Drained(pipe, 2).data = SubSeq(pipe.data, 2 + 1, Len(pipe.data)) /\ IsPipe(Drained(pipe, 2))
        BY <3>2, Pipes, Zenon
      <4> QED
        BY <3>2, <4>1, Zenon
    <3>7. IsPipe(fuse_ll_clear_pipe) /\ fuse_ll_clear_pipe.data = <<>>
      BY <3>2, Pipes, Zenon
    <3> QED
      BY <3>1, <3>5, <3>6, <3>7, Zenon
  <2> QED
    BY <1>1, <2>1, <2>2, <2>3, InPipe, Zenon
<1> QED
  BY <1>1, <1>2, <1>3, InPipe, EndsClean, Zenon DEF PipeClean

(* fuse_send_data_iov: the reply of a read, through the pipe or not.        *)
LEMMA SendDataKept ==
    ASSUME PipeClean, fuse_send_data_iov
    PROVE  PipeClean'
<1>1. /\ Working /\ pipePhase' = "loop" /\ UNCHANGED pipeRequest
      /\ pipePhase = "handler" /\ pipeRequest.kind = "read"
  BY Zenon DEF fuse_send_data_iov, Working
<1>2. IsPipe(pipe) /\ pipe.data = <<>> /\ broken \in BOOLEAN
  BY <1>1, InPipe, Zenon
<1>3. IsPipe(fuse_ll_get_pipe) /\ fuse_ll_get_pipe.data = <<>>
  BY <1>2, Pipes, Zenon DEF fuse_ll_get_pipe
<1>4. ASSUME NEW k \in 0..2
      PROVE  /\ IsPipe(Drained(Loaded(k), 1 + k)) /\ Drained(Loaded(k), 1 + k).data = <<>>
             /\ SubSeq(Loaded(k).data, 1, 1 + k) = WithData(pipeRequest.n, k)
             /\ k = 1 => SubSeq(Loaded(k).data, 1, 1 + k) \o SubSeq(Reply(pipeRequest.n), k + 2, 3)
                         = WithData(pipeRequest.n, 2)
  <2> DEFINE data == WithData(pipeRequest.n, k)
             whole == Reply(pipeRequest.n)
  <2>1. /\ data \in Seq(UnitsOf(pipeRequest.n)) /\ Len(data) = 1 + k
        /\ whole \in Seq(UnitsOf(pipeRequest.n)) /\ Len(whole) = 3
    BY <1>1, Messages, Zenon DEF RequestKinds
  <2>2. /\ <<>> \o data = data /\ SubSeq(data, 1, 1 + k) = data
        /\ SubSeq(data, (1 + k) + 1, 1 + k) = <<>>
    BY <2>1, TakenWhole, Zenon
  <2>3. IsPipe(Loaded(k)) /\ Loaded(k).data = data
    <3>1. Loaded(k) = [fuse_ll_get_pipe EXCEPT !.data = data]
      BY <1>3, <2>2, Zenon DEF Loaded
    <3> HIDE DEF data
    <3>2. /\ IsPipe([fuse_ll_get_pipe EXCEPT !.data = data])
          /\ [fuse_ll_get_pipe EXCEPT !.data = data].data = data
      BY <1>3, Pipes, Zenon
    <3> QED
      BY <3>1, <3>2, Zenon
  <2>4. k = 1 => data \o SubSeq(whole, k + 2, 3) = WithData(pipeRequest.n, 2)
    <3>1. 2 \in 0..Len(whole) /\ 3 \in 2..Len(whole) /\ 1 \in 1..(Len(whole) + 1)
      BY <2>1
    <3>2. SubSeq(whole, 1, 2) \o SubSeq(whole, 2 + 1, 3) = SubSeq(whole, 1, 3)
      BY <2>1, <3>1, ConcatAdjacentSubSeq
    <3> QED
      BY <3>2 DEF WithData
  <2> HIDE DEF data, whole
  <2>5. IsPipe(Drained(Loaded(k), 1 + k)) /\ Drained(Loaded(k), 1 + k).data = <<>>
    <3>1. /\ IsPipe(Drained(Loaded(k), 1 + k))
          /\ Drained(Loaded(k), 1 + k).data = SubSeq(data, (1 + k) + 1, Len(data))
      BY <2>3, Pipes, Zenon
    <3> QED
      BY <2>1, <2>2, <3>1, Zenon
  <2> QED
    BY <2>2, <2>3, <2>4, <2>5, Zenon DEF data, whole
<1>5. RepliesWhole'
  <2>1. CASE send_data_fallback
    BY <1>1, <2>1, SentWhole, Zenon DEF send_data_fallback
  <2>2. CASE SendError(pipeRequest.n) \/ UNCHANGED pipeSent
    BY <1>1, <2>2, SentWhole, Zenon
  <2>3. ASSUME NEW k \in 0..2, pipeSent' = SubSeq(Loaded(k).data, 1, 1 + k)
        PROVE  RepliesWhole'
    BY <1>1, <1>4, <2>3, SentWhole, Zenon
  <2>4. ASSUME NEW k \in 0..2, k < 2, k > 0,
               pipeSent' = SubSeq(Loaded(k).data, 1, 1 + k) \o SubSeq(Reply(pipeRequest.n), k + 2, 3)
        PROVE  RepliesWhole'
    <3>1. k = 1 /\ 2 \in 0..2
      BY <2>4
    <3>2. pipeSent' = WithData(pipeRequest.n, 2)
      BY <1>4, <2>4, <3>1, Zenon
    <3> QED
      BY <1>1, <3>1, <3>2, SentWhole, Zenon
  <2> QED
    BY <2>1, <2>2, <2>3, <2>4, Zenon DEF fuse_send_data_iov
<1>6. IsPipe(pipe') /\ pipe'.data = <<>>
  <2>1. \/ pipe' = pipe \/ pipe' = fuse_ll_clear_pipe
        \/ pipe' = [fuse_ll_get_pipe EXCEPT !.grows = FALSE]
        \/ \E k \in 0..2 : pipe' = Drained(Loaded(k), 1 + k)
    BY Zenon DEF fuse_send_data_iov
  <2>2. /\ IsPipe([fuse_ll_get_pipe EXCEPT !.grows = FALSE])
        /\ [fuse_ll_get_pipe EXCEPT !.grows = FALSE].data = <<>>
    BY <1>3, Pipes, Zenon
  <2>3. IsPipe(fuse_ll_clear_pipe) /\ fuse_ll_clear_pipe.data = <<>>
    BY <1>2, Pipes, Zenon
  <2> QED
    BY <1>2, <1>4, <2>1, <2>2, <2>3, Zenon
<1>7. broken' \in BOOLEAN
  BY <1>2, Zenon DEF fuse_send_data_iov
<1> QED
  BY <1>1, <1>5, <1>6, <1>7, EndsClean, Zenon DEF PipeClean

(* Messages that share a thread's pipe do not mix (fuse_session_receive_buf, *)
(* fuse_session_process_buf and fuse_send_data_iov of fuse_lowlevel.c), for  *)
(* any number of requests and of splices that fail.                          *)
THEOREM PipeNeverMixes == PipeSpec => []PipeClean
<1>1. PipeInit => PipeClean
  <2> SUFFICES ASSUME PipeInit PROVE PipeClean
    OBVIOUS
  <2>1. IsPipe(pipe) /\ pipe.data = <<>>
    BY Zenon DEF PipeInit, IsPipe, NoPipe
  <2>2. PipeTypeOK
    <3>1. pipeRequest \in [n : 0..MaxMessages, kind : RequestKinds, where : {"mem", "pipe"}]
      BY PipeAssumption DEF PipeInit, RequestKinds
    <3> QED
      BY <2>1, <3>1, Zenon DEF PipeInit, PipeTypeOK, Working
  <2>3. PipeEmpty /\ RepliesWhole
    BY <2>1, Zenon DEF PipeInit, PipeEmpty, RepliesWhole, Left, Working
  <2> QED
    BY <2>2, <2>3, Zenon DEF PipeClean
<1>2. PipeClean /\ [PipeNext]_pipeVars => PipeClean'
  <2> SUFFICES ASSUME PipeClean, [PipeNext]_pipeVars PROVE PipeClean'
    OBVIOUS
  <2>1. CASE UNCHANGED pipeVars
    BY <2>1, Zenon DEF pipeVars, PipeClean, PipeTypeOK, PipeEmpty, RepliesWhole, Left, Working
  <2> QED
    BY <2>1, ReceiveSplicedKept, ReceiveFallbackKept, ProcessKept, HandlerKept, SendDataKept, Zenon
       DEF PipeNext
<1> QED
  BY <1>1, <1>2, PTL DEF PipeSpec
=============================================================================
