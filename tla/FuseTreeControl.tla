--------------------------- MODULE FuseTreeControl ---------------------------
(***************************************************************************)
(* The steps of FuseTree keep QueueInv and ControlInv: the lock queue and  *)
(* the loops under f->lock, and where a request can be with which paths.   *)
(***************************************************************************)
EXTENDS FuseTreeLemmas

(* Leaves that need arithmetic or records cite SMT; the others are Zenon's. *)
USE ZenonT(30)

-----------------------------------------------------------------------------
(* The queue.                                                               *)

(* A step that moves its thread between states outside the queue and        *)
(* outside the loops under f->lock.                                         *)
Inside == {"wait", "fwait", "waking", "unref"}

(* t goes from one label outside the queue and the loops under f->lock to   *)
(* another.                                                                 *)
Moves(t) ==
    /\ pc[t] \notin Inside
    /\ \E l \in Labels \ Inside : pc' = [pc EXCEPT ![t] = l]

(* Such a step keeps QueueInv.                                              *)
LEMMA QueueKept ==
    ASSUME TypeOK, QueueInv, NEW t \in Threads, Moves(t),
           UNCHANGED <<lockq, mutex, wake>>
    PROVE  QueueInv'
<1>1. PICK l \in Labels \ Inside : pc' = [pc EXCEPT ![t] = l]
  BY DEF Moves
<1>2. \A u \in Threads : pc'[u] \in Inside \/ pc[u] \in Inside => pc'[u] = pc[u]
  BY <1>1 DEF Moves, TypeOK
<1>3. \A u \in Threads : /\ Waiting(u) => Waiting(u)'
                         /\ pc[u] = "waking" <=> pc'[u] = "waking"
                         /\ pc'[u] \in {"waking", "unref"} => pc[u] = pc'[u]
  BY <1>2 DEF Waiting, Inside
<1>4. /\ \A k \in 1..Len(lockq) : lockq[k] \in Threads
      /\ \A k \in 1..Len(wake) : wake[k] \in Threads
  BY SMTT(30) DEF TypeOK
<1>5. /\ \A k \in 1..Len(lockq') : Waiting(lockq[k])'
      /\ \A k \in 1..Len(wake') : Waiting(wake[k])'
  BY <1>3, <1>4 DEF QueueInv
<1> QED
  BY SMTT(30), <1>3, <1>5 DEF QueueInv, Waiting

(* Handlers that hold f->lock for one step, and the kernel.                 *)
PlainStep(t) ==
    \/ Receive(t) \/ QuietStep(t) \/ HandleStep(t)
    \/ lookup_path(t) \/ create_lookup(t)
    \/ hide_node(t) \/ remove_hidden(t)
    \/ unlink_entry(t) \/ rename_entry(t) \/ exchange_entry(t)

(* The plain steps are such steps and leave locks and paths alone.          *)
LEMMA PlainMoves ==
    ASSUME TypeOK, NEW t \in Threads, PlainStep(t)
    PROVE  Moves(t) /\ UNCHANGED <<queue, treelock, held>>
<1> DEFINE Out(l) == l \in Labels \ Inside /\ pc' = [pc EXCEPT ![t] = l]
<1>1. SUFFICES /\ pc[t] \notin Inside
               /\ \E l : Out(l)
               /\ UNCHANGED <<queue, treelock, held>>
  BY DEF Moves
<1>2. CASE Receive(t)
  <2>1. \E l \in {"forget", "rel", "free", "op", "get"} : pc' = [pc EXCEPT ![t] = l]
    BY <1>2 DEF Receive
  <2> QED
    BY <1>2, <2>1 DEF Receive, Inside, Labels
<1>3. CASE QuietStep(t)
  <2>1. \E l \in {"idle", "reply", "free", "forget", "hide", "rel", "hiding", "rmhidden"} :
           pc' = [pc EXCEPT ![t] = l]
    BY <1>3 DEF QuietStep, free_null, fs_fails, open_fails, create_not_regular,
         reply_open_interrupted, check_open, hidden_name, recheck_open,
         copy_file_range, Goto, GotoAs, AfterFree
  <2>2. pc[t] \notin Inside
    BY <1>3 DEF QuietStep, free_null, fs_fails, open_fails, create_not_regular,
         reply_open_interrupted, check_open, hidden_name, recheck_open,
         copy_file_range, At, Inside
  <2> QED
    BY <1>3, <2>1, <2>2, QuietStepIsQuiet DEF Quiet, Inside, Labels
<1>4. CASE HandleStep(t)
  <2>1. \E l \in {"idle", "opened", "unl", "get", "forget", "free"} :
           pc' = [pc EXCEPT ![t] = l]
    BY <1>4 DEF HandleStep, reply_entry, count_open, reply_open, fuse_do_release,
           release_unlink, Goto, GotoAs, AfterRelease
  <2>2. pc[t] \notin Inside /\ UNCHANGED <<queue, treelock, held>>
    BY <1>4 DEF HandleStep, reply_entry, count_open, reply_open, fuse_do_release,
           release_unlink, At, Inside
  <2> QED
    BY <2>1, <2>2 DEF Inside, Labels
<1>5. CASE lookup_path(t) \/ create_lookup(t)
  <2>1. \E l \in {"free", "entry"} : pc' = [pc EXCEPT ![t] = l]
    BY <1>5 DEF lookup_path, create_lookup, GotoAs
  <2>2. pc[t] = "op" /\ UNCHANGED <<queue, treelock, held>>
    BY <1>5 DEF lookup_path, create_lookup, At
  <2> QED
    BY <2>1, <2>2 DEF Inside, Labels
<1>6. CASE \/ hide_node(t) \/ remove_hidden(t)
           \/ unlink_entry(t) \/ rename_entry(t) \/ exchange_entry(t)
  <2>1. \E l \in {"free", "recheck", "ren"} : pc' = [pc EXCEPT ![t] = l]
    BY <1>6 DEF hide_node, remove_hidden, unlink_entry, rename_entry, exchange_entry, Goto
  <2>2. pc[t] \in {"op", "hiding", "rmhidden", "ren"} /\ UNCHANGED <<queue, treelock, held>>
    BY <1>6 DEF hide_node, remove_hidden, unlink_entry, rename_entry, exchange_entry, At
  <2> QED
    BY <2>1, <2>2 DEF Inside, Labels
<1> QED
  BY <1>2, <1>3, <1>4, <1>5, <1>6 DEF PlainStep

(* A thread goes to sleep at the end of the queue.                          *)
LEMMA QueueAppend ==
    ASSUME TypeOK, QueueInv, NEW t \in Threads, pc[t] \notin Inside,
           mutex = NoThread, NEW l \in {"wait", "fwait"},
           pc' = [pc EXCEPT ![t] = l], lockq' = Append(lockq, t),
           UNCHANGED <<mutex, wake>>
    PROVE  QueueInv'
<1>1. wake = <<>> /\ \A u \in Threads : pc[u] \notin {"waking", "unref"}
  BY ThreadsAssumption DEF QueueInv
<1>2. \A u \in Threads : pc'[u] \notin {"waking", "unref"}
  BY <1>1 DEF TypeOK
<1>3. \A u \in Threads : Waiting(u) => u # t /\ Waiting(u)'
  BY DEF Waiting, TypeOK, Inside
<1>4. Waiting(t)'
  BY DEF Waiting, TypeOK
<1>5. /\ lockq \in Seq(Threads) /\ lockq' \in Seq(Threads)
      /\ Len(lockq) \in Nat /\ Len(lockq') = Len(lockq) + 1
      /\ \A k \in 1..Len(lockq) : lockq'[k] = lockq[k]
      /\ lockq'[Len(lockq) + 1] = t
  BY SMTT(30) DEF TypeOK
<1>6. \A k \in 1..Len(lockq') : k \in 1..Len(lockq) \/ k = Len(lockq) + 1
  BY SMTT(30), <1>5
<1>7. \A k \in 1..Len(lockq) : lockq[k] \in Threads /\ lockq[k] # t
  BY SMTT(30), <1>3, <1>5 DEF QueueInv
<1>8. \A k \in 1..Len(lockq') : Waiting(lockq[k])'
  <2> SUFFICES ASSUME NEW k \in 1..Len(lockq')
               PROVE  pc'[lockq'[k]] \in {"wait", "fwait"}
    BY DEF Waiting
  <2>1. CASE k \in 1..Len(lockq)
    <3>1. lockq'[k] = lockq[k] /\ lockq[k] \in Threads /\ Waiting(lockq[k])
      BY <1>5, <1>7, <2>1 DEF QueueInv
    <3>2. pc'[lockq[k]] \in {"wait", "fwait"}
      BY <1>3, <3>1 DEF Waiting
    <3> QED
      BY <3>1, <3>2
  <2>2. CASE k = Len(lockq) + 1
    BY <1>4, <1>5, <2>2 DEF Waiting
  <2> QED
    BY <1>6, <2>1, <2>2
<1>9. \A j, k \in 1..Len(lockq') : lockq'[j] = lockq'[k] => j = k
  BY SMTT(30), <1>5, <1>6, <1>7 DEF QueueInv
<1> QED
  BY SMTT(30), <1>1, <1>2, <1>8, <1>9 DEF QueueInv, Waiting

(* A thread leaves the queue; it keeps f->lock only inside unref_node.      *)
LEMMA QueueDequeue ==
    ASSUME TypeOK, QueueInv, NEW t \in Threads, mutex = NoThread, dequeue_path(t),
           NEW l \in Labels \ {"wait", "fwait", "waking"},
           pc' = [pc EXCEPT ![t] = l], l = "unref" => mutex' = t,
           l # "unref" => mutex' = mutex, UNCHANGED wake
    PROVE  QueueInv'
<1>1. wake = <<>> /\ \A u \in Threads : pc[u] \notin {"waking", "unref"}
  BY ThreadsAssumption DEF QueueInv
<1>2. \A u \in Threads : /\ pc'[u] # "waking"
                         /\ pc'[u] = "unref" => mutex' = u
                         /\ u # t => pc'[u] = pc[u]
  BY <1>1 DEF TypeOK
<1>3. PICK k \in 1..Len(lockq) :
         /\ lockq[k] = t /\ Len(lockq') = Len(lockq) - 1
         /\ \A j \in 1..Len(lockq') : lockq'[j] = lockq[IF j < k THEN j ELSE j + 1]
  BY DequeueType, TypeParts
<1>4. Len(lockq) \in Nat /\ \A j \in 1..Len(lockq) : lockq[j] \in Threads
  BY SMTT(30) DEF TypeOK
<1> DEFINE at(j) == IF j < k THEN j ELSE j + 1
<1>5. \A j \in 1..Len(lockq') : at(j) \in 1..Len(lockq) /\ at(j) # k
  BY SMTT(30), <1>3, <1>4
<1>6. \A i, j \in 1..Len(lockq') : at(i) = at(j) => i = j
  BY SMTT(30), <1>3, <1>4
<1>7. \A j \in 1..Len(lockq') : lockq'[j] = lockq[at(j)]
  BY <1>3
<1> HIDE DEF at
<1>8. \A j \in 1..Len(lockq') : lockq'[j] \in Threads /\ lockq'[j] # t /\ Waiting(lockq'[j])
  BY SMTT(30), <1>3, <1>4, <1>5, <1>7 DEF QueueInv
<1>9. \A j \in 1..Len(lockq') : pc'[lockq'[j]] \in {"wait", "fwait"}
  BY <1>2, <1>8 DEF Waiting
<1>10. \A i, j \in 1..Len(lockq') : lockq'[i] = lockq'[j] => i = j
  <2>1. \A i, j \in 1..Len(lockq) : lockq[i] = lockq[j] => i = j
    BY DEF QueueInv
  <2> QED
    BY <1>5, <1>6, <1>7, <2>1
<1> QED
  BY SMTT(30), <1>1, <1>2, <1>9, <1>10 DEF QueueInv, Waiting

(* A handler that has its path goes on outside the queue.                   *)
LEMMA GetReturnsMoves ==
    ASSUME NEW t \in Threads, NEW outcome, GetReturns(t, outcome)
    PROVE  \E l \in Labels \ Inside : pc' = [pc EXCEPT ![t] = l]
<1>1. \E l \in {"get", "rel", "idle", "free", "unl", "op"} : pc' = [pc EXCEPT ![t] = l]
  BY DEF GetReturns, Goto, AfterGet
<1> QED
  BY <1>1 DEF Labels, Inside

(* Every step keeps the lock queue in order.                                *)
LEMMA QueueStep ==
    ASSUME TypeOK, QueueInv, NEW t \in Threads, Receive(t) \/ Work(t)
    PROVE  QueueInv'
<1>0. \A S \in {lockq, wake} : \A k \in 1..Len(S) : S[k] \in Threads
  BY SMTT(30) DEF TypeOK
<1>1. CASE PlainStep(t)
  BY <1>1, PlainMoves, QueueKept DEF queue
<1>2. CASE get_path_common(t)
  <2>1. pc[t] = "get" /\ mutex = NoThread /\ UNCHANGED <<mutex, wake>>
    BY <1>2 DEF get_path_common
  <2>2. CASE GetOutcome(t) = "again"
    BY <1>2, <2>1, <2>2, QueueAppend DEF get_path_common, Inside
  <2>3. CASE GetOutcome(t) # "again"
    BY <1>2, <2>1, <2>3, GetReturnsMoves, QueueKept DEF get_path_common, Moves, Inside
  <2> QED
    BY <2>2, <2>3
<1>3. CASE wait_path(t)
  <2>1. mutex = NoThread /\ dequeue_path(t) /\ UNCHANGED <<mutex, wake>>
    BY <1>3 DEF wait_path
  <2>2. PICK l \in Labels \ Inside : pc' = [pc EXCEPT ![t] = l]
    BY <1>3, GetReturnsMoves DEF wait_path
  <2> QED
    BY <2>1, <2>2, QueueDequeue DEF Inside
<1>4. CASE free_path(t)
  <2>1. pc[t] = "free" /\ mutex = NoThread /\ UNCHANGED lockq
    BY <1>4 DEF free_path
  <2>2. CASE lockq # <<>>
    <3>1. mutex' = t /\ wake' = lockq /\ pc' = [pc EXCEPT ![t] = "waking"]
      BY <1>4, <2>2 DEF free_path
    <3>2. \A u \in Threads : /\ u # t => pc'[u] = pc[u] /\ pc[u] \notin {"waking", "unref"}
                             /\ pc'[t] = "waking"
      BY <2>1, <3>1, ThreadsAssumption DEF QueueInv, TypeOK
    <3>3. \A k \in 1..Len(lockq) : lockq[k] # t /\ Waiting(lockq[k])'
      BY <1>0, <2>1, <3>2 DEF QueueInv, Waiting
    <3> QED
      BY <2>1, <2>2, <3>1, <3>2, <3>3 DEF QueueInv, Waiting
  <2>3. CASE lockq = <<>>
    <3>1. \E l \in {"reply", "idle", "free"} : pc' = [pc EXCEPT ![t] = l]
      BY <1>4, <2>3 DEF free_path, Goto, AfterFree
    <3>2. Moves(t) /\ UNCHANGED <<lockq, mutex, wake>>
      BY <1>4, <2>1, <2>3, <3>1 DEF free_path, Moves, Inside, Labels
    <3> QED
      BY <3>2, QueueKept
  <2> QED
    BY <2>2, <2>3
<1>5. CASE wake_up_queued(t)
  <2>1. /\ mutex = t /\ pc[t] = "waking" /\ wake # <<>> /\ wake \in Seq(Threads)
        /\ wake' = Tail(wake) /\ UNCHANGED lockq
    BY <1>5, WakeHead DEF wake_up_queued, TypeOK
  <2>2. /\ Len(wake) \in Nat \ {0} /\ Len(Tail(wake)) = Len(wake) - 1
        /\ \A k \in 1..Len(Tail(wake)) : Tail(wake)[k] = wake[k + 1]
    BY SMTT(30), <2>1
  <2>3. \A k \in 1..Len(wake') : wake'[k] \in Threads /\ Waiting(wake'[k])
    BY SMTT(30), <1>0, <2>1, <2>2 DEF QueueInv
  <2>4. CASE Tail(wake) # <<>>
    <3>1. UNCHANGED <<mutex, pc>>
      BY <1>5, <2>4 DEF wake_up_queued
    <3> QED
      BY <2>1, <2>3, <2>4, <3>1 DEF QueueInv, Waiting
  <2>5. CASE Tail(wake) = <<>>
    <3>1. mutex' = NoThread /\ \E l \in {"reply", "idle", "free"} : pc' = [pc EXCEPT ![t] = l]
      BY <1>5, <2>5 DEF wake_up_queued, Goto, AfterFree
    <3>2. \A u \in Threads : /\ u # t => pc'[u] = pc[u] /\ pc[u] \notin {"waking", "unref"}
                             /\ pc'[t] \notin Inside
      BY <2>1, <3>1 DEF QueueInv, TypeOK, Inside
    <3>3. \A k \in 1..Len(lockq) : lockq[k] # t /\ Waiting(lockq[k])'
      BY <1>0, <2>1, <3>2 DEF QueueInv, Waiting
    <3>4. \A u \in Threads : pc'[u] \notin {"waking", "unref"}
      BY <3>2 DEF Inside
    <3> QED
      BY SMTT(30), <2>1, <2>5, <3>3, <3>4 DEF QueueInv, Waiting
  <2> QED
    BY <2>4, <2>5
<1>6. CASE forget_node(t) /\ ForgetBlocked(t)
  BY <1>6, QueueAppend DEF forget_node, Inside
<1>7. CASE (forget_node(t) \/ forget_wakeup(t)) /\ ~ForgetBlocked(t)
  <2>1. DropLookups(t) /\ mutex = NoThread /\ UNCHANGED wake
    BY <1>7 DEF forget_node, forget_wakeup
  <2>2. PICK l \in {"unref", "free", "idle"} :
           /\ pc' = [pc EXCEPT ![t] = l]
           /\ l = "unref" => mutex' = t
           /\ l # "unref" => mutex' = mutex
    BY <2>1 DEF DropLookups, Goto, AfterForget
  <2>3. l \in Labels \ {"wait", "fwait", "waking"}
    BY DEF Labels
  <2>4. CASE forget_wakeup(t)
    BY <1>7, <2>1, <2>2, <2>3, <2>4, QueueDequeue DEF forget_wakeup
  <2>5. CASE forget_node(t)
    <3>1. pc[t] = "forget" /\ UNCHANGED lockq
      BY <1>7, <2>5 DEF forget_node
    <3>2. wake = <<>> /\ \A u \in Threads : pc[u] \notin {"waking", "unref"}
      BY <2>1, ThreadsAssumption DEF QueueInv
    <3>3. \A u \in Threads : /\ pc'[u] # "waking" /\ (pc'[u] = "unref" => mutex' = u)
                             /\ u # t => pc'[u] = pc[u]
      BY <2>2, <3>2 DEF TypeOK
    <3>4. \A k \in 1..Len(lockq) : lockq[k] # t /\ Waiting(lockq[k])'
      BY <1>0, <3>1, <3>3 DEF QueueInv, Waiting
    <3> QED
      BY SMTT(30), <2>1, <3>1, <3>2, <3>3, <3>4 DEF QueueInv, Waiting
  <2> QED
    BY <1>7, <2>4, <2>5
<1>8. CASE forget_wakeup(t) /\ ForgetBlocked(t)
  BY <1>8 DEF forget_wakeup, QueueInv, Waiting
<1>9. CASE unref_node(t)
  <2>1. pc[t] = "unref" /\ mutex = t /\ UNCHANGED <<lockq, wake>>
    BY <1>9 DEF unref_node
  <2>2. CASE UNCHANGED <<mutex, pc>>
    BY <2>1, <2>2 DEF QueueInv, Waiting
  <2>3. CASE mutex' = NoThread /\ Goto(t, AfterForget(t))
    <3>1. \E l \in {"free", "idle"} : pc' = [pc EXCEPT ![t] = l]
      BY <2>3 DEF Goto, AfterForget
    <3>2. wake = <<>>
      BY <2>1 DEF QueueInv
    <3>3. \A u \in Threads : /\ u # t => pc'[u] = pc[u] /\ pc[u] \notin {"waking", "unref"}
                             /\ pc'[t] \notin Inside
      BY <2>1, <3>1 DEF QueueInv, TypeOK, Inside
    <3>4. \A u \in Threads : pc'[u] \notin {"waking", "unref"}
      BY <3>3 DEF Inside
    <3>5. \A k \in 1..Len(lockq) : lockq[k] # t /\ Waiting(lockq[k])'
      BY <1>0, <2>1, <3>3 DEF QueueInv, Waiting
    <3> QED
      BY SMTT(30), <2>1, <3>2, <3>4, <3>5 DEF QueueInv, Waiting
  <2> QED
    BY <1>9, <2>2, <2>3 DEF unref_node
<1> QED
  BY <1>1, <1>2, <1>3, <1>4, <1>5, <1>6, <1>7, <1>8, <1>9, StepCases DEF PlainStep

-----------------------------------------------------------------------------
(* A step changes the control of its own thread only, and the paths of its  *)
(* own thread or of the one it wakes.                                       *)

SameControl(u) ==
    /\ pc'[u] = pc[u] /\ req'[u] = req[u]
    /\ slots'[u] = slots[u] /\ ino'[u] = ino[u]

(* A step leaves the paths and the queue element of u alone.                *)
SameHeld(u) ==
    /\ got'[u] = got[u] /\ path'[u] = path[u]
    /\ wnode'[u] = wnode[u] /\ qdone'[u] = qdone[u]

(* Goto and GotoAs of t leave the control of u alone.                       *)
LEMMA GotoFrame ==
    ASSUME TypeOK, NEW t, NEW u \in Threads, u # t, NEW l, NEW op,
           Goto(t, l) \/ GotoAs(t, l, op)
    PROVE  SameControl(u)
<1>1. CASE Goto(t, l)
  BY <1>1 DEF Goto, SameControl, TypeOK
<1>2. CASE GotoAs(t, l, op)
  BY <1>2 DEF GotoAs, SameControl, TypeOK
<1> QED
  BY <1>1, <1>2

(* So does the return from get_path.                                        *)
LEMMA GetReturnsFrame ==
    ASSUME TypeOK, NEW t, NEW u \in Threads, u # t, NEW outcome, GetReturns(t, outcome)
    PROVE  SameControl(u)
<1>1. CASE Goto(t, AfterGet(t, outcome))
  BY <1>1, GotoFrame
<1>2. CASE ~Goto(t, AfterGet(t, outcome))
  BY <1>2 DEF GetReturns, SameControl, TypeOK
<1> QED
  BY <1>1, <1>2

(* find_node of t sets the e.ino of t only.                                 *)
LEMMA FindNodeFrame ==
    ASSUME TypeOK, NEW t, NEW u \in Threads, u # t, NEW d, NEW nm, find_node(t, d, nm)
    PROVE  ino'[u] = ino[u]
<1>1. \E n : ino' = [ino EXCEPT ![t] = n]
  BY DEF find_node
<1> QED
  BY <1>1 DEF TypeOK

(* A step of t leaves the control of the other threads alone.               *)
LEMMA ControlFrame ==
    ASSUME TypeOK, NEW t \in Threads, NEW u \in Threads, u # t, Receive(t) \/ Work(t)
    PROVE  SameControl(u)
<1>1. CASE Receive(t)
  BY SMTT(30), <1>1 DEF Receive, SameControl, TypeOK
<1>2. CASE QuietStep(t)
  <2>1. CASE hidden_name(t) /\ ~Goto(t, "free")
    BY <2>1 DEF hidden_name, SameControl, TypeOK
  <2>2. CASE ~(hidden_name(t) /\ ~Goto(t, "free"))
    <3>1. \E l, op : Goto(t, l) \/ GotoAs(t, l, op)
      BY <1>2, <2>2 DEF QuietStep, free_null, fs_fails, open_fails, create_not_regular,
         reply_open_interrupted, check_open, recheck_open, copy_file_range
    <3> QED
      BY <3>1, GotoFrame
  <2> QED
    BY <2>1, <2>2
<1>3. CASE HandleStep(t)
  <2>1. \E l, op : Goto(t, l) \/ GotoAs(t, l, op)
    BY <1>3 DEF HandleStep, reply_entry, count_open, reply_open, fuse_do_release,
           release_unlink
  <2> QED
    BY <2>1, GotoFrame
<1>4. CASE get_path_common(t)
  <2>1. CASE GetOutcome(t) = "again"
    BY <1>4, <2>1 DEF get_path_common, SameControl, TypeOK
  <2>2. CASE GetOutcome(t) # "again"
    BY <1>4, <2>2, GetReturnsFrame DEF get_path_common
  <2> QED
    BY <2>1, <2>2
<1>5. CASE wait_path(t)
  BY <1>5, GetReturnsFrame DEF wait_path
<1>6. CASE free_path(t)
  <2>1. CASE lockq # <<>>
    BY <1>6, <2>1 DEF free_path, SameControl, TypeOK
  <2>2. CASE lockq = <<>>
    <3>1. \E l : Goto(t, l)
      BY <1>6, <2>2 DEF free_path
    <3> QED
      BY <3>1, GotoFrame
  <2> QED
    BY <2>1, <2>2
<1>7. CASE wake_up_queued(t)
  <2>1. UNCHANGED <<pc, req, ino, slots>> \/ \E l : Goto(t, l)
    BY <1>7 DEF wake_up_queued
  <2> QED
    BY <2>1, GotoFrame DEF SameControl
<1>8. CASE forget_node(t) \/ forget_wakeup(t)
  <2>1. \/ pc' = [pc EXCEPT ![t] = "fwait"] /\ UNCHANGED <<req, ino, slots>>
        \/ UNCHANGED <<pc, req, ino, slots>>
        \/ \E l : Goto(t, l)
    BY <1>8 DEF forget_node, forget_wakeup, DropLookups
  <2>2. CASE pc' = [pc EXCEPT ![t] = "fwait"] /\ UNCHANGED <<req, ino, slots>>
    BY <2>2 DEF SameControl, TypeOK
  <2> QED
    BY <2>1, <2>2, GotoFrame DEF SameControl
<1>9. CASE unref_node(t)
  <2>1. \/ (\E up : ino' = [ino EXCEPT ![t] = up]) /\ UNCHANGED <<pc, req, slots>>
        \/ \E l : Goto(t, l)
    BY <1>9 DEF unref_node
  <2>2. CASE (\E up : ino' = [ino EXCEPT ![t] = up]) /\ UNCHANGED <<pc, req, slots>>
    BY <2>2 DEF SameControl, TypeOK
  <2> QED
    BY <2>1, <2>2, GotoFrame
<1>10. CASE lookup_path(t)
  BY <1>10, FindNodeFrame DEF lookup_path, SameControl, TypeOK
<1>11. CASE create_lookup(t)
  <2>1. CASE GotoAs(t, "free", "answered")
    BY <2>1, GotoFrame
  <2>2. CASE ~GotoAs(t, "free", "answered")
    BY <1>11, <2>2, FindNodeFrame DEF create_lookup, SameControl, TypeOK
  <2> QED
    BY <2>1, <2>2
<1>12. CASE \/ hide_node(t) \/ remove_hidden(t)
            \/ unlink_entry(t) \/ rename_entry(t) \/ exchange_entry(t)
  <2>1. \E l : Goto(t, l)
    BY <1>12 DEF hide_node, remove_hidden, unlink_entry, rename_entry, exchange_entry
  <2> QED
    BY <2>1, GotoFrame
<1> QED
  BY <1>1, <1>2, <1>3, <1>4, <1>5, <1>6, <1>7, <1>8, <1>9, <1>10, <1>11, <1>12, StepCases

(* Setting the path variables of t leaves those of u alone.                 *)
LEMMA SetPathsFrame ==
    ASSUME TypeOK, NEW t, NEW u \in Threads, u # t, SetPaths(t)
    PROVE  got'[u] = got[u] /\ path'[u] = path[u] /\ wnode'[u] = wnode[u]
BY DEF SetPaths, TypeOK

(* Only the loop of wake_up_queued sets path variables of another thread,   *)
(* those of the element it looks at.                                        *)
LEMMA HeldFrame ==
    ASSUME TypeOK, NEW t \in Threads, NEW u \in Threads, Receive(t) \/ Work(t),
           u # t \/ wake_up_queued(t),
           wake_up_queued(t) => u # Head(wake)
    PROVE  SameHeld(u)
<1>1. CASE PlainStep(t)
  BY <1>1, PlainMoves DEF held, queue, SameHeld
<1>2. CASE get_path_common(t) /\ u # t
  <2>1. UNCHANGED qdone /\ (SetPaths(t) \/ UNCHANGED held)
    BY <1>2 DEF get_path_common
  <2> QED
    BY <1>2, <2>1, SetPathsFrame DEF SameHeld, held
<1>3. CASE wait_path(t) /\ u # t
  BY <1>3 DEF wait_path, dequeue_path, SameHeld, held, TypeOK
<1>4. CASE free_path(t) /\ u # t
  BY <1>4 DEF free_path, SameHeld, TypeOK
<1>5. CASE wake_up_queued(t) /\ u # Head(wake)
  <2> DEFINE q == Head(wake)
  <2>1. \/ UNCHANGED qdone
        \/ \E v : qdone' = [qdone EXCEPT ![q] = v]
    BY <1>5 DEF wake_up_queued, queue_element_wakeup
  <2>2. SetPaths(q) \/ UNCHANGED held
    BY <1>5 DEF wake_up_queued, queue_element_wakeup
  <2> HIDE DEF q
  <2>3. u # q
    BY <1>5 DEF q
  <2>4. qdone'[u] = qdone[u]
    BY <2>1, <2>3 DEF TypeOK
  <2> QED
    BY <2>2, <2>3, <2>4, SetPathsFrame DEF SameHeld, held
<1>6. CASE (forget_node(t) \/ forget_wakeup(t)) /\ u # t
  BY <1>6 DEF forget_node, forget_wakeup, dequeue_path, SameHeld, held, TypeOK
<1>7. CASE unref_node(t)
  BY <1>7 DEF unref_node, SameHeld, held
<1>8. wake_up_queued(t) => u # Head(wake)
  OBVIOUS
<1>9. u # t \/ wake_up_queued(t)
  OBVIOUS
<1> QED
  BY <1>1, <1>2, <1>3, <1>4, <1>5, <1>6, <1>7, <1>8, <1>9, StepCases DEF PlainStep

-----------------------------------------------------------------------------
(* The control of a thread.                                                 *)

(* A request goes on from label l to label m with the same paths, either as *)
(* itself or under another name.                                            *)
LEMMA ControlMoves ==
    ASSUME NEW r, NEW r2, NEW l, NEW m, NEW s, NEW g,
           ControlAt(r, l, s, g, "no"), l # "idle",
           m \notin {"idle", "reply", "get", "wait", "fwait"},
           r2.d1 = r.d1, r2.d2 = r.d2, r2.op \in OpsAt(m),
           s \in SlotsOf(r2.op), r2.op = "copy_file_range" => r.op = "copy_file_range",
           r2.op \in {"forget", "interrupted_entry"} => g = {},
           m \in {"op", "hide", "hiding", "recheck", "rmhidden", "ren"}
              /\ r2.op \in WriteOps => g = s
    PROVE  ControlAt(r2, m, s, g, "no")
BY DEF ControlAt

(* An idle thread satisfies its control invariant.                          *)
LEMMA ControlIdle == \A s : ControlAt(NoReq, "idle", s, {}, "no")
BY DEF ControlAt, NoReq, OpsAt, Answered, WriteOps

(* The effect of Goto and GotoAs on the thread's own control.               *)
LEMMA GotoOwn ==
    ASSUME TypeOK, NEW t \in Threads, NEW l, Goto(t, l)
    PROVE  /\ pc'[t] = l
           /\ l = "idle" => req'[t] = NoReq
           /\ l # "idle" => req'[t] = req[t] /\ slots'[t] = slots[t] /\ ino'[t] = ino[t]
BY DEF Goto, TypeOK

(* What GotoAs does to the thread itself.                                   *)
LEMMA GotoAsOwn ==
    ASSUME TypeOK, NEW t \in Threads, NEW l, NEW op, GotoAs(t, l, op)
    PROVE  /\ pc'[t] = l /\ slots'[t] = slots[t] /\ ino'[t] = ino[t]
           /\ req'[t].op = op /\ req'[t].d1 = req[t].d1 /\ req'[t].d2 = req[t].d2
<1>1. req[t] \in RequestType(AllOps)
  BY DEF TypeOK, AllOps
<1>2. req'[t] = [req[t] EXCEPT !.op = op]
  BY DEF GotoAs, TypeOK
<1>3. pc'[t] = l /\ slots'[t] = slots[t] /\ ino'[t] = ino[t]
  BY DEF GotoAs, TypeOK
<1> QED
  BY <1>1, <1>2, <1>3 DEF RequestType

(* A thread that a step leaves alone keeps its control invariant.           *)
LEMMA ControlKept ==
    ASSUME NEW u \in Threads, Control(u), SameControl(u), SameHeld(u)
    PROVE  Control(u)'
BY DEF Control, SameControl, SameHeld

(* A quiet step keeps its thread's control invariant.                       *)
LEMMA QuietControl ==
    ASSUME TypeOK, NEW t \in Threads, Control(t), QuietStep(t)
    PROVE  Control(t)'
<1>1. got' = got /\ qdone' = qdone
  BY QuietStepIsQuiet DEF Quiet, held, queue
<1>2. ControlAt(req[t], pc[t], slots[t], got[t], qdone[t])
  BY DEF Control
<1>3. SUFFICES ControlAt(req'[t], pc'[t], slots'[t], got[t], qdone[t])
  BY <1>1 DEF Control
<1>4. qdone[t] = "no" /\ pc[t] # "idle"
  BY <1>2 DEF ControlAt, QuietStep, free_null, fs_fails, open_fails, create_not_regular,
         reply_open_interrupted, check_open, hidden_name, recheck_open,
         copy_file_range, At
<1>5. CASE free_null(t)
  <2>1. Goto(t, AfterFree(t)) /\ got[t] = {} /\ pc[t] = "free"
    BY <1>5 DEF free_null
  <2>2. CASE AfterFree(t) = "idle"
    BY <1>4, <2>1, <2>2, GotoOwn, ControlIdle
  <2>3. CASE AfterFree(t) # "idle"
    <3>1. AfterFree(t) = "reply" /\ req[t].op \in EntryOps
      BY <2>3 DEF AfterFree
    <3>2. pc'[t] = "reply" /\ req'[t] = req[t] /\ slots'[t] = slots[t]
      BY <2>1, <3>1, GotoOwn
    <3>3. ControlAt(req[t], "reply", slots[t], {}, "no")
      BY <1>2, <1>4, <2>1, <3>1 DEF ControlAt, OpsAt, EntryOps
    <3> QED
      BY <1>4, <2>1, <3>2, <3>3
  <2> QED
    BY <2>2, <2>3
<1>6. CASE fs_fails(t) \/ (hidden_name(t) /\ Goto(t, "free"))
  <2>1. Goto(t, "free")
    BY <1>6 DEF fs_fails
  <2>2. pc'[t] = "free" /\ req'[t] = req[t] /\ slots'[t] = slots[t]
    BY SMTT(30), <2>1, GotoOwn
  <2>3. req[t].op \in OpsAt("free") /\ slots[t] \in SlotsOf(req[t].op)
        /\ (req[t].op \in {"forget", "interrupted_entry"} => got[t] = {})
    BY <1>2, <1>4 DEF ControlAt, OpsAt, TypeOK, RequestType
  <2>4. ControlAt(req[t], "free", slots[t], got[t], "no")
    BY SMTT(30), <1>2, <1>4, <2>3, ControlMoves
  <2> QED
    BY <1>4, <2>2, <2>4
<1>7. CASE create_not_regular(t)
  <2>1. Goto(t, "forget") /\ pc[t] = "entry"
    BY <1>7 DEF create_not_regular
  <2>2. pc'[t] = "forget" /\ req'[t] = req[t] /\ slots'[t] = slots[t]
    BY SMTT(30), <2>1, GotoOwn
  <2>3. req[t].op = "create" /\ slots[t] \in SlotsOf(req[t].op)
    BY <1>2, <1>4, <2>1 DEF ControlAt, OpsAt
  <2>4. req[t].op \in OpsAt("forget")
    BY <2>3 DEF OpsAt
  <2>5. ControlAt(req[t], "forget", slots[t], got[t], "no")
    BY SMTT(30), <1>2, <1>4, <2>3, <2>4, ControlMoves
  <2> QED
    BY <1>4, <2>2, <2>5
<1>8. CASE check_open(t)
  <2>1. Goto(t, "hide") /\ pc[t] = "op" /\ req[t].op \in {"unlink", "rename"}
    BY <1>8 DEF check_open, At
  <2>2. pc'[t] = "hide" /\ req'[t] = req[t] /\ slots'[t] = slots[t]
    BY SMTT(30), <2>1, GotoOwn
  <2>3. ControlAt(req[t], "hide", slots[t], got[t], "no")
    BY <1>2, <1>4, <2>1 DEF ControlAt, OpsAt
  <2> QED
    BY <1>4, <2>2, <2>3
<1>9. CASE hidden_name(t) /\ ~Goto(t, "free")
  <2>1. PICK h \in HiddenNames : req' = [req EXCEPT ![t].h = h]
    BY <1>9 DEF hidden_name
  <2>2. pc[t] = "hide" /\ pc' = [pc EXCEPT ![t] = "hiding"] /\ slots' = slots
    BY <1>9 DEF hidden_name
  <2>3. /\ pc'[t] = "hiding" /\ req'[t].op = req[t].op
        /\ req'[t].d1 = req[t].d1 /\ req'[t].d2 = req[t].d2
    BY SMTT(30), <2>1, <2>2 DEF TypeOK, RequestType
  <2>4. ControlAt(req'[t], "hiding", slots[t], got[t], "no")
    BY <1>2, <1>4, <2>2, <2>3 DEF ControlAt, OpsAt
  <2> QED
    BY <1>4, <2>2, <2>3, <2>4
<1>10. CASE recheck_open(t)
  <2>1. (Goto(t, "free") \/ Goto(t, "rmhidden")) /\ pc[t] = "recheck"
    BY <1>10 DEF recheck_open
  <2>2. pc'[t] \in {"free", "rmhidden"} /\ req'[t] = req[t] /\ slots'[t] = slots[t]
    BY SMTT(30), <2>1, GotoOwn
  <2>3. \A m \in {"free", "rmhidden"} : ControlAt(req[t], m, slots[t], got[t], "no")
    BY <1>2, <1>4, <2>1 DEF ControlAt, OpsAt, Ops
  <2> QED
    BY <1>4, <2>2, <2>3
<1>11. CASE open_fails(t) \/ copy_file_range(t)
  <2>1. /\ GotoAs(t, "free", "answered") /\ pc[t] = "op"
        /\ req[t].op \in {"open", "create", "copy_file_range"}
    BY <1>11 DEF open_fails, copy_file_range, At
  <2>2. /\ pc'[t] = "free" /\ slots'[t] = slots[t] /\ req'[t].op = "answered"
        /\ req'[t].d1 = req[t].d1 /\ req'[t].d2 = req[t].d2
    BY SMTT(30), <2>1, GotoAsOwn
  <2>3. slots[t] \in SlotsOf("answered") /\ "answered" \in OpsAt("free")
    BY <1>2, <1>4, <2>1 DEF ControlAt, OpsAt, SlotsOf, TwoPathOps, Answered
  <2>4. ControlAt(req'[t], "free", slots[t], got[t], "no")
    BY SMTT(30), <1>2, <1>4, <2>2, <2>3, ControlMoves
  <2> QED
    BY <1>4, <2>2, <2>4
<1>12. CASE reply_open_interrupted(t)
  <2>1. \E op \in {"interrupted_create", "interrupted_open"} : GotoAs(t, "rel", op)
    BY <1>12 DEF reply_open_interrupted
  <2>2. pc[t] = "opened" /\ req[t].op \in {"open", "create"}
    BY <1>2, <1>12 DEF reply_open_interrupted, ControlAt, OpsAt
  <2>3. /\ pc'[t] = "rel" /\ slots'[t] = slots[t]
        /\ req'[t].op \in {"interrupted_create", "interrupted_open"}
        /\ req'[t].d1 = req[t].d1 /\ req'[t].d2 = req[t].d2
    BY SMTT(30), <2>1, GotoAsOwn
  <2>4. slots[t] \in SlotsOf(req'[t].op) /\ req'[t].op \in OpsAt("rel")
    BY <1>2, <1>4, <2>2, <2>3 DEF ControlAt, OpsAt, SlotsOf, TwoPathOps
  <2>5. ControlAt(req'[t], "rel", slots[t], got[t], "no")
    BY SMTT(30), <1>2, <1>4, <2>3, <2>4, ControlMoves
  <2> QED
    BY <1>4, <2>3, <2>5
<1> QED
  BY <1>5, <1>6, <1>7, <1>8, <1>9, <1>10, <1>11, <1>12 DEF QuietStep

(* The steps of open, create and release keep it.                           *)
LEMMA HandleControl ==
    ASSUME TypeOK, NEW t \in Threads, Control(t), HandleStep(t)
    PROVE  Control(t)'
<1>1. got' = got /\ qdone' = qdone
  BY PlainMoves DEF PlainStep, held, queue
<1>2. ControlAt(req[t], pc[t], slots[t], got[t], qdone[t])
  BY DEF Control
<1>3. SUFFICES ControlAt(req'[t], pc'[t], slots'[t], got[t], qdone[t])
  BY <1>1 DEF Control
<1>4. qdone[t] = "no" /\ pc[t] # "idle"
  BY <1>2 DEF ControlAt, HandleStep, reply_entry, count_open, reply_open,
         fuse_do_release, release_unlink, At
<1>5. CASE reply_entry(t)
  <2>1. /\ pc[t] = "reply" /\ got[t] = {} /\ req[t].op \in EntryOps
        /\ Goto(t, "idle") \/ GotoAs(t, "forget", "interrupted_entry")
    BY <1>2, <1>5 DEF reply_entry, ControlAt, OpsAt
  <2>2. CASE Goto(t, "idle")
    BY <1>4, <2>1, <2>2, GotoOwn, ControlIdle
  <2>3. CASE GotoAs(t, "forget", "interrupted_entry")
    <3>1. /\ pc'[t] = "forget" /\ slots'[t] = slots[t] /\ req'[t].op = "interrupted_entry"
          /\ req'[t].d1 = req[t].d1 /\ req'[t].d2 = req[t].d2
      BY SMTT(30), <2>3, GotoAsOwn
    <3>2. /\ slots[t] \in SlotsOf("interrupted_entry")
          /\ "interrupted_entry" \in OpsAt("forget")
      BY <1>2, <1>4, <2>1 DEF ControlAt, OpsAt, SlotsOf, TwoPathOps, EntryOps
    <3>3. ControlAt(req'[t], "forget", slots[t], got[t], "no")
      BY SMTT(30), <1>2, <1>4, <2>1, <3>1, <3>2, ControlMoves
    <3> QED
      BY <1>4, <3>1, <3>3
  <2> QED
    BY <2>1, <2>2, <2>3
<1>6. CASE count_open(t)
  <2>1. Goto(t, "opened") /\ req[t].op \in {"open", "create"}
    BY <1>2, <1>6 DEF count_open, At, ControlAt, OpsAt
  <2>2. pc'[t] = "opened" /\ req'[t] = req[t] /\ slots'[t] = slots[t]
    BY SMTT(30), <2>1, GotoOwn
  <2>3. ControlAt(req[t], "opened", slots[t], got[t], "no")
    BY <1>2, <1>4, <2>1 DEF ControlAt, OpsAt
  <2> QED
    BY <1>4, <2>2, <2>3
<1>7. CASE reply_open(t)
  <2>1. /\ GotoAs(t, "free", "answered")
        /\ req[t].op \in {"open", "create"}
    BY <1>2, <1>7 DEF reply_open, ControlAt, OpsAt
  <2>2. /\ pc'[t] = "free" /\ slots'[t] = slots[t] /\ req'[t].op = "answered"
        /\ req'[t].d1 = req[t].d1 /\ req'[t].d2 = req[t].d2
    BY SMTT(30), <2>1, GotoAsOwn
  <2>3. slots[t] \in SlotsOf("answered") /\ "answered" \in OpsAt("free")
    BY <1>2, <1>4, <2>1 DEF ControlAt, OpsAt, SlotsOf, TwoPathOps, Answered
  <2>4. ControlAt(req'[t], "free", slots[t], got[t], "no")
    BY SMTT(30), <1>2, <1>4, <2>2, <2>3, ControlMoves
  <2> QED
    BY <1>4, <2>2, <2>4
<1>8. CASE fuse_do_release(t) \/ (release_unlink(t) /\ ~GotoAs(t, "get", "unlink_hidden"))
  <2>1. /\ req[t].op \in {"release", "interrupted_open", "interrupted_create",
                          "unlink_hidden"}
        /\ pc[t] = "rel" \/ pc[t] = "unl"
    BY <1>2, <1>8 DEF fuse_do_release, release_unlink, ControlAt, OpsAt
  <2>2. Goto(t, "unl") \/ Goto(t, AfterRelease(t))
    BY <1>8 DEF fuse_do_release, release_unlink
  <2>3. /\ pc'[t] = "unl" \/ pc'[t] = AfterRelease(t)
        /\ req'[t] = req[t] /\ slots'[t] = slots[t]
    BY SMTT(30), <2>2, GotoOwn DEF AfterRelease
  <2>4. \A m : m = "unl" \/ m = AfterRelease(t) =>
           ControlAt(req[t], m, slots[t], got[t], "no")
    BY SMTT(30), <1>2, <1>4, <2>1 DEF ControlAt, OpsAt, AfterRelease, Ops, Answered
  <2> QED
    BY <1>4, <2>3, <2>4
<1>9. CASE release_unlink(t) /\ GotoAs(t, "get", "unlink_hidden")
  <2>1. pc[t] = "unl" /\ got[t] = {} /\ req[t].op = "release"
    <3>2. (req[t].op = "release" /\ got[t] = {}) \/ Goto(t, AfterRelease(t))
      BY <1>9 DEF release_unlink
    <3>3. Goto(t, AfterRelease(t)) => pc'[t] # "get"
      BY SMTT(30), GotoOwn DEF AfterRelease
    <3> QED
      BY <1>9, <3>2, <3>3, GotoAsOwn DEF release_unlink
  <2>2. /\ pc'[t] = "get" /\ slots'[t] = slots[t] /\ req'[t].op = "unlink_hidden"
        /\ req'[t].d1 = req[t].d1 /\ req'[t].d2 = req[t].d2
    BY SMTT(30), <1>9, GotoAsOwn
  <2>3. ControlAt(req'[t], "get", slots[t], {}, "no")
    BY <1>2, <1>4, <2>1, <2>2 DEF ControlAt, OpsAt, SlotsOf, TwoPathOps
  <2> QED
    BY <1>4, <2>1, <2>2, <2>3
<1> QED
  BY <1>5, <1>6, <1>7, <1>8, <1>9 DEF HandleStep

(* The steps that change the tree keep it.                                  *)
LEMMA TreeControl ==
    ASSUME TypeOK, NEW t \in Threads, Control(t),
           \/ lookup_path(t) \/ create_lookup(t)
           \/ hide_node(t) \/ remove_hidden(t)
           \/ unlink_entry(t) \/ rename_entry(t) \/ exchange_entry(t)
    PROVE  Control(t)'
<1>1. got' = got /\ qdone' = qdone
  BY PlainMoves DEF PlainStep, held, queue
<1>2. ControlAt(req[t], pc[t], slots[t], got[t], qdone[t])
  BY DEF Control
<1>3. SUFFICES ControlAt(req'[t], pc'[t], slots'[t], got[t], qdone[t])
  BY <1>1 DEF Control
<1>4. qdone[t] = "no" /\ pc[t] # "idle"
  BY <1>2 DEF ControlAt, lookup_path, create_lookup, hide_node, remove_hidden,
         unlink_entry, rename_entry, exchange_entry, At
<1>5. ControlAt(req[t], "free", slots[t], got[t], "no")
  <2>1. /\ req[t].op \in OpsAt("free") /\ slots[t] \in SlotsOf(req[t].op)
        /\ req[t].op \in {"forget", "interrupted_entry"} => got[t] = {}
    BY <1>2, <1>4 DEF ControlAt, OpsAt, TypeOK, RequestType
  <2> QED
    BY SMTT(30), <1>2, <1>4, <2>1, ControlMoves
<1>6. CASE Goto(t, "free") \/ lookup_path(t)
  <2>1. pc'[t] = "free" /\ req'[t] = req[t] /\ slots'[t] = slots[t]
    <3>1. CASE Goto(t, "free")
      BY SMTT(30), <3>1, GotoOwn
    <3>2. CASE lookup_path(t)
      BY <3>2 DEF lookup_path, TypeOK
    <3> QED
      BY <1>6, <3>1, <3>2
  <2> QED
    BY <1>4, <1>5, <2>1
<1>7. CASE create_lookup(t) /\ GotoAs(t, "free", "answered")
  <2>1. /\ pc'[t] = "free" /\ slots'[t] = slots[t] /\ req'[t].op = "answered"
        /\ req'[t].d1 = req[t].d1 /\ req'[t].d2 = req[t].d2
    BY SMTT(30), <1>7, GotoAsOwn
  <2>2. slots[t] \in SlotsOf("answered") /\ "answered" \in OpsAt("free")
    BY <1>2, <1>4, <1>7 DEF create_lookup, At, ControlAt, OpsAt, SlotsOf, TwoPathOps, Answered
  <2>3. ControlAt(req'[t], "free", slots[t], got[t], "no")
    BY SMTT(30), <1>2, <1>4, <2>1, <2>2, ControlMoves
  <2> QED
    BY <1>4, <2>1, <2>3
<1>8. CASE create_lookup(t) /\ ~GotoAs(t, "free", "answered")
  <2>1. pc'[t] = "entry" /\ req'[t] = req[t] /\ slots'[t] = slots[t] /\ req[t].op = "create"
    BY <1>8 DEF create_lookup, At, TypeOK
  <2>2. ControlAt(req[t], "entry", slots[t], got[t], "no")
    BY <1>2, <1>4, <2>1 DEF ControlAt, OpsAt
  <2> QED
    BY <1>4, <2>1, <2>2
<1>9. CASE hide_node(t) /\ ~Goto(t, "free")
  <2>1. pc[t] = "hiding" /\ Goto(t, IF req[t].op = "unlink" THEN "recheck" ELSE "ren")
    BY <1>9 DEF hide_node
  <2>2. /\ pc'[t] = IF req[t].op = "unlink" THEN "recheck" ELSE "ren"
        /\ req'[t] = req[t] /\ slots'[t] = slots[t]
    BY SMTT(30), <2>1, GotoOwn
  <2>3. ControlAt(req[t], IF req[t].op = "unlink" THEN "recheck" ELSE "ren",
                  slots[t], got[t], "no")
    BY <1>2, <1>4, <2>1 DEF ControlAt, OpsAt
  <2> QED
    BY <1>4, <2>2, <2>3
<1> QED
  BY <1>6, <1>7, <1>8, <1>9
     DEF remove_hidden, unlink_entry, rename_entry, exchange_entry

(* A request that was just received satisfies it.                           *)
LEMMA ReceiveControl ==
    ASSUME TypeOK, NEW t \in Threads, Control(t), Receive(t)
    PROVE  Control(t)'
<1>1. got' = got /\ qdone' = qdone
  BY DEF Receive, held, queue
<1>2. got[t] = {} /\ qdone[t] = "no"
  BY DEF Control, ControlAt, Receive
<1>3. PICK r \in Requests :
         /\ KernelMay(r)
         /\ req' = [req EXCEPT ![t] = IF r.op = "forget"
                       THEN [r EXCEPT !.k = klookup[r.d1]]
                       ELSE [r EXCEPT !.v = Pinned(r)]]
         /\ pc' = [pc EXCEPT ![t] =
               CASE r.op = "forget" -> "forget"
                 [] NullpathOk /\ r.op = "release" -> "rel"
                 [] NullpathOk /\ r.op = "read" -> "free"
                 [] NullpathOk /\ r.op = "copy_file_range" -> "op"
                 [] OTHER -> "get"]
         /\ slots' = [slots EXCEPT ![t] =
               IF r.op \in TwoPathOps THEN {1, 2} ELSE {1}]
  BY DEF Receive
<1>4. r \in RequestType(Ops)
  BY RequestsAssumption
<1>5. r.d1 \in Dirs /\ (r.op \in TwoPathOps \cup {"copy_file_range"} => r.d2 \in Dirs)
  BY <1>3, NodesAssumption DEF KernelMay, Known, Dirs
<1>6. /\ req'[t].op = r.op /\ req'[t].d1 = r.d1 /\ req'[t].d2 = r.d2
  BY <1>3, <1>4 DEF TypeOK, RequestType
<1>7. /\ slots'[t] \in SlotsOf(r.op)
      /\ slots'[t] = {1} \/ (slots'[t] = {1, 2} /\ r.op \in TwoPathOps)
  BY <1>3 DEF TypeOK, SlotsOf, TwoPathOps
<1>8. \/ pc'[t] = "forget" /\ r.op = "forget"
      \/ pc'[t] = "rel" /\ r.op = "release"
      \/ pc'[t] = "free" /\ r.op = "read"
      \/ pc'[t] = "op" /\ r.op = "copy_file_range"
      \/ pc'[t] = "get" /\ r.op # "forget"
  BY <1>3 DEF TypeOK
<1>9. r.op \in Ops
  BY <1>4 DEF RequestType
<1>10. r.op \in OpsAt(pc'[t])
  BY <1>8, <1>9 DEF OpsAt
<1>11. ControlAt(req'[t], pc'[t], slots'[t], {}, "no")
  BY SMTT(30), <1>5, <1>6, <1>7, <1>8, <1>10 DEF ControlAt, WriteOps
<1> QED
  BY <1>1, <1>2, <1>11 DEF Control

(* get_path returns with its paths, or with none of the wanted ones.        *)
LEMMA GetReturnsControl ==
    ASSUME TypeOK, NEW t \in Threads, Control(t), pc[t] \in {"get", "wait"},
           NEW outcome \in {"ok", "stale"}, GetReturns(t, outcome),
           qdone'[t] = "no",
           outcome = "ok" => got'[t] = got[t] \cup slots[t],
           outcome = "stale" => got'[t] = got[t] /\ got[t] \cap slots[t] = {}
    PROVE  Control(t)'
<1> DEFINE r == req[t]
           s == slots[t]
           g == got[t]
<1>1. /\ r.op \in (Ops \ {"forget"}) \cup {"unlink_hidden"}
      /\ s \in SlotsOf(r.op)
      /\ 1 \in s \cup g => r.d1 \in Dirs
      /\ 2 \in s \cup g \/ r.op = "copy_file_range" => r.d2 \in Dirs
      /\ r.op # "copy_file_range" \/ s = {1} => g \subseteq s
  BY DEF Control, ControlAt, OpsAt
<1>2. got'[t] \subseteq s \cup g
  BY DEF TypeOK
<1>3. CASE r.op = "copy_file_range" /\ s = {1}
  <2>1. slots'[t] = {2} /\ pc'[t] = "get" /\ req'[t] = r
    BY <1>3 DEF GetReturns, TypeOK
  <2>2. got'[t] \subseteq {1}
    BY <1>1, <1>2, <1>3
  <2>3. {2} \in SlotsOf(r.op) /\ r.op \in OpsAt("get")
    BY <1>1, <1>3 DEF SlotsOf, TwoPathOps, OpsAt
  <2>4. ControlAt(r, "get", {2}, got'[t], "no")
    BY SMTT(30), <1>1, <1>3, <2>2, <2>3 DEF ControlAt
  <2> QED
    BY <2>1, <2>4 DEF Control
<1>4. CASE ~(r.op = "copy_file_range" /\ s = {1})
  <2>1. Goto(t, AfterGet(t, outcome))
    BY <1>4 DEF GetReturns
  <2>2. CASE AfterGet(t, outcome) = "idle"
    <3>1. outcome = "stale" /\ r.op # "copy_file_range"
      BY <2>2 DEF AfterGet
    <3>2. got'[t] = {}
      BY <1>1, <3>1
    <3> QED
      BY <2>1, <2>2, <3>2, GotoOwn, ControlIdle DEF Control
  <2>3. CASE AfterGet(t, outcome) # "idle"
    <3>1. pc'[t] = AfterGet(t, outcome) /\ req'[t] = r /\ slots'[t] = s
      BY <2>1, <2>3, GotoOwn
    <3>2. \/ pc'[t] = "rel" /\ r.op = "release"
          \/ pc'[t] = "free" /\ r.op \in {"getattr", "read"}
          \/ pc'[t] = "unl" /\ r.op = "unlink_hidden"
          \/ /\ pc'[t] = "op"
             /\ r.op \notin {"release", "getattr", "read", "unlink_hidden"}
             /\ outcome = "ok" \/ r.op = "copy_file_range"
      BY <2>3, <3>1 DEF AfterGet
    <3>3. r.op \in OpsAt(pc'[t])
      BY <1>1, <3>2 DEF OpsAt, Ops, EntryOps, WriteOps
    <3>4. pc'[t] = "op" /\ r.op \in WriteOps => got'[t] = s
      BY <1>1, <3>2 DEF WriteOps
    <3>5. r.op \notin {"forget", "interrupted_entry"}
      BY <1>1 DEF Ops
    <3>6. pc'[t] \in {"rel", "free", "unl", "op"}
      BY <3>2
    <3> HIDE DEF r, s, g
    <3>7. ControlAt(r, pc'[t], s, got'[t], "no")
      BY <1>1, <1>2, <3>3, <3>4, <3>5, <3>6 DEF ControlAt
    <3> QED
      BY <3>1, <3>7 DEF Control
  <2> QED
    BY <2>2, <2>3
<1> QED
  BY <1>3, <1>4

(* The outcomes of try_get_path2.                                           *)
LEMMA OutcomeType ==
    ASSUME NEW t \in Threads
    PROVE  GetOutcome(t) \in {"again", "stale", "ok"}
BY DEF GetOutcome, Outcome1, Outcome

(* Getting a path, at once or out of the queue, keeps it.                   *)
LEMMA GetControl ==
    ASSUME TypeOK, NEW t \in Threads, Control(t), get_path_common(t) \/ wait_path(t)
    PROVE  Control(t)'
<1>1. CASE get_path_common(t) /\ GetOutcome(t) = "again"
  <2>1. /\ pc[t] = "get" /\ pc'[t] = "wait" /\ req' = req /\ slots' = slots
        /\ got' = got /\ qdone' = qdone
    BY <1>1 DEF get_path_common, held, TypeOK
  <2>2. ControlAt(req[t], "wait", slots[t], got[t], qdone[t])
    BY <2>1 DEF Control, ControlAt, OpsAt
  <2> QED
    BY <2>1, <2>2 DEF Control
<1>2. CASE get_path_common(t) /\ GetOutcome(t) # "again"
  <2>1. /\ pc[t] = "get" /\ qdone' = qdone /\ GetReturns(t, GetOutcome(t))
        /\ GetOutcome(t) = "ok" => SetPaths(t)
        /\ GetOutcome(t) # "ok" => got' = got
    BY <1>2 DEF get_path_common, held
  <2>2. got[t] \cap slots[t] = {} /\ qdone[t] = "no"
    BY <2>1 DEF Control, ControlAt
  <2>3. GetOutcome(t) = "ok" => got'[t] = got[t] \cup slots[t]
    BY <2>1 DEF SetPaths, TypeOK
  <2>4. GetOutcome(t) \in {"ok", "stale"}
    BY <1>2, OutcomeType
  <2> QED
    BY <2>1, <2>2, <2>3, <2>4, GetReturnsControl
<1>3. CASE wait_path(t)
  <2>1. /\ pc[t] = "wait" /\ qdone[t] # "no" /\ got' = got /\ qdone'[t] = "no"
        /\ GetReturns(t, qdone[t])
    BY <1>3 DEF wait_path, dequeue_path, held, TypeOK
  <2>2. qdone[t] \in {"ok", "stale"}
    BY <2>1 DEF TypeOK
  <2>3. /\ qdone[t] = "ok" => slots[t] \subseteq got[t]
        /\ qdone[t] = "stale" => got[t] \cap slots[t] = {}
    BY <2>1 DEF Control, ControlAt
  <2>4. qdone[t] = "ok" => got'[t] = got[t] \cup slots[t]
    BY <2>1, <2>3
  <2> QED
    BY <2>1, <2>2, <2>3, <2>4, GetReturnsControl
<1> QED
  BY <1>1, <1>2, <1>3

(* free_path and the waker: the same request, with fewer paths.             *)
LEMMA FreeControl ==
    ASSUME TypeOK, NEW t \in Threads, Control(t), pc[t] \in {"free", "waking"},
           NEW l \in {"free", "waking", "idle", "reply"}, pc'[t] = l,
           l = "idle" => req'[t] = NoReq,
           l # "idle" => req'[t] = req[t] /\ slots'[t] = slots[t],
           l = "reply" => req[t].op \in EntryOps,
           l \in {"idle", "reply"} => got'[t] = {},
           got'[t] \subseteq got[t], qdone'[t] = qdone[t]
    PROVE  Control(t)'
<1>1. qdone[t] = "no"
  BY DEF Control, ControlAt
<1>2. CASE l = "idle"
  BY <1>1, <1>2, ControlIdle DEF Control
<1>3. CASE l # "idle"
  <2>1. ControlAt(req[t], l, slots[t], got'[t], "no")
    BY <1>1, <1>3 DEF Control, ControlAt, OpsAt
  <2> QED
    BY <1>1, <1>3, <2>1 DEF Control
<1> QED
  BY <1>2, <1>3

(* free_path keeps it.                                                      *)
LEMMA FreePathControl ==
    ASSUME TypeOK, NEW t \in Threads, Control(t), free_path(t)
    PROVE  Control(t)'
<1>1. /\ pc[t] = "free" /\ got'[t] = got[t] \ Freed(t) /\ qdone' = qdone
      /\ Freed(t) \subseteq got[t]
  BY DEF free_path, Freed, TypeOK
<1>2. CASE lockq # <<>>
  <2>1. pc'[t] = "waking" /\ req' = req /\ slots' = slots
    BY <1>2 DEF free_path, TypeOK
  <2> QED
    BY <1>1, <2>1, FreeControl
<1>3. CASE lockq = <<>> /\ got[t] = Freed(t)
  <2>1. Goto(t, AfterFree(t)) /\ got'[t] = {}
    BY <1>1, <1>3 DEF free_path
  <2>2. AfterFree(t) = "idle" \/ (AfterFree(t) = "reply" /\ req[t].op \in EntryOps)
    BY DEF AfterFree
  <2> QED
    BY <1>1, <2>1, <2>2, GotoOwn, FreeControl
<1>4. CASE lockq = <<>> /\ got[t] # Freed(t)
  <2>1. Goto(t, "free")
    BY <1>4 DEF free_path
  <2> QED
    BY <1>1, <2>1, GotoOwn, FreeControl
<1> QED
  BY <1>2, <1>3, <1>4

(* A round of wake_up_queued keeps it, of the thread in the loop and of the *)
(* thread whose element it looks at.                                        *)
LEMMA WakeControl ==
    ASSUME TypeOK, QueueInv, ControlInv, NEW t \in Threads, wake_up_queued(t),
           NEW q \in Threads, q = Head(wake)
    PROVE  Control(t)' /\ Control(q)'
<1>1. Waiting(q) /\ q # t /\ pc[t] = "waking"
  BY WakeHead
<1>2. Control(t) /\ Control(q)
  BY <1>1 DEF ControlInv
<1>3. SameHeld(t) /\ SameControl(q)
  BY <1>1, HeldFrame, ControlFrame DEF Work
<1>4. Control(t)'
  <2>1. CASE Tail(wake) # <<>>
    <3>1. UNCHANGED <<pc, req, slots, ino>>
      BY <2>1 DEF wake_up_queued
    <3> QED
      BY <1>2, <1>3, <3>1 DEF SameHeld, Control
  <2>2. CASE Tail(wake) = <<>>
    <3>1. \/ Goto(t, AfterFree(t)) /\ got[t] = {}
          \/ Goto(t, "free")
      BY <2>2 DEF wake_up_queued
    <3>2. AfterFree(t) = "idle" \/ (AfterFree(t) = "reply" /\ req[t].op \in EntryOps)
      BY DEF AfterFree
    <3> QED
      BY <1>1, <1>2, <1>3, <3>1, <3>2, GotoOwn, FreeControl DEF SameHeld
  <2> QED
    BY <2>1, <2>2
<1>5. Control(q)'
  <2>1. queue_element_wakeup(q)
    BY DEF wake_up_queued
  <2>2. got[q] \subseteq {1, 2} /\ qdone \in [Threads -> {"no", "ok", "stale"}]
        /\ got \in [Threads -> SUBSET {1, 2}]
    BY <1>1 DEF TypeOK
  <2>3. ControlAt(req[q], pc[q], slots[q], got[q], qdone[q])
    BY <1>2 DEF Control
  <2>4. CASE pc[q] = "fwait"
    <3>1. got' = got /\ qdone'[q] \in {qdone[q], "ok"}
      BY <1>1, <2>1, <2>2, <2>4 DEF queue_element_wakeup, held
    <3>2. ControlAt(req[q], pc[q], slots[q], got[q], qdone'[q])
      BY <2>3, <2>4, <3>1 DEF ControlAt
    <3> QED
      BY <1>3, <3>1, <3>2 DEF Control, SameControl
  <2>5. CASE pc[q] = "wait" /\ qdone[q] # "no"
    <3>1. got' = got /\ qdone' = qdone
      BY <2>1, <2>5 DEF queue_element_wakeup, held
    <3> QED
      BY <1>3, <2>3, <3>1 DEF Control, SameControl
  <2>6. CASE pc[q] = "wait" /\ qdone[q] = "no"
    <3>1. \/ GetOutcome(q) = "again" /\ got' = got /\ qdone' = qdone
          \/ GetOutcome(q) = "stale" /\ got' = got /\ qdone' = [qdone EXCEPT ![q] = "stale"]
          \/ /\ GetOutcome(q) = "ok" /\ qdone' = [qdone EXCEPT ![q] = "ok"]
             /\ got' = [got EXCEPT ![q] = @ \cup slots[q]]
      BY <1>1, <2>1, <2>6, OutcomeType DEF queue_element_wakeup, held, SetPaths
    <3>2. \/ got'[q] = got[q] /\ qdone'[q] \in {"no", "stale"}
          \/ got'[q] = got[q] \cup slots[q] /\ qdone'[q] = "ok"
      BY <1>1, <2>2, <2>6, <3>1
    <3>3. req[q].op \notin {"forget", "interrupted_entry"}
      BY <2>3, <2>6 DEF ControlAt, OpsAt, Ops
    <3>4. ControlAt(req[q], pc[q], slots[q], got'[q], qdone'[q])
      BY <2>3, <2>6, <3>2, <3>3 DEF ControlAt
    <3> QED
      BY <1>3, <3>4 DEF Control, SameControl
  <2> QED
    BY <1>1, <2>4, <2>5, <2>6 DEF Waiting
<1> QED
  BY <1>4, <1>5

(* Forgetting keeps it.                                                     *)
LEMMA ForgetControl ==
    ASSUME TypeOK, NEW t \in Threads, Control(t),
           forget_node(t) \/ forget_wakeup(t) \/ unref_node(t)
    PROVE  Control(t)'
<1>1. /\ pc[t] \in {"forget", "fwait", "unref"}
      /\ got' = got
      /\ qdone'[t] \in {qdone[t], "no"} /\ (pc[t] = "fwait" /\ pc'[t] # "fwait" => qdone'[t] = "no")
  BY DEF forget_node, forget_wakeup, unref_node, dequeue_path, held, TypeOK
<1>2. /\ req[t].op \in {"forget", "interrupted_entry", "create", "interrupted_create"}
      /\ slots[t] \in SlotsOf(req[t].op)
      /\ 1 \in slots[t] \cup got[t] => req[t].d1 \in Dirs
      /\ 2 \in slots[t] \cup got[t] => req[t].d2 \in Dirs
      /\ req[t].op \in {"forget", "interrupted_entry"} => got[t] = {}
      /\ pc[t] # "fwait" => qdone[t] = "no"
  BY <1>1 DEF Control, ControlAt, OpsAt
<1>3. \/ pc'[t] \in {"fwait", "unref"} /\ req'[t] = req[t] /\ slots'[t] = slots[t]
      \/ Goto(t, AfterForget(t))
  <2>1. CASE forget_node(t)
    <3>1. \/ pc' = [pc EXCEPT ![t] = "fwait"] /\ req' = req /\ slots' = slots
          \/ Goto(t, "unref")
          \/ Goto(t, AfterForget(t))
      BY <2>1 DEF forget_node, DropLookups
    <3>2. CASE pc' = [pc EXCEPT ![t] = "fwait"] /\ req' = req /\ slots' = slots
      BY <3>2 DEF TypeOK
    <3>3. CASE Goto(t, "unref")
      BY <3>3, GotoOwn
    <3> QED
      BY <3>1, <3>2, <3>3
  <2>2. CASE forget_wakeup(t)
    <3>1. \/ pc' = pc /\ pc[t] = "fwait" /\ req' = req /\ slots' = slots
          \/ Goto(t, "unref")
          \/ Goto(t, AfterForget(t))
      BY <2>2 DEF forget_wakeup, DropLookups
    <3> QED
      BY <3>1, GotoOwn
  <2>3. CASE unref_node(t)
    BY <2>3 DEF unref_node
  <2> QED
    BY <2>1, <2>2, <2>3
<1>4. CASE pc'[t] \in {"fwait", "unref"} /\ req'[t] = req[t] /\ slots'[t] = slots[t]
  <2>1. ControlAt(req[t], pc'[t], slots[t], got[t], qdone'[t])
    BY <1>1, <1>2, <1>4 DEF ControlAt, OpsAt
  <2> QED
    BY <1>1, <1>4, <2>1 DEF Control
<1>5. CASE Goto(t, AfterForget(t)) /\ req[t].op \in {"create", "interrupted_create"}
  <2>1. pc'[t] = "free" /\ req'[t] = req[t] /\ slots'[t] = slots[t]
    BY SMTT(30), <1>5, GotoOwn DEF AfterForget
  <2>2. qdone'[t] = "no"
    BY <1>1, <1>2, <2>1
  <2>3. ControlAt(req[t], "free", slots[t], got[t], "no")
    BY <1>2, <1>5 DEF ControlAt, OpsAt, Ops, Answered
  <2> QED
    BY <1>1, <2>1, <2>2, <2>3 DEF Control
<1>6. CASE Goto(t, AfterForget(t)) /\ req[t].op \notin {"create", "interrupted_create"}
  <2>1. pc'[t] = "idle" /\ req'[t] = NoReq
    BY <1>6, GotoOwn DEF AfterForget
  <2>2. qdone'[t] = "no" /\ got'[t] = {}
    BY <1>1, <1>2, <1>6, <2>1
  <2> QED
    BY <2>1, <2>2, ControlIdle DEF Control
<1> QED
  BY <1>3, <1>4, <1>5, <1>6

(* ControlInv is preserved.                                                 *)
LEMMA ControlStep ==
    ASSUME TypeOK, QueueInv, ControlInv, NEW t \in Threads, Receive(t) \/ Work(t)
    PROVE  ControlInv'
<1> SUFFICES ASSUME NEW u \in Threads
             PROVE  Control(u)'
  BY DEF ControlInv
<1>1. Control(t) /\ Control(u)
  BY DEF ControlInv
<1>2. wake_up_queued(t) => Head(wake) \in Threads
  BY WakeHead
<1>3. CASE u # t /\ ~(wake_up_queued(t) /\ u = Head(wake))
  BY <1>1, <1>3, ControlFrame, HeldFrame, ControlKept
<1>4. CASE wake_up_queued(t) /\ (u = t \/ u = Head(wake))
  BY <1>2, <1>4, WakeControl
<1>5. CASE u = t /\ ~wake_up_queued(t)
  BY <1>1, <1>5, StepCases, ReceiveControl, QuietControl, HandleControl, TreeControl,
     GetControl, FreePathControl, ForgetControl
<1> QED
  BY <1>3, <1>4, <1>5
=============================================================================
