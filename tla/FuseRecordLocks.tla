-------------------------- MODULE FuseRecordLocks --------------------------
(***************************************************************************)
(* The POSIX record locks of one node (lib/fuse.c): the file system's lock   *)
(* operation decides, then the library enters the lock in the node's list,   *)
(* from which it answers F_GETLK.  The two happen in different critical      *)
(* sections, so requests interleave between them, also those of one owner:   *)
(* the threads of a process share lock_owner.                                *)
(***************************************************************************)
EXTENDS Integers, Sequences, SequencesExt, FiniteSets

CONSTANTS
  Owners,       \* lock owners: processes
  OFFSET_MAX,   \* the last byte of a file
  LockFaults,   \* how often the allocator or the file system's unlock fails
  MaxLockRequests

ASSUME LocksAssumption == OFFSET_MAX \in Nat /\ LockFaults \in Nat /\ MaxLockRequests \in Nat

VARIABLES
  locks,     \* node->locks
  granted,   \* the file system's own locks: owner and byte to a type
  pending,   \* answered by the file system and not entered in the list yet,
             \* for each owner in the order of the answers
  wrong,     \* ghost: bytes that entering each of these will leave wrong
  astray,    \* ghost: bytes of each owner that the list may have wrong
  lockFaulted, \* locks_insert or the unlock of flush failed, and nobody looked
  lockAsked  \* requests so far

lockVars == <<locks, granted, pending, wrong, astray, lockFaulted, lockAsked>>

Bytes == 0..OFFSET_MAX
Types == {"F_RDLCK", "F_WRLCK", "F_UNLCK"}
Nothing == [type |-> "none"]

(* l_len = 0 means up to the end of the file. *)
flock_to_lock(o, t, start, len) ==
  [owner |-> o, type |-> t, start |-> start,
   end |-> IF len # 0 THEN start + len - 1 ELSE OFFSET_MAX]

lock_to_flock(l) ==
  [type |-> l.type, start |-> l.start,
   len |-> IF l.end = OFFSET_MAX THEN 0 ELSE l.end - l.start + 1]

Flocks(o) ==
  {flock_to_lock(o, t, s, len) : t \in Types, s \in Bytes, len \in 0..OFFSET_MAX}

LockRequests(o) == {l \in Flocks(o) : l.end <= OFFSET_MAX}

Conflicts(l, lock) ==
  /\ l.owner # lock.owner
  /\ lock.start <= l.end /\ l.start <= lock.end
  /\ l.type = "F_WRLCK" \/ lock.type = "F_WRLCK"

(* The first conflicting lock of the list. *)
locks_conflict(lock) ==
  LET S == {i \in 1..Len(locks) : Conflicts(locks[i], lock)}
  IN  IF S = {} THEN Nothing
      ELSE locks[CHOOSE i \in S : \A j \in S : i <= j]

insert_lock(before, after, lock) ==
  IF lock.type = "F_UNLCK" THEN before \o after ELSE before \o <<lock>> \o after

LockMin(a, b) == IF a < b THEN a ELSE b
LockMax(a, b) == IF a < b THEN b ELSE a

(* Locks of one type that only touch are merged. *)
FirstTouched(start) == start - 1

(* What is left of a lock behind another one. *)
Rest(l, lock) == [l EXCEPT !.start = lock.end + 1]

(* The walk of locks_insert over the list: a lock of the owner is passed,    *)
(* merged with, deleted, trimmed at one end or split in two.                 *)
RECURSIVE insert_walk(_, _, _)
insert_walk(before, after, lock) ==
  IF after = <<>> THEN insert_lock(before, after, lock)
  ELSE
  LET l == Head(after)
      rest == Tail(after)
      skip(x) == insert_walk(Append(before, x), rest, lock)
      delete(merged) == insert_walk(before, rest, merged)
      done == insert_lock(before, after, lock)
  IN
  IF l.owner # lock.owner THEN skip(l)
  ELSE IF l.type = lock.type THEN
    IF l.end < FirstTouched(lock.start) THEN skip(l)
    ELSE IF lock.end < FirstTouched(l.start) THEN done
    ELSE IF l.start <= lock.start /\ lock.end <= l.end THEN before \o after
    ELSE delete([lock EXCEPT !.start = LockMin(l.start, @), !.end = LockMax(l.end, @)])
  ELSE
    IF l.end < lock.start THEN skip(l)
    ELSE IF lock.end < l.start THEN done
    ELSE IF lock.start <= l.start /\ l.end <= lock.end THEN delete(lock)
    ELSE IF l.end <= lock.end THEN skip([l EXCEPT !.end = lock.start - 1])
    ELSE IF lock.start <= l.start
         THEN insert_lock(before, <<Rest(l, lock)>> \o rest, lock)
    ELSE insert_walk(Append(before, [l EXCEPT !.end = lock.start - 1]),
                     <<Rest(l, lock)>> \o rest, lock)

(* Everything but the unlocking of the whole file allocates first. *)
NeedsMemory(lock) ==
  lock.type # "F_UNLCK" \/ lock.start # 0 \/ lock.end # OFFSET_MAX

locks_insert_late(lock) ==
  \/ locks' = insert_walk(<<>>, locks, lock) /\ UNCHANGED lockFaulted
  \/ /\ NeedsMemory(lock) /\ lockFaulted < LockFaults /\ lockFaulted' = lockFaulted + 1
     /\ locks' = insert_walk(<<>>, locks, [lock EXCEPT !.type = "F_UNLCK"])

locks_insert(lock) ==
  \/ locks' = insert_walk(<<>>, locks, lock) /\ UNCHANGED lockFaulted
  \/ NeedsMemory(lock) /\ lockFaulted < LockFaults /\ lockFaulted' = lockFaulted + 1 /\ UNCHANGED locks

-----------------------------------------------------------------------------
(* The file system: it grants what no other owner's lock is in the way of    *)
(* (F_SETLKW waits, F_SETLK is refused and changes nothing).                 *)
Free(lock) ==
  \A o \in Owners \ {lock.owner}, b \in lock.start..lock.end :
    \/ lock.type = "F_UNLCK" \/ granted[o][b] = "F_UNLCK"
    \/ lock.type = "F_RDLCK" /\ granted[o][b] = "F_RDLCK"

Grant(lock) ==
  granted' = [granted EXCEPT ![lock.owner] =
    [b \in Bytes |-> IF b \in lock.start..lock.end THEN lock.type ELSE @[b]]]

Answered(o, lock, bytes) ==
  /\ pending' = [pending EXCEPT ![o] = Append(@, lock)]
  /\ wrong' = [wrong EXCEPT ![o] = Append(@, bytes)]

(* fuse_lib_setlk: the file system's answer first, the list second. *)
fuse_lock_common(o) ==
  /\ lockAsked < MaxLockRequests
  /\ lockAsked' = lockAsked + 1
  /\ \E lock \in LockRequests(o) : Free(lock) /\ Grant(lock) /\ Answered(o, lock, {})
  /\ UNCHANGED <<locks, astray, lockFaulted>>

fuse_flush_partly(o) ==
  /\ lockAsked < MaxLockRequests
  /\ lockAsked' = lockAsked + 1
  /\ Grant(flock_to_lock(o, "F_UNLCK", 0, 0))
  /\ Answered(o, flock_to_lock(o, "F_UNLCK", 0, OFFSET_MAX), {})
  /\ UNCHANGED <<locks, astray, lockFaulted>>

(* Closing a file unlocks all of it.  After any error but ENOSYS the list is *)
(* cleared although the file system keeps the locks.                         *)
fuse_flush_common(o) ==
  LET lock == flock_to_lock(o, "F_UNLCK", 0, 0)
  IN  /\ lockAsked < MaxLockRequests
      /\ lockAsked' = lockAsked + 1
      /\ \/ Grant(lock) /\ Answered(o, lock, {}) /\ UNCHANGED lockFaulted
         \/ /\ lockFaulted < LockFaults /\ lockFaulted' = lockFaulted + 1
            /\ Answered(o, lock, Bytes) /\ UNCHANGED granted
      /\ UNCHANGED <<locks, astray>>

RangeOf(lock) == lock.start..lock.end

(* Answers given before the i-th and entered after it overwrite its bytes. *)
Overtaken(o, i) ==
  [j \in DOMAIN wrong[o] |->
    IF j < i THEN wrong[o][j] \cup (RangeOf(pending[o][j]) \cap RangeOf(pending[o][i]))
    ELSE wrong[o][j]]

fuse_lib_setlk(o, i) ==
  /\ i \in DOMAIN pending[o]
  /\ locks_insert(pending[o][i])
  /\ pending' = [pending EXCEPT ![o] = RemoveAt(@, i)]
  /\ wrong' = [wrong EXCEPT ![o] = RemoveAt(Overtaken(o, i), i)]
  /\ LET mine == RangeOf(pending[o][i])
     IN  astray' = [astray EXCEPT ![o] =
           IF lockFaulted' # lockFaulted THEN @ \cup mine ELSE (@ \ mine) \cup wrong[o][i]]
  /\ UNCHANGED <<granted, lockAsked>>

(* fuse_lib_getlk: the list answers when it knows of a conflict. *)
fuse_lib_getlk(lock) ==
  LET l == locks_conflict(lock) IN IF l = Nothing THEN Nothing ELSE lock_to_flock(l)

LocksInit ==
  /\ locks = <<>> /\ lockFaulted = 0 /\ lockAsked = 0
  /\ granted = [o \in Owners |-> [b \in Bytes |-> "F_UNLCK"]]
  /\ pending = [o \in Owners |-> <<>>] /\ wrong = [o \in Owners |-> <<>>]
  /\ astray = [o \in Owners |-> {}]

LocksNext ==
  \E o \in Owners :
    \/ fuse_lock_common(o) \/ fuse_flush_common(o)
    \/ \E i \in 1..MaxLockRequests : fuse_lib_setlk(o, i)

-----------------------------------------------------------------------------
Covers(l, b) == b \in l.start..l.end

(* The list as a map of bytes. *)
HeldBytes ==
  [o \in Owners |-> [b \in Bytes |->
    LET S == {i \in 1..Len(locks) : locks[i].owner = o /\ Covers(locks[i], b)}
    IN  IF S = {} THEN "F_UNLCK" ELSE locks[CHOOSE i \in S : TRUE].type]]

(* The list holds locks, not unlocks, and none beyond the last byte. *)
LocksTypeOK ==
  /\ \A i \in 1..Len(locks) :
       /\ locks[i].owner \in Owners /\ locks[i].type \in {"F_RDLCK", "F_WRLCK"}
       /\ locks[i].start \in Bytes /\ locks[i].end \in locks[i].start..OFFSET_MAX
  /\ lockFaulted \in 0..LockFaults

(* The locks of one owner are in order, apart, and merged as far as they can *)
(* be; locks_insert relies on the order when it stops early.                 *)
ListNormal ==
  \A i, j \in 1..Len(locks) :
    i < j /\ locks[i].owner = locks[j].owner =>
      /\ locks[i].end < locks[j].start
      /\ locks[i].type = locks[j].type => locks[i].end + 1 < locks[j].start

(* What an owner may ask F_GETLK.                                            *)
Questions == [o \in Owners |-> {l \in LockRequests(o) : l.type # "F_UNLCK"}]

(* F_GETLK names a lock exactly when another owner has a byte of the range   *)
(* in a conflicting way, and the lock it names is such a lock as a whole.    *)
GetlkExact ==
  LET held == HeldBytes IN
  \A o \in Owners : \A lock \in Questions[o] :
    LET answer == fuse_lib_getlk(lock)
        inTheWay(t) == t = "F_WRLCK" \/ (t = "F_RDLCK" /\ lock.type = "F_WRLCK")
    IN  /\ (answer # Nothing) <=>
             \E p \in Owners \ {o}, b \in lock.start..lock.end : inTheWay(held[p][b])
        /\ answer # Nothing =>
             \E p \in Owners \ {o} : \A b \in Bytes :
               Covers(flock_to_lock(p, answer.type, answer.start, answer.len), b)
                 => held[p][b] = answer.type

(* For a byte that no request of the owner has still to enter, the list says *)
(* what the file system granted, in whatever order the requests of different *)
(* owners are answered and entered.  The exceptions are the bytes on which   *)
(* two requests of the same owner were answered in one order and entered in  *)
(* the other, or whose insertion, or unlock by flush, failed (the code looks *)
(* at neither), until the owner's next request for them is entered.          *)
ListAgrees ==
  LET held == HeldBytes IN
  \A o \in Owners, b \in Bytes :
    \/ held[o][b] = granted[o][b]
    \/ b \in astray[o]
    \/ \E i \in DOMAIN pending[o] : b \in RangeOf(pending[o][i])

(* F_GETLK is answered from a list that is in order, names a conflicting    *)
(* lock whenever there is one, and says what the file system granted except *)
(* where requests of one owner cross or a call fails.                       *)
LockAnswers ==
    LocksTypeOK /\ ListNormal /\ GetlkExact /\ ListAgrees

ByteMap == INSTANCE FuseByteLocks WITH held <- HeldBytes

(* The list implements a map from bytes to locks: merging, trimming and      *)
(* splitting set the bytes of the request and touch no byte besides.         *)
LocksRefineBytes == ByteMap!HeldSpec
=============================================================================
