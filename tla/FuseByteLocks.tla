--------------------------- MODULE FuseByteLocks ---------------------------
(***************************************************************************)
(* What a table of POSIX record locks promises: every owner has, for every  *)
(* byte, no lock, a read lock or a write lock, and entering a request sets   *)
(* the bytes of its range, for its owner, and no others, in whatever order   *)
(* requests are entered.  Entering may fail for want of memory, and then     *)
(* changes nothing.                                                          *)
(***************************************************************************)
EXTENDS Naturals, Sequences, SequencesExt

CONSTANTS Owners, OFFSET_MAX

VARIABLES held, pending   \* pending: requests of each owner not entered yet

ByteTypes == {"F_RDLCK", "F_WRLCK", "F_UNLCK"}

HeldInit ==
  /\ held = [o \in Owners |-> [b \in 0..OFFSET_MAX |-> "F_UNLCK"]]
  /\ pending = [o \in Owners |-> <<>>]

Request(o) ==
  /\ \E t \in ByteTypes, s \in 0..OFFSET_MAX : \E e \in s..OFFSET_MAX :
       pending' = [pending EXCEPT ![o] =
         Append(@, [owner |-> o, type |-> t, start |-> s, end |-> e])]
  /\ UNCHANGED held

Enter(o, i) ==
  /\ pending' = [pending EXCEPT ![o] = RemoveAt(@, i)]
  /\ \/ held' = [held EXCEPT ![o] = [b \in 0..OFFSET_MAX |->
                   IF b \in pending[o][i].start..pending[o][i].end
                   THEN pending[o][i].type ELSE @[b]]]
     \/ UNCHANGED held

(* A step begins or ends one request of one owner.                           *)
HeldNext == \E o \in {p \in Owners : pending'[p] # pending[p]} :
              Request(o) \/ \E i \in DOMAIN pending[o] : Enter(o, i)

HeldSpec == HeldInit /\ [][HeldNext]_<<pending, held>>
=============================================================================
