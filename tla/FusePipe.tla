------------------------------ MODULE FusePipe ------------------------------
(***************************************************************************)
(* The pipe of a worker thread (lib/fuse_lowlevel.c): requests are spliced   *)
(* into it from the device and replies out of it, so whatever is left in it  *)
(* would get in front of the next message.  A message is a header and, when  *)
(* it is large, data; both are numbered with the message.                    *)
(***************************************************************************)
EXTENDS Integers, Sequences

CONSTANTS MaxMessages, PipeFaults

ASSUME PipeAssumption == MaxMessages \in Nat /\ PipeFaults \in Nat

VARIABLES
  pipe,       \* the thread's pipe: [open, data, grows]
  broken,     \* se->broken_splice_nonblock
  pipePhase,      \* where the thread is
  pipeRequest,    \* [n, kind, where]: the request it works on
  pipeSent,       \* what the last message written to the device was made of
  pipeFaults

pipeVars == <<pipe, broken, pipePhase, pipeRequest, pipeSent, pipeFaults>>

RequestKinds == {"read", "write", "xattr", "retrieved"}   \* all but read are large
Unit(n, part) == <<n, part>>
RequestUnits(n, kind) ==
  IF kind = "read" THEN <<Unit(n, "header")>>
  ELSE <<Unit(n, "header"), Unit(n, "data"), Unit(n, "more")>>

NoPipe == [open |-> FALSE, data |-> <<>>, grows |-> TRUE]
fuse_ll_clear_pipe == NoPipe

(* One fault at a time; every outcome named below may be one. *)
Fault == pipeFaults < PipeFaults /\ pipeFaults' = pipeFaults + 1
NoFault == UNCHANGED pipeFaults

fuse_ll_get_pipe == [pipe EXCEPT !.open = TRUE]

(* The pipe with messages taken from its front. *)
Drained(p, k) == [p EXCEPT !.data = SubSeq(@, k + 1, Len(@))]

-----------------------------------------------------------------------------
(* _fuse_session_receive_buf, spliced: a small request is copied out of the  *)
(* pipe at once, a large one stays in it.                                    *)
receive_spliced(kind) ==
  LET n == pipeRequest.n + 1
      full == [fuse_ll_get_pipe EXCEPT !.data = @ \o RequestUnits(n, kind)]
  IN
  /\ pipePhase = "loop" /\ pipeRequest.n < MaxMessages /\ pipe.grows
  /\ \/ /\ NoFault
        /\ pipeRequest' =
              [n |-> n, kind |-> kind, where |-> IF kind = "read" THEN "mem" ELSE "pipe"]
        /\ pipe' = IF kind = "read" THEN Drained(full, 1) ELSE full
        /\ pipePhase' = "process"
     \/ /\ Fault /\ kind = "read"              \* the copy from the pipe fails
        /\ pipe' = fuse_ll_clear_pipe
        /\ pipePhase' = "exit" /\ UNCHANGED pipeRequest
  /\ UNCHANGED <<broken, pipeSent>>

(* Without a pipe, or with one that cannot grow to the size of a request,    *)
(* the request is read into memory.                                          *)
receive_fallback(kind) ==
  /\ pipePhase = "loop" /\ pipeRequest.n < MaxMessages
  /\ \/ ~ pipe.grows /\ NoFault /\ UNCHANGED pipe
     \/ pipe.grows /\ Fault /\ pipe' = [fuse_ll_get_pipe EXCEPT !.grows = FALSE]
     \/ ~ pipe.open /\ Fault /\ UNCHANGED pipe
  /\ pipeRequest' = [n |-> pipeRequest.n + 1, kind |-> kind, where |-> "mem"]
  /\ pipePhase' = "process"
  /\ UNCHANGED <<broken, pipeSent>>

(* A reply without data. *)
SendError(n) == pipeSent' = <<Unit(n, "error")>>

(* fuse_session_process_buf_internal: the header comes out of the pipe, the  *)
(* data too unless the handler can take it from there.                       *)
process_refuses_kept ==
  /\ pipePhase = "process" /\ Fault
  /\ SendError(pipeRequest.n)
  /\ pipe' = IF pipeRequest.where = "pipe" THEN Drained(pipe, 1) ELSE pipe
  /\ pipePhase' = "loop"
  /\ UNCHANGED <<broken, pipeRequest>>

process_refuses ==
  /\ pipePhase = "process" /\ Fault
  /\ \/ SendError(pipeRequest.n)          \* EIO, EACCES, ENOSYS, ENOMEM
     \/ pipeRequest.where = "pipe" /\ UNCHANGED pipeSent   \* no header
  /\ pipe' = IF pipeRequest.where = "pipe" THEN fuse_ll_clear_pipe ELSE pipe
  /\ pipePhase' = "loop"
  /\ UNCHANGED <<broken, pipeRequest>>

process_dispatches ==
  /\ pipePhase = "process"
  /\ LET stays == pipeRequest.where = "pipe" /\ pipeRequest.kind # "xattr"
         all == RequestUnits(pipeRequest.n, pipeRequest.kind)
     IN  \/ /\ NoFault
            /\ pipe' = IF pipeRequest.where = "mem" THEN pipe
                       ELSE IF stays THEN Drained(pipe, 1) ELSE Drained(pipe, Len(all))
            /\ pipePhase' = "handler" /\ UNCHANGED pipeSent
         \/ /\ Fault /\ pipeRequest.where = "pipe" /\ pipeRequest.kind = "xattr"
            /\ pipe' = fuse_ll_clear_pipe    \* the rest cannot be copied
            /\ SendError(pipeRequest.n) /\ pipePhase' = "loop" 
  /\ UNCHANGED <<broken, pipeRequest>>

(* do_write_buf, fuse_ll_retrieve_reply: the handler takes as much as it     *)
(* likes, then what is left is thrown away with the pipe.                    *)
do_write_buf ==
  /\ pipePhase = "handler" /\ pipeRequest.kind \in {"write", "retrieved"}
  /\ \E k \in 0..2 :
       pipe' = IF pipeRequest.where = "mem" THEN pipe
               ELSE IF k < 2 THEN fuse_ll_clear_pipe ELSE Drained(pipe, k)
  /\ IF pipeRequest.kind = "write" THEN pipeSent' = <<Unit(pipeRequest.n, "error")>>
     ELSE UNCHANGED pipeSent
  /\ pipePhase' = "loop" /\ NoFault
  /\ UNCHANGED <<broken, pipeRequest>>

do_setxattr ==
  /\ pipePhase = "handler" /\ pipeRequest.kind = "xattr"
  /\ SendError(pipeRequest.n) /\ pipePhase' = "loop" /\ NoFault
  /\ UNCHANGED <<pipe, broken, pipeRequest>>

-----------------------------------------------------------------------------
(* fuse_reply_data: the reply of a read, a header and data of which some may *)
(* come late.                                                                *)
Reply(n) == <<Unit(n, "reply"), Unit(n, "data"), Unit(n, "more")>>
WithData(n, k) == SubSeq(Reply(n), 1, 1 + k)

send_data_fallback ==
  \/ \E k \in 0..2 : pipeSent' = WithData(pipeRequest.n, k) /\ NoFault
  \/ Fault /\ SendError(pipeRequest.n)

(* vmsplice of the header, then the data: k of it.                           *)
Loaded(k) == [fuse_ll_get_pipe EXCEPT !.data = @ \o WithData(pipeRequest.n, k)]

fuse_send_data_iov ==
  /\ pipePhase = "handler" /\ pipeRequest.kind = "read"
  /\ pipePhase' = "loop"
  /\ UNCHANGED <<pipeRequest>>
  /\ \/ send_data_fallback /\ UNCHANGED <<pipe, broken>>      \* small, no splice, no pipe
     \/ /\ ~ broken /\ pipe.grows                             \* the pipe does not grow
        /\ pipe' = [fuse_ll_get_pipe EXCEPT !.grows = FALSE]
        /\ send_data_fallback /\ UNCHANGED broken
     \/ /\ ~ broken                                           \* EAGAIN, EINVAL
        /\ pipe' = fuse_ll_clear_pipe
        /\ broken' \in BOOLEAN
        /\ send_data_fallback
     \/ /\ ~ broken /\ Fault                                  \* another error
        /\ pipe' = fuse_ll_clear_pipe
        /\ SendError(pipeRequest.n) /\ UNCHANGED broken
     \/ \E k \in 0..2 :
          /\ ~ broken /\ UNCHANGED broken
          /\ \/ /\ NoFault                                    \* all there is: spliced out
                /\ pipeSent' = SubSeq(Loaded(k).data, 1, 1 + k)
                /\ pipe' = Drained(Loaded(k), 1 + k)
             \/ /\ k < 2 /\ k > 0 /\ NoFault                  \* more came: read back, written
                /\ pipe' = Drained(Loaded(k), 1 + k)
                /\ pipeSent' = SubSeq(Loaded(k).data, 1, 1 + k) \o SubSeq(Reply(pipeRequest.n), k + 2, 3)
               
             \/ /\ Fault                                      \* short splice, read back fails
                /\ pipe' = fuse_ll_clear_pipe
                /\ UNCHANGED pipeSent

-----------------------------------------------------------------------------
PipeInit ==
  /\ pipe = NoPipe /\ broken = FALSE /\ pipePhase = "loop" /\ pipeSent = <<>>
  /\ pipeRequest = [n |-> 0, kind |-> "read", where |-> "mem"]
  /\ pipeFaults = 0

PipeNext ==
  \/ \E kind \in RequestKinds : receive_spliced(kind) \/ receive_fallback(kind)
  \/ process_refuses \/ process_dispatches
  \/ do_write_buf \/ do_setxattr \/ fuse_send_data_iov

PipeSpec == PipeInit /\ [][PipeNext]_pipeVars

Working == pipePhase \in {"process", "handler"}

IsPipe(p) == p \in [open : BOOLEAN, data : {p.data}, grows : BOOLEAN]

PipeTypeOK ==
  /\ IsPipe(pipe) /\ broken \in BOOLEAN /\ pipePhase \in {"loop", "process", "handler", "exit"}
  /\ pipeRequest \in [n : 0..MaxMessages, kind : RequestKinds, where : {"mem", "pipe"}]
  /\ Working => pipeRequest.n > 0 /\ (pipeRequest.kind = "read" => pipeRequest.where = "mem")

(* What is left of a request in the pipe: all of it, or the data that its    *)
(* handler takes.                                                            *)
Left ==
  LET all == RequestUnits(pipeRequest.n, pipeRequest.kind)
  IN  CASE ~ Working \/ pipeRequest.where = "mem" -> <<>>
        [] pipePhase = "process" /\ pipeRequest.where = "pipe" -> all
        [] OTHER -> IF pipeRequest.kind = "xattr" THEN <<>> ELSE Tail(all)

(* Between two requests the pipe is empty, whatever path the last one took,  *)
(* and during one it has nothing but what is left of it.                     *)
PipeEmpty == pipe.data = Left

(* What the device is sent is one reply: its own header and then its own     *)
(* data, from the start and without a gap, also when the data had to be read *)
(* back from the pipe.                                                       *)
RepliesWhole ==
  pipeSent # <<>> => \/ \E n \in 1..MaxMessages : pipeSent = <<Unit(n, "error")>>
                 \/ \E n \in 1..MaxMessages, k \in 0..2 : pipeSent = WithData(n, k)

(* Messages that share a thread's pipe do not mix, whichever of them fails  *)
(* half-way.                                                                *)
PipeClean ==
    PipeTypeOK /\ PipeEmpty /\ RepliesWhole
=============================================================================
