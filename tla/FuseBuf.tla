------------------------------ MODULE FuseBuf ------------------------------
(***************************************************************************)
(* Copying between vectors of buffers (lib/buffer.c).  A buffer is memory, a *)
(* file read or written at a position, or a stream.  The bytes of a vector   *)
(* are numbered through, and the destination records which byte of the       *)
(* source each of its bytes got.                                             *)
(***************************************************************************)
EXTENDS Integers, Sequences, SequencesExt

CONSTANTS
  Vectors,     \* sequences of buffer sizes
  SizeMax      \* SIZE_MAX

VARIABLES
  srcv, dstv,    \* [size, kind, idx, off], idx counting from 1
  stream,        \* bytes taken from the source streams
  arrived,      \* byte of the destination to byte of the source
  copied,        \* the result of fuse_buf_copy so far
  bufDone,
  dropped        \* a read byte was not written

bufVars == <<srcv, dstv, stream, arrived, copied, bufDone, dropped>>

BufKinds == {"mem", "seek", "stream"}
BufMin(a, b) == IF a < b THEN a ELSE b
SumSizes(s) == FoldSeq(LAMBDA x, y : x + y, 0, s)

(* Saturates at SIZE_MAX. *)
fuse_buf_size(s) ==
  FoldSeq(LAMBDA x, y : IF y = SizeMax \/ x >= SizeMax - y THEN SizeMax ELSE x + y, 0, s)

fuse_bufvec_current(v) == v.idx <= Len(v.size)
BufRoom(v) == v.size[v.idx] - v.off
(* The number of the byte the vector has got to. *)
BufAt(v) == SumSizes(SubSeq(v.size, 1, v.idx - 1)) + v.off

(* Off is left behind the last buffer, and starts over in every other one.   *)
fuse_bufvec_advance(v, n) ==
  IF v.off + n # v.size[v.idx] THEN [v EXCEPT !.off = @ + n]
  ELSE [v EXCEPT !.idx = @ + 1, !.off = IF v.idx = Len(v.size) THEN @ + n ELSE 0]

(* What copying n bytes at most may do: [res, taken], where taken bytes left *)
(* the source and res of them arrived; -1 is an error before the first byte. *)
fuse_buf_write(n) == {[res |-> r, taken |-> IF r = -1 THEN 0 ELSE r] : r \in -1..n}
fuse_buf_read(n) == fuse_buf_write(n)
fuse_buf_splice(n) == fuse_buf_write(n)

(* Through a buffer: the bytes of the last read are gone from a stream even  *)
(* when they are not all written.                                            *)
fuse_buf_fd_to_fd(n) ==
  {x \in [res : -1..n, taken : 0..n] : x.taken >= x.res}

fuse_buf_copy_one(src, dst, n) ==
  LET isFd(v) == v.kind # "mem" IN
  IF ~ isFd(src) /\ ~ isFd(dst) THEN {[res |-> n, taken |-> n]}
  ELSE IF n = 0 THEN {[res |-> 0, taken |-> 0]}
  ELSE IF ~ isFd(src) THEN fuse_buf_write(n)
  ELSE IF ~ isFd(dst) THEN fuse_buf_read(n)
  ELSE fuse_buf_splice(n) \cup fuse_buf_fd_to_fd(n)

(* One round of fuse_buf_copy.  The destination is advanced only when the    *)
(* source goes on.                                                           *)
fuse_buf_copy_goes_on ==
  /\ ~ bufDone
  /\ LET n == BufMin(BufRoom(srcv), BufRoom(dstv)) IN
     \E x \in fuse_buf_copy_one(srcv, dstv, n) :
       LET from == IF srcv.kind = "stream" THEN stream ELSE BufAt(srcv)
           s == fuse_bufvec_advance(srcv, x.res)
           d == fuse_bufvec_advance(dstv, x.res)
       IN  /\ x.res >= 0
           /\ arrived' = [b \in DOMAIN arrived |->
                IF b \in BufAt(dstv) + 1..BufAt(dstv) + x.res
                THEN from + b - BufAt(dstv) ELSE arrived[b]]
           /\ stream' = stream + x.taken
           /\ copied' = copied + x.res
           /\ srcv' = s /\ dstv' = d
           /\ dropped' = (dropped \/ x.taken > x.res)
           /\ bufDone' = (~ fuse_bufvec_current(s) \/ ~ fuse_bufvec_current(d))

fuse_buf_copy ==
  /\ ~ bufDone
  /\ LET n == BufMin(BufRoom(srcv), BufRoom(dstv)) IN
     \E x \in fuse_buf_copy_one(srcv, dstv, n) :
       LET from == IF srcv.kind = "stream" THEN stream ELSE BufAt(srcv)
           s == fuse_bufvec_advance(srcv, x.res)
           d == fuse_bufvec_advance(dstv, x.res)
           more == fuse_bufvec_current(s)
       IN  IF x.res = -1
           THEN /\ bufDone' = TRUE /\ stream' = stream + x.taken
                /\ dropped' = (dropped \/ x.taken > 0)
                /\ copied' = IF copied = 0 THEN -1 ELSE copied
                /\ UNCHANGED <<srcv, dstv, arrived>>
           ELSE /\ arrived' = [b \in DOMAIN arrived |->
                     IF b \in BufAt(dstv) + 1..BufAt(dstv) + x.res
                     THEN from + b - BufAt(dstv) ELSE arrived[b]]
                /\ stream' = stream + x.taken
                /\ copied' = copied + x.res
                /\ srcv' = s /\ dstv' = IF more THEN d ELSE dstv
                /\ dropped' = (dropped \/ x.taken > x.res)
                /\ bufDone' = (~ more \/ ~ fuse_bufvec_current(d) \/ x.res < n)

BufInit ==
  /\ srcv \in [size : Vectors, kind : BufKinds, idx : {1}, off : {0}]
  /\ dstv \in [size : Vectors, kind : BufKinds, idx : {1}, off : {0}]
  /\ arrived = [b \in 1..SumSizes(dstv.size) |-> 0]
  /\ stream = 0 /\ copied = 0 /\ bufDone = FALSE /\ dropped = FALSE

BufNext == fuse_buf_copy

(* The result counts the bytes that were copied: so many bytes at the start  *)
(* of the destination are the bytes at the start of the source, in order,    *)
(* across buffers of any size and short reads and writes.                    *)
CopiedPrefix ==
  \A b \in DOMAIN arrived : arrived[b] = IF b <= copied THEN b ELSE 0

(* A copy of everything is complete: it stops early only where a read or a   *)
(* write was short, so a result short of both vectors means that.  Nothing   *)
(* is taken from a stream and not counted, except what fuse_buf_fd_to_fd had *)
(* in its buffer.                                                            *)
CopyStops ==
  /\ bufDone /\ srcv.kind = "mem" /\ dstv.kind = "mem" =>
       copied = BufMin(SumSizes(srcv.size), SumSizes(dstv.size))
  /\ ~ dropped /\ copied >= 0 => stream = copied

(* The size of a vector does not wrap around. *)
SizeSaturates == fuse_buf_size(srcv.size) = BufMin(SumSizes(srcv.size), SizeMax)

(* fuse_buf_copy copies a prefix, reports its length and takes no more from *)
(* its sources, whatever the sizes of the buffers.                          *)
CopyExact ==
    CopiedPrefix /\ CopyStops /\ SizeSaturates
=============================================================================
