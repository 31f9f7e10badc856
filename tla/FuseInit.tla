------------------------------ MODULE FuseInit ------------------------------
(***************************************************************************)
(* FUSE_INIT (do_init of fuse_lowlevel.c): the capabilities the kernel     *)
(* offers, the defaults, what the filesystem's init handlers ask for in    *)
(* the old style (conn->want) and the new (fuse_set_feature_flag and its   *)
(* kin, conn->want_ext), the sizes, the answer, and the read buffers of    *)
(* the workers, which were made before the sizes were known.               *)
(*                                                                         *)
(* Every capability of fuse_common.h is among the lower 32 bits, so that   *)
(* fuse_lower_32_bits is the identity and nothing is in the higher bits.   *)
(***************************************************************************)
EXTENDS Integers, FiniteSets

CONSTANTS
    Flags,          \* the capabilities looked at: a subset of Capabilities
    InitMinors,     \* minor versions of the kernel
    MaxTouches,     \* how often the init handlers change what is wanted
    PageSize, HeaderSize, FUSE_MIN_READ_BUFFER, UINT_MAX,
    MaxPages,       \* max_pages is a number below this (2^16 in the code)
    DefaultPages,   \* FUSE_DEFAULT_MAX_PAGES_LIMIT
    PagesPerReq,    \* FUSE_DEFAULT_MAX_PAGES_PER_REQ
    WriteSizes,     \* values of max_write that an init handler sets
    BackgroundMax,  \* max_background is a number up to this (2^16 - 1)
    Backgrounds,    \* values of max_background and congestion_threshold
    FsOps,          \* operations that a filesystem may lack
    InitWorkers

-----------------------------------------------------------------------------
(* The capabilities that the kernel offers and is answered, by a flag of    *)
(* the lower and of the higher half of its flags; those it offers only; and *)
(* those that go with its version.                                          *)
LowWire == {"ASYNC_READ", "POSIX_LOCKS", "ATOMIC_O_TRUNC", "EXPORT_SUPPORT", "DONT_MASK",
            "FLOCK_LOCKS", "AUTO_INVAL_DATA", "READDIRPLUS", "READDIRPLUS_AUTO", "ASYNC_DIO",
            "WRITEBACK_CACHE", "PARALLEL_DIROPS", "POSIX_ACL", "HANDLE_KILLPRIV",
            "HANDLE_KILLPRIV_V2", "CACHE_SYMLINKS", "EXPLICIT_INVAL_DATA", "SETXATTR_EXT"}
HighWire == {"DIRECT_IO_ALLOW_MMAP", "PASSTHROUGH", "NO_EXPORT_SUPPORT"}
OfferOnly == {"NO_OPEN_SUPPORT", "NO_OPENDIR_SUPPORT", "EXPIRE_ONLY"}
Splices == {"SPLICE_WRITE", "SPLICE_MOVE", "SPLICE_READ"}
Capabilities == LowWire \cup HighWire \cup OfferOnly \cup Splices \cup {"IOCTL_DIR"}
AllOps == {"write_buf", "lock", "flock", "readdirplus", "readdir"}

ASSUME InitAssumption ==
    /\ Flags \subseteq Capabilities /\ InitMinors \subseteq Nat /\ MaxTouches \in Nat
    /\ {PageSize, HeaderSize, MaxPages, DefaultPages, PagesPerReq} \subseteq Nat \ {0}
    /\ FUSE_MIN_READ_BUFFER \in Nat /\ UINT_MAX \in Nat
    /\ WriteSizes \subseteq 0..UINT_MAX
    /\ DefaultPages * PageSize + HeaderSize \in FUSE_MIN_READ_BUFFER..UINT_MAX
    /\ BackgroundMax \in Nat /\ Backgrounds \subseteq Nat /\ FsOps \subseteq AllOps

VARIABLES
    kin,       \* the kernel's fuse_init_in
    fs,        \* the filesystem: its operations, and whether it is one of fuse.c
    conn,      \* se->conn and se->conn_want, se->conn_want_ext
    sess,      \* se->bufsize, exited, and whether a loop of the library reads
    phase,     \* of do_init
    touches,   \* changes made so far
    said,      \* per flag: what was last said of it
    wrote,     \* the fields that a handler assigned itself
    out,       \* the answer
    buffer     \* per worker: the size of buf->mem, how much was last asked for
               \* and whether that was refused

initVars == <<kin, fs, conn, sess, phase, touches, said, wrote, out, buffer>>

NoAnswer == [error |-> "none", flags |-> {}, max_write |-> 0, max_pages |-> 0,
             max_background |-> 0, congestion_threshold |-> 0]
SessionBuffer == DefaultPages * PageSize + HeaderSize

(* fuse_session_new, and the kernel's first request.                        *)
InitInit ==
    /\ kin \in [major : {6, 7, 8}, minor : InitMinors, flags : SUBSET (Flags \ Splices),
               pages : BOOLEAN, ext : BOOLEAN]
    /\ kin.minor < 6 => kin.flags = {} /\ ~kin.pages /\ ~kin.ext
    /\ ~kin.ext => kin.flags \cap (HighWire \cup {"EXPIRE_ONLY"}) = {}
    /\ fs \in [ops : SUBSET FsOps, path : BOOLEAN]
    /\ conn = [capable_ext |-> {}, want |-> {}, want_ext |-> {}, conn_want |-> {},
               conn_want_ext |-> {}, max_write |-> DefaultPages * PageSize, max_read |-> TRUE,
               max_background |-> 0, congestion_threshold |-> 0]
    /\ sess \in [bufsize : {SessionBuffer}, internal : BOOLEAN, exited : {FALSE}]
    /\ phase = "start" /\ touches = 0 /\ said = [f \in Flags |-> "off"] /\ wrote = {}
    /\ out = NoAnswer
    /\ buffer = [w \in InitWorkers |-> [size |-> 0, asked |-> 0, failed |-> FALSE]]
-----------------------------------------------------------------------------
(* What is wanted.                                                          *)

(* One flag after the other.                                                *)
fuse_set_feature_flag(c, S) ==
    LET T == S \cap c.capable_ext
    IN  [c EXCEPT !.want_ext = @ \cup T, !.conn_want_ext = @ \cup T,
                  !.want = @ \cup T, !.conn_want = @ \cup T]

fuse_unset_feature_flag(c, S) ==
    [c EXCEPT !.want_ext = @ \ S, !.conn_want_ext = @ \ S, !.want = @ \ S, !.conn_want = @ \ S]

fuse_convert_to_conn_want_ext(c) ==
    LET changed == c.want # c.conn_want /\ c.want_ext # c.want
    IN  CASE changed /\ c.want_ext # c.conn_want_ext -> c
          [] changed /\ c.want_ext = c.conn_want_ext -> [c EXCEPT !.want_ext = c.want]
          [] OTHER -> [c EXCEPT !.want = c.want_ext]

(* fuse_apply_conn_info_opts: the options that switch a capability on and   *)
(* off; where both are given, off is later.                                 *)
EnableOpts == {"SPLICE_READ", "SPLICE_WRITE", "SPLICE_MOVE", "AUTO_INVAL_DATA", "ASYNC_DIO",
               "WRITEBACK_CACHE", "ASYNC_READ"}
DisableOpts == EnableOpts \cup {"READDIRPLUS", "READDIRPLUS_AUTO", "POSIX_LOCKS", "FLOCK_LOCKS"}
fuse_apply_conn_info_opts(c, on, off) ==
    fuse_unset_feature_flag(fuse_set_feature_flag(c, on), off)

Said(on, off) == [f \in Flags |-> IF f \in off THEN "off" ELSE IF f \in on THEN "on" ELSE said[f]]
-----------------------------------------------------------------------------
(* do_init, up to the filesystem's handler.                                 *)

Capable ==
    kin.flags
      \cup (IF kin.minor >= 38 THEN {"EXPIRE_ONLY"} ELSE {})
      \cup (IF kin.minor >= 14 THEN Splices ELSE {})
      \cup (IF kin.minor >= 18 THEN {"IOCTL_DIR"} ELSE {})

(* LL_SET_DEFAULT; fuse.c has every operation.                              *)
Default ==
    LET ops == IF fs.path THEN AllOps ELSE fs.ops
    IN  {"ASYNC_READ", "AUTO_INVAL_DATA", "ASYNC_DIO", "IOCTL_DIR", "ATOMIC_O_TRUNC"}
          \cup (IF "write_buf" \in ops THEN {"SPLICE_READ"} ELSE {})
          \cup (IF "lock" \in ops THEN {"POSIX_LOCKS"} ELSE {})
          \cup (IF "flock" \in ops THEN {"FLOCK_LOCKS"} ELSE {})
          \cup (IF "readdirplus" \in ops THEN {"READDIRPLUS"} ELSE {})
          \cup (IF {"readdirplus", "readdir"} \subseteq ops THEN {"READDIRPLUS_AUTO"} ELSE {})

(* An older kernel is refused; a newer one is told our version and sends a  *)
(* second INIT.                                                             *)
do_init_version ==
    /\ phase = "start" /\ kin.major # 7
    /\ IF kin.major < 7 THEN phase' = "done" /\ out' = [NoAnswer EXCEPT !.error = "EPROTO"]
                             /\ UNCHANGED kin
                        ELSE kin' = [kin EXCEPT !.major = 7] /\ UNCHANGED <<phase, out>>
    /\ UNCHANGED <<fs, conn, sess, touches, said, wrote, buffer>>

do_init_begins ==
    /\ phase = "start" /\ kin.major = 7
    /\ conn' = fuse_set_feature_flag([conn EXCEPT !.capable_ext = Capable \cap Flags,
                                                  !.want_ext = {}], Default \cap Flags)
    /\ said' = Said(Default \cap Capable, {})
    /\ phase' = IF fs.path THEN "lib" ELSE "init"
    /\ UNCHANGED <<kin, fs, sess, touches, wrote, out, buffer>>

(* fuse_fs_init: what a path filesystem cannot do.                          *)
Unable == (IF "write_buf" \in fs.ops THEN {} ELSE {"SPLICE_READ"})
          \cup (IF "lock" \in fs.ops THEN {} ELSE {"POSIX_LOCKS"})
          \cup (IF "flock" \in fs.ops THEN {} ELSE {"FLOCK_LOCKS"})
fuse_lib_init ==
    /\ phase = "lib" /\ phase' = "init"
    /\ conn' = fuse_unset_feature_flag(fuse_set_feature_flag(conn, {"EXPORT_SUPPORT"}), Unable)
    /\ said' = Said({"EXPORT_SUPPORT"} \cap conn.capable_ext, Unable)
    /\ UNCHANGED <<kin, fs, sess, touches, wrote, out, buffer>>

(* What the filesystem's own handler does, in any order: to the flags, or   *)
(* to the sizes, which do_init treats apart from each other.                *)
Touches ==
    /\ phase = "init" /\ "sizes" \notin wrote
    /\ touches < MaxTouches /\ touches' = touches + 1
init_sets_flag(f) ==
    /\ Touches /\ conn' = fuse_set_feature_flag(conn, {f})
    /\ said' = Said({f} \cap conn.capable_ext, {})
    /\ UNCHANGED <<kin, fs, sess, phase, wrote, out, buffer>>
init_unsets_flag(f) ==
    /\ Touches /\ conn' = fuse_unset_feature_flag(conn, {f}) /\ said' = Said({}, {f})
    /\ UNCHANGED <<kin, fs, sess, phase, wrote, out, buffer>>
init_applies(on, off) ==
    /\ Touches /\ conn' = fuse_apply_conn_info_opts(conn, on, off)
    /\ said' = Said(on \cap conn.capable_ext, off)
    /\ UNCHANGED <<kin, fs, sess, phase, wrote, out, buffer>>
init_writes_want(on, off) ==
    /\ Touches /\ conn' = [conn EXCEPT !.want = (@ \cup on) \ off] /\ said' = Said(on, off)
    /\ wrote' = wrote \cup {"want"}
    /\ UNCHANGED <<kin, fs, sess, phase, out, buffer>>
init_writes_want_ext(on, off) ==
    /\ Touches /\ conn' = [conn EXCEPT !.want_ext = (@ \cup on) \ off] /\ said' = Said(on, off)
    /\ wrote' = wrote \cup {"want_ext"}
    /\ UNCHANGED <<kin, fs, sess, phase, out, buffer>>
init_sizes(size, same) ==
    /\ phase = "init" /\ touches = 0 /\ "sizes" \notin wrote
    /\ conn' = [conn EXCEPT !.max_write = size, !.max_read = same]
    /\ wrote' = wrote \cup {"sizes"}
    /\ UNCHANGED <<kin, fs, sess, phase, touches, said, out, buffer>>
init_background(most, congested) ==
    /\ phase = "init" /\ touches = 0 /\ "sizes" \notin wrote
    /\ conn' = [conn EXCEPT !.max_background = most, !.congestion_threshold = congested]
    /\ wrote' = wrote \cup {"sizes"}
    /\ UNCHANGED <<kin, fs, sess, phase, touches, said, out, buffer>>
-----------------------------------------------------------------------------
(* do_init, from the filesystem's handler on.                               *)

want_flags_valid(c) == c.want_ext \subseteq c.capable_ext

InitMin(a, b) == IF a < b THEN a ELSE b
InitMax(a, b) == IF a > b THEN a ELSE b

(* The largest buffer that the session can get: any, where the library      *)
(* allocates it and the kernel sends more than the default of pages.        *)
BufferFor(c) ==
    LET small == kin.minor >= 6 /\ ~kin.pages
        kept == IF small THEN InitMin(sess.bufsize, PagesPerReq * PageSize + HeaderSize)
                         ELSE sess.bufsize
    IN  IF sess.internal /\ ~small THEN UINT_MAX ELSE InitMax(kept, FUSE_MIN_READ_BUFFER)

(* (max_write - 1) / pagesize + 1 in unsigned arithmetic, cut to 16 bits.   *)
PagesOf(size) == ((((size - 1) % (UINT_MAX + 1)) \div PageSize) + 1) % MaxPages

(* max_background and congestion_threshold.                                 *)
Background(c) ==
    IF kin.minor < 13 THEN <<0, 0>>
    ELSE LET most == InitMin(c.max_background, BackgroundMax)
             t == InitMin(c.congestion_threshold, most)
         IN  <<most, IF t = 0 THEN (most * 3) \div 4 ELSE t>>

(* The flags of the answer that stand for a capability; the higher half is  *)
(* sent to a kernel that said FUSE_INIT_EXT.  FUSE_BIG_WRITES, which is     *)
(* always set, FUSE_MAX_PAGES and FUSE_INIT_EXT are not asked for by the    *)
(* file system and are left out.                                            *)
OutFlags(c) == c.want_ext \cap (IF kin.ext THEN LowWire \cup HighWire ELSE LowWire)

do_init_ends ==
    /\ phase = "init"
    /\ LET c == fuse_convert_to_conn_want_ext(conn)
           size == InitMin(c.max_write, BufferFor(c) - HeaderSize)
       IN  IF ~want_flags_valid(c) \/ ~c.max_read
           THEN /\ conn' = c /\ out' = [NoAnswer EXCEPT !.error = "EPROTO"]
                /\ sess' = [sess EXCEPT !.exited = TRUE]
           ELSE /\ conn' = [c EXCEPT !.max_write = size]
                /\ sess' = [sess EXCEPT !.bufsize = size + HeaderSize]
                /\ out' = [error |-> "ok", flags |-> OutFlags(c), max_write |-> size,
                           max_pages |-> IF kin.pages THEN PagesOf(size) ELSE 0,
                           max_background |-> Background(c)[1],
                           congestion_threshold |-> Background(c)[2]]
    /\ phase' = "done"
    /\ UNCHANGED <<kin, fs, touches, said, wrote, buffer>>
-----------------------------------------------------------------------------
(* _fuse_session_receive_buf.  The kernel refuses a read with a buffer that *)
(* would not hold its largest request (EINVAL).                             *)
Required == IF out.error = "ok" THEN InitMax(FUSE_MIN_READ_BUFFER, out.max_write + HeaderSize)
            ELSE FUSE_MIN_READ_BUFFER

(* Mutant: a buffer is never replaced.                                      *)
receive_buf_kept(w) ==
    /\ out.error # "EPROTO" /\ ~buffer[w].failed
    /\ LET size == IF buffer[w].size = 0 THEN sess.bufsize ELSE buffer[w].size
           asked == IF sess.internal THEN size ELSE sess.bufsize
       IN  buffer' = [buffer EXCEPT ![w] = [size |-> size, asked |-> asked,
                                            failed |-> asked < Required]]
    /\ UNCHANGED <<kin, fs, conn, sess, phase, touches, said, wrote, out>>

(* The buffer is allocated by the first read; one of the library is         *)
(* replaced when it is refused and se->bufsize has grown.                   *)
receive_buf(w) ==
    /\ out.error # "EPROTO" /\ ~buffer[w].failed
    /\ LET first == IF buffer[w].size = 0 THEN sess.bufsize ELSE buffer[w].size
           again == sess.internal /\ first < Required /\ first < sess.bufsize
           size == IF again THEN sess.bufsize ELSE first
           asked == IF sess.internal THEN size ELSE sess.bufsize
       IN  buffer' = [buffer EXCEPT ![w] = [size |-> size, asked |-> asked,
                                            failed |-> asked < Required]]
    /\ UNCHANGED <<kin, fs, conn, sess, phase, touches, said, wrote, out>>

InitNext ==
    \/ do_init_version \/ do_init_begins \/ fuse_lib_init \/ do_init_ends
    \/ \E f \in Flags : init_sets_flag(f) \/ init_unsets_flag(f)
    \/ \E f \in Flags : init_writes_want({f}, {}) \/ init_writes_want({}, {f})
                        \/ init_writes_want_ext({f}, {}) \/ init_writes_want_ext({}, {f})
    \/ \E on \in SUBSET (Flags \cap EnableOpts), off \in SUBSET (Flags \cap DisableOpts) :
          init_applies(on, off)
    \/ \E size \in WriteSizes, same \in BOOLEAN : init_sizes(size, same)
    \/ \E most, congested \in Backgrounds : init_background(most, congested)
    \/ \E w \in InitWorkers : receive_buf(w)
-----------------------------------------------------------------------------
InitSpec == InitInit /\ [][InitNext]_initVars

ConnInfo ==
    [capable_ext : SUBSET Flags, want : SUBSET Flags, want_ext : SUBSET Flags,
     conn_want : SUBSET Flags, conn_want_ext : SUBSET Flags, max_write : 0..UINT_MAX,
     max_read : BOOLEAN, max_background : Nat, congestion_threshold : Nat]

Answers ==
    [error : {"none", "ok", "EPROTO"}, flags : SUBSET Flags, max_write : 0..UINT_MAX,
     max_pages : Nat, max_background : Nat, congestion_threshold : Nat]

InitTypeOK ==
    /\ kin \in [major : {6, 7, 8}, minor : Nat, flags : SUBSET (Flags \ Splices),
                pages : BOOLEAN, ext : BOOLEAN]
    /\ fs \in [ops : SUBSET AllOps, path : BOOLEAN]
    /\ conn \in ConnInfo /\ out \in Answers
    /\ sess \in [bufsize : Nat, internal : BOOLEAN, exited : BOOLEAN]
    /\ phase \in {"start", "lib", "init", "done"} /\ touches \in Nat
    /\ said \in [Flags -> {"on", "off"}] /\ wrote \subseteq {"want", "want_ext", "sizes"}
    /\ buffer \in [InitWorkers -> [size : Nat, asked : Nat, failed : BOOLEAN]]

SaidOn == {f \in Flags : said[f] = "on"}

(* However the handlers of the stack mix the old and the new way of asking, *)
(* every capability ends as the last of them that spoke of it said; the     *)
(* only exception is a handler that assigned both conn->want and            *)
(* conn->want_ext, which fuse_convert_to_conn_want_ext refuses.  Until then *)
(* the field that no handler assigned follows the calls alone, and so shows *)
(* which of the two was assigned.                                           *)
WantHonoured ==
    /\ phase = "start" => SaidOn = {} /\ wrote = {}
    /\ phase # "done" =>
          /\ "want_ext" \notin wrote =>
                conn.want = SaidOn /\ conn.want_ext = conn.conn_want /\ conn.want_ext = conn.conn_want_ext
          /\ "want" \notin wrote =>
                conn.want_ext = SaidOn /\ conn.want = conn.conn_want /\ conn.want = conn.conn_want_ext
    /\ phase = "done" /\ out.error = "ok" /\ ~({"want", "want_ext"} \subseteq wrote)
          => conn.want_ext = SaidOn

(* The answer names only capabilities that this kernel offered, whatever    *)
(* the handlers asked for: one it does not know would change its protocol.  *)
AnswerOffered ==
    /\ phase \in {"lib", "init"} => conn.capable_ext = Capable \cap Flags
    /\ out.flags \subseteq kin.flags

(* No read of the device is refused for the size of its buffer: neither     *)
(* that of a worker which allocated it before INIT raised max_write, nor    *)
(* that of a program with its own loop.  A max_write below                  *)
(* FUSE_MIN_READ_BUFFER less the header is left out: do_init sets           *)
(* se->bufsize below the minimum then.                                      *)
ReadsFit ==
    /\ phase # "done" =>
          /\ out = NoAnswer /\ sess.bufsize = SessionBuffer
          /\ \A w \in InitWorkers : buffer[w].size \in {0, SessionBuffer} /\ ~buffer[w].failed
    /\ out.error = "ok" =>
          /\ phase = "done" /\ sess.bufsize = out.max_write + HeaderSize
          /\ \/ out.max_write < FUSE_MIN_READ_BUFFER - HeaderSize
             \/ \A w \in InitWorkers : ~buffer[w].failed

(* No read asks for more than its buffer holds: fuse_session_receive_buf    *)
(* reads se->bufsize bytes into a buffer that an earlier call allocated, so *)
(* do_init must not raise se->bufsize for a program with its own loop.      *)
ReadsInside ==
    \A w \in InitWorkers :
       /\ buffer[w].asked <= buffer[w].size
       /\ ~sess.internal /\ buffer[w].size # 0 => sess.bufsize <= buffer[w].size

(* max_pages is the number of pages of max_write, as long as that fits 16   *)
(* bits and max_write is not zero.                                          *)
PagesCover ==
    /\ out.error = "ok" /\ kin.pages
    /\ out.max_write > 0 /\ out.max_write <= (MaxPages - 1) * PageSize
    => out.max_pages * PageSize \in out.max_write..(out.max_write + PageSize - 1)

(* The kernel is never told a congestion threshold above the number of      *)
(* background requests it may have.                                         *)
BackgroundOrdered ==
    out.congestion_threshold <= out.max_background /\ out.max_background <= BackgroundMax

(* After FUSE_INIT kernel, library and file system mean the same: the       *)
(* capabilities are the wanted ones and were offered, every read has a      *)
(* buffer that holds a request of the sizes agreed on, and the limits are   *)
(* in order.                                                                *)
InitAgrees ==
    /\ InitTypeOK /\ WantHonoured /\ AnswerOffered
    /\ ReadsFit /\ ReadsInside /\ PagesCover /\ BackgroundOrdered
=============================================================================
