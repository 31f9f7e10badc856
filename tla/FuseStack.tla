------------------------------ MODULE FuseStack ------------------------------
(***************************************************************************)
(* One thread serving requests through the whole call chain of the         *)
(* library: do_X (fuse_lowlevel.c), fuse_lib_X (fuse.c), fuse_fs_X for     *)
(* every filesystem of the stack (fuse.c), the operations of the subdir    *)
(* and iconv modules (lib/modules/) and the operation of the filesystem at *)
(* the bottom.  FuseOps and FuseModules say what each handler does.        *)
(*                                                                         *)
(* fuse_get_context() is one record per thread.  Every fuse_fs_X points    *)
(* its private_data at the filesystem it is about to call, and nothing     *)
(* points it back when that call returns: a filesystem of the stack finds  *)
(* itself there on entry and must keep what it found.                      *)
(***************************************************************************)
EXTENDS FuseOps, FuseModules, FiniteSets

CONSTANTS
    Configs,      \* the filesystems: see StackAssumption
    MaxOpen,      \* how many handles of each kind the kernel opens
    MaxLost       \* how many releases a module loses

(* A filesystem: the modules stacked on it (fuse_config.modules), topmost   *)
(* first, the operations it defines itself, the low-level operations it     *)
(* defines instead when it is no path filesystem, and the two settings.     *)
ASSUME StackAssumption ==
    /\ \A c \in Configs :
          /\ c.mods \in Seq({"subdir", "iconv"}) /\ c.base \subseteq DOMAIN fuse_fs
          /\ c.low \subseteq Opcodes \cup PathOps
          /\ c.nullpath \in BOOLEAN /\ c.noopen \in BOOLEAN
    /\ MaxOpen \in Nat /\ MaxLost \in Nat

VARIABLES
    mods, base, low,  \* the stack, the operations of its base and of the session
    nullpath,     \* fuse_config.nullpath_ok
    noopen,       \* FUSE_CAP_NO_OPEN_SUPPORT is wanted
    caps,         \* the locking and splicing capabilities left after init
    mode,         \* where control is
    op, arg,      \* the low-level operation being served and its flags
    h,            \* the calls its fuse_lib_X has made
    held,         \* the paths that fuse_lib_X holds
    calls,        \* the filesystems of the stack that are being called
    ctx,          \* fuse_get_context()->private_data: a position in the stack
    ret,          \* what the last call returned
    strings,      \* how many path strings the modules have allocated
    answers,      \* the answers sent to the request
    fsopen,       \* how many handles of each kind the base has open
    kopen,        \* how many of each kind the kernel knows
    lost          \* how many releases a module failed to pass on

config == <<mods, base, low, nullpath, noopen, caps>>
vars == <<config, mode, op, arg, h, held, calls, ctx, ret, strings, answers,
          fsopen, kopen, lost>>

Kinds == {"file", "dir"}
Caps == {"SPLICE_READ", "POSIX_LOCKS", "FLOCK_LOCKS"}

(* The filesystems of the stack: the modules, then the base.                *)
Bottom == Len(mods) + 1
Defines(k) == IF k = Bottom THEN base
              ELSE IF mods[k] = "subdir" THEN DOMAIN subdir_oper ELSE DOMAIN iconv_oper
ModuleOp(k, o) == IF mods[k] = "subdir" THEN subdir_oper[o] ELSE iconv_oper[o]

(* A path: NULL, or one that the modules in by have rewritten, in order.    *)
NULL == [null |-> TRUE, by |-> <<>>]
Plain == [null |-> FALSE, by |-> <<>>]

(* subdir_addpath and iconv_convpath: a new string, or NULL for NULL.       *)
Rewrite(p, k) == IF p.null THEN p ELSE [p EXCEPT !.by = Append(@, k)]

(* fuse_fs_init, down the stack through subdir_init and iconv_init: each    *)
(* level takes away the capabilities that need an operation it lacks.       *)
fuse_fs_init(k, c) ==
    c \ ( (IF "write_buf" \notin Defines(k) THEN {"SPLICE_READ"} ELSE {})
          \cup (IF "lock" \notin Defines(k) THEN {"POSIX_LOCKS"} ELSE {})
          \cup (IF "flock" \notin Defines(k) THEN {"FLOCK_LOCKS"} ELSE {}) )
InitStack == FoldLeft(LAMBDA c, k : fuse_fs_init(k, c), Caps, [k \in 1..Bottom |-> k])

(* fuse_new drops getlk and setlk from fuse_path_ops when the filesystem    *)
(* it is given, the base, defines no lock.                                  *)
fuse_new(b) == IF "lock" \in b THEN PathOps ELSE PathOps \ {"getlk", "setlk"}

Init ==
    /\ \E c \in Configs :
          /\ mods = c.mods /\ base = c.base /\ nullpath = c.nullpath /\ noopen = c.noopen
          /\ low = IF c.low = {} THEN fuse_new(base) ELSE c.low
    /\ caps = InitStack
    /\ mode = "idle" /\ op = "none" /\ arg = {} /\ h = <<>> /\ held = <<>>
    /\ calls = <<>> /\ ctx = 0 /\ ret = "none" /\ strings = 0 /\ answers = <<>>
    /\ fsopen = [k \in Kinds |-> 0] /\ kopen = [k \in Kinds |-> 0] /\ lost = 0

-----------------------------------------------------------------------------
(* The request.                                                             *)

Paths == low = fuse_new(base)
First(s, S) == SelectSeq(s, LAMBDA o : o \in S)

(* The kernel sends a request about an open handle only for one it has.     *)
OfFile == {"read", "write", "flush", "release", "fsync", "getlk", "setlk", "ioctl", "poll",
           "fallocate", "copy_file_range", "lseek"}
OfDir == {"readdir", "readdirplus", "releasedir", "fsyncdir"}
Opens == [open |-> "file", create |-> "file", opendir |-> "dir"]
Sendable(opcode) ==
    /\ opcode \in OfFile => kopen["file"] > 0
    /\ opcode \in OfDir => kopen["dir"] > 0
    /\ opcode \in DOMAIN Opens => kopen[Opens[opcode]] < MaxOpen
Released(opcode) ==
    CASE opcode = "release" -> [kopen EXCEPT !["file"] = @ - 1]
      [] opcode = "releasedir" -> [kopen EXCEPT !["dir"] = @ - 1]
      [] OTHER -> kopen

(* The opcode's handler calls the low-level operation, or answers.  Every   *)
(* fuse_lib_X begins with a cleared context (req_fuse_prepare).             *)
Receive(opcode, a) ==
    LET handler == LowLevel(opcode, a, noopen)
        found == First(handler.ops, low)
    IN  /\ mode = "idle" /\ Sendable(opcode)
        /\ kopen' = Released(opcode)
        /\ arg' = a
        /\ \/ /\ found = <<>>
              /\ op' = opcode /\ answers' = <<handler.else>> /\ mode' = "done"
           \/ /\ found # <<>> /\ ~Paths
              /\ op' = found[1] /\ \E r \in {"ok", "EIO"} : answers' = <<r>>
              /\ mode' = "done"
           \/ /\ found # <<>> /\ Paths
              /\ op' = found[1] /\ answers' = <<>> /\ mode' = "lib"
        /\ ctx' = 0
        /\ UNCHANGED <<config, h, held, calls, ret, strings, fsopen, lost>>

-----------------------------------------------------------------------------
(* fuse_lib_X.                                                              *)

(* A handler that was given no path although the filesystem wants paths     *)
(* sees that too (fuse_do_release).                                         *)
Pathless == IF held # <<>> /\ held[1].null /\ ~nullpath THEN {"nopath"} ELSE {}
Todo == fuse_path_ops(op, arg \cup Pathless, h)

(* get_path_nullok: no path for a filesystem that wants none, and none for  *)
(* a file that has lost its name, which is no error (ESTALE).               *)
get_path_nullok == IF nullpath THEN {NULL} ELSE {Plain, NULL}

(* Before the first call of the stack the handler gets its paths; without   *)
(* them it answers with the error, or goes on with NULL.                    *)
NeedsPath == mode = "lib" /\ Todo.do = "call" /\ held = <<>>
get_path ==
    /\ NeedsPath
    /\ held' \in [1..PathCount(op) -> IF NullOk(op, arg) THEN get_path_nullok ELSE {Plain}]
    /\ UNCHANGED <<config, mode, op, arg, h, calls, ctx, ret, strings, answers, fsopen,
                   kopen, lost>>
get_path_fails ==
    /\ NeedsPath /\ ~(nullpath /\ NullOk(op, arg))
    /\ IF PathOptional(op)
       THEN held' = [i \in 1..PathCount(op) |-> NULL] /\ UNCHANGED <<mode, answers>>
       ELSE /\ \E e \in {"ENOMEM"} \cup (IF NullOk(op, arg) THEN {} ELSE {"ESTALE"}) :
                  answers' = Append(answers, e)
            /\ mode' = "done" /\ UNCHANGED held
    /\ UNCHANGED <<config, op, arg, h, calls, ctx, ret, strings, fsopen, kopen, lost>>

(* What the handler allocates first: the directory handle, the buffer of    *)
(* the attribute's value, the ioctl's data, the poll handle (do_poll).      *)
malloc_fails ==
    /\ mode = "lib" /\ h = <<>> /\ held = <<>>
    /\ op \in {"opendir", "getxattr", "listxattr", "ioctl", "poll"}
    /\ answers' = Append(answers, "ENOMEM") /\ mode' = "done"
    /\ UNCHANGED <<config, op, arg, h, held, calls, ctx, ret, strings, fsopen, kopen, lost>>

(* The paths of a call: those the handler holds, and the ones it makes: the *)
(* target of a symbolic link, the hidden name, the path of a hidden file.   *)
CallPaths(o) ==
    CASE o \in {"rename", "link", "symlink"} -> <<Plain, Plain>>
      [] o = "unlink" -> <<IF nullpath THEN Plain ELSE held[1]>>
      [] o = "copy_file_range" -> held
      [] OTHER -> <<held[1]>>

(* Every fuse_fs_X begins with private_data = fs->user_data.                *)
fuse_fs_call(k, o, ps, below) ==
    /\ calls' = Append(below, [fs |-> k, op |-> o, paths |-> ps, self |-> 0, own |-> 0])
    /\ ctx' = k
    /\ mode' = "fs"

lib_call ==
    /\ mode = "lib" /\ Todo.do = "call" /\ held # <<>>
    /\ fuse_fs_call(1, Todo.op, CallPaths(Todo.op), <<>>)
    /\ UNCHANGED <<config, op, arg, h, held, ret, strings, answers, fsopen, kopen, lost>>

lib_return ==
    /\ mode = "back" /\ calls = <<>>
    /\ h' = Append(h, [op |-> Todo.op, res |-> ret])
    /\ mode' = "lib" /\ ret' = "none"
    /\ UNCHANGED <<config, op, arg, held, calls, ctx, strings, answers, fsopen, kopen, lost>>

(* The answer; that of an open fails with ENOENT when the system call was   *)
(* interrupted, and otherwise gives the kernel its handle.                  *)
lib_reply ==
    /\ mode = "lib" /\ Todo.do = "reply"
    /\ answers' = Append(answers, Todo.op)
    /\ \E r \in {"ok", "ENOENT"} :
          LET handed == r = "ok" /\ Todo.op = "ok" /\ op \in DOMAIN Opens
          IN  /\ op \notin DOMAIN Opens => r = "ok"
              /\ h' = Append(h, [op |-> "reply", res |-> r])
              /\ kopen' = IF handed THEN [kopen EXCEPT ![Opens[op]] = @ + 1] ELSE kopen
    /\ UNCHANGED <<config, mode, op, arg, held, calls, ctx, ret, strings, fsopen, lost>>

lib_end ==
    /\ mode = "lib" /\ Todo.do = "end"
    /\ mode' = "done"
    /\ UNCHANGED <<config, op, arg, h, held, calls, ctx, ret, strings, answers, fsopen,
                   kopen, lost>>

(* The thread goes back to fuse_session_receive_buf.                        *)
Finish ==
    /\ mode = "done"
    /\ mode' = "idle" /\ op' = "none" /\ arg' = {} /\ h' = <<>> /\ held' = <<>>
    /\ answers' = <<>> /\ ret' = "none"
    /\ UNCHANGED <<config, calls, ctx, strings, fsopen, kopen, lost>>

-----------------------------------------------------------------------------
(* The stack.                                                               *)

Top == Last(calls)
Serves == First(fuse_fs[Top.op].impl, Defines(Top.fs))
Return(r) ==
    /\ ret' = r /\ calls' = Front(calls) /\ mode' = "back"

(* A filesystem of the stack that does not define the operation.            *)
fs_default ==
    /\ mode = "fs" /\ Serves = <<>>
    /\ Return(fuse_fs[Top.op].else)
    /\ UNCHANGED <<config, op, arg, h, held, ctx, strings, answers, fsopen, kopen, lost>>

(* fuse_fs_read_buf and fuse_fs_write_buf allocate the buffer that the      *)
(* plain operation needs.                                                   *)
fs_buffer_fails ==
    /\ mode = "fs" /\ Serves # <<>>
    /\ Top.op \in {"read_buf", "write_buf"} /\ Serves[1] \in {"read", "write"}
    /\ Return("ENOMEM")
    /\ UNCHANGED <<config, op, arg, h, held, ctx, strings, answers, fsopen, kopen, lost>>

(* An operation of subdir or iconv: the module finds itself in the context, *)
(* makes its paths and calls the next filesystem.                           *)
Owned(k, o, ps) == {i \in ModuleOp(k, o).rewrites : ~ps[i].null}
module_calls ==
    /\ mode = "fs" /\ Top.fs < Bottom /\ Serves # <<>>
    /\ LET o == Serves[1]
           self == ctx
           own == Owned(Top.fs, o, Top.paths)
           ps == [i \in DOMAIN Top.paths |->
                     IF i \in own THEN Rewrite(Top.paths[i], self) ELSE Top.paths[i]]
           frame == [Top EXCEPT !.op = o, !.self = self, !.own = Cardinality(own)]
       IN  /\ strings' = strings + Cardinality(own)
           /\ fuse_fs_call(self + 1, o, ps, Append(Front(calls), frame))
    /\ UNCHANGED <<config, op, arg, h, held, ret, answers, fsopen, kopen, lost>>

(* A path that cannot be made (no memory, no such character): the strings   *)
(* made before it are freed and the next filesystem is not called.          *)
module_fails ==
    /\ mode = "fs" /\ Top.fs < Bottom /\ Serves # <<>>
    /\ Owned(Top.fs, Serves[1], Top.paths) # {}
    /\ LET loses == Serves[1] \in {"release", "releasedir"}
       IN  /\ loses => lost < MaxLost
           /\ lost' = IF loses /\ "open" \in base THEN lost + 1 ELSE lost
    /\ \E e \in {"ENOMEM"} \cup (IF mods[Top.fs] = "iconv" THEN {"EILSEQ"} ELSE {}) : Return(e)
    /\ UNCHANGED <<config, op, arg, h, held, ctx, strings, answers, fsopen, kopen>>

(* The next filesystem has returned: the strings are freed.  iconv_readlink *)
(* converts the link back, which can fail; transform_symlink cannot.        *)
module_returns ==
    /\ mode = "back" /\ calls # <<>>
    /\ strings' = strings - Top.own
    /\ \/ Return(ret)
       \/ /\ ret = "ok" /\ mods[Top.self] = "iconv" /\ iconv_oper[Top.op].back
          /\ \E e \in {"ENOMEM", "EILSEQ"} : Return(e)
    /\ UNCHANGED <<config, op, arg, h, held, ctx, answers, fsopen, kopen, lost>>

(* The filesystem's own operation; create's caller asks for the attributes  *)
(* of what it made, which need not be a regular file.                       *)
Results(o) ==
    {"ok", "EIO"} \cup (IF o = "getattr" THEN {"ENOENT"} ELSE {})
                  \cup (IF o = "getattr" /\ op = "create" THEN {"notreg"} ELSE {})
base_serves ==
    /\ mode = "fs" /\ Top.fs = Bottom /\ Serves # <<>>
    /\ \E r \in Results(Serves[1]) :
          LET o == Serves[1]
          IN  /\ Return(r)
              /\ fsopen' =
                    CASE o \in DOMAIN Opens /\ r = "ok" -> [fsopen EXCEPT ![Opens[o]] = @ + 1]
                      [] o = "release" -> [fsopen EXCEPT !["file"] = @ - 1]
                      [] o = "releasedir" -> [fsopen EXCEPT !["dir"] = @ - 1]
                      [] OTHER -> fsopen
    /\ UNCHANGED <<config, op, arg, h, held, ctx, strings, answers, kopen, lost>>

Next ==
    \/ \E o \in Opcodes : \E a \in SUBSET Flags(o) : Receive(o, a)
    \/ get_path \/ get_path_fails \/ malloc_fails
    \/ lib_call \/ lib_return \/ lib_reply \/ lib_end \/ Finish
    \/ fs_default \/ fs_buffer_fails \/ module_calls \/ module_fails \/ module_returns
    \/ base_serves

Spec == Init /\ [][Next]_vars

-----------------------------------------------------------------------------
(* The properties.                                                          *)

(* Each variable has its type: what the handlers, the stack and the kernel  *)
(* hold.                                                                    *)
TypeOK ==
    /\ mode \in {"idle", "lib", "fs", "back", "done"}
    /\ op \in Opcodes \cup PathOps \cup {"none"}
    /\ arg \subseteq UNION {Flags(o) : o \in Opcodes}
    /\ caps \subseteq Caps
    /\ Len(calls) <= Bottom /\ ctx \in 0..Bottom
    /\ strings \in 0 .. 2 * Len(mods)
    /\ \A k \in Kinds : kopen[k] \in 0..MaxOpen
    /\ \A k \in Kinds : "open" \in base => fsopen[k] \in 0 .. MaxOpen + 1 + MaxLost
    /\ lost \in 0..MaxLost

Expected(o, i) ==
    SelectSeq([k \in 1..Len(mods) |-> k],
              LAMBDA k : ~(o = "symlink" /\ i = 1 /\ mods[k] = "subdir"))

(* The operations that a filesystem must serve without a path: those of an  *)
(* open file or directory.                                                  *)
OfHandle(o) ==
    \/ o \in {"read", "read_buf", "write", "write_buf", "flush", "release", "fsync",
              "readdir", "releasedir", "fsyncdir", "lock", "flock", "ioctl", "poll",
              "fallocate", "copy_file_range"}
    \/ "fi" \in arg /\ o \in {"getattr", "chmod", "chown", "truncate", "utimens"}

(* The filesystem at the bottom is called as itself.  A path it gets is     *)
(* rewritten once by every module above it, from the top down: only the     *)
(* target of a symbolic link is not a path of the tree, and is converted by *)
(* iconv but not moved by subdir.  It gets NULL only in an operation on an  *)
(* open handle, even then never for a name that is to be changed, and with  *)
(* nullpath_ok it gets no path in one (get_path_nullok, fuse_do_release).   *)
BaseGetsPaths ==
    mode = "fs" /\ Top.fs = Bottom =>
        /\ ctx = Bottom
        /\ Len(calls) = Bottom
        /\ \A i \in DOMAIN Top.paths :
              IF Top.paths[i].null THEN OfHandle(Top.op)
              ELSE /\ Top.paths[i].by = Expected(Top.op, i)
                   /\ nullpath /\ OfHandle(Top.op) => op \in {"open", "create", "mknod", "opendir"}

(* A request has exactly one answer when its handler returns, whatever      *)
(* failed on the way: fuse_reply_X frees the request, so that a second      *)
(* answer would use freed memory and a missing one leave a caller waiting.  *)
OneAnswer ==
    /\ Len(answers) <= 1
    /\ mode = "done" => Len(answers) = 1

(* When the handler returns, the modules have freed every path they made.   *)
StringsFreed == mode \in {"idle", "done"} => strings = 0 /\ calls = <<>>

(* Every handle that the filesystem opened is known to the kernel, which    *)
(* will release it, or has been released: an open whose answer fails, a     *)
(* create whose lookup fails and the create of mknod are undone.  The one   *)
(* exception are the releases that a module had no memory to pass on.       *)
HandlesPaired ==
    mode \in {"idle", "done"} /\ "open" \in base /\ Paths =>
        fsopen["file"] + fsopen["dir"] = kopen["file"] + kopen["dir"] + lost

NeededOps(o, a) ==
    CASE o \in {"read"} -> {"read", "read_buf"}
      [] o = "write_buf" -> {"write", "write_buf"}
      [] o \in {"getlk", "setlk"} -> {"lock"}
      [] o = "setattr" -> (a \ {"fi"}) \cup {"getattr"}
      [] o = "lookup" -> {"getattr"}
      [] o \in {"mknod", "mkdir", "symlink", "link", "create"} -> {o, "getattr"}
      [] o \in {"readdirplus"} -> {"readdir"}
      [] OTHER -> {o}

(* The kernel takes ENOSYS for good: it does not send the operation again.  *)
(* It is answered only when a filesystem of the stack really lacks one of   *)
(* the operations that the request needs; a release is never refused.       *)
EnosysIsFinal ==
    mode = "done" /\ Paths /\ answers = <<"ENOSYS">> =>
        /\ op \notin {"release", "releasedir", "open", "opendir", "statfs"}
        /\ \/ op \notin low
           \/ \E k \in 1..Bottom : ~(NeededOps(op, arg) \subseteq Defines(k))

(* A session that still wants POSIX locks after fuse_fs_init has been down  *)
(* the stack never refuses a lock request for want of an operation.         *)
LocksServed ==
    mode = "done" /\ Paths /\ "POSIX_LOCKS" \in caps /\ op \in {"getlk", "setlk"} =>
        answers # <<"ENOSYS">>

(* A handler that returns has answered its request once, holds nothing any  *)
(* more, and has said ENOSYS only of an operation that the kernel may do    *)
(* without from then on.                                                    *)
HandlerAnswers ==
    TypeOK /\ OneAnswer /\ StringsFreed /\ EnosysIsFinal /\ LocksServed
=============================================================================
