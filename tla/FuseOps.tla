------------------------------- MODULE FuseOps -------------------------------
(***************************************************************************)
(* The operation tables of the library: what each handler between the      *)
(* kernel's request and the filesystem's own operation does with the       *)
(* operation, as data that FuseStack executes.                             *)
(*                                                                         *)
(*   do_X        fuse_lowlevel.c: calls the low-level operation, or         *)
(*               answers when the filesystem does not define it;           *)
(*   fuse_lib_X  fuse.c: gets the path, calls the stack of filesystems and *)
(*               answers;                                                  *)
(*   fuse_fs_X   fuse.c: calls one filesystem of the stack, or returns the *)
(*               default when it does not define the operation.            *)
(*                                                                         *)
(* The stackable modules between two fuse_fs_X are in FuseModules.         *)
(***************************************************************************)
EXTENDS Naturals, Sequences, SequencesExt

-----------------------------------------------------------------------------
(* do_X.  ops: the low-level operations that serve the request, the first   *)
(* that is defined being called; else: the answer when none is.             *)
Handler(o) == [ops |-> <<o>>, else |-> "ENOSYS"]

do_lookup == Handler("lookup")
do_forget == [ops |-> <<"forget">>, else |-> "none"]
do_batch_forget == [ops |-> <<"forget_multi", "forget">>, else |-> "none"]
do_getattr == Handler("getattr")
do_setattr == Handler("setattr")
do_access == Handler("access")
do_readlink == Handler("readlink")
do_mknod == Handler("mknod")
do_mkdir == Handler("mkdir")
do_unlink == Handler("unlink")
do_rmdir == Handler("rmdir")
do_symlink == Handler("symlink")
do_rename == Handler("rename")
do_rename2 == Handler("rename")
do_link == Handler("link")
do_tmpfile == Handler("tmpfile")
do_create == Handler("create")
(* Without an open operation every open succeeds, unless the filesystem    *)
(* asked for NO_OPEN_SUPPORT (NO_OPENDIR_SUPPORT).                          *)
do_open(noopen) == [ops |-> <<"open">>, else |-> IF noopen THEN "ENOSYS" ELSE "ok"]
do_opendir(noopen) == [ops |-> <<"opendir">>, else |-> IF noopen THEN "ENOSYS" ELSE "ok"]
do_read == Handler("read")
do_write == Handler("write")
(* fuse_session_process_buf_internal takes do_write_buf when the filesystem *)
(* defines write_buf, and do_write otherwise.                               *)
do_write_buf == [ops |-> <<"write_buf">> \o do_write.ops, else |-> do_write.else]
do_flush == Handler("flush")
do_release == [ops |-> <<"release">>, else |-> "ok"]
do_releasedir == [ops |-> <<"releasedir">>, else |-> "ok"]
do_fsync == Handler("fsync")
do_fsyncdir == Handler("fsyncdir")
do_readdir == Handler("readdir")
do_readdirplus == Handler("readdirplus")
do_statfs == [ops |-> <<"statfs">>, else |-> "ok"]
do_setxattr == Handler("setxattr")
do_getxattr == Handler("getxattr")
do_listxattr == Handler("listxattr")
do_removexattr == Handler("removexattr")
do_getlk == Handler("getlk")
do_setlk_common(a) == Handler(IF "flock" \in a THEN "flock" ELSE "setlk")
do_bmap == Handler("bmap")
do_ioctl(a) == IF "dir" \in a THEN [ops |-> <<>>, else |-> "ENOTTY"] ELSE Handler("ioctl")
do_poll == Handler("poll")
do_fallocate == Handler("fallocate")
do_copy_file_range == Handler("copy_file_range")
do_lseek == Handler("lseek")

(* fuse_ll_ops: the handler of each opcode (RENAME2 and SETLKW take the     *)
(* handlers of RENAME and SETLK here; IOCTL_DIR is not negotiated).         *)
LowLevel(op, a, noopen) ==
    CASE op = "open" -> do_open(noopen)
      [] op = "opendir" -> do_opendir(noopen)
      [] op = "setlk" -> do_setlk_common(a)
      [] op = "ioctl" -> do_ioctl(a)
      [] OTHER -> [lookup |-> do_lookup, forget |-> do_forget, batch_forget |-> do_batch_forget,
                   getattr |-> do_getattr, setattr |-> do_setattr, access |-> do_access,
                   readlink |-> do_readlink, mknod |-> do_mknod, mkdir |-> do_mkdir,
                   unlink |-> do_unlink, rmdir |-> do_rmdir, symlink |-> do_symlink,
                   rename |-> do_rename, rename2 |-> do_rename2, link |-> do_link,
                   tmpfile |-> do_tmpfile, create |-> do_create, read |-> do_read,
                   write |-> do_write_buf, flush |-> do_flush, release |-> do_release,
                   releasedir |-> do_releasedir, fsync |-> do_fsync, fsyncdir |-> do_fsyncdir,
                   readdir |-> do_readdir, readdirplus |-> do_readdirplus, statfs |-> do_statfs,
                   setxattr |-> do_setxattr, getxattr |-> do_getxattr,
                   listxattr |-> do_listxattr, removexattr |-> do_removexattr,
                   getlk |-> do_getlk, bmap |-> do_bmap, poll |-> do_poll,
                   fallocate |-> do_fallocate, copy_file_range |-> do_copy_file_range,
                   lseek |-> do_lseek][op]

(* The requests, and the flags of a request that its handlers look at.      *)
Opcodes == {"lookup", "forget", "batch_forget", "getattr", "setattr", "access", "readlink",
            "mknod", "mkdir", "unlink", "rmdir", "symlink", "rename", "rename2", "link",
            "tmpfile", "create", "open", "opendir", "read", "write", "flush", "release",
            "releasedir", "fsync", "fsyncdir", "readdir", "readdirplus", "statfs", "setxattr",
            "getxattr", "listxattr", "removexattr", "getlk", "setlk", "bmap", "ioctl", "poll",
            "fallocate", "copy_file_range", "lseek"}
Flags(op) ==
    CASE op = "lookup" -> {"negative"}
      [] op = "getattr" -> {"fi"}
      [] op = "setattr" -> {"fi", "chmod", "chown", "truncate", "utimens"}
      [] op = "mknod" -> {"regular"}
      [] op = "unlink" -> {"busy", "closed"}
      [] op \in {"rename", "rename2"} -> {"busy"}
      [] op = "open" -> {"stale", "hidden"}
      [] op = "release" -> {"flush", "hidden"}
      [] op = "getlk" -> {"conflict"}
      [] op = "setlk" -> {"flock"}
      [] op = "ioctl" -> {"dir", "unrestricted"}
      [] OTHER -> {}

-----------------------------------------------------------------------------
(* fuse_lib_X.  A handler is a program: of the flags a of the request and   *)
(* the calls made so far with what they returned, h, it computes the next   *)
(* call of fuse_fs_X, the answer it sends, or its end.  Sending the answer   *)
(* is a call too: it returns ENOENT when the system call was interrupted.   *)
Call(o) == [do |-> "call", op |-> o]
Reply(r) == [do |-> "reply", op |-> r]
End == [do |-> "end", op |-> "end"]

Made(h) == [i \in DOMAIN h |-> h[i].op]
LastOp(h) == IF h = <<>> THEN "none" ELSE Last(h).op
LastRes(h) == IF h = <<>> THEN "ok" ELSE Last(h).res
Result(h, o) == h[CHOOSE i \in DOMAIN h : h[i].op = o].res
Answered(h) == "reply" \in ToSet(Made(h))

(* The calls in order until one fails; then the answer, and the end.        *)
Do(calls, h) ==
    IF Answered(h) THEN End
    ELSE IF LastRes(h) # "ok" \/ Len(h) = Len(calls) THEN Reply(LastRes(h))
    ELSE Call(calls[Len(h) + 1])

(* do_lookup and lookup_path: the entry's attributes are read from the      *)
(* filesystem; a missing one is an answer when negative_timeout is set.     *)
fuse_lib_lookup(a, h) ==
    IF ~Answered(h) /\ LastRes(h) = "ENOENT" /\ "negative" \in a THEN Reply("ok")
    ELSE Do(<<"getattr">>, h)
fuse_lib_forget(a, h) == IF Answered(h) THEN End ELSE Reply("none")
fuse_lib_forget_multi(a, h) == IF Answered(h) THEN End ELSE Reply("none")
fuse_lib_getattr(a, h) == Do(<<"getattr">>, h)
fuse_lib_setattr(a, h) ==
    Do(SelectSeq(<<"chmod", "chown", "truncate", "utimens">>, LAMBDA o : o \in a)
          \o <<"getattr">>, h)
fuse_lib_access(a, h) == Do(<<"access">>, h)
fuse_lib_readlink(a, h) == Do(<<"readlink">>, h)
(* A regular file is created and released again, and made by mknod only     *)
(* when that returned ENOSYS.                                               *)
fuse_lib_mknod(a, h) ==
    IF "regular" \notin a THEN Do(<<"mknod", "getattr">>, h)
    ELSE IF h = <<>> THEN Call("create")
    ELSE LET created == h[1].res = "ok"
             tried == IF created THEN 3 ELSE 1
             err == IF created THEN h[2].res ELSE h[1].res
         IN  IF Len(h) < tried THEN Call(<<"create", "getattr", "release">>[Len(h) + 1])
             ELSE IF err = "ENOSYS"
                  THEN Do(<<"mknod", "getattr">>, SubSeq(h, tried + 1, Len(h)))
             ELSE IF Answered(h) THEN End ELSE Reply(err)
fuse_lib_mkdir(a, h) == Do(<<"mkdir", "getattr">>, h)
(* An entry whose file is open is renamed away (hide_node) to the first of  *)
(* at most ten names that the filesystem does not know (hidden_name); two   *)
(* names are tried here.                                                    *)
MaxHiddenTries == 2
hide_node(h, then) ==
    IF Answered(h) THEN End
    ELSE IF "rename" \in ToSet(Made(h))
         THEN Do(<<"rename">> \o then, SelectSeq(h, LAMBDA c : c.op # "getattr"))
    ELSE CASE LastRes(h) = "ENOENT" -> Call("rename")
           [] LastRes(h) = "ok" /\ Len(h) < MaxHiddenTries -> Call("getattr")
           [] OTHER -> Reply("EBUSY")
(* A hidden file that nobody has open any more is removed at once.          *)
fuse_lib_unlink(a, h) ==
    IF "busy" \in a THEN hide_node(h, IF "closed" \in a THEN <<"unlink">> ELSE <<>>)
    ELSE Do(<<"unlink">>, h)
fuse_lib_rmdir(a, h) == Do(<<"rmdir">>, h)
fuse_lib_symlink(a, h) == Do(<<"symlink", "getattr">>, h)
fuse_lib_rename(a, h) == IF "busy" \in a THEN hide_node(h, <<"rename">>) ELSE Do(<<"rename">>, h)
fuse_lib_link(a, h) == Do(<<"link", "getattr">>, h)
(* Mutant: a hidden file is removed by whatever path there is.              *)
fuse_do_release_blind(a, h, then) ==
    CASE LastOp(h) \notin {"release", "unlink"} -> Call("release")
      [] LastOp(h) = "release" /\ "hidden" \in a -> Call("unlink")
      [] OTHER -> then
(* The filesystem's release, then the removal of a hidden file that nobody   *)
(* has open any more, by the path of the release or, with nullpath_ok, one   *)
(* got now (a file without a path is left); neither result is looked at.    *)
fuse_do_release(a, h, then) ==
    CASE LastOp(h) \notin {"release", "unlink"} -> Call("release")
      [] LastOp(h) = "release" /\ "hidden" \in a /\ "nopath" \notin a -> Call("unlink")
      [] OTHER -> then
(* A created file that cannot be looked up, or is not a regular file, is    *)
(* released before the error is sent, and one whose open was interrupted    *)
(* after it.                                                                *)
Interrupted(h, o) == Answered(h) /\ Result(h, "reply") = "ENOENT" /\ Result(h, o) = "ok"
fuse_lib_create(a, h) ==
    CASE h = <<>> -> Call("create")
      [] LastOp(h) = "create" -> IF LastRes(h) = "ok" THEN Call("getattr") ELSE Reply(LastRes(h))
      [] LastOp(h) = "getattr" -> IF LastRes(h) = "ok" THEN Reply("ok") ELSE Call("release")
      [] LastOp(h) = "release" /\ ~Answered(h) ->
           Reply(IF Result(h, "getattr") = "notreg" THEN "EIO" ELSE Result(h, "getattr"))
      [] OTHER -> IF Interrupted(h, "create") /\ Result(h, "getattr") = "ok"
                  THEN fuse_do_release(a, h, End) ELSE End
(* Mutant: an interrupted open is not undone.                               *)
fuse_lib_open_kept(a, h) ==
    CASE h = <<>> -> Call("open")
      [] LastOp(h) = "open" -> Reply(LastRes(h))
      [] OTHER -> End
(* open_auto_cache refreshes stale attributes, and ignores a failure.       *)
fuse_lib_open(a, h) ==
    CASE h = <<>> -> Call("open")
      [] LastOp(h) = "open" -> IF LastRes(h) # "ok" THEN Reply(LastRes(h))
                               ELSE IF "stale" \in a THEN Call("getattr") ELSE Reply("ok")
      [] LastOp(h) = "getattr" -> Reply("ok")
      [] OTHER -> IF Interrupted(h, "open") THEN fuse_do_release(a, h, End) ELSE End
fuse_lib_read(a, h) == Do(<<"read_buf">>, h)
fuse_lib_write_buf(a, h) == Do(<<"write_buf">>, h)
fuse_lib_fsync(a, h) == Do(<<"fsync">>, h)
fuse_lib_opendir(a, h) ==
    CASE h = <<>> -> Call("opendir")
      [] LastOp(h) = "opendir" -> Reply(LastRes(h))
      [] LastOp(h) = "reply" -> IF Interrupted(h, "opendir") THEN Call("releasedir") ELSE End
      [] OTHER -> End
fuse_lib_readdir(a, h) == Do(<<"readdir">>, h)
fuse_lib_readdirplus(a, h) == Do(<<"readdir">>, h)
(* What releasedir returns is ignored.                                      *)
fuse_lib_releasedir(a, h) ==
    IF h = <<>> THEN Call("releasedir") ELSE IF Answered(h) THEN End ELSE Reply("ok")
fuse_lib_fsyncdir(a, h) == Do(<<"fsyncdir">>, h)
fuse_lib_statfs(a, h) == Do(<<"statfs">>, h)
fuse_lib_setxattr(a, h) == Do(<<"setxattr">>, h)
fuse_lib_getxattr(a, h) == Do(<<"getxattr">>, h)
fuse_lib_listxattr(a, h) == Do(<<"listxattr">>, h)
fuse_lib_removexattr(a, h) == Do(<<"removexattr">>, h)
(* Both calls are made; with a lock operation a missing flush is no error.  *)
fuse_flush_common(h) ==
    IF Result(h, "lock") # "ENOSYS" /\ Result(h, "flush") = "ENOSYS"
    THEN "ok" ELSE Result(h, "flush")
fuse_lib_flush(a, h) ==
    CASE Len(h) = 0 -> Call("flush") [] Len(h) = 1 -> Call("lock")
      [] Len(h) = 2 -> Reply(fuse_flush_common(h)) [] OTHER -> End
(* Mutant: the answer of a release is that of its flush, missing or not.    *)
fuse_lib_release_enosys(a, h) ==
    IF Answered(h) THEN End
    ELSE IF "flush" \in a /\ Len(h) < 2 THEN fuse_lib_flush(a, h)
    ELSE fuse_do_release(a, h, Reply(IF "flush" \in a THEN fuse_flush_common(h) ELSE "ok"))
(* What the release returns is ignored; that of the flush it comes with is  *)
(* the answer, a missing flush being none.                                  *)
fuse_lib_release(a, h) ==
    IF Answered(h) THEN End
    ELSE IF "flush" \in a /\ Len(h) < 2 THEN fuse_lib_flush(a, h)
    ELSE LET err == IF "flush" \in a THEN fuse_flush_common(h) ELSE "ok"
         IN  fuse_do_release(a, h, Reply(IF err = "ENOSYS" THEN "ok" ELSE err))
fuse_lib_getlk(a, h) ==
    IF "conflict" \in a /\ h = <<>> THEN Reply("ok") ELSE Do(<<"lock">>, h)
fuse_lib_setlk(a, h) == Do(<<"lock">>, h)
fuse_lib_flock(a, h) == Do(<<"flock">>, h)
fuse_lib_bmap(a, h) == Do(<<"bmap">>, h)
fuse_lib_ioctl(a, h) ==
    IF "unrestricted" \in a /\ h = <<>> THEN Reply("EPERM") ELSE Do(<<"ioctl">>, h)
fuse_lib_poll(a, h) == Do(<<"poll">>, h)
fuse_lib_fallocate(a, h) == Do(<<"fallocate">>, h)
fuse_lib_copy_file_range(a, h) == Do(<<"copy_file_range">>, h)
fuse_lib_lseek(a, h) == Do(<<"lseek">>, h)

(* fuse_path_ops: the low-level operations of a path filesystem.            *)
PathOps == {"lookup", "forget", "forget_multi", "getattr", "setattr", "access",
            "readlink", "mknod", "mkdir", "unlink", "rmdir", "symlink", "rename",
            "link", "create", "open", "read", "write_buf", "flush", "release",
            "fsync", "opendir", "readdir", "readdirplus", "releasedir", "fsyncdir",
            "statfs", "setxattr", "getxattr", "listxattr", "removexattr", "getlk",
            "setlk", "flock", "bmap", "ioctl", "poll", "fallocate",
            "copy_file_range", "lseek"}
fuse_path_ops(o, a, h) ==
    CASE o = "lookup" -> fuse_lib_lookup(a, h)
      [] o = "forget" -> fuse_lib_forget(a, h)
      [] o = "forget_multi" -> fuse_lib_forget_multi(a, h)
      [] o = "getattr" -> fuse_lib_getattr(a, h)
      [] o = "setattr" -> fuse_lib_setattr(a, h)
      [] o = "access" -> fuse_lib_access(a, h)
      [] o = "readlink" -> fuse_lib_readlink(a, h)
      [] o = "mknod" -> fuse_lib_mknod(a, h)
      [] o = "mkdir" -> fuse_lib_mkdir(a, h)
      [] o = "unlink" -> fuse_lib_unlink(a, h)
      [] o = "rmdir" -> fuse_lib_rmdir(a, h)
      [] o = "symlink" -> fuse_lib_symlink(a, h)
      [] o = "rename" -> fuse_lib_rename(a, h)
      [] o = "link" -> fuse_lib_link(a, h)
      [] o = "create" -> fuse_lib_create(a, h)
      [] o = "open" -> fuse_lib_open(a, h)
      [] o = "read" -> fuse_lib_read(a, h)
      [] o = "write_buf" -> fuse_lib_write_buf(a, h)
      [] o = "flush" -> fuse_lib_flush(a, h)
      [] o = "release" -> fuse_lib_release(a, h)
      [] o = "fsync" -> fuse_lib_fsync(a, h)
      [] o = "opendir" -> fuse_lib_opendir(a, h)
      [] o = "readdir" -> fuse_lib_readdir(a, h)
      [] o = "readdirplus" -> fuse_lib_readdirplus(a, h)
      [] o = "releasedir" -> fuse_lib_releasedir(a, h)
      [] o = "fsyncdir" -> fuse_lib_fsyncdir(a, h)
      [] o = "statfs" -> fuse_lib_statfs(a, h)
      [] o = "setxattr" -> fuse_lib_setxattr(a, h)
      [] o = "getxattr" -> fuse_lib_getxattr(a, h)
      [] o = "listxattr" -> fuse_lib_listxattr(a, h)
      [] o = "removexattr" -> fuse_lib_removexattr(a, h)
      [] o = "getlk" -> fuse_lib_getlk(a, h)
      [] o = "setlk" -> fuse_lib_setlk(a, h)
      [] o = "flock" -> fuse_lib_flock(a, h)
      [] o = "bmap" -> fuse_lib_bmap(a, h)
      [] o = "ioctl" -> fuse_lib_ioctl(a, h)
      [] o = "poll" -> fuse_lib_poll(a, h)
      [] o = "fallocate" -> fuse_lib_fallocate(a, h)
      [] o = "copy_file_range" -> fuse_lib_copy_file_range(a, h)
      [] o = "lseek" -> fuse_lib_lseek(a, h)

(* How the handler gets the paths it calls the stack with: the number of    *)
(* paths, whether one that the filesystem can do without may be NULL        *)
(* (get_path_nullok), and whether the handler goes on without a path.       *)
PathCount(o) ==
    CASE o \in {"forget", "forget_multi"} -> 0
      [] o \in {"rename", "link", "copy_file_range"} -> 2
      [] OTHER -> 1
NullOk(o, a) ==
    \/ o \in {"read", "write_buf", "flush", "release", "fsync", "readdir", "readdirplus",
              "releasedir", "fsyncdir", "setlk", "getlk", "flock", "ioctl", "poll",
              "fallocate", "copy_file_range"}
    \/ o \in {"getattr", "setattr"} /\ "fi" \in a
PathOptional(o) == o \in {"flush", "release", "releasedir"}

-----------------------------------------------------------------------------
(* fuse_fs_X.  impl: the operations of the filesystem that serve the call,  *)
(* the first that is defined being called; else: what is returned when none *)
(* is.  The read and write calls take the buffered or the plain operation.  *)
Needs(o) == [impl |-> <<o>>, else |-> "ENOSYS"]
Optional(o) == [impl |-> <<o>>, else |-> "ok"]

fuse_fs_getattr == Needs("getattr")
fuse_fs_rename == Needs("rename")
fuse_fs_unlink == Needs("unlink")
fuse_fs_rmdir == Needs("rmdir")
fuse_fs_symlink == Needs("symlink")
fuse_fs_link == Needs("link")
fuse_fs_release == Optional("release")
fuse_fs_opendir == Optional("opendir")
fuse_fs_open == Optional("open")
fuse_fs_read_buf == [impl |-> <<"read_buf", "read">>, else |-> "ENOSYS"]
fuse_fs_read == [impl |-> <<"read_buf", "read">>, else |-> "ENOSYS"]
fuse_fs_write_buf == [impl |-> <<"write_buf", "write">>, else |-> "ENOSYS"]
fuse_fs_write == fuse_fs_write_buf
fuse_fs_fsync == Needs("fsync")
fuse_fs_fsyncdir == Needs("fsyncdir")
fuse_fs_flush == Needs("flush")
fuse_fs_statfs == Optional("statfs")
fuse_fs_releasedir == Optional("releasedir")
fuse_fs_readdir == Needs("readdir")
fuse_fs_create == Needs("create")
fuse_fs_lock == Needs("lock")
fuse_fs_flock == Needs("flock")
fuse_fs_chown == Needs("chown")
fuse_fs_truncate == Needs("truncate")
fuse_fs_utimens == Needs("utimens")
fuse_fs_access == Needs("access")
fuse_fs_readlink == Needs("readlink")
fuse_fs_mknod == Needs("mknod")
fuse_fs_mkdir == Needs("mkdir")
fuse_fs_setxattr == Needs("setxattr")
fuse_fs_getxattr == Needs("getxattr")
fuse_fs_listxattr == Needs("listxattr")
fuse_fs_bmap == Needs("bmap")
fuse_fs_removexattr == Needs("removexattr")
fuse_fs_ioctl == Needs("ioctl")
fuse_fs_poll == Needs("poll")
fuse_fs_fallocate == Needs("fallocate")
fuse_fs_copy_file_range == Needs("copy_file_range")
fuse_fs_lseek == Needs("lseek")
fuse_fs_chmod == Needs("chmod")

fuse_fs == [getattr |-> fuse_fs_getattr, rename |-> fuse_fs_rename,
            unlink |-> fuse_fs_unlink, rmdir |-> fuse_fs_rmdir,
            symlink |-> fuse_fs_symlink, link |-> fuse_fs_link,
            release |-> fuse_fs_release, opendir |-> fuse_fs_opendir,
            open |-> fuse_fs_open, read_buf |-> fuse_fs_read_buf, read |-> fuse_fs_read,
            write_buf |-> fuse_fs_write_buf, write |-> fuse_fs_write,
            fsync |-> fuse_fs_fsync, fsyncdir |-> fuse_fs_fsyncdir,
            flush |-> fuse_fs_flush, statfs |-> fuse_fs_statfs,
            releasedir |-> fuse_fs_releasedir, readdir |-> fuse_fs_readdir,
            create |-> fuse_fs_create, lock |-> fuse_fs_lock, flock |-> fuse_fs_flock,
            chown |-> fuse_fs_chown, truncate |-> fuse_fs_truncate,
            utimens |-> fuse_fs_utimens, access |-> fuse_fs_access,
            readlink |-> fuse_fs_readlink, mknod |-> fuse_fs_mknod,
            mkdir |-> fuse_fs_mkdir, setxattr |-> fuse_fs_setxattr,
            getxattr |-> fuse_fs_getxattr, listxattr |-> fuse_fs_listxattr,
            bmap |-> fuse_fs_bmap, removexattr |-> fuse_fs_removexattr,
            ioctl |-> fuse_fs_ioctl, poll |-> fuse_fs_poll,
            fallocate |-> fuse_fs_fallocate,
            copy_file_range |-> fuse_fs_copy_file_range, lseek |-> fuse_fs_lseek,
            chmod |-> fuse_fs_chmod]
=============================================================================
