----------------------------- MODULE FuseModules -----------------------------
(***************************************************************************)
(* The operation tables of the two stackable modules, subdir and iconv     *)
(* (lib/modules/), as data that FuseStack executes.  rewrites: which of    *)
(* the paths the module replaces by a string of its own before it calls    *)
(* the next filesystem, which it frees after; back: whether the answer is  *)
(* converted on the way back.                                              *)
(***************************************************************************)
Rewrites(ps) == [rewrites |-> ps, back |-> FALSE]

subdir_getattr == Rewrites({1})
subdir_access == Rewrites({1})
subdir_readlink == [rewrites |-> {1}, back |-> TRUE]
subdir_opendir == Rewrites({1})
subdir_readdir == Rewrites({1})
subdir_releasedir == Rewrites({1})
subdir_mknod == Rewrites({1})
subdir_mkdir == Rewrites({1})
subdir_unlink == Rewrites({1})
subdir_rmdir == Rewrites({1})
(* Mutant: the target of the link is moved into the directory too.          *)
subdir_symlink_target == Rewrites({1, 2})
subdir_symlink == Rewrites({2})
subdir_rename == Rewrites({1, 2})
subdir_link == Rewrites({1, 2})
subdir_chmod == Rewrites({1})
subdir_chown == Rewrites({1})
subdir_truncate == Rewrites({1})
subdir_utimens == Rewrites({1})
subdir_create == Rewrites({1})
subdir_open == Rewrites({1})
subdir_read_buf == Rewrites({1})
subdir_write_buf == Rewrites({1})
subdir_statfs == Rewrites({1})
subdir_flush == Rewrites({1})
subdir_release == Rewrites({1})
subdir_fsync == Rewrites({1})
subdir_fsyncdir == Rewrites({1})
subdir_setxattr == Rewrites({1})
subdir_getxattr == Rewrites({1})
subdir_listxattr == Rewrites({1})
subdir_removexattr == Rewrites({1})
subdir_lock == Rewrites({1})
subdir_flock == Rewrites({1})
subdir_bmap == Rewrites({1})
subdir_lseek == Rewrites({1})
subdir_oper == [getattr |-> subdir_getattr, access |-> subdir_access,
                readlink |-> subdir_readlink, opendir |-> subdir_opendir,
                readdir |-> subdir_readdir, releasedir |-> subdir_releasedir,
                mknod |-> subdir_mknod, mkdir |-> subdir_mkdir,
                unlink |-> subdir_unlink, rmdir |-> subdir_rmdir,
                symlink |-> subdir_symlink, rename |-> subdir_rename,
                link |-> subdir_link, chmod |-> subdir_chmod, chown |-> subdir_chown,
                truncate |-> subdir_truncate, utimens |-> subdir_utimens,
                create |-> subdir_create, open |-> subdir_open,
                read_buf |-> subdir_read_buf, write_buf |-> subdir_write_buf,
                statfs |-> subdir_statfs, flush |-> subdir_flush,
                release |-> subdir_release, fsync |-> subdir_fsync,
                fsyncdir |-> subdir_fsyncdir, setxattr |-> subdir_setxattr,
                getxattr |-> subdir_getxattr, listxattr |-> subdir_listxattr,
                removexattr |-> subdir_removexattr, lock |-> subdir_lock,
                flock |-> subdir_flock, bmap |-> subdir_bmap, lseek |-> subdir_lseek]

iconv_getattr == Rewrites({1})
iconv_access == Rewrites({1})
iconv_readlink == [rewrites |-> {1}, back |-> TRUE]
iconv_opendir == Rewrites({1})
iconv_readdir == Rewrites({1})
iconv_releasedir == Rewrites({1})
iconv_mknod == Rewrites({1})
iconv_mkdir == Rewrites({1})
iconv_unlink == Rewrites({1})
iconv_rmdir == Rewrites({1})
iconv_symlink == Rewrites({1, 2})
iconv_rename == Rewrites({1, 2})
iconv_link == Rewrites({1, 2})
iconv_chmod == Rewrites({1})
iconv_chown == Rewrites({1})
iconv_truncate == Rewrites({1})
iconv_utimens == Rewrites({1})
iconv_create == Rewrites({1})
iconv_open_file == Rewrites({1})
iconv_read_buf == Rewrites({1})
iconv_write_buf == Rewrites({1})
iconv_statfs == Rewrites({1})
iconv_flush == Rewrites({1})
iconv_release == Rewrites({1})
iconv_fsync == Rewrites({1})
iconv_fsyncdir == Rewrites({1})
iconv_setxattr == Rewrites({1})
iconv_getxattr == Rewrites({1})
iconv_listxattr == Rewrites({1})
iconv_removexattr == Rewrites({1})
iconv_lock == Rewrites({1})
iconv_flock == Rewrites({1})
iconv_bmap == Rewrites({1})
iconv_lseek == Rewrites({1})
iconv_oper == [getattr |-> iconv_getattr, access |-> iconv_access,
               readlink |-> iconv_readlink, opendir |-> iconv_opendir,
               readdir |-> iconv_readdir, releasedir |-> iconv_releasedir,
               mknod |-> iconv_mknod, mkdir |-> iconv_mkdir, unlink |-> iconv_unlink,
               rmdir |-> iconv_rmdir, symlink |-> iconv_symlink,
               rename |-> iconv_rename, link |-> iconv_link, chmod |-> iconv_chmod,
               chown |-> iconv_chown, truncate |-> iconv_truncate,
               utimens |-> iconv_utimens, create |-> iconv_create,
               open |-> iconv_open_file, read_buf |-> iconv_read_buf,
               write_buf |-> iconv_write_buf, statfs |-> iconv_statfs,
               flush |-> iconv_flush, release |-> iconv_release, fsync |-> iconv_fsync,
               fsyncdir |-> iconv_fsyncdir, setxattr |-> iconv_setxattr,
               getxattr |-> iconv_getxattr, listxattr |-> iconv_listxattr,
               removexattr |-> iconv_removexattr, lock |-> iconv_lock,
               flock |-> iconv_flock, bmap |-> iconv_bmap, lseek |-> iconv_lseek]

=============================================================================
