----------------------------- MODULE MCFuseStack -----------------------------
(* Instances of FuseStack: a filesystem that defines every operation below *)
(* no module, each module, and both in either order; filesystems without   *)
(* some operations, below one module; and a low-level filesystem.          *)
EXTENDS FuseStack

AllOps == DOMAIN fuse_fs
Config(ms, b, l, null, no) ==
    [mods |-> ms, base |-> b, low |-> l, nullpath |-> null, noopen |-> no]
MCConfigs ==
    {Config(ms, AllOps, {}, null, FALSE) :
        ms \in {<<>>, <<"subdir">>, <<"iconv">>, <<"subdir", "iconv">>, <<"iconv", "subdir">>},
        null \in BOOLEAN}
    \cup
    {Config(<<m>>, AllOps \ missing, {}, FALSE, FALSE) :
        m \in {"subdir", "iconv"},
        missing \in {{"read_buf", "write_buf", "create", "flock"}, {"lock", "flush", "getattr"},
                     {"open", "create", "release", "opendir", "releasedir", "statfs", "mknod"}}}
    \cup
    {Config(<<>>, {}, {"lookup", "forget", "getattr", "readdir", "read"}, FALSE, no) :
        no \in BOOLEAN}
=============================================================================
