---------------------------- MODULE MCFuseMount ----------------------------
(* Instances of FuseMount: a daemon started by root or not, with and without *)
(* auto_unmount and a subtype, in the foreground on one thread or in the     *)
(* background on many, on a descriptor it was given (/dev/fd/N), and on a    *)
(* mount point that already carries a mount.  The second attempt and the     *)
(* mount below do not depend on the background, and are tried without it.    *)
EXTENDS FuseMount

MCOptions ==
  {o \in [root: BOOLEAN, auto: BOOLEAN, subtype: BOOLEAN, fg: BOOLEAN,
          fd: BOOLEAN, single: BOOLEAN, below: BOOLEAN] :
     /\ o.fd => ~o.auto /\ ~o.subtype /\ ~o.root
     /\ o.root => ~o.subtype
     /\ o.subtype => o.fg
     /\ o.single = o.fg
     /\ o.below => o.auto /\ o.fg}
=============================================================================
