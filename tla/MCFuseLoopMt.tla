---------------------------- MODULE MCFuseLoopMt ----------------------------
(* Instances of FuseLoopMt, and its liveness.                                *)
EXTENDS FuseLoopMt, TLC

NoLimit == -1

Sym == Permutations(Workers) \cup Permutations(Chans)

(* The threads are scheduled, handlers return and answer; but no request     *)
(* need ever arrive.                                                         *)
LiveSpec ==
    /\ Spec
    /\ \A w \in Workers : WF_vars(Run(w))
    /\ \A c \in Chans : WF_vars(reply(c))
    /\ WF_vars(Main)

(* "This will cause any running event loops to terminate on the next         *)
(* opportunity" (fuse_lowlevel.h, fuse_session_exit): a session that is      *)
(* ended, by whomever, while requests keep arriving is left, and its workers *)
(* are joined.                                                               *)
ExitOnRequest ==
    (\A w \in Workers : WF_vars(Wakeup(w))) => (exited ~> main = "returned")

(* A session ended by a worker thread, by its handler or by an error of the  *)
(* device, needs no further request for that: the delay the comment on       *)
(* fuse_session_exit speaks of is for "a thread that is not a FUSE worker    *)
(* thread".                                                                  *)
WorkerExitEnds == quitter ~> main = "returned"
=============================================================================
