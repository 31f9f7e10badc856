--------------------------- MODULE MCFuseProgress ---------------------------
(***************************************************************************)
(* Instances of the components with something that must happen in the end. *)
(* A behaviour runs one of them, chosen in the initial state, and leaves   *)
(* the others as they are.                                                 *)
(***************************************************************************)
EXTENDS FuseRequests, FuseNodeCache, FusePoll, FuseStudy

CONSTANTS c1, c2   \* clients of poll.c, or of the server

VARIABLE part    \* the component that runs

Parts == {"requests", "remember", "poll", "study"}
vars == <<part, requestVars, cacheVars, fselVars, studyVars>>

(* A component that does not run has one initial state.                     *)
OthersRest ==
    /\ part # "requests" => intr = TRUE
    /\ part # "poll" => serial = TRUE

Init ==
    /\ part \in Parts
    /\ RequestsInit
    /\ CacheInit
    /\ FselInit
    /\ StudyInit
    /\ OthersRest

Next ==
    /\ UNCHANGED part
    /\ IF part = "requests" THEN RequestsNext ELSE UNCHANGED requestVars
    /\ IF part = "remember" THEN CacheNext ELSE UNCHANGED cacheVars
    /\ IF part = "poll" THEN FselNext ELSE UNCHANGED fselVars
    /\ IF part = "study" THEN StudyNext ELSE UNCHANGED studyVars

(* Some thread of the session runs as long as one can; time passes, and the *)
(* loop cleans the cache when it is due; the producer of poll.c wakes up    *)
(* every 250 ms; the server's threads and the client's are scheduled.       *)
Fairness ==
    /\ WF_requestVars(part = "requests" /\ SessionWorks)
    /\ WF_cacheVars(part = "remember" /\ TimePasses)
    /\ WF_cacheVars(part = "remember" /\ fuse_clean_cache)
    /\ WF_fselVars(part = "poll" /\ fsel_producer)
    /\ WF_studyVars(part = "study" /\ StudyServes)
    /\ WF_studyVars(part = "study" /\ StudyAnswers)

Spec == Init /\ [][Next]_vars /\ Fairness

(* One client does what it likes while another opens files, at once too.    *)
MCStudyLoad == c1 :> StudyOps @@ c2 :> {"open"}
MCStudyThreads == c1 :> {1} @@ c2 :> {1, 2}
MCStudyRequests == c1 :> 2 @@ c2 :> 2

(* Two files with -s, one with threads.                                     *)
MCFselOpened == TRUE :> {1, 2} @@ FALSE :> {1}
MCFselFaults == c1 :> 1 @@ c2 :> 0
=============================================================================
