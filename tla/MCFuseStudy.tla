----------------------------- MODULE MCFuseStudy ----------------------------
(***************************************************************************)
(* Two clients of the server, which look names up one at a time.           *)
(***************************************************************************)
EXTENDS FuseStudy

Spec == StudyInit /\ [][StudyNext]_studyVars

MCLoad == [c \in StudyClients |-> {"lookup"}]
MCThreads == [c \in StudyClients |-> {1}]
MCRequests == [c \in StudyClients |-> 1]
=============================================================================
