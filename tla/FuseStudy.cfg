SPECIFICATION Spec
CONSTANTS
    StudyClients = {c1, c2}
    StudyThreads <- MCThreads
    StudyRequests <- MCRequests
    StudyLoad <- MCLoad
INVARIANTS ServedUnwatched
CHECK_DEADLOCK FALSE
