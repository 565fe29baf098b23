\* Two connections and an SCTP worker.
CONSTANTS
    c1 = c1
    c2 = c2
    Conns = {c1, c2}
    Worker = worker
    FirstSession = s0
    Nobody = nobody
    Threads <- MCThreads
    Sessions <- MCSessions
    Executions = 1
    Requests <- MCRequests
    MaxHeader = 10
SPECIFICATION HttpFairSpec
INVARIANTS
    HandledAsSent
    NoCircularWait
PROPERTY EveryConnectionEnds
\* The process may end, and connections do.
CHECK_DEADLOCK FALSE
