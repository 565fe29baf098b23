\* A watcher of the summary stream, or any other client, goes away.
CONSTANTS
    c1 = c1
    c2 = c2
    Conns = {c1, c2}
    Worker = worker
    FirstSession = s0
    Nobody = nobody
    Threads <- MCThreads
    Sessions <- MCSessions
    Executions = 1
    Requests <- WatcherRequests
    MaxHeader = 10
SPECIFICATION HttpSpec
INVARIANT SessionsStayAvailable
CHECK_DEADLOCK FALSE
