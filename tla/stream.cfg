\* What one watcher of the summary stream sees of a serial client.
CONSTANTS
    obs = obs
    hyb = hyb
    rep = rep
    None = None
    Features = {obs, rep}
    Catalog <- MCCatalog
    Mode <- MCMode
    Listeners <- MCListeners
    Agents = {a1}
    Pollers = {p1}
    Fds = {fd1}
    SlowStart = FALSE
SPECIFICATION StreamFairSpec
INVARIANT CompleteIsTrue
PROPERTIES
    SummariesGoForward
    VerdictsAreStreamed
CHECK_DEADLOCK FALSE
