\* Two starts in flight at once.
CONSTANTS
    obs = obs
    hyb = hyb
    rep = rep
    None = None
    Features = {obs, rep}
    Catalog <- MCCatalog
    Mode <- MCMode
    Listeners <- MCListeners
    Agents = {a1, a2}
    Pollers = {}
    Fds = {fd1}
    SlowStart = FALSE
SPECIFICATION Spec
INVARIANT AtMostOneActive
CHECK_DEADLOCK FALSE
