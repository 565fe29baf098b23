\* Two requests in flight at once, slow starts: what still holds.
CONSTANTS
    obs = obs
    hyb = hyb
    rep = rep
    None = None
    Features = {hyb}
    Catalog <- MCCatalog
    Mode <- MCMode
    Listeners <- MCListeners
    Agents = {a1, a2}
    Pollers = {}
    Fds = {fd1, fd2, fd3}
    SlowStart = TRUE
SPECIFICATION Spec
SYMMETRY Interchangeable
INVARIANTS
    DescriptorOwnership
    PassedIsEarned
CHECK_DEADLOCK FALSE
