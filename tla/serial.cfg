\* A client that sends one request at a time, beside a summary stream.
CONSTANTS
    obs = obs
    hyb = hyb
    rep = rep
    None = None
    Features = {hyb, rep}
    Catalog <- MCCatalog
    Mode <- MCMode
    Listeners <- MCListeners
    Agents = {a1}
    Pollers = {p1}
    Fds = {fd1, fd2}
    SlowStart = FALSE
SPECIFICATION FairSpec
INVARIANTS
    TypeOK
    AtMostOneActive
    RefusalIsJustified
    SettledSocketsClosed
    NoLeak
    EvidenceDecides
    ContractNamesListeners
PROPERTIES
    VerdictIsFinal
    ActivationIsFresh
    LifecycleSpec
    FeatureSettles
    SlotIsFreed
\* The client may send nothing more.
CHECK_DEADLOCK FALSE
