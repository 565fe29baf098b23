\* Every feature of the catalog against clients that follow its contract.
CONSTANTS
    Definitions <- MCDefinitions
    Strays = {}
    CutAtNul <- NoCuts
    Timeout = 2
    MaxArrivals = 2
    ClientStreams <- MCClientStreams
SPECIFICATION ClientFairSpec
INVARIANT VerdictIsDeserved
PROPERTY EveryFeatureEnds
\* Feature and client come to an end.
CHECK_DEADLOCK FALSE
