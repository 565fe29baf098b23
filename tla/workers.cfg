\* Every kind of worker, any traffic of up to three arrivals.
CONSTANTS
    Definitions <- MCDefinitions
    Strays <- MCStrays
    CutAtNul <- MCCutAtNul
    Timeout = 2
    MaxArrivals = 3
SPECIFICATION FairSpec
INVARIANTS
    TypeOK
    ObservationIsReal
    RightTrafficIsNotFailed
    TimeoutMeansSilence
PROPERTY WorkerEnds
\* The clock stops at the horizon.
CHECK_DEADLOCK FALSE
