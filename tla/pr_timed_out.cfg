\* A hybrid PR-SCTP feature whose summary or state is polled after the deadline.
CONSTANTS
    Definitions <- PrDefinitions
    Strays <- MCStrays
    CutAtNul <- MCCutAtNul
    Timeout = 2
    MaxArrivals = 1
SPECIFICATION Spec
INVARIANT RightPrClientIsNotTimedOut
CHECK_DEADLOCK FALSE
