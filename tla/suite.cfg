\* The scenarios of core.json against helpers and a stack that may do anything wrong.
CONSTANTS
    Helper = "c"
    Errors = {"unsupported", "other"}
    Unsupported = {"unsupported"}
    Notification = Notification
    Wrong = Wrong
    MaxNamed = 1
    Suite <- MCSuite
    Requirements <- MCRequirements
SPECIFICATION RunSpec
INVARIANTS
    TypeOK
    NoHelperLeft
    GreenMeansCovered
PROPERTIES
    PassIsEarned
    BlameIsJustified
    SuiteEnds
CHECK_DEADLOCK FALSE
