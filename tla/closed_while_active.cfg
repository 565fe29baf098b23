\* A client that works on its association after the server has seen its message.
CONSTANTS
    Definitions <- MCDefinitions
    Strays = {}
    CutAtNul <- NoCuts
    Timeout = 2
    MaxArrivals = 2
    ClientStreams <- MCClientStreams
SPECIFICATION ClientSpec
INVARIANT LocalWorkFindsAssociation
CHECK_DEADLOCK FALSE
