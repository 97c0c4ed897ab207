\* Three requests of one transport, two pieces in the pipe.
CONSTANTS
    MaxRequests = 3
    MaxUnread = 2
SPECIFICATION FairSpec
INVARIANTS
    Framed
    InTimeIsAnswered
    IInv
PROPERTIES
    ImplementsRequests
    RequestEnds
CHECK_DEADLOCK FALSE
