\* Two processes, two messages to one session, one of them twice, one /recover,
\* one fault.
CONSTANTS
    c1 = c1
    c2 = c2
    k1 = k1
    k2 = k2
    s1 = s1
    Free = Free
    NoKey = NoKey
    Clients = {c1, c2}
    Keys = {k1, k2}
    Sessions = {s1}
    SessionOf <- OneSession
    MaxFaults = 1
    MaxTries <- FirstTwice
    MaxRecovers = 1
SPECIFICATION FairSpec
INVARIANTS
    LeftoversExplained
    RecoveryLockExplained
    ReturnedIsClean
    OneLiveRun
    RecoveryInv
PROPERTIES
    RecoveryIsComplete
    ImplementsRunLedger
    LockIsReleased
