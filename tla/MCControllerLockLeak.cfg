\* The documented cleanup after a failed dispatch: no crash needed to miss it.
CONSTANTS
    c1 = c1
    c2 = c2
    k1 = k1
    k2 = k2
    s1 = s1
    Free = Free
    NoKey = NoKey
    Clients = {c1, c2}
    Keys = {k1, k2}
    Sessions = {s1}
    SessionOf <- OneSession
    MaxFaults = 1
    MaxTries <- Once
    MaxRecovers = 0
SPECIFICATION Spec
INVARIANTS
    CleanupAfterLock
