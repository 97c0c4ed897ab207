\* Two messages in a log of three updates (one of them repeated) and up to two
\* batches that are cut short; safety, the refinement and liveness.
CONSTANTS
    m1 = m1
    m2 = m2
    Messages = {m1, m2}
    LogLength = 3
    MaxSetbacks = 2
SPECIFICATION FairFromFirst
INVARIANTS
    CursorBehindWork
    NoSilentLoss
    SentWasReceived
    RepeatsNeedSetbacks
    IInv
PROPERTIES
    AnsweredIsFinal
    HandledInOrder
    ResendsNeedSetbacks
    ImplementsLedger
    Progress
