\* The documented claim that an uncertain reply is not sent again.
CONSTANTS
    m1 = m1
    m2 = m2
    Messages = {m1, m2}
    LogLength = 1
    MaxSetbacks = 1
SPECIFICATION Spec
PROPERTIES
    UnknownIsNotResent
