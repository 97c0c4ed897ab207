\* The documented answer to a history that cannot be read.
CONSTANTS
    p1 = p1
    p2 = p2
    s1 = s1
    s2 = s2
    a1 = a1
    Absent = Absent
    Processes = {p1}
    Aliases = {a1}
    DefaultAlias = a1
    Commands = {"refresh", "add"}
    Sessions = {s1}
    MaxLines = 2
    MaxSetbacks = 0
SPECIFICATION Spec
INVARIANTS
    RefreshIsAnswered
