\* One process, one history with a row that splitlines() splits.
CONSTANTS
    p1 = p1
    p2 = p2
    s1 = s1
    s2 = s2
    a1 = a1
    Absent = Absent
    Processes = {p1}
    Aliases = {a1}
    DefaultAlias = a1
    Commands = {"refresh", "add"}
    Sessions = {s1}
    MaxLines = 1
    MaxSetbacks = 0
SPECIFICATION Spec
INVARIANTS
    MessagesAreShown
