\* The documented gate of the OpeniLink runtime: one process, one command.
CONSTANTS
    p1 = p1
    p2 = p2
    g1 = g1
    g2 = g2
    a1 = a1
    owner = owner
    member = member
    Absent = Absent
    Processes = {p1}
    Remote = {p1}
    Names = {g1, g2, a1}
    Groups = {g1, g2}
    Owner = owner
    Senders = {owner, member}
    GroupTexts <- MCGroupTexts
    PrivateTexts <- MCPrivateTexts
    MaxCommands = 1
SPECIFICATION Spec
INVARIANTS
    RuntimeManagesNoGroup
