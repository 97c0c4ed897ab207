\* The documented isolation of the groups' sessions: one process, three commands.
CONSTANTS
    p1 = p1
    p2 = p2
    g1 = g1
    g2 = g2
    a1 = a1
    owner = owner
    member = member
    Absent = Absent
    Processes = {p1}
    Remote = {}
    Names = {g1, g2, a1}
    Groups = {g1, g2}
    Owner = owner
    Senders = {owner, member}
    GroupTexts <- MCGroupTexts
    PrivateTexts <- MCPrivateTexts
    MaxCommands = 3
SPECIFICATION Spec
INVARIANTS
    SessionsStayApart
