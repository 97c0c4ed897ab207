\* Two processes, two groups, three names, three commands of the owner.
CONSTANTS
    p1 = p1
    p2 = p2
    g1 = g1
    g2 = g2
    a1 = a1
    owner = owner
    member = member
    Absent = Absent
    Processes = {p1, p2}
    Remote = {}
    Names = {g1, g2, a1}
    Groups = {g1, g2}
    Owner = owner
    Senders = {owner, member}
    GroupTexts <- MCGroupTexts
    PrivateTexts <- MCPrivateTexts
    MaxCommands = 3
SPECIFICATION Spec
SYMMETRY GroupSymmetry
INVARIANTS
    SessionsDisjoint
    SeedIsOver
    EnabledIsApproved
    QuestionIsCurrent
    RecordIsClear
    IInv
PROPERTIES
    RowsAreTheOwners
