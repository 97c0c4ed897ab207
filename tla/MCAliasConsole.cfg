\* Two processes, one alias that moves between two sessions, every command;
\* histories of one complete row that may be split in two, one setback.
CONSTANTS
    p1 = p1
    p2 = p2
    s1 = s1
    s2 = s2
    a1 = a1
    Absent = Absent
    Processes = {p1, p2}
    Aliases = {a1}
    DefaultAlias = a1
    Commands = {"refresh", "use", "dispatch", "add", "bind"}
    Sessions = {s1, s2}
    MaxLines = 1
    MaxSetbacks = 1
SPECIFICATION Spec
CONSTRAINT OneSubject
SYMMETRY ConsoleSymmetry
INVARIANTS
    OffsetExplained
    RepeatExplained
    ContextExplained
    ArtifactsFollowAlias
    IInv
PROPERTIES
    OffsetStaysWithSession
