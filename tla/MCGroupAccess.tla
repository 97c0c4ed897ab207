-------------------------- MODULE MCGroupAccess --------------------------
(* Small instances of GroupAccess: two groups, one more name.            *)
EXTENDS GroupAccess, TLC

CONSTANTS p1, p2, g1, g2, a1, owner, member

Text(mention, slashes, gap, words) ==
    [mention |-> mention, slashes |-> slashes, gap |-> gap, words |-> words]

Command(words) == Text(FALSE, 1, FALSE, words)

\* The owner's commands on every name, the groups also under every alias, spelled
\* in several ways, and texts that only look like them.
MCPrivateTexts ==
    UNION {
        {Command(<<"group", "approve", n>>) : n \in Names},
        {Command(<<"group", "approve", n, a>>) : n \in Groups, a \in Names},
        {Command(<<"Group", "reset", n>>) : n \in Names},
        {Text(FALSE, 2, FALSE, <<"group", "disable", n>>) : n \in Names},
        {Command(<<"group", "list">>), Command(<<"group", "approve">>),
         Text(FALSE, 1, TRUE, <<"GROUP", "disable", a1>>),
         Command(<<"approve", a1>>),
         Text(TRUE, 1, FALSE, <<"group", "disable", a1>>),
         Text(FALSE, 0, FALSE, <<"group", "disable", a1>>)}}

MCGroupTexts ==
    {Text(TRUE, 0, FALSE, <<"hello">>), Text(FALSE, 0, FALSE, <<"hello">>),
     Text(TRUE, 1, FALSE, <<"QA", "Status">>),
     Text(TRUE, 1, FALSE, <<"group", "approve", g1>>),
     Text(TRUE, 1, FALSE, <<"group", "disable", g2>>),
     Command(<<"help">>), Text(FALSE, 0, FALSE, <<>>)}

\* No property tells the groups apart.
GroupSymmetry == Permutations(Processes) \cup Permutations(Groups)

=============================================================================
