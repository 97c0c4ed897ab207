--------------------------- MODULE CommandParser ---------------------------
(***************************************************************************)
(* commands.py: parse_command with its two parsers, and the test of the    *)
(* OpeniLink runtime that keeps /group commands out of the gateway         *)
(* (openilink_runtime.py, _is_group_management_command).                   *)
(*                                                                         *)
(* A text is what the parsers look at: whether it begins with the word     *)
(* @Bot, how many slashes come next, whether a blank follows them, and the *)
(* words after that.                                                       *)
(***************************************************************************)
EXTENDS Naturals, Sequences

Texts(Words) ==
    [mention : BOOLEAN, slashes : Nat, gap : BOOLEAN, words : Seq(Words)]

\* str.lower() on the words that are compared; names are left as they are.
Lower(w) ==
    CASE w \in {"Group", "GROUP"} -> "group"
      [] w \in {"Approve", "APPROVE"} -> "approve"
      [] w \in {"Status", "STATUS"} -> "status"
      [] w \in {"Qa", "QA"} -> "qa"
      [] OTHER -> w

Parsed(kind, args) == [kind |-> kind, args |-> args]

Help == Parsed("HELP", <<>>)

PlainText == Parsed("PLAIN_TEXT", <<>>)

Forbidden == Parsed("GROUP_FORBIDDEN_COMMAND", <<>>)

\* What a command becomes, and with how many arguments; with another number it
\* becomes /help.
Rule(kind, counts) == [kind |-> kind, counts |-> counts]

PrivateRules == [
    add       |-> Rule("ADD_ALIAS", {2}),
    bind      |-> Rule("BIND_COMPAT", {1}),
    use       |-> Rule("USE_ALIAS", {1}),
    list      |-> Rule("LIST_ALIASES", Nat),
    rm        |-> Rule("REMOVE_ALIAS", {1}),
    remove    |-> Rule("REMOVE_ALIAS", {1}),
    status    |-> Rule("STATUS", {0, 1}),
    refresh   |-> Rule("REFRESH", {0, 1}),
    recover   |-> Rule("RECOVER", {1}),
    plan      |-> Rule("PLAN_REVIEW", Nat \ {0}),
    send      |-> Rule("SEND_ONCE", Nat \ {0, 1}),
    artifacts |-> Rule("ARTIFACTS", {0, 1}),
    sendfile  |-> Rule("SEND_FILE", {1}),
    help      |-> Rule("HELP", Nat)]

GroupRules == [
    pending |-> Rule("GROUP_PENDING", {0}),
    list    |-> Rule("GROUP_LIST", {0}),
    approve |-> Rule("GROUP_APPROVE", {1, 2}),
    status  |-> Rule("GROUP_STATUS", {1}),
    reset   |-> Rule("GROUP_RESET", {1}),
    disable |-> Rule("GROUP_DISABLE", {1})]

Apply(rules, words) ==
    LET command == Lower(Head(words))
    IN  IF words # <<>> /\ command \in DOMAIN rules
              /\ Len(Tail(words)) \in rules[command].counts
        THEN Parsed(rules[command].kind, Tail(words))
        ELSE Help

\* The words "qa status".
IsQaStatus(words) ==
    Len(words) = 2 /\ Lower(words[1]) = "qa" /\ Lower(words[2]) = "status"

ParsePrivate(t) ==
    IF t.mention \/ t.slashes = 0 THEN PlainText
    ELSE IF t.words = <<>> THEN Help
    ELSE IF Lower(Head(t.words)) = "group" THEN Apply(GroupRules, Tail(t.words))
    ELSE IF IsQaStatus(t.words) THEN Parsed("GROUP_QA_STATUS", <<>>)
    ELSE Apply(PrivateRules, t.words)

\* Only a question, or /qa status, after @Bot.
ParseGroup(t) ==
    IF ~t.mention
    THEN IF t.slashes > 0 THEN Forbidden ELSE Parsed("GROUP_IGNORED", <<>>)
    ELSE IF t.slashes = 0 THEN PlainText
    ELSE IF IsQaStatus(t.words) THEN Parsed("GROUP_QA_STATUS", <<>>)
    ELSE Forbidden

\* A text without a word is plain text before the mention is looked for.
IsBlank(t) == ~t.mention /\ t.slashes = 0 /\ t.words = <<>>

ParseCommand(t, conversation) ==
    IF IsBlank(t) THEN PlainText
    ELSE IF conversation = "group" THEN ParseGroup(t)
    ELSE ParsePrivate(t)

\* The runtime compares the first word, slash included.
IsGroupManagementCommand(t) ==
    /\ ~t.mention /\ t.slashes = 1 /\ ~t.gap
    /\ t.words # <<>> /\ Lower(Head(t.words)) = "group"

Management == {"GROUP_PENDING", "GROUP_LIST", "GROUP_STATUS", "GROUP_APPROVE",
               "GROUP_RESET", "GROUP_DISABLE"}

=============================================================================
