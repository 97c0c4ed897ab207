---------------------------- MODULE GroupAccess ----------------------------
(***************************************************************************)
(* Group QA of gateway.py over the table wechat_groups of stores.py: the   *)
(* owner's /group commands and the questions asked in a group.             *)
(*                                                                         *)
(* Each method of BridgeStore and each call of the controller client is    *)
(* one action; between two of them other bridge processes read and write   *)
(* the same table, and a process can die.  Approving a group starts a seed *)
(* run under the idempotency key "group-approve:<alias>": the controller   *)
(* has one run, and one session, per key for good, so a session is named   *)
(* here by the alias its key was made of.                                  *)
(***************************************************************************)
EXTENDS CommandParser, FiniteSets

CONSTANTS
    Processes,     \* bridge processes that call Gateway.handle
    Remote,        \* those of them that are OpeniLink runtimes; the others run
                   \*   the local simulator
    Names,         \* group ids and group aliases: both are free strings
    Groups,        \* the ids of groups that have members
    Absent,        \* NULL, no row, no argument
    Owner,         \* a sender in owner_user_ids
    Senders,
    GroupTexts,    \* what is written in groups
    PrivateTexts,  \* what is written to the bridge in private chats
    MaxCommands    \* bound: the owner's commands that change a group

ASSUME GroupAssumption ==
    /\ Remote \subseteq Processes
    /\ Groups \subseteq Names
    /\ Absent \notin Names
    /\ \A t \in PrivateTexts :
          LET parsed == ParseCommand(t, "private")
          IN  parsed.kind \in {"GROUP_APPROVE", "GROUP_RESET", "GROUP_DISABLE"} =>
                 parsed.args \in Seq(Names) \ {<<>>}
    /\ MaxCommands \in Nat

VARIABLES
    alias,      \* column group_alias of each group_id (UNIQUE); Absent: no row
    status,     \* column status
    session,    \* column qa_session_id
    run,        \* controller: the seed run of each alias's key
    pc,         \* process: the next call
    op,         \* process: what the text asks for
    ref,        \* process: group_ref, or conversation_id in a group
    gid,        \* process: group_id
    ali,        \* process: group_alias
    ses,        \* process: qa_session_id, or result.session_id
    overtaken,  \* observation: processes whose group was changed by another
                \*   since they read it
    verdict,    \* observation: the owner's last decision on each group_id
    excused,    \* observation: group_ids activated by an overtaken process
                \*   against that decision
    served,     \* observation: the group_ids each session was activated for
    commands    \* bound

table    == <<alias, status, session>>
locals   == <<op, ref, gid, ali, ses>>
observed == <<overtaken, verdict, excused, served>>
vars     == <<table, run, pc, locals, observed, commands>>

Optional == Names \cup {Absent}

Terminal == {"completed", "failed", "cancelled"}

RunStates == {"none", "live"} \cup Terminal

Init ==
    /\ alias = [i \in Names |-> Absent]
    /\ status = [i \in Names |-> "pending"]
    /\ session = [i \in Names |-> Absent]
    /\ run = [a \in Names |-> "none"]
    /\ pc = [p \in Processes |-> "idle"]
    /\ op = [p \in Processes |-> "none"]
    /\ ref = [p \in Processes |-> Absent]
    /\ gid = [p \in Processes |-> Absent]
    /\ ali = [p \in Processes |-> Absent]
    /\ ses = [p \in Processes |-> Absent]
    /\ overtaken = {}
    /\ verdict = [i \in Names |-> "none"]
    /\ excused = {}
    /\ served = [a \in Names |-> {}]
    /\ commands = 0

-----------------------------------------------------------------------------
(* Statements.                                                             *)

Goto(p, from, to) == pc[p] = from /\ pc' = [pc EXCEPT ![p] = to]

\* The handler returns or raises: its locals are gone.
Clear(p) ==
    /\ op' = [op EXCEPT ![p] = "none"]
    /\ ref' = [ref EXCEPT ![p] = Absent]
    /\ gid' = [gid EXCEPT ![p] = Absent]
    /\ ali' = [ali EXCEPT ![p] = Absent]
    /\ ses' = [ses EXCEPT ![p] = Absent]

Ends(p, from) == Goto(p, from, "idle") /\ Clear(p)

\* It returns without another write.
Returns(p, from) ==
    /\ Ends(p, from)
    /\ overtaken' = overtaken \ {p}
    /\ UNCHANGED <<table, run, verdict, excused, served, commands>>

Holds(i, a) == alias[i] = a

\* Some group other than i has alias a.
Taken(a, i) == \E j \in Names \ {i} : Holds(j, a)

\* Past the look-up whose answer the rest of the handler relies on.
Informed == {"record", "seed", "wait", "activate", "enroll", "check", "ask"}

\* The processes that read what a write of row i, under alias a, changes.
ReadersOf(i, a) ==
    {q \in Processes :
        /\ pc[q] \in Informed
        /\ gid[q] = i \/ ali[q] \in {alias[i], a} \ {Absent}}

\* Process p writes row i.
Overtakes(p, i, a) == overtaken' = (overtaken \cup ReadersOf(i, a)) \ {p}

Decide(i, decision) ==
    /\ verdict' = [verdict EXCEPT ![i] = decision]
    /\ excused' = excused \ {i}

-----------------------------------------------------------------------------
(* BridgeStore.                                                            *)

\* Mutant: a group that is known already keeps its session.
RecordPendingMutant(i, a) ==
    /\ alias' = [alias EXCEPT ![i] = a]
    /\ IF Holds(i, Absent)
       THEN /\ status' = [status EXCEPT ![i] = "pending"]
            /\ session' = [session EXCEPT ![i] = Absent]
       ELSE UNCHANGED <<status, session>>

\* record_pending_group: insert, or on the same group_id update.  A second row
\* with the alias violates UNIQUE; the caller tests Taken.
RecordPending(i, a) ==
    /\ alias' = [alias EXCEPT ![i] = a]
    /\ status' = [status EXCEPT ![i] = "pending"]
    /\ session' = [session EXCEPT ![i] = Absent]

\* _set_group_status: UPDATE ... WHERE group_alias = a.
SetStatus(a, value, s) ==
    /\ status' = [i \in Names |-> IF Holds(i, a) THEN value ELSE status[i]]
    /\ session' = [i \in Names |-> IF Holds(i, a) THEN s ELSE session[i]]
    /\ UNCHANGED alias

-----------------------------------------------------------------------------
(* Gateway.handle.                                                         *)

Operation == [GROUP_APPROVE |-> "approve", GROUP_RESET |-> "reset",
              GROUP_DISABLE |-> "disable"]

\* can_use_private_console.
CanUsePrivateConsole(sender) == sender = Owner

\* The owner's /group approve, reset or disable; the other /group commands
\* change nothing.  The OpeniLink runtime answers a text that it takes for a
\* /group command itself.
Manage(p, sender, t) ==
    LET parsed == ParseCommand(t, "private")
    IN  /\ Goto(p, "idle", "find")
        /\ p \in Remote => ~IsGroupManagementCommand(t)
        /\ CanUsePrivateConsole(sender)
        /\ parsed.kind \in DOMAIN Operation
        /\ commands < MaxCommands
        /\ commands' = commands + 1
        /\ op' = [op EXCEPT ![p] = Operation[parsed.kind]]
        /\ ref' = [ref EXCEPT ![p] = parsed.args[1]]
        /\ ali' = [ali EXCEPT ![p] =
                      IF Len(parsed.args) = 2 THEN parsed.args[2] ELSE Absent]
        /\ UNCHANGED <<table, run, gid, ses, observed>>

\* A text in group g; chatter is ignored.  The OpeniLink runtime passes over
\* what is not a private message.
Hear(p, g, t) ==
    LET kind == ParseCommand(t, "group").kind
    IN  /\ Goto(p, "idle", "lookup")
        /\ p \notin Remote
        /\ kind # "GROUP_IGNORED"
        /\ op' = [op EXCEPT ![p] = IF kind = "PLAIN_TEXT" THEN "question" ELSE "command"]
        /\ gid' = [gid EXCEPT ![p] = g]
        /\ UNCHANGED <<table, run, ref, ali, ses, observed, commands>>

Receive(p) ==
    \/ \E s \in Senders, t \in PrivateTexts : Manage(p, s, t)
    \/ \E g \in Groups, t \in GroupTexts : Hear(p, g, t)

-----------------------------------------------------------------------------
(* _find_group: by alias, then by id, in two transactions.                 *)

AfterFind == [approve |-> "owner", reset |-> "reset", disable |-> "disable"]

\* `existing` is row i.  The alias of an approve may be given.
Found(p, i) ==
    /\ gid' = [gid EXCEPT ![p] = i]
    /\ ali' = [ali EXCEPT ![p] = IF @ = Absent THEN alias[i] ELSE @]
    /\ ref' = [ref EXCEPT ![p] = Absent]
    /\ UNCHANGED <<table, run, op, ses, observed, commands>>

FindByAlias(p) ==
    /\ Goto(p, "find", AfterFind[op[p]])
    /\ \E i \in Names : Holds(i, ref[p]) /\ Found(p, i)

MissByAlias(p) ==
    /\ Goto(p, "find", "find_id")
    /\ ~\E i \in Names : Holds(i, ref[p])
    /\ UNCHANGED <<table, run, locals, observed, commands>>

FindById(p) ==
    /\ Goto(p, "find_id", AfterFind[op[p]])
    /\ ~Holds(ref[p], Absent)
    /\ Found(p, ref[p])

\* An approve takes the reference for the id, and for the alias unless one is
\* given.
MissById(p) ==
    /\ Goto(p, "find_id", "owner")
    /\ op[p] = "approve"
    /\ Holds(ref[p], Absent)
    /\ gid' = [gid EXCEPT ![p] = ref[p]]
    /\ ali' = [ali EXCEPT ![p] = IF @ = Absent THEN ref[p] ELSE @]
    /\ ref' = [ref EXCEPT ![p] = Absent]
    /\ UNCHANGED <<table, run, op, ses, observed, commands>>

\* "Unknown group".
UnknownGroup(p) ==
    /\ Returns(p, "find_id")
    /\ op[p] # "approve"
    /\ Holds(ref[p], Absent)

Find(p) ==
    \/ FindByAlias(p) \/ MissByAlias(p)
    \/ FindById(p) \/ MissById(p) \/ UnknownGroup(p)

-----------------------------------------------------------------------------
(* _handle_group_approve.                                                  *)

\* Mutant: the owner of the alias is not looked up.
AliasIsFreeMutant(p) ==
    /\ Goto(p, "owner", "record")
    /\ UNCHANGED <<table, run, locals, observed, commands>>

AliasIsFree(p) ==
    /\ Goto(p, "owner", "record")
    /\ ~Taken(ali[p], gid[p])
    /\ UNCHANGED <<table, run, locals, observed, commands>>

\* "Group alias already exists".
AliasIsTaken(p) ==
    /\ Returns(p, "owner")
    /\ Taken(ali[p], gid[p])

RecordApproved(p) ==
    /\ Goto(p, "record", "seed")
    /\ ~Taken(ali[p], gid[p])
    /\ RecordPending(gid[p], ali[p])
    /\ Overtakes(p, gid[p], ali[p])
    /\ Decide(gid[p], "approved")
    /\ UNCHANGED <<run, locals, served, commands>>

\* cross_thread_start with a new key.
SeedStarts(p) ==
    /\ Goto(p, "seed", "wait")
    /\ run[ali[p]] = "none"
    /\ run' = [run EXCEPT ![ali[p]] = "live"]
    /\ UNCHANGED <<table, locals, observed, commands>>

\* It started, but its answer is lost.
SeedIsLost(p) ==
    /\ Ends(p, "seed")
    /\ run[ali[p]] = "none"
    /\ run' = [run EXCEPT ![ali[p]] = "live"]
    /\ overtaken' = overtaken \ {p}
    /\ UNCHANGED <<table, verdict, excused, served, commands>>

\* The key was used before, and its run is over: _terminal_replay_result.
SeedIsReplayed(p) ==
    /\ Goto(p, "seed", "activate")
    /\ run[ali[p]] \in Terminal
    /\ ses' = [ses EXCEPT ![p] = ali[p]]
    /\ UNCHANGED <<table, run, op, ref, gid, ali, observed, commands>>

\* The cleanup of start_or_send, and its exception.
CancelSeed(p) ==
    /\ run[ali[p]] = "live"
    /\ run' = [run EXCEPT ![ali[p]] = "cancelled"]
    /\ overtaken' = overtaken \ {p}
    /\ UNCHANGED <<table, verdict, excused, served, commands>>

\* The run of the key is still live: no lock_token, so it is cancelled.
SeedIsBusy(p) == Ends(p, "seed") /\ CancelSeed(p)

\* A timeout, or a call after the start that fails.
WaitFails(p) == Ends(p, "wait") /\ CancelSeed(p)

\* Mutant: the result is taken without waiting for the run.
WaitEndsMutant(p) ==
    /\ Goto(p, "wait", "activate")
    /\ ses' = [ses EXCEPT ![p] = ali[p]]
    /\ UNCHANGED <<table, run, op, ref, gid, ali, observed, commands>>

\* cross_thread_wait_any and read_result; the status of the run is not looked at.
WaitEnds(p) ==
    /\ Goto(p, "wait", "activate")
    /\ run[ali[p]] \in Terminal
    /\ ses' = [ses EXCEPT ![p] = ali[p]]
    /\ UNCHANGED <<table, run, op, ref, gid, ali, observed, commands>>

Activate(p) ==
    /\ Ends(p, "activate")
    /\ SetStatus(ali[p], "active", ses[p])
    /\ overtaken' = overtaken \ {p}
    /\ LET activated == {i \in Names : Holds(i, ali[p])}
       IN  /\ excused' = IF p \in overtaken
                         THEN excused \cup {i \in activated : verdict[i] # "approved"}
                         ELSE excused
           /\ served' = [served EXCEPT ![ses[p]] = @ \cup activated]
    /\ UNCHANGED <<run, verdict, commands>>

\* The controller works on the run.
SeedRunEnds(a) ==
    /\ run[a] = "live"
    /\ \E r \in {"completed", "failed"} : run' = [run EXCEPT ![a] = r]
    /\ UNCHANGED <<table, pc, locals, observed, commands>>

Approve(p) ==
    \/ AliasIsFree(p) \/ AliasIsTaken(p) \/ RecordApproved(p)
    \/ SeedStarts(p) \/ SeedIsLost(p) \/ SeedIsReplayed(p) \/ SeedIsBusy(p)
    \/ WaitEnds(p) \/ WaitFails(p) \/ Activate(p)

-----------------------------------------------------------------------------
(* _handle_group_reset and _handle_group_disable, with the id and the      *)
(* alias as they were read.                                                *)

Reset(p) ==
    /\ Ends(p, "reset")
    /\ ~Taken(ali[p], gid[p])
    /\ RecordPending(gid[p], ali[p])
    /\ Overtakes(p, gid[p], ali[p])
    /\ Decide(gid[p], "withdrawn")
    /\ UNCHANGED <<run, served, commands>>

\* Mutant: the row keeps its status, only the session is cleared.
DisableMutant(p) ==
    /\ Ends(p, "disable")
    /\ UNCHANGED table
    /\ overtaken' = overtaken \ {p}
    /\ verdict' = [i \in Names |-> IF Holds(i, ali[p]) THEN "withdrawn" ELSE verdict[i]]
    /\ excused' = excused \ {i \in Names : Holds(i, ali[p])}
    /\ UNCHANGED <<run, served, commands>>

Disable(p) ==
    /\ Ends(p, "disable")
    /\ SetStatus(ali[p], "disabled", Absent)
    /\ LET disabled == {i \in Names : Holds(i, ali[p])}
       IN  /\ overtaken' = (overtaken \cup UNION {ReadersOf(i, ali[p]) : i \in disabled})
                           \ {p}
           /\ verdict' = [i \in Names |-> IF i \in disabled THEN "withdrawn" ELSE verdict[i]]
           /\ excused' = excused \ disabled
    /\ UNCHANGED <<run, served, commands>>

\* UNIQUE(group_alias): sqlite3.IntegrityError.
Conflict(p) ==
    \/ pc[p] \in {"record", "reset"} /\ Taken(ali[p], gid[p]) /\ Returns(p, pc[p])
    \/ Returns(p, "enroll") /\ Taken(gid[p], gid[p])

-----------------------------------------------------------------------------
(* _handle_group.                                                          *)

IsEnabled(i) == status[i] = "active" /\ session[i] # Absent

\* Mutant: only a missing row or an enabled group is told apart.
LookupUnknownMutant(p) ==
    /\ Goto(p, "lookup", "enroll")
    /\ Holds(gid[p], Absent) \/ ~IsEnabled(gid[p])
    /\ UNCHANGED <<table, run, locals, observed, commands>>

LookupUnknown(p) ==
    /\ Goto(p, "lookup", "enroll")
    /\ Holds(gid[p], Absent)
    /\ UNCHANGED <<table, run, locals, observed, commands>>

\* The group is recorded under its own id as alias, with an upsert.
Enroll(p) ==
    /\ Ends(p, "enroll")
    /\ ~Taken(gid[p], gid[p])
    /\ RecordPending(gid[p], gid[p])
    /\ Overtakes(p, gid[p], gid[p])
    /\ Decide(gid[p], "none")
    /\ UNCHANGED <<run, served, commands>>

\* "This group is not enabled", or an answer that needs no run.
LookupAnswers(p) ==
    /\ Returns(p, "lookup")
    /\ ~Holds(gid[p], Absent)
    /\ ~IsEnabled(gid[p]) \/ op[p] = "command"

\* Mutant: the status of the row is not looked at.
LookupQuestionMutant(p) ==
    /\ Goto(p, "lookup", "check")
    /\ ~Holds(gid[p], Absent)
    /\ op[p] = "question"
    /\ ali' = [ali EXCEPT ![p] = alias[gid[p]]]
    /\ ses' = [ses EXCEPT ![p] = session[gid[p]]]
    /\ UNCHANGED <<table, run, op, ref, gid, observed, commands>>

LookupQuestion(p) ==
    /\ Goto(p, "lookup", "check")
    /\ ~Holds(gid[p], Absent)
    /\ IsEnabled(gid[p]) /\ op[p] = "question"
    /\ ali' = [ali EXCEPT ![p] = alias[gid[p]]]
    /\ ses' = [ses EXCEPT ![p] = session[gid[p]]]
    /\ UNCHANGED <<table, run, op, ref, gid, observed, commands>>

\* controller.status: neither locked nor dirty nor to be reconciled.
Ready(p) ==
    /\ Goto(p, "check", "ask")
    /\ UNCHANGED <<table, run, locals, observed, commands>>

NotReady(p) == Returns(p, "check")

\* start_or_send in session ses[p].
Ask(p) == Returns(p, "ask")

Answer(p) ==
    \/ LookupUnknown(p) \/ Enroll(p) \/ LookupAnswers(p) \/ LookupQuestion(p)
    \/ Ready(p) \/ NotReady(p) \/ Ask(p)

-----------------------------------------------------------------------------

\* A call raises without effect, or the process dies: both forget the message.
Fails(p) == pc[p] # "idle" /\ Returns(p, pc[p])

ProcessStep(p) ==
    \/ Receive(p) \/ Find(p) \/ Approve(p) \/ Reset(p) \/ Disable(p)
    \/ Conflict(p) \/ Answer(p) \/ Fails(p)

Next ==
    \/ \E p \in Processes : ProcessStep(p)
    \/ \E a \in Names : SeedRunEnds(a)

Spec == Init /\ [][Next]_vars

-----------------------------------------------------------------------------
(* Properties.                                                             *)

Locations == {"idle", "find", "find_id", "owner", "record", "seed", "wait",
              "activate", "reset", "disable", "lookup", "enroll", "check", "ask"}

\* Every variable stays in its set, no two groups have one alias, and the
\* locals a call uses are set.
TypeOK ==
    /\ alias \in [Names -> Optional]
    /\ status \in [Names -> {"pending", "active", "disabled"}]
    /\ session \in [Names -> Optional]
    /\ run \in [Names -> RunStates]
    /\ pc \in [Processes -> Locations]
    /\ op \in [Processes -> {"none", "approve", "reset", "disable", "question", "command"}]
    /\ ref \in [Processes -> Optional]
    /\ gid \in [Processes -> Optional]
    /\ ali \in [Processes -> Optional]
    /\ ses \in [Processes -> Optional]
    /\ overtaken \subseteq Processes
    /\ verdict \in [Names -> {"none", "approved", "withdrawn"}]
    /\ excused \subseteq Names
    /\ served \in [Names -> SUBSET Names]
    /\ commands \in 0..MaxCommands
    /\ \A i, j \in Names : alias[i] = alias[j] => i = j \/ alias[i] = Absent
    /\ \A p \in Processes :
          /\ pc[p] \in {"find", "find_id"} =>
                ref[p] \in Names /\ op[p] \in {"approve", "reset", "disable"}
          /\ pc[p] \notin {"idle", "find", "find_id"} => gid[p] \in Names
          /\ pc[p] \in {"owner", "record", "seed", "wait", "activate", "reset",
                        "disable", "check", "ask"} => ali[p] \in Names

\* No two groups are enabled with one session: approve, rename, reset and
\* disable may interleave, replay a seed run or overwrite each other.
SessionsDisjoint ==
    \A i, j \in Names :
        IsEnabled(i) /\ IsEnabled(j) /\ session[i] = session[j] => i = j

\* An enabled group has a session whose seed run is over, also when approvals
\* under one alias cancel or repeat each other's seed run.
SeedIsOver == \A i \in Names : IsEnabled(i) => run[session[i]] \in Terminal

\* A group is enabled only while the owner's last decision on it is to approve
\* it: unless the approval was overtaken by another command, its own activation
\* then meets the row the alias belongs to by now.
EnabledIsApproved ==
    \A i \in Names : IsEnabled(i) => verdict[i] = "approved" \/ i \in excused

\* A question on its way to Codex comes from an enabled group and goes to its
\* session, unless the group was changed after the look-up.
QuestionIsCurrent ==
    \A p \in Processes \ overtaken :
        pc[p] \in {"check", "ask"} =>
            IsEnabled(gid[p]) /\ session[gid[p]] = ses[p]

\* An approve meets the UNIQUE constraint only when another process took the
\* alias after the look-up of its owner.
RecordIsClear ==
    \A p \in Processes \ overtaken :
        pc[p] = "record" => ~Taken(ali[p], gid[p])

\* The session of an enabled group is the one of its alias; the others have none.
SessionFollowsAlias ==
    \A i \in Names :
        /\ status[i] = "active" <=> session[i] # Absent
        /\ status[i] = "active" =>
              /\ alias[i] # Absent /\ session[i] = alias[i]
              /\ run[alias[i]] \in Terminal

\* What a process knows from the calls it has made.
LocalsAreTrue ==
    \A p \in Processes :
        /\ pc[p] \in {"owner", "record", "seed", "wait", "activate"} => op[p] = "approve"
        /\ pc[p] = "reset" => op[p] = "reset"
        /\ pc[p] = "disable" => op[p] = "disable"
        /\ pc[p] = "activate" => ses[p] = ali[p] /\ run[ali[p]] \in Terminal
        /\ p \in overtaken => pc[p] \in Informed

\* What it has read or written still stands, unless it was overtaken.
ReadingsStand ==
    \A p \in Processes \ overtaken :
        /\ pc[p] \in {"seed", "wait", "activate"} =>
              Holds(gid[p], ali[p]) /\ verdict[gid[p]] = "approved"
        /\ pc[p] = "enroll" => Holds(gid[p], Absent)

\* The inductive invariant: the properties above follow from it.
IInv ==
    /\ TypeOK
    /\ SessionFollowsAlias
    /\ LocalsAreTrue
    /\ ReadingsStand
    /\ EnabledIsApproved
    /\ QuestionIsCurrent
    /\ RecordIsClear

\* What a group says never changes the row the owner gave it: the upsert of its
\* first message does that only when another process recorded the group between
\* the look-up and the write.
RowsStayTheOwners ==
    \A i \in Names :
        alias[i] # Absent /\ <<alias[i], status[i], session[i]>>'
                               # <<alias[i], status[i], session[i]>> =>
           \E p \in Processes :
              /\ pc'[p] # pc[p]
              /\ \/ op[p] \in {"approve", "reset", "disable"}
                 \/ p \in overtaken

RowsAreTheOwners == [][RowsStayTheOwners]_vars

\* docs/03, section on the safety limits: the runtime answers the private /group
\* commands itself, they do not enter the gateway.
RuntimeManagesNoGroup ==
    \A p \in Remote : op[p] \notin {"approve", "reset", "disable"}

\* What the runtime does keep out is every spelling with one slash and no blank
\* after it.
CommandIsOdd ==
    \A p \in Remote, s \in Senders, t \in PrivateTexts :
        Manage(p, s, t) => t.gap \/ t.slashes # 1

OnlyOddSpellings == [][CommandIsOdd]_vars

\* design 2026-04-28, "Group QA Flow": each approved group gets one independent
\* session.
SessionsStayApart == \A a \in Names : Cardinality(served[a]) <= 1

=============================================================================
