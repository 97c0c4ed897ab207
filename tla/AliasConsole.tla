---------------------------- MODULE AliasConsole ----------------------------
(***************************************************************************)
(* The alias commands of gateway.py over the tables of stores.py and the   *)
(* reader of refresh.py: /add, /bind, /use, /remove, /refresh and the      *)
(* bookkeeping of a dispatch (artifact_runs, artifacts).                   *)
(*                                                                         *)
(* Every method of BridgeStore is one SQLite transaction and one action,   *)
(* but for upsert_alias, which reads before its transaction begins.        *)
(* The bridge processes (the OpeniLink runtime, the local simulator) share *)
(* data/bridge.sqlite3, so their transactions interleave, and a process    *)
(* can die between two of its own.  The Codex App writes the session       *)
(* history (a JSONL file) at the same time.                                *)
(***************************************************************************)
EXTENDS Integers, Sequences

CONSTANTS
    Processes,     \* bridge processes; each serves one conversation
    Aliases,
    DefaultAlias,  \* the alias of /bind
    Sessions,
    Commands,      \* bound: which of the multi-step commands are given
    Absent,        \* no row, no session, no alias
    MaxLines,      \* bound: physical lines of a history file but its last
    MaxSetbacks    \* bound: processes that die, histories that shrink

ASSUME ConsoleAssumption ==
    /\ DefaultAlias \in Aliases
    /\ Commands \subseteq {"refresh", "use", "dispatch", "add", "bind"}
    /\ Absent \notin Aliases \cup Sessions
    /\ Absent \notin [session : Sessions, offset : Nat]
    /\ MaxLines \in Nat /\ MaxSetbacks \in Nat

\* Complete physical lines, as str.splitlines() delimits them: a user or
\* assistant message, a row that is none (or no JSON), and the pieces of a row
\* whose text holds a separator that is not a line end in JSON (U+2028, U+2029,
\* U+0085): "split" is the last piece of such a message, "half" any other.
Lines == {"text", "noise", "half", "split"}

\* The row being written: nothing yet, not yet JSON, cut inside a UTF-8
\* character, complete but for its line end, or the last piece of a split row.
Tails == {"none", "cut", "torn", "text", "noise", "rest"}

\* Not JSON (json.loads raises).
Unfinished == {"cut", "rest"}

VARIABLES
    row,        \* table thread_aliases: session_id and refresh_offset
    context,    \* table contexts: the active alias of each conversation
    runRow,     \* table artifact_runs: session_id of the alias's latest run
    files,      \* table artifacts: the session_ids of the alias's rows
    history,    \* the complete lines of each session's history file
    tail,       \* its last row, without a line end
    pc,         \* process: the next call on the store or the file
    op,         \* process: the command
    al,         \* process: alias_name
    ses,        \* process: alias.session_id as read, or as given to /add
    old,        \* process: existing["session_id"] in upsert_alias
    off,        \* process: last_seen_line
    nxt,        \* process: result.next_line
    showing,    \* process: the lines in result.summary
    shown,      \* observation: alias: the lines that were in a reply since it
                \*   was last bound
    touched,    \* observation: processes whose alias was rebound or removed
                \*   since they read it, or whose run was on another session
    raced,      \* observation: aliases with an offset stored by such a process
    crossed,    \* observation: aliases with an offset stored over another one
                \*   than the /refresh had read
    dangling,   \* observation: conversations with a context stored by one
    mixed,      \* observation: aliases with artifact rows stored by one
    cutShort,   \* observation: aliases with a reply that never left since then
    rewritten,  \* observation: aliases whose history shrank since then
    raised,     \* observation: a /refresh ended with an exception
    setbacks    \* bound

store    == <<row, context, runRow, files>>
disk     == <<history, tail>>
locals   == <<op, al, ses, old, off, nxt, showing>>
notes    == <<shown, raced, crossed, dangling, mixed, cutShort, rewritten, raised,
              setbacks>>
observed == <<notes, touched>>
vars     == <<store, disk, pc, locals, observed>>

Ops == {"refresh", "use", "dispatch", "add", "bind"}

Init ==
    /\ row = [a \in Aliases |-> Absent]
    /\ context = [p \in Processes |-> Absent]
    /\ runRow = [a \in Aliases |-> Absent]
    /\ files = [a \in Aliases |-> {}]
    /\ history = [s \in Sessions |-> <<>>]
    /\ tail = [s \in Sessions |-> "none"]
    /\ pc = [p \in Processes |-> "idle"]
    /\ op = [p \in Processes |-> "use"]
    /\ al = [p \in Processes |-> Absent]
    /\ ses = [p \in Processes |-> Absent]
    /\ old = [p \in Processes |-> Absent]
    /\ off = [p \in Processes |-> 0]
    /\ nxt = [p \in Processes |-> 0]
    /\ showing = [p \in Processes |-> {}]
    /\ shown = [a \in Aliases |-> {}]
    /\ touched = {} /\ raced = {} /\ crossed = {} /\ dangling = {}
    /\ mixed = {} /\ cutShort = {} /\ rewritten = {}
    /\ raised = FALSE
    /\ setbacks = 0

-----------------------------------------------------------------------------
(* BridgeStore.upsert_alias and remove_alias.                              *)

Goto(p, from, to) == pc[p] = from /\ pc' = [pc EXCEPT ![p] = to]

\* The handler returns: its locals are gone.
Clear(p) ==
    /\ op' = [op EXCEPT ![p] = "use"]
    /\ al' = [al EXCEPT ![p] = Absent]
    /\ ses' = [ses EXCEPT ![p] = Absent]
    /\ old' = [old EXCEPT ![p] = Absent]
    /\ off' = [off EXCEPT ![p] = 0]
    /\ nxt' = [nxt EXCEPT ![p] = 0]
    /\ showing' = [showing EXCEPT ![p] = {}]

Returns(p, from) ==
    /\ Goto(p, from, "idle")
    /\ Clear(p)
    /\ touched' = touched \ {p}

\* The session of an alias, if there is such an alias.
Bound(a) == IF row[a] = Absent THEN Absent ELSE row[a].session

\* Processes in the middle of a command for alias a.
BusyWith(a) == {q \in Processes : pc[q] \notin {"idle", "find"} /\ al[q] = a}

Unobserved == UNCHANGED <<shown, cutShort, rewritten, raised, setbacks>>

\* /add and /bind: the status call before changes nothing.  upsert_alias reads
\* `existing` first; sqlite3 opens the transaction only at the INSERT after it.
SelectExisting(p, a, s, o) ==
    /\ Goto(p, "idle", "upsert")
    /\ o \in Commands
    /\ op' = [op EXCEPT ![p] = o]
    /\ al' = [al EXCEPT ![p] = a]
    /\ ses' = [ses EXCEPT ![p] = s]
    /\ old' = [old EXCEPT ![p] = Bound(a)]
    /\ UNCHANGED <<store, disk, off, nxt, showing, observed>>

AddAlias(p) ==
    \E a \in Aliases, s \in Sessions : SelectExisting(p, a, s, "add")

Bind(p) == \E s \in Sessions : SelectExisting(p, DefaultAlias, s, "bind")

\* Mutant: refresh_offset and the artifact rows survive a new session.
NewSessionMutant(p) == FALSE

\* existing is not None and its session_id is another one.
NewSession(p) == old[p] \notin {Absent, ses[p]}

\* The offset is 0 again: the lines count from here.
Restarted(a) ==
    /\ shown' = [shown EXCEPT ![a] = {}]
    /\ crossed' = crossed \ {a}
    /\ cutShort' = cutShort \ {a}
    /\ rewritten' = rewritten \ {a}

\* The transaction of upsert_alias: insert or update, and for a new session the
\* offset back to 0 and the artifact rows deleted.
UpsertAlias(p) ==
    LET a == al[p]
        changes == Bound(a) # ses[p]
        restarts == NewSession(p) \/ row[a] = Absent
        offset == IF restarts THEN 0 ELSE row[a].offset
    IN  /\ row' = [row EXCEPT ![a] = [session |-> ses[p], offset |-> offset]]
        /\ IF restarts THEN Restarted(a) ELSE UNCHANGED <<shown, crossed, cutShort, rewritten>>
        /\ raced' = IF restarts THEN raced \ {a}
                    ELSE IF changes /\ p \in touched THEN raced \cup {a}
                    ELSE raced
        /\ IF NewSession(p)
           THEN /\ runRow' = [runRow EXCEPT ![a] = Absent]
                /\ files' = [files EXCEPT ![a] = {}]
                /\ mixed' = mixed \ {a}
           ELSE /\ mixed' = IF changes /\ p \in touched THEN mixed \cup {a} ELSE mixed
                /\ UNCHANGED <<runRow, files>>
        /\ touched' = (touched \cup (IF changes \/ restarts
                                     THEN BusyWith(a) ELSE {})) \ {p}
        /\ UNCHANGED <<context, dangling, disk, raised, setbacks>>

AddEnds(p) ==
    /\ Goto(p, "upsert", "idle")
    /\ op[p] = "add"
    /\ UpsertAlias(p)
    /\ Clear(p)

\* /bind goes on with set_active_alias.
BindEnds(p) ==
    /\ Goto(p, "upsert", "use")
    /\ op[p] = "bind"
    /\ UpsertAlias(p)
    /\ UNCHANGED locals

\* Mutant: the contexts that use the alias are not deleted with it.
RemoveAliasMutant(p, a) ==
    /\ pc[p] = "idle"
    /\ row[a] # Absent
    /\ row' = [row EXCEPT ![a] = Absent]
    /\ runRow' = [runRow EXCEPT ![a] = Absent]
    /\ files' = [files EXCEPT ![a] = {}]
    /\ touched' = touched \cup BusyWith(a)
    /\ raced' = raced \ {a}
    /\ mixed' = mixed \ {a}
    /\ Restarted(a)
    /\ UNCHANGED <<disk, pc, locals, context, dangling, raised, setbacks>>

RemoveAlias(p, a) ==
    /\ pc[p] = "idle"
    /\ row[a] # Absent
    /\ row' = [row EXCEPT ![a] = Absent]
    /\ context' = [q \in Processes |-> IF context[q] = a THEN Absent ELSE context[q]]
    /\ runRow' = [runRow EXCEPT ![a] = Absent]
    /\ files' = [files EXCEPT ![a] = {}]
    /\ touched' = touched \cup BusyWith(a)
    /\ raced' = raced \ {a}
    /\ mixed' = mixed \ {a}
    /\ dangling' = dangling \ {q \in Processes : context[q] = a}
    /\ Restarted(a)
    /\ UNCHANGED <<disk, pc, locals, raised, setbacks>>

-----------------------------------------------------------------------------
(* The look-ups a command starts with.                                     *)

\* The alias is an argument, or the active alias of the conversation.
Command(p, a, o) ==
    /\ Goto(p, "idle", "find")
    /\ a \in Aliases
    /\ op' = [op EXCEPT ![p] = o]
    /\ al' = [al EXCEPT ![p] = a]
    /\ UNCHANGED <<store, disk, ses, old, off, nxt, showing, observed>>

NamedCommand(p) == \E a \in Aliases, o \in Commands \ {"add", "bind"} : Command(p, a, o)

ActiveCommand(p) == \E o \in Commands \cap {"refresh", "dispatch"} : Command(p, context[p], o)

Statement == [refresh |-> "offset", use |-> "use", dispatch |-> "run"]

\* get_alias.
FindAlias(p) ==
    /\ Goto(p, "find", Statement[op[p]])
    /\ row[al[p]] # Absent
    /\ ses' = [ses EXCEPT ![p] = Bound(al[p])]
    /\ UNCHANGED <<store, disk, op, al, old, off, nxt, showing, observed>>

UnknownAlias(p) ==
    /\ Returns(p, "find")
    /\ row[al[p]] = Absent
    /\ UNCHANGED <<store, disk, notes>>

\* set_active_alias.
UseAlias(p) ==
    /\ Returns(p, "use")
    /\ context' = [context EXCEPT ![p] = al[p]]
    /\ dangling' = IF p \in touched THEN dangling \cup {p} ELSE dangling \ {p}
    /\ UNCHANGED <<row, runRow, files, disk, raced, crossed, mixed>>
    /\ Unobserved

-----------------------------------------------------------------------------
(* /refresh: Gateway._handle_refresh and read_new_items.                   *)

\* What splitlines() makes of the file.
Physical(s) == history[s] \o (IF tail[s] = "none" THEN <<>> ELSE <<tail[s]>>)

\* Mutant: an unfinished last row counts as read.
NextLineMutant(s, o) == Len(Physical(s))

\* An unfinished last row is left for the next refresh.
NextLine(s, o) ==
    LET count == Len(Physical(s))
    IN  IF tail[s] \in Unfinished /\ o < count THEN count - 1 ELSE count

GetOffset(p) ==
    /\ Goto(p, "offset", "read")
    /\ off' = [off EXCEPT ![p] =
                  IF row[al[p]] = Absent THEN 0 ELSE row[al[p]].offset]
    /\ UNCHANGED <<store, disk, op, al, ses, old, nxt, showing, observed>>

Decodable(p) == tail[ses[p]] # "torn"

\* Mutant: a last row without its line end is shown but not counted.
ReadNewItemsMutant(p) ==
    /\ Goto(p, "read", "set")
    /\ Decodable(p)
    /\ off[p] <= Len(history[ses[p]])
    /\ nxt' = [nxt EXCEPT ![p] = Len(history[ses[p]])]
    /\ showing' = [showing EXCEPT ![p] =
          {i \in (off[p] + 1)..Len(Physical(ses[p])) : Physical(ses[p])[i] = "text"}]
    /\ UNCHANGED <<store, disk, op, al, ses, old, off, observed>>

ReadNewItems(p) ==
    /\ Goto(p, "read", "set")
    /\ Decodable(p)
    /\ off[p] <= Len(Physical(ses[p]))
    /\ LET n == NextLine(ses[p], off[p])
       IN  /\ nxt' = [nxt EXCEPT ![p] = n]
           /\ showing' = [showing EXCEPT ![p] =
                 {i \in (off[p] + 1)..n : Physical(ses[p])[i] = "text"}]
    /\ UNCHANGED <<store, disk, op, al, ses, old, off, observed>>

\* Fewer lines than were seen already: the offset is preserved.
ReadTruncated(p) ==
    /\ Returns(p, "read")
    /\ Decodable(p)
    /\ off[p] > Len(Physical(ses[p]))
    /\ UNCHANGED <<store, disk, notes>>

\* No file, or an OSError: "Unable to read local session history".
ReadUnavailable(p) ==
    /\ Returns(p, "offset") \/ Returns(p, "read")
    /\ UNCHANGED <<store, disk, notes>>

\* read_text raises a UnicodeDecodeError, which is not an OSError.
ReadRaises(p) ==
    /\ Returns(p, "read")
    /\ ~Decodable(p)
    /\ raised' = TRUE
    /\ UNCHANGED <<store, disk, shown, raced, crossed, dangling, mixed, cutShort,
                   rewritten, setbacks>>

SetOffset(p) ==
    /\ Goto(p, "set", "reply")
    /\ IF row[al[p]] = Absent
       THEN UNCHANGED <<row, raced, crossed>>
       ELSE /\ row' = [row EXCEPT ![al[p]].offset = nxt[p]]
            /\ raced' = IF p \in touched THEN raced \cup {al[p]} ELSE raced
            /\ crossed' = IF row[al[p]].offset # off[p] THEN crossed \cup {al[p]}
                                                        ELSE crossed
    /\ off' = [off EXCEPT ![p] = 0]
    /\ UNCHANGED <<context, runRow, files, disk, op, al, ses, old, nxt, showing,
                   touched, dangling, mixed>>
    /\ Unobserved

\* The summary is handed over: into the outbox, or onto the terminal.
Reply(p) ==
    /\ Returns(p, "reply")
    /\ shown' = IF p \in touched THEN shown
                ELSE [shown EXCEPT ![al[p]] = @ \cup showing[p]]
    /\ UNCHANGED <<store, disk, raced, crossed, dangling, mixed, cutShort,
                   rewritten, raised, setbacks>>

-----------------------------------------------------------------------------
(* _dispatch_to_alias after the run: the artifacts of its result.          *)

\* start_or_send returned a result: its session_id is stored, which is that of
\* the controller's answer, if it names one.
RecordArtifactRun(p) ==
    /\ Goto(p, "run", "files")
    /\ \E s \in Sessions :
          /\ runRow' = [runRow EXCEPT ![al[p]] = s]
          /\ ses' = [ses EXCEPT ![p] = s]
          /\ touched' = IF s # ses[p] THEN touched \cup {p} ELSE touched
    /\ mixed' = IF p \in touched' THEN mixed \cup {al[p]} ELSE mixed
    /\ UNCHANGED <<row, context, files, disk, op, al, old, off, nxt, showing,
                   raced, crossed, dangling>>
    /\ Unobserved

\* One row per detected path.
RecordArtifact(p) ==
    /\ Goto(p, "files", "files")
    /\ files' = [files EXCEPT ![al[p]] = @ \cup {ses[p]}]
    /\ mixed' = IF p \in touched THEN mixed \cup {al[p]} ELSE mixed
    /\ UNCHANGED <<row, context, runRow, disk, locals, touched, raced, crossed, dangling>>
    /\ Unobserved

\* No further path, or the controller refused or failed.
DispatchEnds(p) ==
    /\ Returns(p, "files") \/ Returns(p, "run")
    /\ UNCHANGED <<store, disk, notes>>

-----------------------------------------------------------------------------
(* The process dies; the Codex App writes.                                 *)

Crash(p) ==
    /\ pc[p] # "idle"
    /\ setbacks < MaxSetbacks
    /\ setbacks' = setbacks + 1
    /\ Returns(p, pc[p])
    /\ cutShort' = IF pc[p] = "reply" /\ p \notin touched THEN cutShort \cup {al[p]}
                                                             ELSE cutShort
    /\ UNCHANGED <<store, disk, shown, raced, crossed, dangling, mixed, rewritten,
                   raised>>

\* A row is written in pieces.
BeginRow(s) ==
    /\ tail[s] = "none"
    /\ Len(history[s]) < MaxLines
    /\ \E t \in {"cut", "torn"} : tail' = [tail EXCEPT ![s] = t]
    /\ UNCHANGED <<history, store, pc, locals, observed>>

GrowRow(s) ==
    /\ tail[s] \in {"cut", "torn"}
    /\ \E t \in {"cut", "text", "noise"} \ {tail[s]} : tail' = [tail EXCEPT ![s] = t]
    /\ UNCHANGED <<history, store, pc, locals, observed>>

EndRow(s) ==
    /\ tail[s] \in {"text", "noise", "rest"}
    /\ \E line \in IF tail[s] = "rest" THEN {"half", "split"} ELSE {tail[s]} :
          history' = [history EXCEPT ![s] = Append(@, line)]
    /\ tail' = [tail EXCEPT ![s] = "none"]
    /\ UNCHANGED <<store, pc, locals, observed>>

\* The row goes on after a separator of the kind of U+2028 in its text.
SplitRow(s) ==
    /\ tail[s] \in Unfinished
    /\ Len(history[s]) < MaxLines
    /\ history' = [history EXCEPT ![s] = Append(@, "half")]
    /\ tail' = [tail EXCEPT ![s] = "rest"]
    /\ UNCHANGED <<store, pc, locals, observed>>

\* The file is replaced by a shorter one.
Rewrite(s) ==
    /\ history[s] # <<>>
    /\ setbacks < MaxSetbacks
    /\ setbacks' = setbacks + 1
    /\ \E n \in 0..(Len(history[s]) - 1) :
          history' = [history EXCEPT ![s] = SubSeq(@, 1, n)]
    /\ tail' = [tail EXCEPT ![s] = "none"]
    /\ rewritten' = rewritten \cup
          {a \in Aliases : Bound(a) = s}
    /\ UNCHANGED <<store, pc, locals, shown, touched, raced, crossed, dangling,
                   mixed, cutShort, raised>>

Administer(p) ==
    \/ AddAlias(p) \/ Bind(p) \/ AddEnds(p) \/ BindEnds(p)
    \/ \E a \in Aliases : RemoveAlias(p, a)
    \/ UseAlias(p)

Refresh(p) ==
    \/ GetOffset(p) \/ ReadNewItems(p) \/ ReadTruncated(p)
    \/ ReadUnavailable(p) \/ ReadRaises(p) \/ SetOffset(p) \/ Reply(p)

Bookkeeping(p) == RecordArtifactRun(p) \/ RecordArtifact(p) \/ DispatchEnds(p)

App(s) == BeginRow(s) \/ GrowRow(s) \/ EndRow(s) \/ SplitRow(s) \/ Rewrite(s)

ProcessStep(p) ==
    \/ NamedCommand(p) \/ ActiveCommand(p) \/ FindAlias(p) \/ UnknownAlias(p)
    \/ Administer(p) \/ Refresh(p) \/ Bookkeeping(p) \/ Crash(p)

Next ==
    \/ \E p \in Processes : ProcessStep(p)
    \/ \E s \in Sessions : App(s)

Spec == Init /\ [][Next]_vars

-----------------------------------------------------------------------------
(* Properties.                                                             *)

Locations == {"idle", "find", "offset", "read", "set", "reply", "use", "run",
              "files", "upsert"}

\* Every variable stays in its set; a busy process has an alias, and past
\* the first look-up a session.
TypeOK ==
    /\ row \in [Aliases -> {Absent} \cup [session : Sessions, offset : 0..(MaxLines + 1)]]
    /\ context \in [Processes -> Aliases \cup {Absent}]
    /\ runRow \in [Aliases -> Sessions \cup {Absent}]
    /\ files \in [Aliases -> SUBSET Sessions]
    /\ history \in [Sessions -> Seq(Lines)]
    /\ \A s \in Sessions :
          Len(history[s]) <= IF tail[s] = "none" THEN MaxLines + 1 ELSE MaxLines
    /\ tail \in [Sessions -> Tails]
    /\ pc \in [Processes -> Locations]
    /\ op \in [Processes -> Ops]
    /\ al \in [Processes -> Aliases \cup {Absent}]
    /\ ses \in [Processes -> Sessions \cup {Absent}]
    /\ old \in [Processes -> Sessions \cup {Absent}]
    /\ off \in [Processes -> 0..(MaxLines + 1)]
    /\ nxt \in [Processes -> 0..(MaxLines + 1)]
    /\ showing \in [Processes -> SUBSET (1..(MaxLines + 1))]
    /\ shown \in [Aliases -> SUBSET (1..(MaxLines + 1))]
    /\ raised \in BOOLEAN
    /\ setbacks \in 0..MaxSetbacks
    /\ \A p \in Processes :
          /\ pc[p] # "idle" => al[p] \in Aliases
          /\ pc[p] \notin {"idle", "find"} => ses[p] \in Sessions

\* The messages in a history, on one physical line or on several.
Texts ==
    [s \in Sessions |-> {i \in 1..Len(Physical(s)) : Physical(s)[i] = "text"}]

Splits ==
    [s \in Sessions |-> {i \in 1..Len(Physical(s)) : Physical(s)[i] = "split"}]

\* The lines that were in a reply, or are in one on its way.
Seen ==
    [a \in Aliases |->
        shown[a] \cup UNION {showing[p] : p \in {q \in Processes \ touched :
                                               pc[q] = "reply" /\ al[q] = a}}]

\* The messages at or below the stored offset that no reply holds.
Unshown(a) ==
    LET s == row[a].session
    IN  ((Texts[s] \cup Splits[s]) \cap 1..row[a].offset) \ Seen[a]

\* The ways an offset can run ahead of what was shown.
Excused == raced \cup cutShort \cup rewritten

\* /refresh moves the offset past a message only when a reply shows it, also
\* with concurrent refreshes of one alias, rebinding, and rows caught half
\* written: except after a rebind in the middle of a /refresh or of another
\* upsert_alias, a process that died between set_refresh_offset and its reply,
\* or a history that shrank; and except for messages that splitlines() splits,
\* which are never shown (MessagesAreShown says what is promised of them).
OffsetExplained ==
    \A a \in Aliases :
        row[a] # Absent => Unshown(a) \subseteq Splits[row[a].session] \/ a \in Excused

\* docs/01, section 4: the messages of the rows after refresh_offset are sent
\* back when the offset moves past them; with no accident to excuse it, all of
\* them are.
MessagesAreShown ==
    \A a \in Aliases : row[a] # Absent /\ a \notin Excused => Unshown(a) = {}

\* A conversation's active alias exists, unless it was removed between the
\* look-up and the write of one /use or /bind.
ContextExplained ==
    \A p \in Processes :
        context[p] # Absent => row[context[p]] # Absent \/ p \in dangling

\* The artifact rows kept under an alias come from the session it is bound to,
\* and a removed alias has none, unless it changed while a run or another
\* /add was under way, or the controller answered for another session.
ArtifactsFollowAlias ==
    \A a \in Aliases \ mixed :
        /\ files[a] \subseteq {Bound(a)}
        /\ runRow[a] \in {Bound(a), Absent}

\* The process brings the reply of a /refresh under alias a.
Shows(p, a) == p \notin touched /\ pc[p] = "reply" /\ al[p] = a

\* /refresh shows no message twice under one binding of an alias, also when the
\* last row was caught half written or a process died: except when two of them
\* overlapped and one stored its offset over the other one's.
RepeatExplained ==
    \A a \in Aliases \ crossed, p \in Processes :
        Shows(p, a) =>
            /\ showing[p] \cap shown[a] = {}
            /\ \A q \in Processes \ {p} :
                  Shows(q, a) => showing[p] \cap showing[q] = {}

\* A step that changes the row of an alias binds it to a new session, at offset
\* 0, or is that of a process that works on the alias, for the session of the
\* row unless it was touched.
RowStays(a) ==
    row[a] # Absent /\ row'[a] # Absent /\ row[a] # row'[a] =>
        \/ row'[a].session # row[a].session /\ row'[a].offset = 0
        \/ \E p \in Processes :
              /\ pc[p] \in {"set", "upsert"} /\ pc'[p] # pc[p] /\ al[p] = a
              /\ \/ p \in touched
                 \/ row'[a].session = row[a].session /\ ses[p] = row[a].session

\* The offset of an alias moves only with a /refresh of its own session, and a
\* new session starts at 0, unless another process rebound the alias between
\* the look-up and the write.
OffsetStaysWithSession == [][\A a \in Aliases : RowStays(a)]_vars

\* An untouched process works on the session its alias is bound to.
SessionIsCurrent ==
    \A p \in Processes \ touched :
        pc[p] \notin {"idle", "find", "upsert"} =>
            Bound(al[p]) = ses[p]

\* What upsert_alias has read still stands, unless the alias was touched.
ExistingIsCurrent ==
    \A p \in Processes \ touched :
        pc[p] = "upsert" => old[p] = Bound(al[p])

\* The lines that are written to their end.
Finished ==
    [s \in Sessions |->
        Len(history[s]) + IF tail[s] \in {"text", "noise"} THEN 1 ELSE 0]

\* An offset that counts finished lines only, with its messages seen.
Covered(s, n, seen) == n <= Finished[s] /\ Texts[s] \cap 1..n \subseteq seen

\* The stored offset, the one a /refresh has read, and the one it will store.
StoredIsCovered ==
    \A a \in Aliases :
        row[a] # Absent /\ a \notin Excused => Covered(row[a].session, row[a].offset, Seen[a])

ReadIsCovered ==
    \A p \in Processes \ touched :
        pc[p] = "read" /\ al[p] \notin Excused => Covered(ses[p], off[p], Seen[al[p]])

NextIsCovered ==
    \A p \in Processes \ touched :
        pc[p] = "set" /\ al[p] \notin Excused =>
            Covered(ses[p], nxt[p], Seen[al[p]] \cup showing[p])

\* What was seen is at or below the stored offset, unless that was stored over
\* another one.
SeenIsCounted ==
    \A a \in Aliases \ crossed :
        Seen[a] \subseteq 1..(IF row[a] = Absent THEN 0 ELSE row[a].offset)

\* A /refresh shows what lies between the offset it has read and the next one.
ShowingIsNew ==
    \A p \in Processes :
        pc[p] = "set" => off[p] <= nxt[p] /\ showing[p] \subseteq (off[p] + 1)..nxt[p]

\* The inductive invariant.
IInv ==
    /\ TypeOK
    /\ \A p \in Processes : pc[p] = "find" => op[p] \in DOMAIN Statement
    /\ SessionIsCurrent
    /\ ExistingIsCurrent
    /\ ContextExplained
    /\ ArtifactsFollowAlias
    /\ StoredIsCovered
    /\ ReadIsCovered
    /\ NextIsCovered
    /\ SeenIsCounted
    /\ ShowingIsNew
    /\ RepeatExplained

\* tests/test_stores.py, test_rebinding_alias_to_new_session_resets_refresh_offset.
RebindingResetsOffset ==
    [][\A a \in Aliases :
         row[a] # Absent /\ row'[a] # Absent /\ row'[a].session # row[a].session
            => row'[a].offset = 0]_vars

\* docs/01, section 4: a history that cannot be read is answered with a text.
RefreshIsAnswered == ~raised

=============================================================================
