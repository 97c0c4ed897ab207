# A TLA+ model of CodexThreadBridge

CodexThreadBridge carries private WeChat messages (over the iLink bot API) to
Codex sessions (over a cross-thread controller, an MCP server on stdio) and
carries the answers back. This directory models the parts of it that keep state
across failures or between processes: the loop that polls and replies, the
client that locks, runs and releases sessions, the transport under it, the alias
console and the group QA over the SQLite store, and the command parser in front
of them. TLC checks the models on small instances; TLAPS proves their safety
properties for every size.

Paths such as `openilink_runtime.py:171` are relative to
`src/src/codex_thread_bridge/` (the runtime and the iLink files are in its
`adapters/`).

## The system

    WeChat/iLink server  <--->  openilink_runtime  --->  gateway  --->  controller_client  --->  controller, Codex
                                      |                     |
                                      +---- stores.py ------+---- refresh.py ---- session JSONL (Codex App)
                                        data/bridge.sqlite3
    local simulator  ------------------------------------>  gateway (same store, another process)

| Component | State | Operations | What is hard about it |
|---|---|---|---|
| `adapters/openilink_runtime.py` | cursor, processed marks, outbox, delivery states (keys of `runtime_state`) | `process_one_batch`, `run_forever` | a crash between any two writes, uncertain sends, repeated updates, exceptions in the middle of a batch |
| `adapters/ilink_client.py`, `ilink_events.py` | context tokens per conversation | `get_updates`, `send_text`, `map_update_batch` | which failure means "not sent" and which means "unknown" |
| `controller_client.py` | run id, lock token of one operation; the controller holds runs and locks | `start_or_send`, `recover_session`, `status` | lost answers, failing cleanup, two processes on one session, locks left behind |
| `_StdioJsonRpcTransport` (same file) | child process, request id, read buffer | `request`, `notify`, `close` | partial frames, late answers, deadline |
| `gateway.py`, private console | none of its own | 15 commands and plain text | reads a row, acts, writes the row: another process may write between |
| `gateway.py`, group QA | `wechat_groups` | message, approve, reset, disable | aliases, group ids and idempotency keys that are reused |
| `stores.py` | `thread_aliases`, `contexts`, `artifact_runs`, `artifacts`, `wechat_groups`, `runtime_state`, `events` | one SQLite transaction per method | `upsert_alias` reads before its transaction begins |
| `refresh.py` | none | `read_new_items` | the file grows and shrinks while it is read |
| `artifacts.py` | none | `detect` | file times, files that vanish |
| `adapters/ilink_auth.py` | credentials file | QR login | deadline of a polling loop |
| `policy.py`, `commands.py`, `config.py`, `models.py` | none | pure functions | - |
| `adapters/local.py`, `openilink.py`, `wechat_channel.py` | none | read loop, conversions, a port | the simulator runs beside the runtime on one store |

Each process is sequential: there are no threads. Concurrency comes from several
processes. The runtime and the local simulator open the same
`<project_root>/data/bridge.sqlite3` and nothing keeps a second runtime from
being started; the controller, the iLink server and the Codex App run on their
own.

What makes each component correct:

- *runtime*: no update is lost by a restart; no reply is dropped without a
  report; a command runs once, a reply leaves once, unless a batch was cut short;
  order is kept; everything is settled in the end.
- *controller client*: whatever fails, only what the failed call itself left
  stays at the controller; a recovery that gives the lock back has cleaned the
  runs its listing let it take up; locks are not held forever.
- *transport*: the stream of frames is never torn; an answer that came in time is
  returned; a request never gets the answer of another one; every request ends.
- *group QA*: two enabled groups never have one session; a group is enabled only
  while the owner's last word on it is to approve it; a question goes to the
  session its group has; what is said in a group changes nothing of its row.
- *parser*: nothing written in a group is a management command; the gate of the
  runtime and the parser of the gateway are meant to agree on which private texts
  are, and do but for `//group` and `/ group` (`MCGroupSpelling`).
- *alias console*: `/refresh` skips no message, except those that `splitlines()`
  splits (`MCAliasSplit`), and shows none twice; an active alias exists; the
  artifacts listed under an alias are those of its session.

The hazards behind these properties are listed, line by line, under `hazards` in
`PROJECT.json`.

## Modules

| Module | Models | Lines of thought |
|---|---|---|
| `OpenilinkRuntime` | `process_one_batch`, `run_forever`, and what the server and the gateway can answer | one action per store transaction and per remote call; `pc` is the next statement |
| `ReplyLedger` | nothing in the code: what the runtime promises about one reply | `stage`, `copies`, `warned` per message |
| `OpenilinkRefinement` | the refinement mapping | `stage` is read off the three store keys and `pc` |
| `OpenilinkProofs` | theorems of `OpenilinkRuntime` | inductive invariant `IInv` |
| `RefinementProofs` | `OpenilinkRuntime` implements `ReplyLedger` | the step simulation |
| `ControllerClient` | `start_or_send`, `_close_and_release`, `_cleanup_started_run`, `recover_session`, the status check before a dispatch; the controller's locks and runs | one action per tool call, with three outcomes |
| `ControllerProofs` | theorems of `ControllerClient` | inductive invariants `IInv` of `start_or_send` and `RecoveryInv` of `recover_session` |
| `RunLedger` | nothing in the code: what the client promises about each run | `stage` of a run, the calls it still `needs`, those that failed (`excused`) |
| `ControllerRefinement` | the refinement mapping | `needs` is read off the controller, `stage` off the clients' `pc` and `key` |
| `RunLedgerProofs` | `ControllerClient` implements `RunLedger` | the step simulation |
| `JsonRpcTransport` | `_StdioJsonRpcTransport` and its child process | one action per way out of the loop of `_read_response`; a frame is two pieces |
| `RequestLedger` | nothing in the code: what the transport promises about each request | `fate` of a request, the requests the server took up and in which order, whether it is there |
| `TransportProofs` | theorems of `JsonRpcTransport` | inductive invariant `IInv`; the step simulation of `RequestLedger` |
| `AliasConsole` | `/add`, `/bind`, `/use`, `/remove`, `/refresh`, artifact rows of a dispatch; the session history | one action per store transaction and per read of the file |
| `AliasProofs` | theorems of `AliasConsole` | inductive invariant `IInv`, kept action by action |
| `CommandParser` | `parse_command`, both of its parsers; the runtime's own `/group` test | functions of a text; no state |
| `GroupAccess` | the first message of a group, its questions, `/group approve`, `reset`, `disable`, and the gate of the runtime before them (`Remote`); it gets its commands from `CommandParser` | one action per store method and per controller call |
| `GroupProofs` | theorems of `GroupAccess` and `CommandParser` | inductive invariant `IInv` |
| `MC*` | small instances | |

`ControllerClient`, `AliasConsole` and `GroupAccess` are parts of one gateway call;
in `OpenilinkRuntime` that call is the statement `handle`, whose outcomes are a
reply, an empty reply, a controller error, or an exception. They are composed by
that interface and not in one state space: the runtime looks at nothing but the
outcome, none of them reads the runtime's keys, and `thread_aliases` and
`wechat_groups` share no column. A tool call of `ControllerClient` is a request of
`JsonRpcTransport`; its three outcomes are those of `RequestLedger`: answered,
raised and taken up by the server, raised and not taken up. `ControllerClient`
lets a call that raised take effect at that moment or never. The server may be
slower than that, and the ledger says how slow: it takes a request up before every
later one, so the effect comes before that of the client's next call; and when it
is gone it takes up nothing more and every request raises, which is `broken`.

### OpenilinkRuntime

`log` is the server's list of updates (a message may be in it more than once),
`kind` what each message is. `cursor`, `processed`, `outbox`, `delivery` are the
keys of `runtime_state`, `events` the rows of the events table. `pc`, `idx`,
`batchEnd`, `reply` are where `process_one_batch` is. `executed`, `received` and
`setbacks` only observe: how often the gateway was given a message, how often the
server took a reply to it, and how many batches did not run to their end.

- `Fetch` is lines 60-62: the server returns any prefix of what follows the
  cursor; malformed updates are recorded before the loop starts. The records of
  one batch are written in one step; a crash between two of them repeats the
  fetch and is the crash before it, but for a record too many.
- A poll that fails or times out changes nothing and is a stuttering step.
- `SkipUnmapped` ... `FindCommand` are the tests at the head of the loop, in
  their order.
- `RecordEvent`, `MarkProcessed` and `SetDelivery` are the writes for the message
  at hand, with the statement before and the statement after; every use of one
  is a step of its own. `Recovered`, `Ignored`, `Handled`, `Sent`, `Interrupted`
  and `Failed` list the writes of one branch in their order: the three of
  `Recovered` are lines 75-83.
- `HandleRaises` is an exception of the gateway that is not a controller error: a
  `ValueError` ends the process, the rest is retried after a sleep.
- `SendFails` is a terminal error. It may come with an answer whose `ret` is no
  integer (`ilink_client.py:210`), so the reply may have arrived.
- `SendSucceeds` is an answer with `ret` 0, or without `ret` and without an error
  message (`ilink_client.py:203-204`; `test_send_text_accepts_real_ilink_response_without_ret`
  has such an answer from the real server). What the server then did with the
  reply is its own: that it took it is an assumption of the model about code that
  is not here, and `SentWasReceived` rests on it. The last paragraph of `docs/03`
  still calls a missing `ret` a terminal error.
- `AbortBatch` is a store call that raises (the database is locked),
  `KeepCursor` an answer without `get_updates_buf`, `Crash` the end of the
  process at any point, `Restart` its next start.

### ControllerClient

The controller is external. The model takes from the client's own use of it: a
session has one lock with a token; one idempotency key has one run; a repeated
key is answered with that run and without a token; a wrong token is refused;
`force_recover` takes the lock over; a lease ends.

Every call has three outcomes: it takes effect and answers (`Answers`), it takes
effect and its answer is late, lost or malformed (`AnswerLost`), it raises
without effect (`CallFails`). After either of the last two the controller process
may be gone for the rest of the operation (`broken`), as the transport starts one
process per operation. `mishap` notes which call of a key had no known effect,
`botched` where a recovery broke off, `passed` which runs that went on a recovery
was not told of; the invariants are stated against these notes.

A start whose answer has the run but no token (`StartTokenless`) goes to the
cleanup, which then has no lock to give back; it is noted as a `start`.

`snap` is what `cross_thread_list_runs` answered, field by field as the loop of
`recover_session` looks at it. The loop takes up any part of the session's runs
(`runs`), for these reasons: `runs` is no list, and the loop is empty; the answer
ends at the limit of 100; an entry is no object or has no `run_id`; its status is
neither `in_progress` nor terminal. The model does not ask which reason it was. A
run marked `transferred_to` (`moved`) gets no delivery ack. `CallFor` is the order
of the calls for one run, decided on the listing, while the runs go on changing.
After the loop the lock is given back, whatever was in the list.

### AliasConsole

A process works on one command at a time and keeps what it has read: the
session (`ses`), the offset (`off`), the existing row (`old`). `touched` notes
that the alias was rebound or removed since; `crossed` the aliases whose offset was written over
another one than the `/refresh` had read. `upsert_alias` is two actions,
`SelectExisting` and `UpsertAlias`: Python's sqlite3 opens the transaction at the
first INSERT, so the SELECT before it is not part of it.

A history is a sequence of complete lines as `str.splitlines` sees them and a
`tail`, the row being written. `half` is one piece of a message whose text holds
U+2028, U+2029 or U+0085, and `split` the last one: no piece is JSON, so
`next_line` moves past all of them and the message is never shown. `cut` and
`torn` are unfinished rows, the second one ending inside a UTF-8 character.

`RecordArtifactRun` stores the session of the controller's answer, which need not
be the one the alias was read with.

### JsonRpcTransport

The stdin of the child (`inbox`), what it took up and answered, and its stdout
(`pipe`) are external. A frame is written in two pieces, so that a read, a
deadline or an exit can fall into the middle of it. `buffer` is `_stdout_buffer`;
`pc = "empty"` is the point between a read that found nothing and `poll`, where
the child may still write, close its stdout or exit. The child answers in any
order and any time, answers with an error or without a result, and writes
notifications, blank lines and lines that are no JSON on its own account. `late`
is the deadline of the open request; the caller goes on with its clean-up after
any exception, so the answers of requests it gave up reach later requests.

### CommandParser and GroupAccess

A text is what the parsers look at: a leading `@Bot`, the number of slashes, a
blank after them, the words. `GroupAccess` applies `ParseCommand` to the texts it
is given; `Receive` and `Find` are the tests of policy and arguments, and the
look-up of the group by its alias and then by its id. The processes in `Remote`
are OpeniLink runtimes: they keep a text that `IsGroupManagementCommand` to
themselves (`openilink_runtime.py:91`, `:106`, `:265`), and the rest of them goes
to the gateway; the other processes are local simulators, which have no such gate.
A gate takes behaviours away and adds none, so `MCGroupAccess` and `MCGroupShared`
have it nowhere.

A group message without `@Bot` is ignored (`docs/01:164`), but one without a word
is not: `commands.py:251` makes plain text of it before it looks for the mention,
and it is dispatched as an empty question. `IsBlank` is that text; the theorem
`UnmentionedIsBlank` says that there is no other.

`alias`, `status` and `session` are the columns of `wechat_groups`. Each method of
`BridgeStore` is one action here: the writes (`record_pending_group`,
`activate_group`, `reset_group`, `disable_group`) are upserts or updates that begin
their transaction with the write. `record` may meet the UNIQUE constraint on the
alias, which raises. The seed run of an approval has the key
`group-approve:<alias>`; the controller keeps one run and one session per key for
good, so a session is named after that alias. `overtaken` notes that another
process changed the group, or took its alias, since this one read it; `verdict` is
the owner's last decision about a group, `served` which groups a session was
activated for. The controller may be slow, refuse, fail or be replayed while other
processes go on.

## Runs

Passing:

| Run | Checks | Instance |
|---|---|---|
| `MCOpenilinkRuntime` | `CursorBehindWork`, `NoSilentLoss`, `SentWasReceived`, `RepeatsNeedSetbacks`, `IInv`, `AnsweredIsFinal`, `ResendsNeedSetbacks`, `HandledInOrder`, `ImplementsLedger`, `Progress` | 2 messages, 3 updates, 2 setbacks |
| `MCControllerClient` | `LeftoversExplained`, `RecoveryLockExplained`, `ReturnedIsClean`, `OneLiveRun`, `RecoveryInv`, `RecoveryIsComplete`, `ImplementsRunLedger`, `LockIsReleased` | 2 processes, 2 messages to 1 session (one of them comes twice), 1 `/recover`, 1 fault |
| `MCJsonRpcTransport` | `Framed`, `InTimeIsAnswered`, `IInv`, `ImplementsRequests`, `RequestEnds` | 3 requests, 2 pieces in the pipe |
| `MCAliasConsole` | `OffsetExplained`, `RepeatExplained`, `ContextExplained`, `ArtifactsFollowAlias`, `IInv`, `OffsetStaysWithSession` | 2 processes, 1 alias, 2 sessions, 1 line and a tail, 1 setback |
| `MCGroupAccess` | `SessionsDisjoint`, `SeedIsOver`, `EnabledIsApproved`, `QuestionIsCurrent`, `RecordIsClear`, `IInv`, `RowsAreTheOwners` | 2 processes, 2 groups and one more name (as an alias, and as a group the owner only names), 3 commands of the owner |

The type invariant `TypeOK` of each module is the first conjunct of its `IInv`,
and `IInv` one of `RecoveryInv`, so every run that checks one of these checks the
types as well.

Runs that end in a violation, each stating what a text of the repository says:

| Run | Property | What happens |
|---|---|---|
| `MCOpenilinkResend` | `UnknownIsNotResent` | crash between UNKNOWN and the processed mark: the uncertain reply is sent again (`docs/03`: it is not) |
| `MCControllerLockLeak` | `CleanupAfterLock` | the answer to `cross_thread_start` is lost: no cleanup, the lock stays until its lease ends (design of 2026-04-29: the cleanup must run) |
| `MCAliasRebind` | `RebindingResetsOffset` | two processes rebind one alias; the second keeps the old offset (`tests/test_stores.py:107`: it is 0) |
| `MCAliasUnreadable` | `RefreshIsAnswered` | a history that ends inside a character raises (`docs/01`: an answer is given) |
| `MCAliasSplit` | `MessagesAreShown` | a message that holds U+2028, U+2029 or U+0085 is passed over and never shown (`docs/01:228`: the new user and assistant texts are sent back) |
| `MCGroupSpelling` | `RuntimeManagesNoGroup` | `//group approve` and `/ group approve` pass the gate of the runtime and are carried out (`docs/03:94`, `:105`: such commands do not enter the gateway) |
| `MCGroupShared` | `SessionsStayApart` | a group approved under the alias another group had before gets that group's session, with its history (design of 2026-04-28: one independent session per group) |

### Bounds

`MaxSetbacks`, `MaxFaults`, `MaxTries` (for each key) and `MaxRecovers` bound what
would recur for ever; the actions that count them name them in their guards. `LogLength` is
the size of the log, not a cut: the runtime stops there because there is nothing
more. Three updates of two messages contain a repeated message, a repeat in the
same and in a later batch, and an update behind one that failed. Two setbacks are
a crash during the recovery from a crash; the proofs carry the safety properties
to any number of each. `InitFromFirst` lets the log begin with one of the two
messages, which are interchangeable. Two processes on one session with
a fault contain a cleanup that fails while another process starts, a message that
comes again after a lost start or a crash, and a recovery that breaks off, or is
told of part of the runs only, while a run goes on. `MaxLines` counts the complete
lines of a history; with one of them and a tail a row can follow another one, be
split, be caught half written and shrink away. The constraint `OneSubject` of
`MCAliasConsole` keeps a behaviour to one of two subjects: histories and
refreshes, or contexts and artifact rows. The two write to tables of their own and
meet in the row of the alias only, which `/add`, `/bind` and `/remove` change in
either; the proofs have no such restriction. `Commands` leaves out of a violation
run the commands it is not about. Three requests are one
that is given up, one that meets its late answer, and one after that; a pipe of
two pieces fills up. Three commands of the owner are an approval, a second one
that renames the group or gives its alias away, and a third one that acts on what
those two left; a third name is an alias that is no group id. The texts contain
each of these commands, spelled in several ways, texts that only look like
commands, and a blank one.

`MCAliasConsole` and `MCGroupAccess` use symmetry; the runs of liveness properties
do not. `MCJsonRpcTransport` does not
look for deadlocks: a closed transport whose child has exited is at its end.

### Fairness

- `WF_vars(Step)`: a running runtime goes on executing; `Restart` is not fair, the
  operator may leave it down, so `Progress` assumes that it is up again and again.
- `SF_vars(FetchesSomething)`: the server does not answer with an empty batch for
  ever while it holds updates. The long poll of `get_updates` returns as soon as
  there is one.
- `WF_vars(Works(c))`: every call ends within its request timeout of 30 s.
- `WF_vars(LeaseExpires(s))`: the lease of 1800 s (`DEFAULT_LEASE_SECONDS`) ends.
  It outlasts an operation, which is a handful of calls of at most 30 s, or one
  wait of 30 s; a `/recover` of a hundred runs on a failing controller would
  break off at its first failure.

- `WF_vars(ReadResponse)`, `WF_vars(DeadlinePasses)`: the bridge process is
  scheduled and time goes on. Nothing is asked of the child, which may stop
  writing at any point. `RequestEnds` assumes instead that it does not chatter for
  ever: the code looks at the deadline only when there is nothing to read.

No fairness is assumed of runs, of the Codex App or of users.

## Proofs

`OpenilinkProofs` and `RefinementProofs` prove, for every set of messages, every log length and every
number of setbacks (the assumption is `RuntimeAssumption`: both numbers are
naturals), from the safety specification `Spec`:

| Theorem | Property |
|---|---|
| `RuntimeInvariant` | `IInv` |
| `RuntimeTypes`, `CursorIsSafe`, `LossIsReported`, `SentIsTruthful`, `RepeatsAreBounded` | `TypeOK`, `CursorBehindWork`, `NoSilentLoss`, `SentWasReceived`, `RepeatsNeedSetbacks` |
| `AnsweredStaysFinal` | `AnsweredIsFinal` |
| `ResendsAreExcused` | `ResendsNeedSetbacks`: the best the code does of what `UnknownIsNotResent` promises |
| `OrderIsKept` | `HandledInOrder` |
| `RuntimeImplements` | `ImplementsLedger`: the refinement to `ReplyLedger`, step by step |

None of these is inductive. `CursorBehindWork` needs `BatchInv`: everything up to
the current iteration is settled, and the malformed updates of the whole batch
are already on record, since the cursor will jump over them. `NoSilentLoss` and
`SentWasReceived` need `CurrentInv`: what is known of the current message at each
statement (for instance, that the `delivery_unknown` event is written before the
mark). `ResendsNeedSetbacks` needs `AttemptsInv`: while no batch was cut short, a
reply that was tried is that of the message at hand, or its message is processed.
`RepeatsNeedSetbacks` needs `RepeatsInv`, which counts the try of the
current batch separately from those that setbacks took away. The refinement
needs `KeysInv`: at which statements the delivery state is SENDING and the outbox
filled, from which the stage of the message at hand is read off. `IInv` is the
conjunction. The proof shows each part to be kept by each action (`TypeStep`,
`BatchStep`, `CurrentStep`, `KeysStep`, `AttemptsStep`, `RepeatsStep`), and the action properties
follow from `IInv` and one step. In the refinement a statement moves at most the
message at hand (`OthersStay`), and a crash during a send is the ledger's `Miss`.

`TransportProofs` proves, for any number of requests and any capacity of the pipe
(`TransportAssumption`: both are naturals):

| Theorem | Property |
|---|---|
| `TransportInvariant`, `TransportTypes` | `IInv`, `TypeOK` |
| `StreamIsFramed` | `Framed` |
| `AnswersInTime` | `InTimeIsAnswered` |
| `TransportImplements` | `ImplementsRequests`: the refinement to `RequestLedger`, a safety specification, step by step |

The stream is what is in the buffer followed by what is in the pipe: reading moves
pieces from the second to the first and leaves the stream alone, taking a line
drops a whole frame from its front, writing appends to its end. `InTimeIsAnswered`
needs `AnswerIsThere`: the answer that came in time stays in the stream until the
request ends, so the loop cannot find the stream empty. The refinement needs
`AnswersWereAsked` (an answer carries the id of a request the child took up) and
`WaitsInOrder` (what waits in the stdin of the child is in the order of the
requests, behind everything it took up): a request that the caller gave up may
still be taken up, but before the next one.

`ControllerProofs` proves, for any number of processes, keys, sessions, failures,
crashes, messages and recoveries (`ControllerAssumption`: the values a lock can
have are told apart, and the bounds are naturals):

| Theorem | Property |
|---|---|
| `ClientInvariant`, `ClientTypes` | `IInv`, `TypeOK` |
| `LeftoversAreExplained` | `LeftoversExplained` |
| `RecoveryLocksAreExplained` | `RecoveryLockExplained` |
| `ReturnedAreClean` | `ReturnedIsClean` |
| `RecoveryInvariant` | `RecoveryInv` |
| `OneRunIsLive` | `OneLiveRun` |
| `RecoveriesAreComplete` | `RecoveryIsComplete` |

`LeftoversExplained` speaks of runs without a client, so it says nothing of the
steps on the way out. `CallIsTrue` does: for each call, what holds of the run and
of its lock before it. A run is over before it is read and acked before it is
closed; past the cancel of a cleanup a run that goes on is explained, past the
ack an open delivery is. A cleanup without a token has no lock that it could give
back: either its start was a replay, and what it finds was left and explained
before, or the token was missing in the answer, which is noted.
`OneClientPerKey` keeps these facts from other clients of the same key, and a run
only goes forward (`Forward`), so what is explained stays so.

Let a recovery have its list and the lock. `ListingIsKept` says that it accounts for
every run of the session (`Accounted`). A run it took up is cleared, or on the list
with what is still to be done for it (`StillToDo`): what the list says of a run
stays true (`Forward`), and a run taken from the list is cleared or the recovery
breaks off. A run it did not take up is over, or was noted in `passed` when the
list came. No run is added while the lock is held, since a start needs it. So when
the lock is given back the list is empty, and every run the recovery took up is
cleared: that is `RecoveryIsComplete`. It says nothing of the other runs, and
cannot: the code frees their session all the same.

`OneLiveRun` says what that leads to. `LiveRunIsGuarded` is behind it: a run that
goes on without a mishap and that no recovery passed over has the lock of its
session, or a recovery has it that is about to cancel the run. The two theorems
have no premise about lists: sessions may have any number of runs, and lists may
leave out any of them.

`RunLedgerProofs` proves `ClientImplements`, that is, `ImplementsRunLedger`, under
the same assumption. The ledger knows no processes: a run is
started when no other run has the lock of its session, is minded by one client or
left, needs four calls, never needs one again that it has had, is left by a client
only with what failed calls excuse, and is returned only when nothing but the lock
is left. The proof needs `IInv` and `StartedInv` (what was never started is on no
list and was never acked or closed). A step of a client moves one run
(`OneMoves`), and at most one client is at a run (`OnlyOneAttends`), so its steps
are the steps of the ledger for that run: a call of the client, whatever its
outcome, is `Work`, `GiveUp` or `Return`; a recovery's call is `Work` on the run it
has picked; taking over or losing a lock is `Work` on the run that had it.

`AliasProofs` proves, for any number of processes, aliases, sessions, lines and
setbacks (`ConsoleAssumption`: `/bind` has an alias of its own, and `Absent` is
neither a name nor a row):

| Theorem | Property |
|---|---|
| `ConsoleInvariant`, `ConsoleTypes` | `IInv`, `TypeOK` |
| `OffsetsAreExplained`, `RepeatsAreExplained`, `ContextsAreExplained`, `ArtifactsFollow` | `OffsetExplained`, `RepeatExplained`, `ContextExplained`, `ArtifactsFollowAlias` |
| `OffsetsStay` | `OffsetStaysWithSession` |

Every write of these commands rests on something read earlier, so the invariant
says first what a process may rely on while its alias was not touched: the session
it has read (`SessionIsCurrent`), and for `upsert_alias` the row it has read
(`ExistingIsCurrent`). `OffsetExplained` is not inductive: a message could become
complete below an offset that counted its unfinished line. `StoredIsCovered` says
that the offset counts finished lines only and that their messages were shown,
those that `splitlines()` splits excepted, for which `MCAliasSplit` shows the loss;
`ReadIsCovered` and `NextIsCovered` say the same of the offset a `/refresh` has
read and of the one it is about to store. A line that is finished never changes
(`LinesStay`), so writing to the history keeps all three.

`RepeatExplained` needs the converse, `SeenIsCounted`: what was shown, or is on its
way, is at or below the stored offset. `ShowingIsNew` says that a `/refresh` shows
only what lies beyond the offset it has read. If that is the stored one when it
writes, its lines are new; if not, another `/refresh` came in between and the alias
is `crossed`. Neither a crash nor a history that shrinks makes a message appear
twice.

`GroupProofs` proves, for any number of processes, any set of names and any number
of commands (`GroupAssumption`: the groups are among the names, `Absent` is not,
and a management command that the parser accepts has names for arguments):

| Theorem | Property |
|---|---|
| `GroupInvariant`, `GroupTypes` | `IInv`, `TypeOK` |
| `SessionsAreDisjoint`, `SeedsAreOver`, `EnabledByOwner`, `QuestionsAreCurrent`, `RecordsAreClear` | `SessionsDisjoint`, `SeedIsOver`, `EnabledIsApproved`, `QuestionIsCurrent`, `RecordIsClear` |
| `RowsStayOwned` | `RowsAreTheOwners` |
| `GroupsDoNotManage` | no text in a group parses to a management command |
| `UnmentionedIsBlank` | the only text without `@Bot` that passes for a question has no word (`docs/01:164` has no such exception) |
| `OnlyOddSpellingsPass` | `OnlyOddSpellings`: what the gate of the runtime lets through has more than one slash or a blank after it; lemma `OddSpelling` says it of every management command. What remains of the rule that `MCGroupSpelling` refutes |

`SessionsDisjoint` is not inductive: it follows from `SessionFollowsAlias` (the
session of an enabled group is the one of its own alias) and the uniqueness of
aliases in `TypeOK`. That in turn needs `LocalsAreTrue` (what a process brings to
`activate_group` is the session of the alias it looks the row up by) and
`EnabledIsApproved` needs `ReadingsStand` (what a process has read still holds
while nobody overtook it).

Only model-checked: liveness (`Progress`, `LockIsReleased`, `RequestEnds`), since
fairness and ENABLED are beyond the prover. Every other property of a passing run
is the statement of a theorem.

## Not modelled

The QR login (a polling loop with a deadline, run once by hand), artifact
classification (a function of a text and the file system; which rows a dispatch
writes is in `AliasConsole`), configuration, message formats, the wording of
replies, `created_at` columns, the attachments table (never used), turns the owner
takes in the Codex App beside the bridge (`expected_session_head` is always
`None`, which the tests assert and `docs/01` does not foresee), and the read-only
commands `/list`, `/status`, `/artifacts`, `/sendfile`, `/help`, `/group list`,
`/group pending`, `/group status`. Disk corruption and a store restored from a
backup are outside of the model. Of the parsing of JSON answers only the classes
the client tells apart are modelled; of the transport, the test doubles for
stdout are left out.

## Plan

In order of importance; all are done.

1. `OpenilinkRuntime` with `ReplyLedger`, its refinement and proofs.
2. `ControllerClient`.
3. `AliasConsole`.
4. `CommandParser` and `GroupAccess` with their proofs.
5. `JsonRpcTransport` with `RequestLedger`, its refinement and proofs.
6. Proofs about `AliasConsole`.
7. Proofs about `ControllerClient`.
8. Proof of the refinement to `ReplyLedger`.
9. `RunLedger`, the abstract specification of the controller client, and the proof
   that the client implements it.
10. Proofs for sessions with any number of runs, for the order in which requests
    are taken up, for resends and for repeated lines.
11. Recoveries whose listing leaves runs out, messages that `splitlines()` splits,
    and the gate of the runtime in front of the group commands.

Left: an abstract specification of the group table (owner's decisions as atomic
steps), to which `GroupAccess` would be a refinement wherever nobody is overtaken.
