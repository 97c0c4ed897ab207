-------------------------- MODULE ControllerClient --------------------------
(***************************************************************************)
(* McpControllerClient of controller_client.py, driven by the dispatch and *)
(* recover handlers of gateway.py: start_or_send and recover_session as    *)
(* sequences of calls to the cross-thread controller, each of which can    *)
(* succeed, succeed with its answer lost, or fail without effect.  Several *)
(* bridge processes (the iLink runtime, the local simulator) use the       *)
(* controller side by side, and each of them can be killed at any call.    *)
(*                                                                         *)
(* The controller is external.  It is modelled from how the client uses    *)
(* it: one lock with a token per session, one run per idempotency key, a   *)
(* repeated key is answered with the existing run and without a token.     *)
(***************************************************************************)
EXTENDS Integers

CONSTANTS
    Clients,      \* bridge processes
    Keys,         \* idempotency keys; a key names the run it starts
    Sessions,     \* Codex sessions
    SessionOf,    \* the session each key is sent to
    Free,         \* the lock value of a released session
    NoKey,        \* no idempotency key
    MaxFaults,    \* bound: calls that fail or whose answer is lost, and crashes
    MaxTries,     \* bound: how often each message is handed to the client
    MaxRecovers   \* bound: /recover commands

ASSUME ControllerAssumption ==
    /\ SessionOf \in [Keys -> Sessions]
    /\ Free \notin Keys \cup Clients
    /\ Keys \cap Clients = {}
    /\ NoKey \notin Keys
    /\ MaxFaults \in Nat /\ MaxTries \in [Keys -> Nat] /\ MaxRecovers \in Nat

\* "done" stands for completed, failed and blocked; TERMINAL_RUN_STATUSES also
\* has "cancelled".
RunStates == {"none", "in_progress", "done", "cancelled"}

Terminal == {"done", "cancelled"}

Calls == {"start", "cancel", "ack", "close", "release", "crash"}

VARIABLES
    lock,     \* controller: who holds a session: Free, the key whose start
              \*   locked it, or the client whose force_recover did
    run,      \* controller: state of the run of each key
    acked,    \* controller: keys of runs with a delivery ack
    closed,   \* controller: keys of closed runs
    pc,       \* client: the next call
    key,      \* client: the idempotency key, or the run recovery is at
    site,     \* client: the session of the operation
    token,    \* client: does it have the lock_token of its operation?
    broken,   \* client: the controller process is gone, every call fails
    snap,     \* client: what cross_thread_list_runs returned: the runs the loop
              \*   takes up, those among them that go on, were acked, handed
              \*   to another owner, closed, and those it still has to visit
    tries,    \* bound: how often each key was sent
    recovers, \* bound
    faults,   \* bound
    mishap,   \* observation: calls for a key that had no (known) effect
    botched,  \* observation: sessions on which a recovery broke off
    passed,   \* observation: runs that went on and that the listing of a
              \*   recovery did not let it take up
    returned  \* observation: keys whose full lifecycle ended with a result

controller == <<lock, run, acked, closed>>
client     == <<pc, key, site, token, broken, snap>>
bounds     == <<tries, recovers, faults>>
observed   == <<mishap, botched, passed, returned>>
vars       == <<controller, client, bounds, observed>>

SnapFields == {"runs", "live", "acked", "moved", "closed", "todo"}

EmptySnap == [field \in SnapFields |-> {}]

Init ==
    /\ lock = [s \in Sessions |-> Free]
    /\ run = [k \in Keys |-> "none"]
    /\ acked = {}
    /\ closed = {}
    /\ pc = [c \in Clients |-> "idle"]
    /\ key = [c \in Clients |-> NoKey]
    /\ site \in [Clients -> Sessions]
    /\ token = [c \in Clients |-> FALSE]
    /\ broken = [c \in Clients |-> FALSE]
    /\ snap = [c \in Clients |-> EmptySnap]
    /\ tries = [k \in Keys |-> 0]
    /\ recovers = 0
    /\ faults = 0
    /\ mishap = [k \in Keys |-> {}]
    /\ botched = {}
    /\ passed = {}
    /\ returned = {}

-----------------------------------------------------------------------------
(* The controller's tools.                                                 *)

\* Starting a run locks its session.
DoStart(k) ==
    /\ run[k] = "none"
    /\ lock[SessionOf[k]] = Free
    /\ run' = [run EXCEPT ![k] = "in_progress"]
    /\ lock' = [lock EXCEPT ![SessionOf[k]] = k]
    /\ UNCHANGED <<acked, closed>>

DoCancel(k) ==
    /\ run' = [run EXCEPT ![k] = IF @ = "in_progress" THEN "cancelled" ELSE @]
    /\ UNCHANGED <<lock, acked, closed>>

DoAck(k) == acked' = acked \cup {k} /\ UNCHANGED <<lock, run, closed>>

DoClose(k) == closed' = closed \cup {k} /\ UNCHANGED <<lock, run, acked>>

\* Only the current token releases.
DoRelease(s, t) ==
    /\ lock[s] = t
    /\ lock' = [lock EXCEPT ![s] = Free]
    /\ UNCHANGED <<run, acked, closed>>

DoRecover(s, c) ==
    /\ lock' = [lock EXCEPT ![s] = c]
    /\ UNCHANGED <<run, acked, closed>>

Reads == UNCHANGED controller

-----------------------------------------------------------------------------
(* One JSON-RPC call of a client, and its three outcomes.                  *)

Goto(c, from, to) == pc[c] = from /\ pc' = [pc EXCEPT ![c] = to]

\* A call that raises; the controller process may be gone with it, and then
\* every further call of the operation raises too.  The next operation opens
\* a new transport.
Raises(c) ==
    /\ IF broken[c] THEN UNCHANGED faults
                    ELSE faults < MaxFaults /\ faults' = faults + 1
    /\ IF pc'[c] = "idle" THEN broken' = [broken EXCEPT ![c] = FALSE]
       ELSE \E gone \in BOOLEAN :
               broken' = [broken EXCEPT ![c] = broken[c] \/ gone]

\* The call takes effect and its answer arrives.
Answers(c, effect) ==
    /\ ~broken[c]
    /\ effect
    /\ UNCHANGED <<broken, faults, mishap>>

\* The call takes effect; its answer is late, lost or malformed.
AnswerLost(c, effect) ==
    /\ ~broken[c]
    /\ effect
    /\ Raises(c)
    /\ UNCHANGED mishap

\* The call raises without effect; `call` is noted against the run.
CallFails(c, call) ==
    /\ Raises(c)
    /\ UNCHANGED controller
    /\ mishap' = [mishap EXCEPT ![key[c]] = @ \cup {call}]

CallRaises(c, call, effect) == AnswerLost(c, effect) \/ CallFails(c, call)

\* A step of a failure path: the client goes on whatever the outcome.
CallAnyway(c, call, effect) == Answers(c, effect) \/ CallRaises(c, call, effect)

\* A call that changes nothing at the controller.
ReadAnswers(c) == Answers(c, UNCHANGED controller)

ReadRaises(c) == Raises(c) /\ UNCHANGED <<controller, mishap>>

Keep == UNCHANGED <<key, site, token, snap>>

Quiet == UNCHANGED <<tries, recovers, botched, passed, returned>>

\* `finally: transport.close()`, and the operation returns or raises.
Forget(c) ==
    /\ key' = [key EXCEPT ![c] = NoKey]
    /\ token' = [token EXCEPT ![c] = FALSE]
    /\ snap' = [snap EXCEPT ![c] = EmptySnap]
    /\ UNCHANGED site

Recovering == {"r_force", "r_list", "r_pick", "r_cancel", "r_ack", "r_close",
               "r_release"}

\* Client c is in start_or_send for key k.
Attends(c, k) == pc[c] \notin Recovering \cup {"idle"} /\ key[c] = k

-----------------------------------------------------------------------------
(* Gateway._dispatch_to_alias: the status check, then start_or_send.       *)

\* A message is handed to one process; it comes again only when that process
\* was cut short before the reply was stored.
Dispatch(c, k) ==
    /\ Goto(c, "idle", "status")
    /\ \A d \in Clients : ~Attends(d, k)
    /\ tries[k] < MaxTries[k]
    /\ tries' = [tries EXCEPT ![k] = @ + 1]
    /\ key' = [key EXCEPT ![c] = k]
    /\ site' = [site EXCEPT ![c] = SessionOf[k]]
    /\ UNCHANGED <<controller, token, broken, snap, recovers, faults, observed>>

\* Not locked (nor dirty, nor reconcile_required): go on with a new transport.
StatusReady(c) ==
    /\ Goto(c, "status", "start")
    /\ lock[site[c]] = Free
    /\ ReadAnswers(c)
    /\ Keep
    /\ Quiet

\* "<alias> is not ready": locked, or dirty or reconcile_required.
StatusRefused(c) ==
    /\ Goto(c, "status", "idle")
    /\ ReadAnswers(c) \/ ReadRaises(c)
    /\ Forget(c)
    /\ Quiet

\* cross_thread_start answers with a new run and its lock token.
StartFresh(c) ==
    /\ Goto(c, "start", "wait")
    /\ Answers(c, DoStart(key[c]))
    /\ token' = [token EXCEPT ![c] = TRUE]
    /\ UNCHANGED <<key, site, snap>>
    /\ Quiet

\* The run starts, but its answer never arrives: run_id is not known, the
\* exception leaves start_or_send without any cleanup.
StartLost(c) ==
    /\ Goto(c, "start", "idle")
    /\ DoStart(key[c])
    /\ ~broken[c]
    /\ Raises(c)
    /\ mishap' = [mishap EXCEPT ![key[c]] = @ \cup {"start"}]
    /\ Forget(c)
    /\ Quiet

\* The answer has the run but no lock token (_lock_token_or_none): the run is
\* cleaned up, its lock cannot be given back.
StartTokenless(c) ==
    /\ Goto(c, "start", "c_cancel")
    /\ DoStart(key[c])
    /\ ~broken[c]
    /\ Raises(c)
    /\ mishap' = [mishap EXCEPT ![key[c]] = @ \cup {"start"}]
    /\ Keep
    /\ Quiet

\* Refused (the session is locked by now), or never received.
StartRefused(c) ==
    /\ Goto(c, "start", "idle")
    /\ \/ run[key[c]] = "none" /\ lock[site[c]] # Free /\ ReadAnswers(c)
       \/ ReadRaises(c)
    /\ Forget(c)
    /\ Quiet

\* The key is known: the answer is its run, without a lock token.  A terminal
\* one is read, a live one is taken for a malformed start and cleaned up.
StartReplayed(c) ==
    /\ \/ Goto(c, "start", "replay") /\ run[key[c]] \in Terminal
       \/ Goto(c, "start", "c_cancel") /\ run[key[c]] = "in_progress"
    /\ ReadAnswers(c)
    /\ Keep
    /\ Quiet

\* _terminal_replay_result: the result is returned as it is.
ReadReplay(c) ==
    /\ Goto(c, "replay", "idle")
    /\ ReadAnswers(c)
    /\ Forget(c)
    /\ Quiet

ReplayRaises(c) ==
    /\ Goto(c, "replay", "c_cancel")
    /\ ReadRaises(c)
    /\ Keep
    /\ Quiet

WaitReady(c) ==
    /\ Goto(c, "wait", "read")
    /\ run[key[c]] \in Terminal
    /\ ReadAnswers(c)
    /\ Keep
    /\ Quiet

\* Mutant: a run that timed out is not cancelled.
WaitFailsMutant(c) ==
    /\ Goto(c, "wait", "c_ack")
    /\ \/ run[key[c]] = "in_progress" /\ ReadAnswers(c)
       \/ ReadRaises(c)
    /\ Keep
    /\ Quiet

\* Mutant: cross_thread_wait_ready without a timeout.
WaitHangsMutant(c) ==
    /\ Goto(c, "wait", "c_cancel")
    /\ ReadRaises(c)
    /\ Keep
    /\ Quiet

\* The run takes longer than timeout_ms, or the call fails.
WaitFails(c) ==
    /\ Goto(c, "wait", "c_cancel")
    /\ \/ run[key[c]] = "in_progress" /\ ReadAnswers(c)
       \/ ReadRaises(c)
    /\ Keep
    /\ Quiet

ReadResult(c) ==
    /\ \/ Goto(c, "read", "ack") /\ ReadAnswers(c)
       \/ Goto(c, "read", "c_cancel") /\ ReadRaises(c)
    /\ Keep
    /\ Quiet

\* cross_thread_delivery_ack; from here on nothing is cleaned up any more.
Ack(c) ==
    /\ \/ Goto(c, "ack", "close") /\ Answers(c, DoAck(key[c]))
       \/ Goto(c, "ack", "c_cancel") /\ CallRaises(c, "ack", DoAck(key[c]))
    /\ Keep
    /\ Quiet

\* Mutant: the run is not closed.
CloseMutant(c) ==
    /\ Goto(c, "close", "release")
    /\ ReadAnswers(c)
    /\ Keep
    /\ Quiet

\* _close_and_release: a failed close still releases, and is raised after it.
Close(c) ==
    /\ \/ Goto(c, "close", "release") /\ Answers(c, DoClose(key[c]))
       \/ Goto(c, "close", "release_raise")
            /\ CallRaises(c, "close", DoClose(key[c]))
    /\ Keep
    /\ Quiet

Released(c) == DoRelease(site[c], key[c])

\* The token is no longer the session's: the controller refuses.
ReleaseRefused(c) == lock[site[c]] # key[c] /\ ReadAnswers(c)

Release(c) ==
    /\ Goto(c, "release", "idle")
    /\ Answers(c, Released(c))
    /\ returned' = returned \cup {key[c]}
    /\ Forget(c)
    /\ UNCHANGED <<tries, recovers, botched, passed>>

ReleaseRaises(c) ==
    /\ \/ Goto(c, "release", "idle")
            /\ (ReleaseRefused(c) \/ CallRaises(c, "release", Released(c)))
       \/ Goto(c, "release_raise", "idle")
            /\ (ReleaseRefused(c) \/ CallAnyway(c, "release", Released(c)))
    /\ Forget(c)
    /\ Quiet

(* _cleanup_started_run: every step is tried, none stops the others.       *)

\* Mutant: a failed cancel ends the cleanup.
CleanupCancelMutant(c) ==
    /\ \/ Goto(c, "c_cancel", "c_ack")
            /\ Answers(c, DoCancel(key[c]))
            /\ Keep
       \/ Goto(c, "c_cancel", "idle")
            /\ CallRaises(c, "cancel", DoCancel(key[c]))
            /\ Forget(c)
    /\ Quiet

CleanupCancel(c) ==
    /\ Goto(c, "c_cancel", "c_ack")
    /\ CallAnyway(c, "cancel", DoCancel(key[c]))
    /\ Keep
    /\ Quiet

CleanupAck(c) ==
    /\ Goto(c, "c_ack", "c_close")
    /\ CallAnyway(c, "ack", DoAck(key[c]))
    /\ Keep
    /\ Quiet

\* Without a lock token there is nothing to release.
CleanupClose(c) ==
    /\ \/ Goto(c, "c_close", "c_release") /\ token[c] /\ Keep
       \/ Goto(c, "c_close", "idle") /\ ~token[c] /\ Forget(c)
    /\ CallAnyway(c, "close", DoClose(key[c]))
    /\ Quiet

CleanupRelease(c) ==
    /\ Goto(c, "c_release", "idle")
    /\ ReleaseRefused(c) \/ CallAnyway(c, "release", Released(c))
    /\ Forget(c)
    /\ Quiet

-----------------------------------------------------------------------------
(* Gateway._handle_recover and recover_session.                            *)

Recover(c, s) ==
    /\ Goto(c, "idle", "r_force")
    /\ recovers < MaxRecovers
    /\ recovers' = recovers + 1
    /\ site' = [site EXCEPT ![c] = s]
    /\ UNCHANGED <<controller, key, token, broken, snap, tries, faults, observed>>

\* A call of recover_session raises: the operation ends there, the lock it
\* took is not given back.
Botch(c) ==
    /\ botched' = botched \cup {site[c]}
    /\ Forget(c)
    /\ UNCHANGED <<tries, recovers, mishap, passed, returned>>

RunsOn(s) == {k \in Keys : SessionOf[k] = s /\ run[k] # "none"}

ForceRecover(c) ==
    /\ Goto(c, "r_force", "r_list")
    /\ Answers(c, DoRecover(site[c], c))
    /\ token' = [token EXCEPT ![c] = TRUE]
    /\ UNCHANGED <<key, site, snap>>
    /\ Quiet

\* cross_thread_list_runs: what follows works on this answer, not on the runs.
\* The loop takes up none of them when `runs` is no list, and not those the
\* answer leaves out (more than the limit of 100), names without a run_id, or
\* gives a status that is neither in_progress nor terminal.  A run may be
\* marked as transferred to another owner.
ListRuns(c) ==
    /\ Goto(c, "r_list", "r_pick")
    /\ ReadAnswers(c)
    /\ \E R \in SUBSET RunsOn(site[c]), T \in SUBSET Keys :
          /\ T \subseteq R \ acked
          /\ snap' = [snap EXCEPT ![c] =
                [runs   |-> R,
                 live   |-> {k \in R : run[k] = "in_progress"},
                 acked  |-> acked \cap R,
                 moved  |-> T,
                 closed |-> closed \cap R,
                 todo   |-> R]]
          /\ passed' = passed \cup
                {k \in RunsOn(site[c]) \ R : run[k] = "in_progress"}
    /\ UNCHANGED <<key, site, token, tries, recovers, botched, returned>>

\* Delivered, or somebody else's to deliver: no delivery ack.
Settled(c) == snap[c].acked \cup snap[c].moved

\* Mutant: a run that was just acked is not closed.
CallForMutant(c, k, done) ==
    IF k \in snap[c].live /\ done = "none" THEN "r_cancel"
    ELSE IF k \notin Settled(c) /\ done \in {"none", "cancel"} THEN "r_ack"
    ELSE IF k \notin snap[c].closed /\ done = "none" THEN "r_close"
    ELSE "r_pick"

\* The first call the run k needs, after the call `done`.
CallFor(c, k, done) ==
    IF k \in snap[c].live /\ done = "none" THEN "r_cancel"
    ELSE IF k \notin Settled(c) /\ done \in {"none", "cancel"} THEN "r_ack"
    ELSE IF k \notin snap[c].closed /\ done # "close" THEN "r_close"
    ELSE "r_pick"

PickRun(c) ==
    \E k \in snap[c].todo :
        /\ Goto(c, "r_pick", CallFor(c, k, "none"))
        /\ key' = [key EXCEPT ![c] = k]
        /\ snap' = [snap EXCEPT ![c].todo = @ \ {k}]
        /\ UNCHANGED <<controller, broken, faults, mishap, site, token>>
        /\ Quiet

RecoverCancel(c) ==
    /\ Goto(c, "r_cancel", CallFor(c, key[c], "cancel"))
    /\ Answers(c, DoCancel(key[c]))
    /\ Keep
    /\ Quiet

RecoverAck(c) ==
    /\ Goto(c, "r_ack", CallFor(c, key[c], "ack"))
    /\ Answers(c, DoAck(key[c]))
    /\ Keep
    /\ Quiet

RecoverClose(c) ==
    /\ Goto(c, "r_close", "r_pick")
    /\ Answers(c, DoClose(key[c]))
    /\ Keep
    /\ Quiet

\* Mutant: the recovered session is not released.
RecoverReleaseMutant(c) ==
    /\ Goto(c, "r_pick", "idle")
    /\ snap[c].todo = {}
    /\ ReadAnswers(c)
    /\ Forget(c)
    /\ Quiet

RecoverRelease(c) ==
    /\ Goto(c, "r_pick", "idle")
    /\ snap[c].todo = {}
    /\ \/ Answers(c, DoRelease(site[c], c))
       \/ lock[site[c]] # c /\ ReadAnswers(c)
    /\ Forget(c)
    /\ Quiet

\* What the calls of recover_session would have done, had they not raised.
RecoverEffect(c) ==
    \/ pc[c] = "r_force" /\ DoRecover(site[c], c)
    \/ pc[c] = "r_cancel" /\ DoCancel(key[c])
    \/ pc[c] = "r_ack" /\ DoAck(key[c])
    \/ pc[c] = "r_close" /\ DoClose(key[c])
    \/ pc[c] = "r_pick" /\ snap[c].todo = {} /\ DoRelease(site[c], c)

RecoverRaises(c) ==
    /\ pc[c] \in Recovering
    /\ pc[c] = "r_pick" => snap[c].todo = {}
    /\ pc' = [pc EXCEPT ![c] = "idle"]
    /\ Raises(c)
    /\ \/ RecoverEffect(c) /\ ~broken[c]
       \/ UNCHANGED controller
    /\ Botch(c)

-----------------------------------------------------------------------------
(* The rest of the world.                                                  *)

\* The process is killed; its next start begins idle.
Crash(c) ==
    /\ pc[c] # "idle"
    /\ faults < MaxFaults
    /\ faults' = faults + 1
    /\ pc' = [pc EXCEPT ![c] = "idle"]
    /\ broken' = [broken EXCEPT ![c] = FALSE]
    /\ Forget(c)
    /\ IF pc[c] \in Recovering
       THEN botched' = botched \cup {site[c]} /\ UNCHANGED mishap
       ELSE /\ mishap' = [mishap EXCEPT ![key[c]] = @ \cup {"crash"}]
            /\ UNCHANGED botched
    /\ UNCHANGED <<controller, tries, recovers, passed, returned>>

RunFinishes(k) ==
    /\ run[k] = "in_progress"
    /\ run' = [run EXCEPT ![k] = "done"]
    /\ UNCHANGED <<lock, acked, closed, client, bounds, observed>>

\* Does client c hold the lock of session s?
Holds(c, s) ==
    /\ token[c] /\ site[c] = s
    /\ lock[s] = IF pc[c] \in Recovering THEN c ELSE key[c]

\* The lease (1800 s) outlasts every operation of a client, so it runs out
\* only on a lock nobody holds any more.
LeaseExpires(s) ==
    /\ lock[s] # Free
    /\ \A c \in Clients : ~Holds(c, s)
    /\ lock' = [lock EXCEPT ![s] = Free]
    /\ UNCHANGED <<run, acked, closed, client, bounds, observed>>

\* Every process waits for its next message.
Waiting == (\A c \in Clients : pc[c] = "idle") /\ UNCHANGED vars

Lifecycle(c) ==
    \/ StatusReady(c) \/ StatusRefused(c)
    \/ StartFresh(c) \/ StartLost(c) \/ StartTokenless(c) \/ StartRefused(c)
    \/ StartReplayed(c)
    \/ ReadReplay(c) \/ ReplayRaises(c)
    \/ WaitReady(c) \/ WaitFails(c) \/ ReadResult(c) \/ Ack(c)
    \/ Close(c) \/ Release(c) \/ ReleaseRaises(c)

Cleanup(c) ==
    CleanupCancel(c) \/ CleanupAck(c) \/ CleanupClose(c) \/ CleanupRelease(c)

Recovery(c) ==
    \/ ForceRecover(c) \/ ListRuns(c) \/ PickRun(c) \/ RecoverCancel(c)
    \/ RecoverAck(c) \/ RecoverClose(c) \/ RecoverRelease(c)
    \/ RecoverRaises(c)

\* A client in an operation; every call ends within its request timeout.
Works(c) == Lifecycle(c) \/ Cleanup(c) \/ Recovery(c)

World ==
    \/ \E s \in Sessions : LeaseExpires(s)
    \/ \E k \in Keys : RunFinishes(k)

ClientStep(c) ==
    \/ \E k \in Keys : Dispatch(c, k)
    \/ \E s \in Sessions : Recover(c, s)
    \/ Works(c)
    \/ Crash(c)

Next ==
    \/ \E c \in Clients : ClientStep(c)
    \/ World
    \/ Waiting

Spec == Init /\ [][Next]_vars

FairSpec ==
    /\ Spec
    /\ \A c \in Clients : WF_vars(Works(c))
    /\ \A s \in Sessions : WF_vars(LeaseExpires(s))

-----------------------------------------------------------------------------
(* Properties.                                                             *)

Locations == {"idle", "status", "start", "replay", "wait", "read", "ack",
              "close", "release", "release_raise", "c_cancel", "c_ack",
              "c_close", "c_release"} \cup Recovering

\* Every variable stays in its set, and a client that works on a run has its
\* key.
TypeOK ==
    /\ lock \in [Sessions -> Keys \cup Clients \cup {Free}]
    /\ run \in [Keys -> RunStates]
    /\ acked \subseteq Keys
    /\ closed \subseteq Keys
    /\ pc \in [Clients -> Locations]
    /\ key \in [Clients -> Keys \cup {NoKey}]
    /\ site \in [Clients -> Sessions]
    /\ token \in [Clients -> BOOLEAN]
    /\ broken \in [Clients -> BOOLEAN]
    /\ snap \in [Clients -> [SnapFields -> SUBSET Keys]]
    /\ tries \in [Keys -> Nat]
    /\ \A k \in Keys : tries[k] <= MaxTries[k]
    /\ recovers \in 0..MaxRecovers
    /\ faults \in 0..MaxFaults
    /\ mishap \in [Keys -> SUBSET Calls]
    /\ botched \subseteq Sessions
    /\ passed \subseteq Keys
    /\ returned \subseteq Keys
    /\ \A c \in Clients :
          pc[c] \notin {"idle", "r_force", "r_list", "r_pick"} => key[c] \in Keys

Unattended(k) == \A c \in Clients : ~Attends(c, k)

Noted(k, calls) == mishap[k] \cap calls # {}

RunIsExplained(k) == run[k] = "in_progress" => Noted(k, {"start", "crash", "cancel"})

AckIsExplained(k) == k \notin acked => Noted(k, {"start", "crash", "ack"})

CloseIsExplained(k) == k \notin closed => Noted(k, {"start", "crash", "close"})

LockIsExplained(k) == lock[SessionOf[k]] = k => Noted(k, {"start", "crash", "release"})

Explained(k) ==
    RunIsExplained(k) /\ AckIsExplained(k) /\ CloseIsExplained(k) /\ LockIsExplained(k)

\* What start_or_send leaves behind on any of its ways out, its cleanup and the
\* cleanup of later replays included, is only what a call left behind that
\* itself failed, a start whose answer was lost, or a crash: a run that goes
\* on, an open delivery, an open run, a lock.
LeftoversExplained ==
    \A k \in Keys : Unattended(k) /\ run[k] # "none" => Explained(k)

\* A lock of recover_session stays behind only where a recovery broke off.
RecoveryLockExplained ==
    \A s \in Sessions, c \in Clients :
        lock[s] = c /\ ~Holds(c, s) => s \in botched

\* A result that went through the whole lifecycle is a terminal run, acked and
\* closed, and its session is not locked for it any more (docs/00, section on
\* the dispatch flow).
ReturnedIsClean ==
    \A k \in returned :
        /\ run[k] \in Terminal
        /\ k \in acked \cap closed
        /\ lock[SessionOf[k]] # k

\* Two runs work on one session at a time only after a run was left without
\* its client or could not be cancelled, or a recovery broke off, or its listing
\* did not let it take up a run that went on.
OneLiveRun ==
    \A k, l \in Keys :
        /\ k # l
        /\ SessionOf[k] = SessionOf[l]
        /\ run[k] = "in_progress"
        /\ run[l] = "in_progress"
        => \/ Noted(k, {"start", "crash", "cancel"})
           \/ Noted(l, {"start", "crash", "cancel"})
           \/ SessionOf[k] \in botched
           \/ {k, l} \cap passed # {}

\* Run k needs nothing more from recovery c: it is over, closed, and acked or
\* another owner's to ack.
Cleared(c, k) ==
    run[k] \in Terminal /\ k \in closed /\ k \in acked \cup snap[c].moved

\* A client that frees a session it holds for a recovery leaves the runs it
\* took up cleared.
GivenBackIsCleared ==
    \A s \in Sessions, c \in Clients :
        lock[s] = c /\ Holds(c, s) /\ lock'[s] = Free => \A k \in snap[c].runs : Cleared(c, k)

\* When recover_session gives the lock back, every run that its listing let it
\* take up is over, closed, and acked unless it was transferred, whatever other
\* clients did to these runs meanwhile.  A run its listing did not let it take
\* up is none of its business: OneLiveRun says what that leads to.
RecoveryIsComplete == [][GivenBackIsCleared]_vars

\* Two clients never work on one message.
OneClientPerKey ==
    \A c, d \in Clients, k \in Keys : Attends(c, k) /\ Attends(d, k) => c = d

\* The calls of start_or_send after an answer that gave it a lock token, and
\* those of _cleanup_started_run.
Owned == {"wait", "read", "ack", "close", "release", "release_raise", "c_release"}

CleaningUp == {"c_cancel", "c_ack", "c_close", "c_release"}

\* What holds of the run and its lock at each call of start_or_send.
CallIsTrue(c) ==
    LET k == key[c]
    IN  /\ pc[c] \in {"idle", "status", "start", "replay", "r_force"} => ~token[c]
        /\ pc[c] \in Owned \cup (Recovering \ {"r_force"}) => token[c]
        /\ pc[c] \notin Recovering \cup {"idle"} => site[c] = SessionOf[k]
        /\ pc[c] \in {"replay"} \cup Owned \cup CleaningUp => run[k] # "none"
        /\ pc[c] \in {"status", "start", "replay"} /\ run[k] # "none" => Explained(k)
        /\ pc[c] \in {"read", "ack", "close", "release", "release_raise"} =>
              run[k] \in Terminal
        /\ pc[c] \in {"close", "release", "release_raise"} => k \in acked
        /\ pc[c] = "release" => k \in closed
        /\ pc[c] \in {"release_raise", "c_release"} => CloseIsExplained(k)
        /\ pc[c] \in CleaningUp \ {"c_cancel"} => RunIsExplained(k)
        /\ pc[c] \in {"c_close", "c_release"} => AckIsExplained(k)
        /\ pc[c] \in CleaningUp /\ ~token[c] => RunIsExplained(k) /\ LockIsExplained(k)

\* The inductive invariant of start_or_send and of the locks.
IInv ==
    /\ TypeOK
    /\ OneClientPerKey
    /\ \A c \in Clients : CallIsTrue(c)
    /\ \A k \in Keys : run[k] = "none" => lock[SessionOf[k]] # k
    /\ LeftoversExplained
    /\ RecoveryLockExplained
    /\ ReturnedIsClean

\* What cross_thread_list_runs said of run k and still holds.
ListingStands(c, k) ==
    /\ k \notin snap[c].live => run[k] \in Terminal
    /\ k \in snap[c].acked => k \in acked
    /\ k \in snap[c].closed => k \in closed

\* What recover_session has still to do for run k, before its current call.
StillToDo(c, k) ==
    \/ k \in snap[c].todo /\ ListingStands(c, k)
    \/ /\ key[c] = k
       /\ \/ pc[c] = "r_cancel" /\ ListingStands(c, k)
          \/ pc[c] = "r_ack" /\ run[k] \in Terminal /\ (k \in snap[c].closed => k \in closed)
          \/ pc[c] = "r_close" /\ run[k] \in Terminal /\ k \in acked \cup snap[c].moved

\* Recovery c has cleared run k, will clear it, or never took it up.
Accounted(c, k) ==
    IF k \in snap[c].runs THEN Cleared(c, k) \/ StillToDo(c, k)
                          ELSE run[k] \in Terminal \/ k \in passed

\* A recovery that has its list and still its lock.
Listing(c) == pc[c] \in Recovering \ {"r_force", "r_list"} /\ lock[site[c]] = c

\* It loses no run out of its sight.
ListingIsKept ==
    \A c \in Clients : Listing(c) =>
        /\ snap[c].runs \subseteq RunsOn(site[c])
        /\ \A k \in RunsOn(site[c]) : Accounted(c, k)

\* A run that goes on as it should has its session's lock, or lost it to a
\* recovery that is still under way or that was not told of it.
LiveRunIsGuarded ==
    \A k \in Keys :
        ~RunIsExplained(k) =>
            \/ SessionOf[k] \in botched \/ k \in passed
            \/ lock[SessionOf[k]] = k
            \/ \E c \in Clients : lock[SessionOf[k]] = c /\ Holds(c, SessionOf[k])

\* The inductive invariant of recover_session.
RecoveryInv == IInv /\ ListingIsKept /\ LiveRunIsGuarded /\ OneLiveRun

\* A locked session becomes free again: by its client, or by the lease.
LockIsReleased == \A s \in Sessions : lock[s] # Free ~> lock[s] = Free

\* Design of 2026-04-29, Error Handling: the cleanup runs when a dispatch fails
\* after the lock was taken, so only a crash or a failed release leaves a lock.
CleanupAfterLock ==
    \A k \in Keys :
        Unattended(k) /\ lock[SessionOf[k]] = k => Noted(k, {"crash", "release"})

=============================================================================
