------------------------- MODULE OpenilinkRuntime -------------------------
(***************************************************************************)
(* The OpeniLink runtime loop: OpeniLinkRuntime.process_one_batch and      *)
(* run_forever of adapters/openilink_runtime.py.  One process polls the    *)
(* iLink server, hands every private message to the gateway, and sends the *)
(* reply.  Every call of the BridgeStore is a SQLite transaction of its    *)
(* own, so every such call is an action of its own here and the process    *)
(* can die between any two of them.                                        *)
(*                                                                         *)
(* The iLink server (log, cursor semantics, what it really received) and   *)
(* the gateway (what a command answers) are external: their outcomes are   *)
(* the nondeterminism of Fetch, Handle* and Send*.                         *)
(***************************************************************************)
EXTENDS Integers

CONSTANTS
    Messages,     \* message references: _message_ref(conversation_id, message_id)
    LogLength,    \* number of updates the server holds for this bot
    MaxSetbacks   \* bound: crashes, exits and aborted or uncommitted batches

ASSUME RuntimeAssumption ==
    /\ LogLength \in Nat
    /\ MaxSetbacks \in Nat

\* What map_update_batch and the first checks of the loop tell apart.
Kinds == {"command",      \* private text for gateway.handle
          "management",   \* private "/group ...", answered with a fixed text
          "non_private",  \* a group message: ignored by this runtime
          "malformed",    \* _map_message raises IlinkEventError
          "draft"}        \* message_state # 2: _map_message returns None

Unmapped == {"malformed", "draft"}

Replies == {"none", "answer", "error", "disabled"}

DeliveryStates == {"none", "sending", "sent", "failed", "unknown"}

\* Events of the store this model keeps, with the message they name.
EventTypes == {"malformed", "ignored", "controller_error",
               "delivery_unknown", "delivery_failed"}

VARIABLES
    log,         \* the server's updates, oldest first; a message may be repeated
    kind,        \* what each message is
    cursor,      \* runtime_state "ilink.cursor"
    processed,   \* runtime_state "ilink.processed.<ref>"
    outbox,      \* runtime_state "ilink.outbox.<ref>"
    delivery,    \* runtime_state "ilink.delivery.<ref>"
    events,      \* the store's event rows, as a set of <<type, message>>
    pc,          \* the next statement of process_one_batch, or "poll" / "down"
    idx,         \* log position of the event of the current iteration
    batchEnd,    \* last log position of the current batch
    reply,       \* reply_text of the current iteration
    executed,    \* observation: how often the gateway was given the message
    received,    \* observation: how often the server took a reply to the message
    setbacks     \* observation and bound: batches that did not run to their end

server   == <<log, kind>>
store    == <<cursor, processed, outbox, delivery, events>>
locals   == <<idx, batchEnd, reply>>
observed == <<executed, received, setbacks>>
vars     == <<server, store, pc, locals, observed>>

Positions == 1..LogLength

\* Statements that work on the message at idx.
AtMessage == {"recovered_event", "recovered_mark", "recovered_state",
              "ignored_event", "ignored_mark", "handle", "error_event",
              "set_outbox", "empty_mark", "set_sending", "send",
              "failed_state", "failed_event", "interrupted_state",
              "interrupted_event", "interrupted_mark", "sent_mark",
              "sent_state"}

\* "interrupted_end": the end of the batch with delivery_interrupted set.
Labels == AtMessage \cup {"down", "poll", "message", "interrupted_end"}

Init ==
    /\ log \in [Positions -> Messages]
    /\ kind \in [Messages -> Kinds]
    /\ cursor = 0
    /\ processed = [m \in Messages |-> FALSE]
    /\ outbox = [m \in Messages |-> "none"]
    /\ delivery = [m \in Messages |-> "none"]
    /\ events = {}
    /\ pc = "poll"
    /\ idx = 0
    /\ batchEnd = 0
    /\ reply = "none"
    /\ executed = [m \in Messages |-> 0]
    /\ received = [m \in Messages |-> 0]
    /\ setbacks = 0

-----------------------------------------------------------------------------
(* Statements.                                                             *)

Goto(from, to) == pc = from /\ pc' = to

\* The next iteration of `for event in events`.
NextMessage ==
    /\ idx' = idx + 1
    /\ reply' = "none"
    /\ UNCHANGED batchEnd

\* process_one_batch is left: run_forever polls again, or the process is gone.
LeaveBatch ==
    /\ idx' = 0
    /\ batchEnd' = 0
    /\ reply' = "none"

Onward(to) ==
    CASE to = "message" -> NextMessage
      [] to = "down"    -> LeaveBatch
      [] OTHER          -> UNCHANGED locals

\* The calls on the store for the message at idx: record_event,
\* _mark_message_processed, and set_runtime_state of its delivery key.
RecordEvent(from, to, type) ==
    /\ Goto(from, to)
    /\ Onward(to)
    /\ events' = events \cup {<<type, log[idx]>>}
    /\ UNCHANGED <<server, cursor, processed, outbox, delivery, observed>>

MarkProcessed(from, to) ==
    /\ Goto(from, to)
    /\ Onward(to)
    /\ processed' = [processed EXCEPT ![log[idx]] = TRUE]
    /\ UNCHANGED <<server, cursor, outbox, delivery, events, observed>>

SetDelivery(from, to, state) ==
    /\ Goto(from, to)
    /\ Onward(to)
    /\ delivery' = [delivery EXCEPT ![log[idx]] = state]
    /\ UNCHANGED <<server, cursor, processed, outbox, events, observed>>

Setback ==
    /\ setbacks < MaxSetbacks
    /\ setbacks' = setbacks + 1

\* The batch ends before its end, with nothing more done.
CutShort(to) ==
    /\ pc' = to
    /\ LeaveBatch
    /\ Setback
    /\ UNCHANGED <<server, store, executed, received>>

-----------------------------------------------------------------------------
(* get_updates, map_update_batch, and the tests at the head of the loop.   *)

\* Mutant: malformed updates are dropped without an event.
FetchMutant ==
    /\ Goto("poll", "message")
    /\ batchEnd' \in cursor..LogLength
    /\ idx' = cursor + 1
    /\ reply' = "none"
    /\ UNCHANGED <<server, store, observed>>

\* The server answers with updates after the stored cursor (none, some or all
\* of them); the malformed ones are recorded before the loop starts.  A failed
\* or timed-out poll changes nothing and is a stuttering step.
Fetch ==
    /\ Goto("poll", "message")
    /\ batchEnd' \in cursor..LogLength
    /\ idx' = cursor + 1
    /\ reply' = "none"
    /\ events' = events \cup
          {<<"malformed", log[i]>> :
             i \in {j \in (cursor + 1)..batchEnd' : kind[log[j]] = "malformed"}}
    /\ UNCHANGED <<server, cursor, processed, outbox, delivery, observed>>

InBatch == pc = "message" /\ idx <= batchEnd

Skip == NextMessage /\ UNCHANGED <<server, store, pc, observed>>

Turn(to) == pc' = to /\ UNCHANGED <<server, store, locals, observed>>

\* The first test that applies decides.
SkipUnmapped == InBatch /\ kind[log[idx]] \in Unmapped /\ Skip

Mapped == InBatch /\ kind[log[idx]] \notin Unmapped

\* Mutant: `break` where the code has `continue`: the batch ends at the first
\* message that was already processed, and the cursor stays.
SkipProcessedMutant ==
    /\ Mapped
    /\ processed[log[idx]]
    /\ pc' = "poll"
    /\ LeaveBatch
    /\ UNCHANGED <<server, store, observed>>

SkipProcessed == Mapped /\ processed[log[idx]] /\ Skip

\* Mutant: the processed mark is not looked at.
OpenMutant == Mapped

Open == Mapped /\ ~processed[log[idx]]

\* Mutant: the message is marked before the event is recorded.
FindSendingMutant ==
    /\ Open
    /\ delivery[log[idx]] = "sending"
    /\ Turn("recovered_mark")

\* An earlier attempt died between SENDING and its outcome.
FindSending == Open /\ delivery[log[idx]] = "sending" /\ Turn("recovered_event")

\* Mutant: a reply left in SENDING is treated like a new one.
FreshMutant == Open

Fresh == Open /\ delivery[log[idx]] # "sending"

FindNonPrivate ==
    /\ Fresh
    /\ kind[log[idx]] = "non_private"
    /\ Turn("ignored_event")

\* The outbox already holds the reply: the command is not run again.
FindOutbox ==
    /\ Fresh
    /\ kind[log[idx]] # "non_private"
    /\ outbox[log[idx]] # "none"
    /\ reply' = outbox[log[idx]]
    /\ pc' = "set_sending"
    /\ UNCHANGED <<server, store, idx, batchEnd, observed>>

Unanswered(k) == Fresh /\ kind[log[idx]] = k /\ outbox[log[idx]] = "none"

FindManagement ==
    /\ Unanswered("management")
    /\ reply' = "disabled"
    /\ pc' = "set_outbox"
    /\ UNCHANGED <<server, store, idx, batchEnd, observed>>

\* Mutant: the outbox is not looked at.
FindCommandMutant == Fresh /\ kind[log[idx]] = "command" /\ Turn("handle")

FindCommand == Unanswered("command") /\ Turn("handle")

LoopHead ==
    \/ SkipUnmapped \/ SkipProcessed \/ FindSending \/ FindNonPrivate
    \/ FindOutbox \/ FindManagement \/ FindCommand

\* delivery == "sending": report, mark processed, set UNKNOWN, continue.
Recovered ==
    \/ RecordEvent("recovered_event", "recovered_mark", "delivery_unknown")
    \/ MarkProcessed("recovered_mark", "recovered_state")
    \/ SetDelivery("recovered_state", "message", "unknown")

\* conversation_type # "private": report, mark processed, continue.
Ignored ==
    \/ RecordEvent("ignored_event", "ignored_mark", "ignored")
    \/ MarkProcessed("ignored_mark", "message")

-----------------------------------------------------------------------------
(* gateway.handle: the command takes effect, then its outcome is known.    *)

Execute == executed' = [executed EXCEPT ![log[idx]] = @ + 1]

\* A reply; the empty reply to an ignored sender, after which nothing is stored
\* or sent; or an McpControllerClientError, which becomes a reply of its own.
HandleReturns ==
    /\ \/ Goto("handle", "set_outbox") /\ reply' = "answer"
       \/ Goto("handle", "empty_mark") /\ UNCHANGED reply
       \/ Goto("handle", "error_event") /\ reply' = "error"
    /\ Execute
    /\ UNCHANGED <<server, store, idx, batchEnd, received, setbacks>>

\* Mutant: the loop goes on after an exception.
HandleRaisesMutant ==
    /\ Goto("handle", "message")
    /\ Execute
    /\ NextMessage
    /\ Setback
    /\ UNCHANGED <<server, store, received>>

\* Any other exception leaves the batch after the command took effect: a
\* ValueError ends the process, the rest is retried by run_forever.
HandleRaises ==
    /\ Goto("handle", "poll") \/ Goto("handle", "down")
    /\ Execute
    /\ LeaveBatch
    /\ Setback
    /\ UNCHANGED <<server, store, received>>

SetOutbox ==
    /\ Goto("set_outbox", "set_sending")
    /\ outbox' = [outbox EXCEPT ![log[idx]] = reply]
    /\ UNCHANGED <<server, cursor, processed, delivery, events, locals, observed>>

Handled ==
    \/ HandleReturns
    \/ HandleRaises
    \/ RecordEvent("error_event", "set_outbox", "controller_error")
    \/ MarkProcessed("empty_mark", "message")
    \/ SetOutbox

-----------------------------------------------------------------------------
(* The delivery of the reply.                                              *)

Receive == received' = [received EXCEPT ![log[idx]] = @ + 1]

\* Mutant: SENT is written, the message is never marked processed.
SendSucceedsMutant ==
    /\ Goto("send", "sent_state")
    /\ Receive
    /\ UNCHANGED <<server, store, locals, executed, setbacks>>

\* ret is 0, or the answer has no ret at all and no error: the client counts
\* either as sent, and so does the server here.
SendSucceeds ==
    /\ Goto("send", "sent_mark")
    /\ Receive
    /\ UNCHANGED <<server, store, locals, executed, setbacks>>

\* IlinkClientTransientError or an OSError: the server may have the reply.
SendIsUncertain ==
    /\ Goto("send", "interrupted_state")
    /\ Receive \/ UNCHANGED received
    /\ UNCHANGED <<server, store, locals, executed, setbacks>>

\* A terminal error: a refusal, or an answer the client cannot read, after
\* which the server may have the reply all the same.  It ends the process.
SendFails ==
    /\ Goto("send", "failed_state")
    /\ Receive \/ UNCHANGED received
    /\ Setback
    /\ UNCHANGED <<server, store, locals, executed>>

Sending ==
    \/ SetDelivery("set_sending", "send", "sending")
    \/ SendSucceeds
    \/ SendIsUncertain
    \/ SendFails

Sent ==
    \/ MarkProcessed("sent_mark", "sent_state")
    \/ SetDelivery("sent_state", "message", "sent")

\* Mutant: the message of an uncertain reply is not marked processed.
InterruptedMutant ==
    \/ SetDelivery("interrupted_state", "interrupted_event", "unknown")
    \/ RecordEvent("interrupted_event", "interrupted_end", "delivery_unknown")

\* `break` after it: the rest of the batch is left for a later poll.
Interrupted ==
    \/ SetDelivery("interrupted_state", "interrupted_event", "unknown")
    \/ RecordEvent("interrupted_event", "interrupted_mark", "delivery_unknown")
    \/ MarkProcessed("interrupted_mark", "interrupted_end")

Failed ==
    \/ SetDelivery("failed_state", "failed_event", "failed")
    \/ RecordEvent("failed_event", "down", "delivery_failed")

-----------------------------------------------------------------------------
(* The end of the batch, and the ways it can be cut short.                 *)

EndOfBatch == pc = "message" /\ idx > batchEnd

\* new_cursor is stored only when no delivery was interrupted.
CommitCursor ==
    /\ EndOfBatch
    /\ cursor' = batchEnd
    /\ pc' = "poll"
    /\ LeaveBatch
    /\ UNCHANGED <<server, processed, outbox, delivery, events, observed>>

\* The server's answer carried no get_updates_buf: the old cursor is kept.
KeepCursor == EndOfBatch /\ CutShort("poll")

\* Mutant: the new cursor is stored although the loop was left early.
EndInterruptedMutant ==
    /\ Goto("interrupted_end", "poll")
    /\ cursor' = batchEnd
    /\ LeaveBatch
    /\ UNCHANGED <<server, processed, outbox, delivery, events, observed>>

EndInterrupted ==
    /\ Goto("interrupted_end", "poll")
    /\ LeaveBatch
    /\ UNCHANGED <<server, store, observed>>

\* A store call raises (the database is locked by the local simulator): the
\* exception is not terminal and run_forever starts a new batch.
AbortBatch ==
    /\ pc \in ({"message"} \cup AtMessage) \ {"send"}
    /\ CutShort("poll")

\* The process dies, or get_updates fails with a terminal error.
Crash == pc # "down" /\ CutShort("down")

\* An operator starts the runtime again on the same store.
Restart == Goto("down", "poll") /\ UNCHANGED <<server, store, locals, observed>>

Delivered == Sending \/ Sent \/ Interrupted \/ Failed

Ended == CommitCursor \/ KeepCursor \/ EndInterrupted \/ AbortBatch \/ Crash

\* What the running process does; Restart is up to the operator.
Step == Fetch \/ LoopHead \/ Recovered \/ Ignored \/ Handled \/ Delivered \/ Ended

Next == Step \/ Restart

Spec == Init /\ [][Next]_vars

\* A running process keeps executing.  The server does not answer with an
\* empty batch forever while it holds updates.
FetchesSomething == Fetch /\ batchEnd' > cursor

FairSpec == Spec /\ WF_vars(Step) /\ SF_vars(FetchesSomething)

-----------------------------------------------------------------------------
(* Properties.                                                             *)

\* Every variable stays in its set; in particular the loop never indexes past
\* the batch while it works on a message.
TypeOK ==
    /\ log \in [Positions -> Messages]
    /\ kind \in [Messages -> Kinds]
    /\ cursor \in 0..LogLength
    /\ processed \in [Messages -> BOOLEAN]
    /\ outbox \in [Messages -> Replies]
    /\ delivery \in [Messages -> DeliveryStates]
    /\ events \subseteq EventTypes \X Messages
    /\ pc \in Labels
    /\ idx \in 0..(LogLength + 1)
    /\ batchEnd \in 0..LogLength
    /\ reply \in Replies
    /\ executed \in [Messages -> Nat]
    /\ received \in [Messages -> Nat]
    /\ setbacks \in 0..MaxSetbacks
    /\ pc = "message" => idx > 0
    /\ pc \in AtMessage => idx \in Positions /\ idx <= batchEnd

\* An update the runtime is through with: processed, or dropped by
\* map_update_batch (a malformed one only after its event was recorded).
Settled(m) ==
    \/ processed[m]
    \/ kind[m] = "draft"
    \/ kind[m] = "malformed" /\ <<"malformed", m>> \in events

\* The stored cursor never passes an update that is not settled, whatever was
\* interrupted before the cursor was written: no update is lost by a restart.
CursorBehindWork == \A i \in 1..cursor : Settled(log[i])

\* A reply that was written for a message, and of which the server has no copy
\* when the message is marked processed, is reported as delivery_unknown:
\* marking the message processed never loses a reply silently.
NoSilentLoss ==
    \A m \in Messages :
        processed[m] /\ outbox[m] # "none" /\ received[m] = 0
            => <<"delivery_unknown", m>> \in events

\* The state SENT is written only for a processed message the server has.
SentWasReceived ==
    \A m \in Messages :
        delivery[m] = "sent" => processed[m] /\ received[m] > 0

\* Outbox, delivery state and processed mark together keep a command from
\* running again, and its reply from being sent again, except after a batch
\* that was cut short: one more time per such batch at most.
RepeatsNeedSetbacks ==
    \A m \in Messages :
        /\ executed[m] <= 1 + setbacks
        /\ received[m] <= 1 + setbacks

\* Once the reply is in the outbox the gateway never sees the message again;
\* once a message is processed nothing more is sent for it, also when the
\* server repeats it at another position or in a later batch.
LeavesAnswered(m) ==
    /\ outbox[m] # "none" =>
           executed'[m] = executed[m] /\ outbox'[m] = outbox[m]
    /\ processed[m] =>
           /\ processed'[m]
           /\ executed'[m] = executed[m]
           /\ received'[m] = received[m]

AnsweredIsFinal == [][\A m \in Messages : LeavesAnswered(m)]_vars

\* Commands take effect and replies leave in the order of the server's log:
\* every earlier update is settled by then, also after crashes.
ActsAfterSettled ==
    executed' # executed \/ received' # received =>
        \A j \in 1..(idx - 1) : Settled(log[j])

HandledInOrder == [][ActsAfterSettled]_vars

\* A reply that was once handed to send_text, whatever became of it, is handed
\* to it again only after a batch was cut short: short of that, what docs/03
\* says of uncertain replies (UnknownIsNotResent) does hold.
SendsAgain(m) ==
    delivery[m] # "none" /\ delivery'[m] = "sending" /\ delivery'[m] # delivery[m]

ResendsNeedSetbacks == [][\A m \in Messages : SendsAgain(m) => setbacks > 0]_vars

\* If the operator restarts the runtime whenever it is down, every update is
\* settled in the end and the cursor reaches the end of the log.
Progress == []<>(pc # "down") => <>[](cursor = LogLength)

\* docs/03: a reply whose delivery is unknown is not sent again by the
\* runtime.  (The code violates this, see the finding.)
UnknownIsNotResent ==
    [][\A m \in Messages :
         delivery[m] = "unknown" => delivery'[m] # "sending"]_vars

-----------------------------------------------------------------------------
(* The inductive invariant behind the safety properties.                   *)

Active == pc = "message" \/ pc \in AtMessage

\* Up to the current iteration everything is settled, and the malformed
\* updates of the whole batch are on record.
BatchInv ==
    Active =>
        /\ cursor < idx
        /\ idx <= batchEnd + 1
        /\ \A i \in 1..(idx - 1) : Settled(log[i])
        /\ \A i \in (cursor + 1)..batchEnd :
              kind[log[i]] = "malformed" => <<"malformed", log[i]>> \in events

\* What is known of the message at idx at each statement.
CurrentInv ==
    /\ pc \in AtMessage \ {"recovered_state", "sent_state"} =>
          ~processed[log[idx]]
    /\ pc \in {"ignored_event", "ignored_mark", "handle", "error_event",
               "set_outbox", "empty_mark"} => outbox[log[idx]] = "none"
    /\ pc \in {"error_event", "set_outbox"} => reply # "none"
    /\ pc \in {"recovered_mark", "interrupted_mark"} =>
          <<"delivery_unknown", log[idx]>> \in events
    /\ pc \in {"sent_mark", "sent_state"} => received[log[idx]] > 0
    /\ pc \in {"recovered_state", "sent_state"} => processed[log[idx]]
    /\ pc \in {"handle", "error_event", "set_outbox", "empty_mark"} =>
          kind[log[idx]] # "non_private"
    /\ \A m \in Messages : outbox[m] # "none" => kind[m] # "non_private"

\* What the store keys of the message at idx say at each statement.
KeysInv ==
    /\ pc \in {"recovered_event", "recovered_mark", "send", "sent_mark",
               "interrupted_state", "failed_state"} => delivery[log[idx]] = "sending"
    /\ pc \in {"ignored_event", "ignored_mark", "handle", "error_event",
               "set_outbox", "empty_mark", "set_sending", "interrupted_event",
               "interrupted_mark", "failed_event"} => delivery[log[idx]] # "sending"
    /\ pc \in {"recovered_state", "set_sending", "interrupted_event",
               "interrupted_mark", "sent_state", "failed_event"} =>
          outbox[log[idx]] # "none"
    /\ \A m \in Messages : delivery[m] # "none" => outbox[m] # "none"

\* A reply that was tried and whose message is still open: the batch is at it,
\* or one was cut short.
AttemptsInv ==
    \A m \in Messages :
        delivery[m] # "none" /\ ~processed[m] /\ setbacks = 0 =>
            /\ pc \in AtMessage /\ log[idx] = m
            /\ pc \in {"send", "sent_mark", "interrupted_state", "interrupted_event",
                      "interrupted_mark"}

\* Has this batch already used up its try at running, at sending?
Ran(m) ==
    \/ processed[m] \/ outbox[m] # "none"
    \/ pc \in {"error_event", "set_outbox", "empty_mark"} /\ log[idx] = m

Tried(m) ==
    \/ processed[m]
    \/ /\ pc \in {"interrupted_state", "interrupted_event",
                  "interrupted_mark", "sent_mark"}
       /\ log[idx] = m

RepeatsInv ==
    \A m \in Messages :
        /\ executed[m] <= setbacks + (IF Ran(m) THEN 1 ELSE 0)
        /\ received[m] <= setbacks + (IF Tried(m) THEN 1 ELSE 0)

\* Strengthens the five invariants above until every step preserves it, and
\* until it carries the refinement to ReplyLedger.
IInv ==
    /\ TypeOK
    /\ CursorBehindWork
    /\ NoSilentLoss
    /\ SentWasReceived
    /\ BatchInv
    /\ CurrentInv
    /\ KeysInv
    /\ AttemptsInv
    /\ RepeatsInv

=============================================================================
