-------------------------- MODULE RefinementProofs --------------------------
(* Proof that the runtime implements the reply ledger, for every log, every  *)
(* set of messages and every number of crashes and aborted batches.          *)
EXTENDS OpenilinkRefinement, OpenilinkProofs

\* The stage of a message depends on its keys and on an attempt for it.
LEMMA OthersStay ==
    ASSUME NEW m, NEW n, m # n,
           processed'[n] = processed[n], delivery'[n] = delivery[n], outbox'[n] = outbox[n],
           pc = "send" => log[idx] = m, pc' = "send" => log'[idx'] = m
    PROVE  LedgerStage(n)' = LedgerStage(n)
  BY DEF LedgerStage

\* One message moves when the others do not.
LEMMA OneMoves ==
    ASSUME NEW m \in Messages, NEW from, NEW to, LedgerStage(m) = from, LedgerStage(m)' = to,
           \A n \in Messages \ {m} : LedgerStage(n)' = LedgerStage(n)
    PROVE  Ledger!Move(m, from, to)
<1>1. Stage[m] = from
  BY DEF Stage
<1>2. Stage' = [Stage EXCEPT ![m] = to]
  BY DEF Stage
<1>3. QED
  BY <1>1, <1>2 DEF Ledger!Move

\* A statement that writes none of the keys, and is no attempt.
LEMMA KeysStay ==
    ASSUME UNCHANGED <<processed, delivery, outbox, received>>, pc # "send", pc' # "send",
           Warned' = Warned
    PROVE  UNCHANGED Ledger!ledger
  BY DEF Ledger!ledger, Stage, LedgerStage

\* A statement that writes no event.
LEMMA NothingIsStored ==
    ASSUME UNCHANGED <<processed, delivery, outbox, received, events>>,
           pc # "send", pc' # "send"
    PROVE  UNCHANGED Ledger!ledger
<1>1. Warned' = Warned
  BY DEF Warned
<1>2. QED
  BY <1>1, KeysStay

\* record_event is a warning, or nothing to the ledger.
LEMMA EventStep ==
    ASSUME IInv, NEW m, m = log[idx],
           NEW from \in AtMessage \ {"send"}, NEW to \in Labels \ {"send"},
           NEW type \in EventTypes, RecordEvent(from, to, type),
           type = "delivery_unknown" => LedgerStage(m) \in {"answered", "tried"}
    PROVE  [Ledger!Next]_(Ledger!ledger)
<1>1. /\ UNCHANGED <<processed, delivery, outbox, received>> /\ pc # "send" /\ pc' # "send"
      /\ m \in Messages /\ events' = events \cup {<<type, m>>}
  BY DEF RecordEvent, Goto, observed, IInv, TypeOK
<1>2. CASE type # "delivery_unknown"
  <2>1. Warned' = Warned
    BY <1>1, <1>2 DEF Warned
  <2>2. QED
    BY <1>1, <2>1, KeysStay
<1>3. CASE type = "delivery_unknown"
  <2>1. Warned' = Warned \cup {m}
    BY <1>1, <1>3 DEF Warned
  <2>2. Stage' = Stage
    BY <1>1 DEF RecordEvent, Stage, LedgerStage
  <2>3. Stage[m] \in {"answered", "tried"}
    BY <1>1, <1>3 DEF Stage
  <2>4. Ledger!Warn(m)
    BY <1>1, <2>1, <2>2, <2>3 DEF Ledger!Warn
  <2>5. QED
    BY <1>1, <2>4 DEF Ledger!Next
<1>4. QED
  BY <1>2, <1>3

\* The processed mark closes the message.
LEMMA MarkStep ==
    ASSUME IInv, NEW m, m = log[idx],
           NEW from \in AtMessage \ {"send"}, NEW to \in Labels \ {"send"},
           MarkProcessed(from, to),
           \/ LedgerStage(m) = "new"
           \/ /\ LedgerStage(m) \in {"answered", "tried"}
              /\ received[m] > 0 \/ <<"delivery_unknown", m>> \in events
    PROVE  Ledger!Next
<1>1. /\ UNCHANGED <<delivery, outbox, received, events>> /\ pc # "send" /\ pc' # "send"
      /\ m \in Messages /\ processed' = [processed EXCEPT ![m] = TRUE]
      /\ processed \in [Messages -> BOOLEAN]
  BY DEF MarkProcessed, Goto, observed, IInv, TypeOK
<1>2. LedgerStage(m)' = "closed"
  BY <1>1 DEF LedgerStage, IInv, TypeOK
<1>3. \A n \in Messages \ {m} : LedgerStage(n)' = LedgerStage(n)
  <2>1. ASSUME NEW n \in Messages, n # m
        PROVE  processed'[n] = processed[n]
    BY <1>1, <2>1, Zenon
  <2>2. QED
    BY <1>1, <2>1, OthersStay
<1>4. \A a : LedgerStage(m) = a => Ledger!Move(m, a, "closed")
  BY <1>1, <1>2, <1>3, OneMoves
<1>5. UNCHANGED <<received, Warned>>
  BY <1>1 DEF Warned
<1>6. <<"delivery_unknown", m>> \in events => m \in Warned
  BY <1>1 DEF Warned
<1>7. Ledger!Close(m)
  BY <1>4, <1>5, <1>6 DEF Ledger!Close
<1>8. QED
  BY <1>1, <1>7 DEF Ledger!Next

\* A write of the delivery state of the message at hand.
LEMMA DeliveryStep ==
    ASSUME IInv, NEW m, m = log[idx],
           NEW from \in AtMessage \ {"send"}, NEW to \in Labels, NEW state,
           SetDelivery(from, to, state)
    PROVE  /\ m \in Messages /\ UNCHANGED <<received, Warned>>
           /\ \A a, b : LedgerStage(m) = a /\ LedgerStage(m)' = b => Ledger!Move(m, a, b)
<1>1. /\ UNCHANGED <<log, processed, outbox, received, events>> /\ pc # "send"
      /\ m \in Messages /\ delivery' = [delivery EXCEPT ![m] = state]
      /\ delivery \in [Messages -> DeliveryStates]
      /\ pc' = "send" => idx' = idx
  BY DEF SetDelivery, Goto, Onward, server, locals, observed, IInv, TypeOK
<1>2. \A n \in Messages \ {m} : LedgerStage(n)' = LedgerStage(n)
  BY <1>1, OthersStay
<1>3. \A a, b : LedgerStage(m) = a /\ LedgerStage(m)' = b => Ledger!Move(m, a, b)
  BY <1>1, <1>2, OneMoves
<1>4. QED
  BY <1>1, <1>3 DEF Warned

\* The outcome of a processed message is nothing to the ledger.
LEMMA Settles ==
    ASSUME IInv, NEW m, m = log[idx],
           NEW from \in {"recovered_state", "sent_state"}, NEW state,
           SetDelivery(from, "message", state)
    PROVE  UNCHANGED Ledger!ledger
<1>1. /\ UNCHANGED <<processed, outbox, received, events>> /\ pc # "send" /\ pc' # "send"
      /\ m \in Messages /\ processed[m]
      /\ delivery' = [delivery EXCEPT ![m] = state] /\ delivery \in [Messages -> DeliveryStates]
  BY DEF SetDelivery, Goto, observed, IInv, TypeOK, CurrentInv, AtMessage
<1>2. \A n \in Messages : LedgerStage(n)' = LedgerStage(n)
  <2>1. ASSUME NEW n \in Messages, n # m
        PROVE  LedgerStage(n)' = LedgerStage(n)
    BY <1>1, <2>1, OthersStay
  <2>2. LedgerStage(m)' = LedgerStage(m)
    BY <1>1 DEF LedgerStage
  <2>3. QED
    BY <2>1, <2>2
<1>3. Stage' = Stage /\ Warned' = Warned
  BY <1>1, <1>2 DEF Stage, Warned
<1>4. QED
  BY <1>1, <1>3 DEF Ledger!ledger

\* The outcome of an attempt that did not end well is written down.
LEMMA WritesOff ==
    ASSUME IInv, NEW m, m = log[idx], NEW from \in {"interrupted_state", "failed_state"},
           NEW to \in AtMessage \ {"send"}, NEW state \in {"unknown", "failed"},
           SetDelivery(from, to, state)
    PROVE  Ledger!Next
<1>1. /\ UNCHANGED <<processed, outbox>> /\ pc = from /\ pc' = to /\ pc # "send"
      /\ m \in Messages /\ ~processed[m] /\ delivery[m] = "sending" /\ outbox[m] # "none"
      /\ delivery' = [delivery EXCEPT ![m] = state] /\ delivery \in [Messages -> DeliveryStates]
  BY DEF SetDelivery, Goto, IInv, TypeOK, CurrentInv, KeysInv, AtMessage
<1>2. LedgerStage(m) = "tried" /\ LedgerStage(m)' = "answered"
  BY <1>1 DEF LedgerStage
<1>3. Ledger!WriteOff(m)
  BY <1>2, DeliveryStep DEF Ledger!WriteOff, AtMessage, Labels
<1>4. QED
  BY <1>1, <1>3 DEF Ledger!Next

\* An attempt that ends with or without a copy at the server.
LEMMA AttemptStep ==
    ASSUME IInv, NEW m, m = log[idx], pc = "send", pc' # "send",
           UNCHANGED <<processed, delivery, outbox, events>>,
           Receive \/ UNCHANGED received
    PROVE  Ledger!Next
<1>1. m \in Messages /\ ~processed[m] /\ delivery[m] = "sending"
  BY DEF IInv, TypeOK, CurrentInv, KeysInv, AtMessage
<1>2. LedgerStage(m) = "inflight" /\ LedgerStage(m)' = "tried"
  BY <1>1 DEF LedgerStage
<1>3. \A n \in Messages \ {m} : LedgerStage(n)' = LedgerStage(n)
  BY OthersStay
<1>4. Ledger!Move(m, "inflight", "tried") /\ Warned' = Warned
  BY <1>1, <1>2, <1>3, OneMoves DEF Warned
<1>5. CASE Receive
  BY <1>1, <1>4, <1>5 DEF Receive, Ledger!Arrive, Ledger!Next
<1>6. CASE UNCHANGED received
  BY <1>1, <1>4, <1>6 DEF Ledger!Miss, Ledger!Next
<1>7. QED
  BY <1>5, <1>6

\* Every step of the runtime is a step of the ledger, or none.
LEMMA LedgerStep ==
    ASSUME IInv, [Next]_vars
    PROVE  [Ledger!Next]_(Ledger!ledger)
<1>0. PICK m : m = log[idx]
  OBVIOUS
<1>1. /\ m = log[idx]
      /\ pc \in AtMessage => m \in Messages /\ processed[m] \in BOOLEAN
      /\ pc \in AtMessage \ {"recovered_state", "sent_state"} => ~processed[m]
  BY <1>0 DEF IInv, TypeOK, CurrentInv
<1>2. CASE Fetch
  <2>1. Warned' = Warned
    BY <1>2 DEF Fetch, Warned
  <2>2. QED
    BY <1>2, <2>1, KeysStay DEF Fetch, Goto, observed
<1>3. CASE LoopHead
  BY <1>3, NothingIsStored
  DEF LoopHead, SkipUnmapped, SkipProcessed, FindSending, FindNonPrivate, FindOutbox,
      FindManagement, FindCommand, Unanswered, Fresh, Open, Mapped, InBatch, Skip, Turn,
      store, observed
<1>4. CASE Recovered
  <2>1. CASE RecordEvent("recovered_event", "recovered_mark", "delivery_unknown")
    <3>1. LedgerStage(m) = "tried"
      BY <1>1, <2>1 DEF RecordEvent, Goto, AtMessage, IInv, KeysInv, LedgerStage
    <3>2. QED
      BY <1>1, <2>1, <3>1, EventStep DEF AtMessage, Labels, EventTypes
  <2>2. CASE MarkProcessed("recovered_mark", "recovered_state")
    <3>1. LedgerStage(m) = "tried" /\ <<"delivery_unknown", m>> \in events
      BY <1>1, <2>2 DEF MarkProcessed, Goto, AtMessage, IInv, KeysInv, CurrentInv, LedgerStage
    <3>2. QED
      BY <1>1, <2>2, <3>1, MarkStep DEF AtMessage, Labels
  <2>3. CASE SetDelivery("recovered_state", "message", "unknown")
    BY <1>1, <2>3, Settles
  <2>4. QED
    BY <1>4, <2>1, <2>2, <2>3 DEF Recovered
<1>5. CASE Ignored
  <2>1. CASE RecordEvent("ignored_event", "ignored_mark", "ignored")
    BY <1>1, <2>1, EventStep DEF AtMessage, Labels, EventTypes
  <2>2. CASE MarkProcessed("ignored_mark", "message")
    <3>1. LedgerStage(m) = "new"
      BY <1>1, <2>2 DEF MarkProcessed, Goto, AtMessage, IInv, KeysInv, CurrentInv, LedgerStage
    <3>2. QED
      BY <1>1, <2>2, <3>1, MarkStep DEF AtMessage, Labels
  <2>3. QED
    BY <1>5, <2>1, <2>2 DEF Ignored
<1>6. CASE HandleReturns
  BY <1>6, NothingIsStored DEF HandleReturns, Goto, store
<1>7. CASE HandleRaises
  BY <1>7, NothingIsStored DEF HandleRaises, Goto, store
<1>8. CASE RecordEvent("error_event", "set_outbox", "controller_error")
  BY <1>1, <1>8, EventStep DEF AtMessage, Labels, EventTypes
<1>9. CASE MarkProcessed("empty_mark", "message")
  <2>1. LedgerStage(m) = "new"
    BY <1>1, <1>9 DEF MarkProcessed, Goto, AtMessage, IInv, KeysInv, CurrentInv, LedgerStage
  <2>2. QED
    BY <1>1, <1>9, <2>1, MarkStep DEF AtMessage, Labels
<1>10. CASE SetOutbox
  <2>1. /\ pc = "set_outbox" /\ pc' = "set_sending" /\ m \in Messages /\ reply # "none"
        /\ outbox' = [outbox EXCEPT ![m] = reply] /\ outbox \in [Messages -> Replies]
        /\ UNCHANGED <<processed, delivery, events, received>>
    BY <1>1, <1>10 DEF SetOutbox, Goto, observed, AtMessage, IInv, TypeOK, CurrentInv
  <2>2. LedgerStage(m) = "new" /\ LedgerStage(m)' = "answered"
    BY <1>1, <2>1 DEF AtMessage, IInv, TypeOK, KeysInv, CurrentInv, LedgerStage
  <2>3. \A n \in Messages \ {m} : LedgerStage(n)' = LedgerStage(n)
    BY <2>1, OthersStay
  <2>4. Ledger!Answer(m)
    BY <2>1, <2>2, <2>3, OneMoves DEF Ledger!Answer, Warned
  <2>5. QED
    BY <2>1, <2>4 DEF Ledger!Next
<1>11. CASE Sending
  <2>1. CASE SetDelivery("set_sending", "send", "sending")
    <3>1. LedgerStage(m) = "answered" /\ LedgerStage(m)' = "inflight"
      BY <1>1, <2>1
      DEF SetDelivery, Goto, Onward, server, locals, AtMessage, IInv, TypeOK, KeysInv, LedgerStage
    <3>2. Ledger!Dispatch(m) /\ m \in Messages
      BY <1>1, <2>1, <3>1, DeliveryStep DEF Ledger!Dispatch, AtMessage, Labels
    <3>3. QED
      BY <3>2 DEF Ledger!Next
  <2>2. CASE SendSucceeds \/ SendIsUncertain \/ SendFails
    BY <1>1, <2>2, AttemptStep DEF SendSucceeds, SendIsUncertain, SendFails, Goto, store
  <2>3. QED
    BY <1>11, <2>1, <2>2 DEF Sending
<1>12. CASE Sent
  <2>1. CASE MarkProcessed("sent_mark", "sent_state")
    <3>1. LedgerStage(m) = "tried" /\ received[m] > 0
      BY <1>1, <2>1 DEF MarkProcessed, Goto, AtMessage, IInv, KeysInv, CurrentInv, LedgerStage
    <3>2. QED
      BY <1>1, <2>1, <3>1, MarkStep DEF AtMessage, Labels
  <2>2. CASE SetDelivery("sent_state", "message", "sent")
    BY <1>1, <2>2, Settles
  <2>3. QED
    BY <1>12, <2>1, <2>2 DEF Sent
<1>13. CASE Interrupted
  <2>1. CASE SetDelivery("interrupted_state", "interrupted_event", "unknown")
    BY <1>1, <2>1, WritesOff DEF AtMessage, Labels
  <2>2. CASE RecordEvent("interrupted_event", "interrupted_mark", "delivery_unknown")
    <3>1. LedgerStage(m) = "answered"
      BY <1>1, <2>2 DEF RecordEvent, Goto, AtMessage, IInv, KeysInv, LedgerStage
    <3>2. QED
      BY <1>1, <2>2, <3>1, EventStep DEF AtMessage, Labels, EventTypes
  <2>3. CASE MarkProcessed("interrupted_mark", "interrupted_end")
    <3>1. LedgerStage(m) = "answered" /\ <<"delivery_unknown", m>> \in events
      BY <1>1, <2>3 DEF MarkProcessed, Goto, AtMessage, IInv, KeysInv, CurrentInv, LedgerStage
    <3>2. QED
      BY <1>1, <2>3, <3>1, MarkStep DEF AtMessage, Labels
  <2>4. QED
    BY <1>13, <2>1, <2>2, <2>3 DEF Interrupted
<1>14. CASE Failed
  <2>1. CASE SetDelivery("failed_state", "failed_event", "failed")
    BY <1>1, <2>1, WritesOff DEF AtMessage, Labels
  <2>2. CASE RecordEvent("failed_event", "down", "delivery_failed")
    BY <1>1, <2>2, EventStep DEF AtMessage, Labels, EventTypes
  <2>3. QED
    BY <1>14, <2>1, <2>2 DEF Failed
<1>15. CASE CommitCursor
  BY <1>15, NothingIsStored DEF CommitCursor, EndOfBatch, observed
<1>16. CASE KeepCursor
  BY <1>16, NothingIsStored DEF KeepCursor, EndOfBatch, CutShort, store
<1>17. CASE EndInterrupted
  BY <1>17, NothingIsStored DEF EndInterrupted, Goto, store, observed
<1>18. CASE AbortBatch
  BY <1>18, NothingIsStored DEF AbortBatch, CutShort, store
<1>19. CASE Crash
  <2>1. CASE pc = "send"
    BY <1>1, <1>19, <2>1, AttemptStep DEF Crash, CutShort, store
  <2>2. CASE pc # "send"
    BY <1>19, <2>2, NothingIsStored DEF Crash, CutShort, store
  <2>3. QED
    BY <2>1, <2>2
<1>20. CASE Restart
  BY <1>20, NothingIsStored DEF Restart, Goto, store, observed
<1>21. CASE UNCHANGED vars
  BY <1>21
  DEF vars, server, store, locals, observed, Ledger!ledger, Stage, LedgerStage, Warned
<1>22. QED
  BY <1>2, <1>3, <1>4, <1>5, <1>6, <1>7, <1>8, <1>9, <1>10, <1>11, <1>12,
     <1>13, <1>14, <1>15, <1>16, <1>17, <1>18, <1>19, <1>20, <1>21
  DEF Handled, Delivered, Ended, Step, Next

\* The runtime implements the reply ledger.
THEOREM RuntimeImplements == Spec => ImplementsLedger
<1>1. Init => Ledger!Init
  BY DEF Init, Ledger!Init, Stage, LedgerStage, Warned
<1>2. IInv /\ [Next]_vars => [Ledger!Next]_(Ledger!ledger)
  BY LedgerStep
<1>3. QED
  BY <1>1, <1>2, RuntimeInvariant, PTL DEF Spec, ImplementsLedger, Ledger!Spec

=============================================================================
