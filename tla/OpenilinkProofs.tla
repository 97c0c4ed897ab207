-------------------------- MODULE OpenilinkProofs --------------------------
(* Proofs of the safety of the OpeniLink runtime for every log, every set of *)
(* messages and every number of crashes and aborted batches.                 *)
EXTENDS OpenilinkRuntime, TLAPS

\* Every step keeps every variable in its set.
LEMMA TypeStep ==
    TypeOK /\ [Next]_vars => (TypeOK)'
<1> SUFFICES ASSUME TypeOK, [Next]_vars PROVE (TypeOK)'
  OBVIOUS
<1> USE RuntimeAssumption DEF TypeOK, Kinds, Unmapped, Replies, DeliveryStates, EventTypes,
  RuntimeAssumption, Positions, Labels, AtMessage,
  Goto, Onward, RecordEvent, MarkProcessed, SetDelivery, NextMessage,
  LeaveBatch, CutShort, Skip, Turn, Setback, InBatch, Mapped, Open, Fresh,
  Unanswered, Execute, Receive, EndOfBatch, server, store, locals, observed
<1>1. CASE Fetch
  BY <1>1 DEF Fetch
<1>2. CASE SkipUnmapped
  BY <1>2 DEF SkipUnmapped
<1>3. CASE SkipProcessed
  BY <1>3 DEF SkipProcessed
<1>4. CASE FindSending
  BY <1>4 DEF FindSending
<1>5. CASE FindNonPrivate
  BY <1>5 DEF FindNonPrivate
<1>6. CASE FindOutbox
  BY <1>6 DEF FindOutbox
<1>7. CASE FindManagement
  BY <1>7 DEF FindManagement
<1>8. CASE FindCommand
  BY <1>8 DEF FindCommand
<1>9. CASE Recovered
  <2>1. CASE RecordEvent("recovered_event", "recovered_mark", "delivery_unknown")
    BY <2>1
  <2>2. CASE MarkProcessed("recovered_mark", "recovered_state")
    BY <2>2
  <2>3. CASE SetDelivery("recovered_state", "message", "unknown")
    BY <2>3
  <2>4. QED
    BY <1>9, <2>1, <2>2, <2>3 DEF Recovered
<1>10. CASE Ignored
  <2>1. CASE RecordEvent("ignored_event", "ignored_mark", "ignored")
    BY <2>1
  <2>2. CASE MarkProcessed("ignored_mark", "message")
    BY <2>2
  <2>3. QED
    BY <1>10, <2>1, <2>2 DEF Ignored
<1>11. CASE HandleReturns
  BY <1>11 DEF HandleReturns
<1>12. CASE HandleRaises
  BY <1>12 DEF HandleRaises
<1>13. CASE RecordEvent("error_event", "set_outbox", "controller_error")
  BY <1>13
<1>14. CASE MarkProcessed("empty_mark", "message")
  BY <1>14
<1>15. CASE SetOutbox
  BY <1>15 DEF SetOutbox
<1>16. CASE SetDelivery("set_sending", "send", "sending")
  BY <1>16
<1>17. CASE SendSucceeds
  BY <1>17 DEF SendSucceeds
<1>18. CASE SendIsUncertain
  <2>1. CASE Receive
    BY <1>18, <2>1 DEF SendIsUncertain
  <2>2. CASE UNCHANGED received
    BY <1>18, <2>2 DEF SendIsUncertain
  <2>3. QED
    BY <1>18, <2>1, <2>2 DEF SendIsUncertain
<1>19. CASE SendFails
  <2>1. CASE Receive
    BY <1>19, <2>1 DEF SendFails
  <2>2. CASE UNCHANGED received
    BY <1>19, <2>2 DEF SendFails
  <2>3. QED
    BY <1>19, <2>1, <2>2 DEF SendFails
<1>20. CASE Sent
  <2>1. CASE MarkProcessed("sent_mark", "sent_state")
    BY <2>1
  <2>2. CASE SetDelivery("sent_state", "message", "sent")
    BY <2>2
  <2>3. QED
    BY <1>20, <2>1, <2>2 DEF Sent
<1>21. CASE Interrupted
  <2>1. CASE SetDelivery("interrupted_state", "interrupted_event", "unknown")
    BY <2>1
  <2>2. CASE RecordEvent("interrupted_event", "interrupted_mark", "delivery_unknown")
    BY <2>2
  <2>3. CASE MarkProcessed("interrupted_mark", "interrupted_end")
    BY <2>3
  <2>4. QED
    BY <1>21, <2>1, <2>2, <2>3 DEF Interrupted
<1>22. CASE Failed
  <2>1. CASE SetDelivery("failed_state", "failed_event", "failed")
    BY <2>1
  <2>2. CASE RecordEvent("failed_event", "down", "delivery_failed")
    BY <2>2
  <2>3. QED
    BY <1>22, <2>1, <2>2 DEF Failed
<1>23. CASE CommitCursor
  BY <1>23 DEF CommitCursor
<1>24. CASE KeepCursor
  BY <1>24 DEF KeepCursor
<1>25. CASE EndInterrupted
  BY <1>25 DEF EndInterrupted
<1>26. CASE AbortBatch
  BY <1>26 DEF AbortBatch
<1>27. CASE Crash
  BY <1>27 DEF Crash
<1>28. CASE Restart
  BY <1>28 DEF Restart
<1>29. CASE UNCHANGED vars
  BY <1>29 DEF vars
<1>30. QED
  BY <1>1, <1>2, <1>3, <1>4, <1>5, <1>6, <1>7, <1>8, <1>9, <1>10, <1>11,
     <1>12, <1>13, <1>14, <1>15, <1>16, <1>17, <1>18, <1>19, <1>20, <1>21,
     <1>22, <1>23, <1>24, <1>25, <1>26, <1>27, <1>28, <1>29
  DEF LoopHead, Handled, Sending, Delivered, Ended, Step, Next

\* The position after the cursor is the first of a batch, or just past it.
LEMMA FirstAfter ==
    \A c, b, i \in Int :
        i = c + 1 /\ c <= b => i - 1 = c /\ c < i /\ i <= b + 1
  OBVIOUS

\* A new batch starts right after the stored cursor, with its malformed updates
\* on record.
LEMMA FetchStep ==
    ASSUME TypeOK, CursorBehindWork, Fetch
    PROVE  (CursorBehindWork /\ BatchInv)'
<1> USE RuntimeAssumption DEF RuntimeAssumption
<1>1. /\ cursor' = cursor
      /\ log' = log /\ kind' = kind /\ processed' = processed
      /\ events \subseteq events'
  BY DEF Fetch, server, Goto
<1>2. \A i \in (cursor + 1)..batchEnd' :
         kind[log[i]] = "malformed" => <<"malformed", log[i]>> \in events'
  BY DEF Fetch
<1>3. \A m : Settled(m) => Settled(m)'
  BY <1>1 DEF Settled
<1>4. \A i \in 1..cursor : Settled(log[i])'
  BY <1>1, <1>3 DEF CursorBehindWork
<1>5. /\ cursor \in 0..LogLength
      /\ batchEnd' \in cursor..LogLength
      /\ idx' = cursor + 1
  BY DEF Fetch, TypeOK
<1>6. CursorBehindWork'
  BY <1>1, <1>4 DEF CursorBehindWork, Settled
<1>7. idx' - 1 = cursor /\ cursor < idx' /\ idx' <= batchEnd' + 1
  <2>1. cursor \in Int /\ batchEnd' \in Int /\ cursor <= batchEnd'
    BY <1>5
  <2>2. idx' = cursor + 1 /\ idx' \in Int
    BY <1>5
  <2>3. QED
    BY <2>1, <2>2, FirstAfter
<1>8. BatchInv'
  BY <1>1, <1>2, <1>4, <1>7 DEF BatchInv, Settled
<1>9. QED
  BY <1>6, <1>8

\* Every step keeps the settled updates ahead of the cursor.
LEMMA BatchStep ==
    IInv /\ [Next]_vars => (CursorBehindWork /\ BatchInv)'
<1> SUFFICES ASSUME IInv, [Next]_vars PROVE (CursorBehindWork /\ BatchInv)'
  OBVIOUS
<1> USE RuntimeAssumption DEF IInv, CursorBehindWork, BatchInv, Active, Settled, CurrentInv,
  TypeOK, Kinds, Unmapped, Replies, DeliveryStates, EventTypes,
  RuntimeAssumption, Positions, Labels, AtMessage,
  Goto, Onward, RecordEvent, MarkProcessed, SetDelivery, NextMessage,
  LeaveBatch, CutShort, Skip, Turn, Setback, InBatch, Mapped, Open, Fresh,
  Unanswered, Execute, Receive, EndOfBatch, server, store, locals, observed
<1>1. CASE Fetch
  BY <1>1, FetchStep
<1>2. CASE SkipUnmapped
  BY <1>2 DEF SkipUnmapped
<1>3. CASE SkipProcessed
  BY <1>3 DEF SkipProcessed
<1>4. CASE FindSending
  BY <1>4 DEF FindSending
<1>5. CASE FindNonPrivate
  BY <1>5 DEF FindNonPrivate
<1>6. CASE FindOutbox
  BY <1>6 DEF FindOutbox
<1>7. CASE FindManagement
  BY <1>7 DEF FindManagement
<1>8. CASE FindCommand
  BY <1>8 DEF FindCommand
<1>9. CASE Recovered
  <2>1. CASE RecordEvent("recovered_event", "recovered_mark", "delivery_unknown")
    BY <2>1
  <2>2. CASE MarkProcessed("recovered_mark", "recovered_state")
    BY <2>2
  <2>3. CASE SetDelivery("recovered_state", "message", "unknown")
    BY <2>3
  <2>4. QED
    BY <1>9, <2>1, <2>2, <2>3 DEF Recovered
<1>10. CASE Ignored
  <2>1. CASE RecordEvent("ignored_event", "ignored_mark", "ignored")
    BY <2>1
  <2>2. CASE MarkProcessed("ignored_mark", "message")
    BY <2>2
  <2>3. QED
    BY <1>10, <2>1, <2>2 DEF Ignored
<1>11. CASE HandleReturns
  BY <1>11 DEF HandleReturns
<1>12. CASE HandleRaises
  BY <1>12 DEF HandleRaises
<1>13. CASE RecordEvent("error_event", "set_outbox", "controller_error")
  BY <1>13
<1>14. CASE MarkProcessed("empty_mark", "message")
  BY <1>14
<1>15. CASE SetOutbox
  BY <1>15 DEF SetOutbox
<1>16. CASE SetDelivery("set_sending", "send", "sending")
  BY <1>16
<1>17. CASE SendSucceeds
  BY <1>17 DEF SendSucceeds
<1>18. CASE SendIsUncertain
  BY <1>18 DEF SendIsUncertain
<1>19. CASE SendFails
  BY <1>19 DEF SendFails
<1>20. CASE Sent
  <2>1. CASE MarkProcessed("sent_mark", "sent_state")
    BY <2>1
  <2>2. CASE SetDelivery("sent_state", "message", "sent")
    BY <2>2
  <2>3. QED
    BY <1>20, <2>1, <2>2 DEF Sent
<1>21. CASE Interrupted
  <2>1. CASE SetDelivery("interrupted_state", "interrupted_event", "unknown")
    BY <2>1
  <2>2. CASE RecordEvent("interrupted_event", "interrupted_mark", "delivery_unknown")
    BY <2>2
  <2>3. CASE MarkProcessed("interrupted_mark", "interrupted_end")
    BY <2>3
  <2>4. QED
    BY <1>21, <2>1, <2>2, <2>3 DEF Interrupted
<1>22. CASE Failed
  <2>1. CASE SetDelivery("failed_state", "failed_event", "failed")
    BY <2>1
  <2>2. CASE RecordEvent("failed_event", "down", "delivery_failed")
    BY <2>2
  <2>3. QED
    BY <1>22, <2>1, <2>2 DEF Failed
<1>23. CASE CommitCursor
  BY <1>23 DEF CommitCursor
<1>24. CASE KeepCursor
  BY <1>24 DEF KeepCursor
<1>25. CASE EndInterrupted
  BY <1>25 DEF EndInterrupted
<1>26. CASE AbortBatch
  BY <1>26 DEF AbortBatch
<1>27. CASE Crash
  BY <1>27 DEF Crash
<1>28. CASE Restart
  BY <1>28 DEF Restart
<1>29. CASE UNCHANGED vars
  BY <1>29 DEF vars
<1>30. QED
  BY <1>1, <1>2, <1>3, <1>4, <1>5, <1>6, <1>7, <1>8, <1>9, <1>10, <1>11,
     <1>12, <1>13, <1>14, <1>15, <1>16, <1>17, <1>18, <1>19, <1>20, <1>21,
     <1>22, <1>23, <1>24, <1>25, <1>26, <1>27, <1>28, <1>29
  DEF LoopHead, Handled, Sending, Delivered, Ended, Step, Next

\* Every step keeps what is known of the message at hand, and what its store
\* keys say of its reply.
LEMMA CurrentStep ==
    IInv /\ [Next]_vars => (CurrentInv /\ NoSilentLoss /\ SentWasReceived)'
<1> SUFFICES ASSUME IInv, [Next]_vars PROVE (CurrentInv /\ NoSilentLoss /\ SentWasReceived)'
  OBVIOUS
<1> USE RuntimeAssumption DEF IInv, CurrentInv, NoSilentLoss, SentWasReceived,
  TypeOK, Kinds, Unmapped, Replies, DeliveryStates, EventTypes,
  RuntimeAssumption, Positions, Labels, AtMessage,
  Goto, Onward, RecordEvent, MarkProcessed, SetDelivery, NextMessage,
  LeaveBatch, CutShort, Skip, Turn, Setback, InBatch, Mapped, Open, Fresh,
  Unanswered, Execute, Receive, EndOfBatch, server, store, locals, observed
<1>1. CASE Fetch
  BY <1>1 DEF Fetch
<1>2. CASE SkipUnmapped
  BY <1>2 DEF SkipUnmapped
<1>3. CASE SkipProcessed
  BY <1>3 DEF SkipProcessed
<1>4. CASE FindSending
  BY <1>4 DEF FindSending
<1>5. CASE FindNonPrivate
  BY <1>5 DEF FindNonPrivate
<1>6. CASE FindOutbox
  BY <1>6 DEF FindOutbox
<1>7. CASE FindManagement
  BY <1>7 DEF FindManagement
<1>8. CASE FindCommand
  BY <1>8 DEF FindCommand
<1>9. CASE Recovered
  <2>1. CASE RecordEvent("recovered_event", "recovered_mark", "delivery_unknown")
    BY <2>1
  <2>2. CASE MarkProcessed("recovered_mark", "recovered_state")
    BY <2>2
  <2>3. CASE SetDelivery("recovered_state", "message", "unknown")
    BY <2>3
  <2>4. QED
    BY <1>9, <2>1, <2>2, <2>3 DEF Recovered
<1>10. CASE Ignored
  <2>1. CASE RecordEvent("ignored_event", "ignored_mark", "ignored")
    BY <2>1
  <2>2. CASE MarkProcessed("ignored_mark", "message")
    BY <2>2
  <2>3. QED
    BY <1>10, <2>1, <2>2 DEF Ignored
<1>11. CASE HandleReturns
  BY <1>11 DEF HandleReturns
<1>12. CASE HandleRaises
  BY <1>12 DEF HandleRaises
<1>13. CASE RecordEvent("error_event", "set_outbox", "controller_error")
  BY <1>13
<1>14. CASE MarkProcessed("empty_mark", "message")
  BY <1>14
<1>15. CASE SetOutbox
  BY <1>15 DEF SetOutbox
<1>16. CASE SetDelivery("set_sending", "send", "sending")
  BY <1>16
<1>17. CASE SendSucceeds
  BY <1>17 DEF SendSucceeds
<1>18. CASE SendIsUncertain
  BY <1>18 DEF SendIsUncertain
<1>19. CASE SendFails
  BY <1>19 DEF SendFails
<1>20. CASE Sent
  <2>1. CASE MarkProcessed("sent_mark", "sent_state")
    BY <2>1
  <2>2. CASE SetDelivery("sent_state", "message", "sent")
    BY <2>2
  <2>3. QED
    BY <1>20, <2>1, <2>2 DEF Sent
<1>21. CASE Interrupted
  <2>1. CASE SetDelivery("interrupted_state", "interrupted_event", "unknown")
    BY <2>1
  <2>2. CASE RecordEvent("interrupted_event", "interrupted_mark", "delivery_unknown")
    BY <2>2
  <2>3. CASE MarkProcessed("interrupted_mark", "interrupted_end")
    BY <2>3
  <2>4. QED
    BY <1>21, <2>1, <2>2, <2>3 DEF Interrupted
<1>22. CASE Failed
  <2>1. CASE SetDelivery("failed_state", "failed_event", "failed")
    BY <2>1
  <2>2. CASE RecordEvent("failed_event", "down", "delivery_failed")
    BY <2>2
  <2>3. QED
    BY <1>22, <2>1, <2>2 DEF Failed
<1>23. CASE CommitCursor
  BY <1>23 DEF CommitCursor
<1>24. CASE KeepCursor
  BY <1>24 DEF KeepCursor
<1>25. CASE EndInterrupted
  BY <1>25 DEF EndInterrupted
<1>26. CASE AbortBatch
  BY <1>26 DEF AbortBatch
<1>27. CASE Crash
  BY <1>27 DEF Crash
<1>28. CASE Restart
  BY <1>28 DEF Restart
<1>29. CASE UNCHANGED vars
  BY <1>29 DEF vars
<1>30. QED
  BY <1>1, <1>2, <1>3, <1>4, <1>5, <1>6, <1>7, <1>8, <1>9, <1>10, <1>11,
     <1>12, <1>13, <1>14, <1>15, <1>16, <1>17, <1>18, <1>19, <1>20, <1>21,
     <1>22, <1>23, <1>24, <1>25, <1>26, <1>27, <1>28, <1>29
  DEF LoopHead, Handled, Sending, Delivered, Ended, Step, Next

\* Every step keeps what the store keys of the message at hand say.
LEMMA KeysStep ==
    IInv /\ [Next]_vars => KeysInv'
<1> SUFFICES ASSUME IInv, [Next]_vars PROVE KeysInv'
  OBVIOUS
<1> USE RuntimeAssumption DEF IInv, CurrentInv, KeysInv,
  TypeOK, Kinds, Unmapped, Replies, DeliveryStates, EventTypes,
  RuntimeAssumption, Positions, Labels, AtMessage,
  Goto, Onward, RecordEvent, MarkProcessed, SetDelivery, NextMessage,
  LeaveBatch, CutShort, Skip, Turn, Setback, InBatch, Mapped, Open, Fresh,
  Unanswered, Execute, Receive, EndOfBatch, server, store, locals, observed
<1>1. CASE Fetch
  BY <1>1 DEF Fetch
<1>2. CASE SkipUnmapped
  BY <1>2 DEF SkipUnmapped
<1>3. CASE SkipProcessed
  BY <1>3 DEF SkipProcessed
<1>4. CASE FindSending
  BY <1>4 DEF FindSending
<1>5. CASE FindNonPrivate
  BY <1>5 DEF FindNonPrivate
<1>6. CASE FindOutbox
  BY <1>6 DEF FindOutbox
<1>7. CASE FindManagement
  BY <1>7 DEF FindManagement
<1>8. CASE FindCommand
  BY <1>8 DEF FindCommand
<1>9. CASE Recovered
  <2>1. CASE RecordEvent("recovered_event", "recovered_mark", "delivery_unknown")
    BY <2>1
  <2>2. CASE MarkProcessed("recovered_mark", "recovered_state")
    BY <2>2
  <2>3. CASE SetDelivery("recovered_state", "message", "unknown")
    BY <2>3
  <2>4. QED
    BY <1>9, <2>1, <2>2, <2>3 DEF Recovered
<1>10. CASE Ignored
  <2>1. CASE RecordEvent("ignored_event", "ignored_mark", "ignored")
    BY <2>1
  <2>2. CASE MarkProcessed("ignored_mark", "message")
    BY <2>2
  <2>3. QED
    BY <1>10, <2>1, <2>2 DEF Ignored
<1>11. CASE HandleReturns
  BY <1>11 DEF HandleReturns
<1>12. CASE HandleRaises
  BY <1>12 DEF HandleRaises
<1>13. CASE RecordEvent("error_event", "set_outbox", "controller_error")
  BY <1>13
<1>14. CASE MarkProcessed("empty_mark", "message")
  BY <1>14
<1>15. CASE SetOutbox
  BY <1>15 DEF SetOutbox
<1>16. CASE SetDelivery("set_sending", "send", "sending")
  BY <1>16
<1>17. CASE SendSucceeds
  BY <1>17 DEF SendSucceeds
<1>18. CASE SendIsUncertain
  BY <1>18 DEF SendIsUncertain
<1>19. CASE SendFails
  BY <1>19 DEF SendFails
<1>20. CASE Sent
  <2>1. CASE MarkProcessed("sent_mark", "sent_state")
    BY <2>1
  <2>2. CASE SetDelivery("sent_state", "message", "sent")
    BY <2>2
  <2>3. QED
    BY <1>20, <2>1, <2>2 DEF Sent
<1>21. CASE Interrupted
  <2>1. CASE SetDelivery("interrupted_state", "interrupted_event", "unknown")
    BY <2>1
  <2>2. CASE RecordEvent("interrupted_event", "interrupted_mark", "delivery_unknown")
    BY <2>2
  <2>3. CASE MarkProcessed("interrupted_mark", "interrupted_end")
    BY <2>3
  <2>4. QED
    BY <1>21, <2>1, <2>2, <2>3 DEF Interrupted
<1>22. CASE Failed
  <2>1. CASE SetDelivery("failed_state", "failed_event", "failed")
    BY <2>1
  <2>2. CASE RecordEvent("failed_event", "down", "delivery_failed")
    BY <2>2
  <2>3. QED
    BY <1>22, <2>1, <2>2 DEF Failed
<1>23. CASE CommitCursor
  BY <1>23 DEF CommitCursor
<1>24. CASE KeepCursor
  BY <1>24 DEF KeepCursor
<1>25. CASE EndInterrupted
  BY <1>25 DEF EndInterrupted
<1>26. CASE AbortBatch
  BY <1>26 DEF AbortBatch
<1>27. CASE Crash
  BY <1>27 DEF Crash
<1>28. CASE Restart
  BY <1>28 DEF Restart
<1>29. CASE UNCHANGED vars
  BY <1>29 DEF vars
<1>30. QED
  BY <1>1, <1>2, <1>3, <1>4, <1>5, <1>6, <1>7, <1>8, <1>9, <1>10, <1>11,
     <1>12, <1>13, <1>14, <1>15, <1>16, <1>17, <1>18, <1>19, <1>20, <1>21,
     <1>22, <1>23, <1>24, <1>25, <1>26, <1>27, <1>28, <1>29
  DEF LoopHead, Handled, Sending, Delivered, Ended, Step, Next

\* A reply that was tried stays with its batch until its message is marked,
\* unless the batch is cut short.
LEMMA AttemptsStep ==
    IInv /\ [Next]_vars => AttemptsInv'
<1> SUFFICES ASSUME IInv, [Next]_vars PROVE AttemptsInv'
  OBVIOUS
<1> USE RuntimeAssumption DEF IInv, BatchInv, Active, CurrentInv, AttemptsInv,
  TypeOK, Kinds, Unmapped, Replies, DeliveryStates, EventTypes,
  RuntimeAssumption, Positions, Labels, AtMessage,
  Goto, Onward, RecordEvent, MarkProcessed, SetDelivery, NextMessage,
  LeaveBatch, CutShort, Skip, Turn, Setback, InBatch, Mapped, Open, Fresh,
  Unanswered, Execute, Receive, EndOfBatch, server, store, locals, observed
<1>1. CASE Fetch
  BY <1>1 DEF Fetch
<1>2. CASE SkipUnmapped
  BY <1>2 DEF SkipUnmapped
<1>3. CASE SkipProcessed
  BY <1>3 DEF SkipProcessed
<1>4. CASE FindSending
  BY <1>4 DEF FindSending
<1>5. CASE FindNonPrivate
  BY <1>5 DEF FindNonPrivate
<1>6. CASE FindOutbox
  BY <1>6 DEF FindOutbox
<1>7. CASE FindManagement
  BY <1>7 DEF FindManagement
<1>8. CASE FindCommand
  BY <1>8 DEF FindCommand
<1>9. CASE Recovered
  <2>1. CASE RecordEvent("recovered_event", "recovered_mark", "delivery_unknown")
    BY <2>1
  <2>2. CASE MarkProcessed("recovered_mark", "recovered_state")
    BY <2>2
  <2>3. CASE SetDelivery("recovered_state", "message", "unknown")
    BY <2>3
  <2>4. QED
    BY <1>9, <2>1, <2>2, <2>3 DEF Recovered
<1>10. CASE Ignored
  <2>1. CASE RecordEvent("ignored_event", "ignored_mark", "ignored")
    BY <2>1
  <2>2. CASE MarkProcessed("ignored_mark", "message")
    BY <2>2
  <2>3. QED
    BY <1>10, <2>1, <2>2 DEF Ignored
<1>11. CASE HandleReturns
  BY <1>11 DEF HandleReturns
<1>12. CASE HandleRaises
  BY <1>12 DEF HandleRaises
<1>13. CASE RecordEvent("error_event", "set_outbox", "controller_error")
  BY <1>13
<1>14. CASE MarkProcessed("empty_mark", "message")
  BY <1>14
<1>15. CASE SetOutbox
  BY <1>15 DEF SetOutbox
<1>16. CASE SetDelivery("set_sending", "send", "sending")
  BY <1>16
<1>17. CASE SendSucceeds
  BY <1>17 DEF SendSucceeds
<1>18. CASE SendIsUncertain
  BY <1>18 DEF SendIsUncertain
<1>19. CASE SendFails
  BY <1>19 DEF SendFails
<1>20. CASE Sent
  <2>1. CASE MarkProcessed("sent_mark", "sent_state")
    BY <2>1
  <2>2. CASE SetDelivery("sent_state", "message", "sent")
    BY <2>2
  <2>3. QED
    BY <1>20, <2>1, <2>2 DEF Sent
<1>21. CASE Interrupted
  <2>1. CASE SetDelivery("interrupted_state", "interrupted_event", "unknown")
    BY <2>1
  <2>2. CASE RecordEvent("interrupted_event", "interrupted_mark", "delivery_unknown")
    BY <2>2
  <2>3. CASE MarkProcessed("interrupted_mark", "interrupted_end")
    BY <2>3
  <2>4. QED
    BY <1>21, <2>1, <2>2, <2>3 DEF Interrupted
<1>22. CASE Failed
  <2>1. CASE SetDelivery("failed_state", "failed_event", "failed")
    BY <2>1 DEF KeysInv
  <2>2. CASE RecordEvent("failed_event", "down", "delivery_failed")
    BY <2>2
  <2>3. QED
    BY <1>22, <2>1, <2>2 DEF Failed
<1>23. CASE CommitCursor
  BY <1>23 DEF CommitCursor
<1>24. CASE KeepCursor
  BY <1>24 DEF KeepCursor
<1>25. CASE EndInterrupted
  BY <1>25 DEF EndInterrupted
<1>26. CASE AbortBatch
  BY <1>26 DEF AbortBatch
<1>27. CASE Crash
  BY <1>27 DEF Crash
<1>28. CASE Restart
  BY <1>28 DEF Restart
<1>29. CASE UNCHANGED vars
  BY <1>29 DEF vars
<1>30. QED
  BY <1>1, <1>2, <1>3, <1>4, <1>5, <1>6, <1>7, <1>8, <1>9, <1>10, <1>11,
     <1>12, <1>13, <1>14, <1>15, <1>16, <1>17, <1>18, <1>19, <1>20, <1>21,
     <1>22, <1>23, <1>24, <1>25, <1>26, <1>27, <1>28, <1>29
  DEF LoopHead, Handled, Sending, Delivered, Ended, Step, Next

\* Every step keeps the number of runs and of copies within the setbacks.
LEMMA RepeatsStep ==
    IInv /\ [Next]_vars => (RepeatsInv)'
<1> SUFFICES ASSUME IInv, [Next]_vars PROVE (RepeatsInv)'
  OBVIOUS
<1> USE RuntimeAssumption DEF IInv, CurrentInv, RepeatsInv, Ran, Tried,
  TypeOK, Kinds, Unmapped, Replies, DeliveryStates, EventTypes,
  RuntimeAssumption, Positions, Labels, AtMessage,
  Goto, Onward, RecordEvent, MarkProcessed, SetDelivery, NextMessage,
  LeaveBatch, CutShort, Skip, Turn, Setback, InBatch, Mapped, Open, Fresh,
  Unanswered, Execute, Receive, EndOfBatch, server, store, locals, observed
<1>1. CASE Fetch
  BY <1>1 DEF Fetch
<1>2. CASE SkipUnmapped
  BY <1>2 DEF SkipUnmapped
<1>3. CASE SkipProcessed
  BY <1>3 DEF SkipProcessed
<1>4. CASE FindSending
  BY <1>4 DEF FindSending
<1>5. CASE FindNonPrivate
  BY <1>5 DEF FindNonPrivate
<1>6. CASE FindOutbox
  BY <1>6 DEF FindOutbox
<1>7. CASE FindManagement
  BY <1>7 DEF FindManagement
<1>8. CASE FindCommand
  BY <1>8 DEF FindCommand
<1>9. CASE Recovered
  <2>1. CASE RecordEvent("recovered_event", "recovered_mark", "delivery_unknown")
    BY <2>1
  <2>2. CASE MarkProcessed("recovered_mark", "recovered_state")
    BY <2>2
  <2>3. CASE SetDelivery("recovered_state", "message", "unknown")
    BY <2>3
  <2>4. QED
    BY <1>9, <2>1, <2>2, <2>3 DEF Recovered
<1>10. CASE Ignored
  <2>1. CASE RecordEvent("ignored_event", "ignored_mark", "ignored")
    BY <2>1
  <2>2. CASE MarkProcessed("ignored_mark", "message")
    BY <2>2
  <2>3. QED
    BY <1>10, <2>1, <2>2 DEF Ignored
<1>11. CASE HandleReturns
  BY <1>11 DEF HandleReturns
<1>12. CASE HandleRaises
  BY <1>12 DEF HandleRaises
<1>13. CASE RecordEvent("error_event", "set_outbox", "controller_error")
  BY <1>13
<1>14. CASE MarkProcessed("empty_mark", "message")
  BY <1>14
<1>15. CASE SetOutbox
  BY <1>15 DEF SetOutbox
<1>16. CASE SetDelivery("set_sending", "send", "sending")
  BY <1>16
<1>17. CASE SendSucceeds
  BY <1>17 DEF SendSucceeds
<1>18. CASE SendIsUncertain
  BY <1>18 DEF SendIsUncertain
<1>19. CASE SendFails
  <2>1. CASE Receive
    BY <1>19, <2>1 DEF SendFails
  <2>2. CASE UNCHANGED received
    BY <1>19, <2>2 DEF SendFails
  <2>3. QED
    BY <1>19, <2>1, <2>2 DEF SendFails
<1>20. CASE Sent
  <2>1. CASE MarkProcessed("sent_mark", "sent_state")
    BY <2>1
  <2>2. CASE SetDelivery("sent_state", "message", "sent")
    BY <2>2
  <2>3. QED
    BY <1>20, <2>1, <2>2 DEF Sent
<1>21. CASE Interrupted
  <2>1. CASE SetDelivery("interrupted_state", "interrupted_event", "unknown")
    BY <2>1
  <2>2. CASE RecordEvent("interrupted_event", "interrupted_mark", "delivery_unknown")
    BY <2>2
  <2>3. CASE MarkProcessed("interrupted_mark", "interrupted_end")
    BY <2>3
  <2>4. QED
    BY <1>21, <2>1, <2>2, <2>3 DEF Interrupted
<1>22. CASE Failed
  <2>1. CASE SetDelivery("failed_state", "failed_event", "failed")
    BY <2>1
  <2>2. CASE RecordEvent("failed_event", "down", "delivery_failed")
    BY <2>2
  <2>3. QED
    BY <1>22, <2>1, <2>2 DEF Failed
<1>23. CASE CommitCursor
  BY <1>23 DEF CommitCursor
<1>24. CASE KeepCursor
  BY <1>24 DEF KeepCursor
<1>25. CASE EndInterrupted
  BY <1>25 DEF EndInterrupted
<1>26. CASE AbortBatch
  BY <1>26 DEF AbortBatch
<1>27. CASE Crash
  BY <1>27 DEF Crash
<1>28. CASE Restart
  BY <1>28 DEF Restart
<1>29. CASE UNCHANGED vars
  BY <1>29 DEF vars
<1>30. QED
  BY <1>1, <1>2, <1>3, <1>4, <1>5, <1>6, <1>7, <1>8, <1>9, <1>10, <1>11,
     <1>12, <1>13, <1>14, <1>15, <1>16, <1>17, <1>18, <1>19, <1>20, <1>21,
     <1>22, <1>23, <1>24, <1>25, <1>26, <1>27, <1>28, <1>29
  DEF LoopHead, Handled, Sending, Delivered, Ended, Step, Next

\* The inductive invariant holds initially and is kept by every step.
LEMMA InitIInv == Init => IInv
<1> SUFFICES ASSUME Init PROVE IInv
  OBVIOUS
<1> USE RuntimeAssumption DEF RuntimeAssumption, Init
<1>1. TypeOK
  BY DEF TypeOK, Positions, Kinds, Replies, DeliveryStates, EventTypes,
         Labels, AtMessage
<1>2. CursorBehindWork /\ BatchInv
  BY DEF CursorBehindWork, BatchInv, Active, AtMessage
<1>3. NoSilentLoss /\ SentWasReceived /\ CurrentInv /\ KeysInv /\ AttemptsInv
  BY DEF NoSilentLoss, SentWasReceived, CurrentInv, KeysInv, AttemptsInv, AtMessage
<1>4. RepeatsInv
  <2>1. ASSUME NEW m \in Messages
        PROVE  /\ executed[m] <= setbacks + (IF Ran(m) THEN 1 ELSE 0)
               /\ received[m] <= setbacks + (IF Tried(m) THEN 1 ELSE 0)
    <3>1. executed[m] = 0 /\ received[m] = 0 /\ setbacks = 0
      OBVIOUS
    <3>2. /\ (IF Ran(m) THEN 1 ELSE 0) \in Nat
          /\ (IF Tried(m) THEN 1 ELSE 0) \in Nat
      OBVIOUS
    <3>3. QED
      BY <3>1, <3>2
  <2>2. QED
    BY <2>1 DEF RepeatsInv
<1>5. QED
  BY <1>1, <1>2, <1>3, <1>4 DEF IInv

\* Every step of the loop, and the operator's restart, preserves IInv.
LEMMA NextIInv == IInv /\ [Next]_vars => IInv'
<1> SUFFICES ASSUME IInv, [Next]_vars PROVE IInv'
  OBVIOUS
<1>1. TypeOK
  BY DEF IInv
<1>2. QED
  BY <1>1, TypeStep, BatchStep, CurrentStep, KeysStep, AttemptsStep, RepeatsStep DEF IInv

\* The loop of process_one_batch keeps IInv over every run, every crash,
\* restart and aborted batch included.
THEOREM RuntimeInvariant == Spec => []IInv
BY InitIInv, NextIInv, PTL DEF Spec

\* Every variable stays in its set in every run.
THEOREM RuntimeTypes == Spec => []TypeOK
<1>1. IInv => TypeOK
  BY DEF IInv
<1>2. QED
  BY <1>1, RuntimeInvariant, PTL

\* set_runtime_state("ilink.cursor", ...) never skips an unsettled update.
THEOREM CursorIsSafe == Spec => []CursorBehindWork
<1>1. IInv => CursorBehindWork
  BY DEF IInv
<1>2. QED
  BY <1>1, RuntimeInvariant, PTL

\* A reply the server never got is reported before its message is closed.
THEOREM LossIsReported == Spec => []NoSilentLoss
<1>1. IInv => NoSilentLoss
  BY DEF IInv
<1>2. QED
  BY <1>1, RuntimeInvariant, PTL

\* The SENT mark is truthful.
THEOREM SentIsTruthful == Spec => []SentWasReceived
<1>1. IInv => SentWasReceived
  BY DEF IInv
<1>2. QED
  BY <1>1, RuntimeInvariant, PTL

\* A command runs, and a reply is taken by the server, at most once more than
\* there were batches cut short.
THEOREM RepeatsAreBounded == Spec => []RepeatsNeedSetbacks
<1>1. ASSUME IInv PROVE RepeatsNeedSetbacks
  <2>1. ASSUME NEW m \in Messages
        PROVE  executed[m] <= 1 + setbacks /\ received[m] <= 1 + setbacks
    <3>1. /\ executed[m] \in Nat /\ received[m] \in Nat /\ setbacks \in Nat
          /\ executed[m] <= setbacks + (IF Ran(m) THEN 1 ELSE 0)
          /\ received[m] <= setbacks + (IF Tried(m) THEN 1 ELSE 0)
      BY <1>1, RuntimeAssumption
         DEF IInv, TypeOK, RepeatsInv, RuntimeAssumption
    <3>2. executed[m] <= 1 + setbacks
      BY <3>1
    <3>3. received[m] <= 1 + setbacks
      BY <3>1
    <3>4. QED
      BY <3>2, <3>3
  <2>2. QED
    BY <2>1 DEF RepeatsNeedSetbacks
<1>2. QED
  BY <1>1, RuntimeInvariant, PTL

\* No step runs an answered message again or sends for a processed one.
LEMMA AnsweredStep ==
    ASSUME IInv, [Next]_vars, NEW m \in Messages
    PROVE  LeavesAnswered(m)
<1> USE RuntimeAssumption DEF LeavesAnswered, IInv, CurrentInv,
  TypeOK, Kinds, Unmapped, Replies, DeliveryStates, EventTypes,
  RuntimeAssumption, Positions, Labels, AtMessage,
  Goto, Onward, RecordEvent, MarkProcessed, SetDelivery, NextMessage,
  LeaveBatch, CutShort, Skip, Turn, Setback, InBatch, Mapped, Open, Fresh,
  Unanswered, Execute, Receive, EndOfBatch, server, store, locals, observed
<1>1. CASE Fetch
  BY <1>1 DEF Fetch
<1>2. CASE SkipUnmapped
  BY <1>2 DEF SkipUnmapped
<1>3. CASE SkipProcessed
  BY <1>3 DEF SkipProcessed
<1>4. CASE FindSending
  BY <1>4 DEF FindSending
<1>5. CASE FindNonPrivate
  BY <1>5 DEF FindNonPrivate
<1>6. CASE FindOutbox
  BY <1>6 DEF FindOutbox
<1>7. CASE FindManagement
  BY <1>7 DEF FindManagement
<1>8. CASE FindCommand
  BY <1>8 DEF FindCommand
<1>9. CASE Recovered
  BY <1>9 DEF Recovered
<1>10. CASE Ignored
  BY <1>10 DEF Ignored
<1>11. CASE HandleReturns
  BY <1>11 DEF HandleReturns
<1>12. CASE HandleRaises
  BY <1>12 DEF HandleRaises
<1>13. CASE RecordEvent("error_event", "set_outbox", "controller_error")
  BY <1>13
<1>14. CASE MarkProcessed("empty_mark", "message")
  BY <1>14
<1>15. CASE SetOutbox
  BY <1>15 DEF SetOutbox
<1>16. CASE SetDelivery("set_sending", "send", "sending")
  BY <1>16
<1>17. CASE SendSucceeds
  BY <1>17 DEF SendSucceeds
<1>18. CASE SendIsUncertain
  BY <1>18 DEF SendIsUncertain
<1>19. CASE SendFails
  BY <1>19 DEF SendFails
<1>20. CASE Sent
  BY <1>20 DEF Sent
<1>21. CASE Interrupted
  BY <1>21 DEF Interrupted
<1>22. CASE Failed
  BY <1>22 DEF Failed
<1>23. CASE CommitCursor
  BY <1>23 DEF CommitCursor
<1>24. CASE KeepCursor
  BY <1>24 DEF KeepCursor
<1>25. CASE EndInterrupted
  BY <1>25 DEF EndInterrupted
<1>26. CASE AbortBatch
  BY <1>26 DEF AbortBatch
<1>27. CASE Crash
  BY <1>27 DEF Crash
<1>28. CASE Restart
  BY <1>28 DEF Restart
<1>29. CASE UNCHANGED vars
  BY <1>29 DEF vars
<1>30. QED
  BY <1>1, <1>2, <1>3, <1>4, <1>5, <1>6, <1>7, <1>8, <1>9, <1>10, <1>11,
     <1>12, <1>13, <1>14, <1>15, <1>16, <1>17, <1>18, <1>19, <1>20, <1>21,
     <1>22, <1>23, <1>24, <1>25, <1>26, <1>27, <1>28, <1>29
  DEF LoopHead, Handled, Sending, Delivered, Ended, Step, Next

\* An answered command is never run again and a processed message never sent
\* for again, whatever the server repeats.
THEOREM AnsweredStaysFinal == Spec => AnsweredIsFinal
<1>1. IInv /\ [Next]_vars => [\A m \in Messages : LeavesAnswered(m)]_vars
  BY AnsweredStep
<1>2. QED
  BY <1>1, RuntimeInvariant, PTL DEF Spec, AnsweredIsFinal

\* Commands run and replies leave in the order of the server's log.
THEOREM OrderIsKept == Spec => HandledInOrder
<1>1. ASSUME IInv, [Next]_vars PROVE ActsAfterSettled
  <2>1. ASSUME executed' # executed \/ received' # received
        PROVE  pc \in AtMessage
    BY <1>1, <2>1
       DEF Next, Step, LoopHead, Recovered, Ignored, Handled, Delivered, Ended,
           Sending, Fetch, SkipUnmapped, SkipProcessed, FindSending,
           FindNonPrivate, FindOutbox, FindManagement, FindCommand,
           HandleReturns, HandleRaises, SetOutbox, SendSucceeds,
           SendIsUncertain, SendFails, Sent, Interrupted, Failed,
           CommitCursor, KeepCursor, EndInterrupted, AbortBatch, Crash,
           Restart, Goto, RecordEvent, MarkProcessed, SetDelivery, CutShort,
           Skip, Turn, Unanswered, AtMessage, vars, observed
  <2>2. pc \in AtMessage => \A j \in 1..(idx - 1) : Settled(log[j])
    BY <1>1 DEF IInv, BatchInv, Active
  <2>3. QED
    BY <2>1, <2>2 DEF ActsAfterSettled
<1>2. QED
  BY <1>1, RuntimeInvariant, PTL DEF Spec, HandledInOrder

\* Only a statement that sets the delivery state to SENDING sends again.
LEMMA SendsAtStatement ==
    ASSUME IInv, [Next]_vars, NEW m \in Messages, SendsAgain(m)
    PROVE  pc = "set_sending" /\ log[idx] = m /\ ~processed[m]
<1>1. delivery' # delivery /\ delivery'[m] = "sending" /\ delivery'[m] # delivery[m]
  BY DEF SendsAgain, IInv, TypeOK
<1>2. SetDelivery("set_sending", "send", "sending")
  BY <1>1
  DEF Next, Step, LoopHead, Recovered, Ignored, Handled, Delivered, Ended,
      Sending, Fetch, SkipUnmapped, SkipProcessed, FindSending,
      FindNonPrivate, FindOutbox, FindManagement, FindCommand,
      HandleReturns, HandleRaises, SetOutbox, SendSucceeds,
      SendIsUncertain, SendFails, Sent, Interrupted, Failed,
      CommitCursor, KeepCursor, EndInterrupted, AbortBatch, Crash,
      Restart, RecordEvent, MarkProcessed, SetDelivery, CutShort,
      Skip, Turn, Unanswered, vars, store, IInv, TypeOK
<1>3. QED
  BY <1>1, <1>2 DEF SetDelivery, Goto, IInv, TypeOK, CurrentInv, AtMessage

\* Without a batch that was cut short, a reply is handed to send_text once.
THEOREM ResendsAreExcused == Spec => ResendsNeedSetbacks
<1>1. ASSUME IInv, [Next]_vars, NEW m \in Messages, SendsAgain(m)
      PROVE  setbacks > 0
  <2>1. pc = "set_sending" /\ ~processed[m] /\ delivery[m] # "none"
    BY <1>1, SendsAtStatement DEF SendsAgain
  <2>2. setbacks # 0
    BY <1>1, <2>1 DEF IInv, AttemptsInv
  <2>3. setbacks \in Nat
    BY <1>1, RuntimeAssumption DEF IInv, TypeOK, RuntimeAssumption
  <2>4. QED
    BY <2>2, <2>3
<1>2. IInv /\ [Next]_vars => [\A m \in Messages : SendsAgain(m) => setbacks > 0]_vars
  BY <1>1
<1>3. QED
  BY <1>2, RuntimeInvariant, PTL DEF Spec, ResendsNeedSetbacks

=============================================================================
