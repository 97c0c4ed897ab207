---------------------------- MODULE GroupProofs ----------------------------
(* Proofs of the safety of the groups' rows for any number of processes,   *)
(* groups, names and commands.                                             *)
EXTENDS GroupAccess, TLAPS

\* Only processes are overtaken.
LEMMA ReadersAreProcesses ==
    \A i, a : ReadersOf(i, a) \subseteq Processes
  BY DEF ReadersOf

\* Every step keeps every variable in its set.
LEMMA TypeStep ==
    TypeOK /\ [Next]_vars => TypeOK'
<1> SUFFICES ASSUME TypeOK, [Next]_vars
             PROVE  TypeOK'
  OBVIOUS
<1> USE GroupAssumption DEF GroupAssumption, TypeOK, Optional, RunStates, Terminal, Locations,
  Goto, Clear, Ends, Returns, Holds, Taken, Overtakes, Decide, RecordPending,
  SetStatus, CancelSeed, AfterFind, table, locals, observed
<1>1. ASSUME NEW p \in Processes, ProcessStep(p)
      PROVE  TypeOK'
  <2>1. CASE \E s \in Senders, t \in PrivateTexts : Manage(p, s, t)
    <3>1. PICK s \in Senders, t \in PrivateTexts : Manage(p, s, t)
      BY <2>1
    <3> DEFINE parsed == ParseCommand(t, "private")
    <3>2. parsed.args \in Seq(Names) \ {<<>>} /\ parsed.kind \in DOMAIN Operation
      BY <3>1 DEF Manage, Operation
    <3>3. parsed.args[1] \in Names
      BY <3>2
    <3>4. Len(parsed.args) = 2 => parsed.args[2] \in Names
      BY <3>2
    <3>5. Operation[parsed.kind] \in {"approve", "reset", "disable"}
      BY <3>2 DEF Operation
    <3>6. QED
      BY <3>1, <3>3, <3>4, <3>5 DEF Manage
  <2>2. CASE \E g \in Groups, t \in GroupTexts : Hear(p, g, t)
    BY <2>2 DEF Hear
  <2>3. CASE FindByAlias(p)
    BY <2>3 DEF FindByAlias, Found
  <2>4. CASE MissByAlias(p)
    BY <2>4 DEF MissByAlias
  <2>5. CASE FindById(p)
    BY <2>5 DEF FindById, Found
  <2>6. CASE MissById(p)
    BY <2>6 DEF MissById
  <2>7. CASE UnknownGroup(p)
    BY <2>7 DEF UnknownGroup
  <2>8. CASE AliasIsFree(p)
    BY <2>8 DEF AliasIsFree
  <2>9. CASE AliasIsTaken(p)
    BY <2>9 DEF AliasIsTaken
  <2>10. CASE RecordApproved(p)
    BY <2>10, ReadersAreProcesses DEF RecordApproved
  <2>11. CASE SeedStarts(p)
    BY <2>11 DEF SeedStarts
  <2>12. CASE SeedIsLost(p)
    BY <2>12 DEF SeedIsLost
  <2>13. CASE SeedIsReplayed(p)
    BY <2>13 DEF SeedIsReplayed
  <2>14. CASE SeedIsBusy(p)
    BY <2>14 DEF SeedIsBusy
  <2>15. CASE WaitEnds(p)
    BY <2>15 DEF WaitEnds
  <2>16. CASE WaitFails(p)
    BY <2>16 DEF WaitFails
  <2>17. CASE Activate(p)
    BY <2>17 DEF Activate
  <2>18. CASE Reset(p)
    BY <2>18, ReadersAreProcesses DEF Reset
  <2>19. CASE Disable(p)
    BY <2>19, ReadersAreProcesses DEF Disable
  <2>20. CASE Conflict(p)
    <3>1. ASSUME pc[p] \in Locations, Returns(p, pc[p])
          PROVE  TypeOK'
      BY <3>1
    <3>2. ASSUME Returns(p, "enroll")
          PROVE  TypeOK'
      BY <3>2
    <3>3. QED
      BY <2>20, <3>1, <3>2 DEF Conflict
  <2>21. CASE LookupUnknown(p)
    BY <2>21 DEF LookupUnknown
  <2>22. CASE Enroll(p)
    BY <2>22, ReadersAreProcesses DEF Enroll
  <2>23. CASE LookupAnswers(p)
    BY <2>23 DEF LookupAnswers
  <2>24. CASE LookupQuestion(p)
    BY <2>24 DEF LookupQuestion
  <2>25. CASE Ready(p)
    BY <2>25 DEF Ready
  <2>26. CASE NotReady(p)
    BY <2>26 DEF NotReady
  <2>27. CASE Ask(p)
    BY <2>27 DEF Ask
  <2>28. CASE Fails(p)
    BY <2>28 DEF Fails
  <2>29. QED
    BY <1>1, <2>1, <2>2, <2>3, <2>4, <2>5, <2>6, <2>7, <2>8, <2>9, <2>10,
       <2>11, <2>12, <2>13, <2>14, <2>15, <2>16, <2>17, <2>18, <2>19, <2>20,
       <2>21, <2>22, <2>23, <2>24, <2>25, <2>26, <2>27, <2>28
    DEF ProcessStep, Receive, Find, Approve, Answer
<1>2. ASSUME NEW a \in Names, SeedRunEnds(a)
      PROVE  TypeOK'
  BY <1>2 DEF SeedRunEnds
<1>3. CASE UNCHANGED vars
  BY <1>3 DEF vars, table, locals, observed
<1>4. QED
  BY <1>1, <1>2, <1>3 DEF Next

\* An approval gives its group the session of its alias, and only that.
LEMMA SessionStep ==
    IInv /\ [Next]_vars => SessionFollowsAlias'
<1> SUFFICES ASSUME IInv, [Next]_vars
             PROVE  SessionFollowsAlias'
  OBVIOUS
<1> USE GroupAssumption DEF GroupAssumption, IInv, SessionFollowsAlias, TypeOK, Optional, RunStates,
  LocalsAreTrue, RecordPending, SetStatus, CancelSeed, Terminal, Goto, Clear, Ends, Returns, Holds,
  table, locals, observed
<1>1. ASSUME NEW p \in Processes, ProcessStep(p)
      PROVE  SessionFollowsAlias'
  <2>1. CASE \E s \in Senders, t \in PrivateTexts : Manage(p, s, t)
    BY <2>1 DEF Manage
  <2>2. CASE \E g \in Groups, t \in GroupTexts : Hear(p, g, t)
    BY <2>2 DEF Hear
  <2>3. CASE FindByAlias(p)
    BY <2>3 DEF FindByAlias, Found
  <2>4. CASE MissByAlias(p)
    BY <2>4 DEF MissByAlias
  <2>5. CASE FindById(p)
    BY <2>5 DEF FindById, Found
  <2>6. CASE MissById(p)
    BY <2>6 DEF MissById
  <2>7. CASE UnknownGroup(p)
    BY <2>7 DEF UnknownGroup
  <2>8. CASE AliasIsFree(p)
    BY <2>8 DEF AliasIsFree
  <2>9. CASE AliasIsTaken(p)
    BY <2>9 DEF AliasIsTaken
  <2>10. CASE RecordApproved(p)
    BY <2>10 DEF RecordApproved
  <2>11. CASE SeedStarts(p)
    BY <2>11 DEF SeedStarts
  <2>12. CASE SeedIsLost(p)
    BY <2>12 DEF SeedIsLost
  <2>13. CASE SeedIsReplayed(p)
    BY <2>13 DEF SeedIsReplayed
  <2>14. CASE SeedIsBusy(p)
    BY <2>14 DEF SeedIsBusy
  <2>15. CASE WaitEnds(p)
    BY <2>15 DEF WaitEnds
  <2>16. CASE WaitFails(p)
    BY <2>16 DEF WaitFails
  <2>17. CASE Activate(p)
    BY <2>17 DEF Activate
  <2>18. CASE Reset(p)
    BY <2>18 DEF Reset
  <2>19. CASE Disable(p)
    BY <2>19 DEF Disable
  <2>20. CASE Conflict(p)
    <3>1. ASSUME NEW from, Returns(p, from)
          PROVE  SessionFollowsAlias'
      BY <3>1
    <3>2. QED
      BY <2>20, <3>1 DEF Conflict
  <2>21. CASE LookupUnknown(p)
    BY <2>21 DEF LookupUnknown
  <2>22. CASE Enroll(p)
    BY <2>22 DEF Enroll
  <2>23. CASE LookupAnswers(p)
    BY <2>23 DEF LookupAnswers
  <2>24. CASE LookupQuestion(p)
    BY <2>24 DEF LookupQuestion
  <2>25. CASE Ready(p)
    BY <2>25 DEF Ready
  <2>26. CASE NotReady(p)
    BY <2>26 DEF NotReady
  <2>27. CASE Ask(p)
    BY <2>27 DEF Ask
  <2>28. CASE Fails(p)
    BY <2>28 DEF Fails
  <2>29. QED
    BY <1>1, <2>1, <2>2, <2>3, <2>4, <2>5, <2>6, <2>7, <2>8, <2>9, <2>10,
       <2>11, <2>12, <2>13, <2>14, <2>15, <2>16, <2>17, <2>18, <2>19, <2>20,
       <2>21, <2>22, <2>23, <2>24, <2>25, <2>26, <2>27, <2>28
    DEF ProcessStep, Receive, Find, Approve, Answer
<1>2. ASSUME NEW a \in Names, SeedRunEnds(a)
      PROVE  SessionFollowsAlias'
  BY <1>2 DEF SeedRunEnds
<1>3. CASE UNCHANGED vars
  BY <1>3 DEF vars, table, locals, observed
<1>4. QED
  BY <1>1, <1>2, <1>3 DEF Next

\* What a process learns it keeps until it returns.
LEMMA LocalsStep ==
    IInv /\ [Next]_vars => LocalsAreTrue'
<1> SUFFICES ASSUME IInv, [Next]_vars
             PROVE  LocalsAreTrue'
  OBVIOUS
<1> USE GroupAssumption DEF GroupAssumption, IInv, LocalsAreTrue, TypeOK, Optional, RunStates,
  Informed, Overtakes, ReadersOf, CancelSeed, AfterFind, Terminal, Goto, Clear, Ends, Returns, Holds,
  table, locals, observed
<1>1. ASSUME NEW p \in Processes, ProcessStep(p)
      PROVE  LocalsAreTrue'
  <2>1. CASE \E s \in Senders, t \in PrivateTexts : Manage(p, s, t)
    BY <2>1 DEF Manage
  <2>2. CASE \E g \in Groups, t \in GroupTexts : Hear(p, g, t)
    BY <2>2 DEF Hear
  <2>3. CASE FindByAlias(p)
    BY <2>3 DEF FindByAlias, Found
  <2>4. CASE MissByAlias(p)
    BY <2>4 DEF MissByAlias
  <2>5. CASE FindById(p)
    BY <2>5 DEF FindById, Found
  <2>6. CASE MissById(p)
    BY <2>6 DEF MissById
  <2>7. CASE UnknownGroup(p)
    BY <2>7 DEF UnknownGroup
  <2>8. CASE AliasIsFree(p)
    BY <2>8 DEF AliasIsFree
  <2>9. CASE AliasIsTaken(p)
    BY <2>9 DEF AliasIsTaken
  <2>10. CASE RecordApproved(p)
    BY <2>10 DEF RecordApproved
  <2>11. CASE SeedStarts(p)
    BY <2>11 DEF SeedStarts
  <2>12. CASE SeedIsLost(p)
    BY <2>12 DEF SeedIsLost
  <2>13. CASE SeedIsReplayed(p)
    BY <2>13 DEF SeedIsReplayed
  <2>14. CASE SeedIsBusy(p)
    BY <2>14 DEF SeedIsBusy
  <2>15. CASE WaitEnds(p)
    BY <2>15 DEF WaitEnds
  <2>16. CASE WaitFails(p)
    BY <2>16 DEF WaitFails
  <2>17. CASE Activate(p)
    BY <2>17 DEF Activate
  <2>18. CASE Reset(p)
    BY <2>18 DEF Reset
  <2>19. CASE Disable(p)
    BY <2>19 DEF Disable
  <2>20. CASE Conflict(p)
    <3>1. ASSUME NEW from, Returns(p, from)
          PROVE  LocalsAreTrue'
      BY <3>1
    <3>2. QED
      BY <2>20, <3>1 DEF Conflict
  <2>21. CASE LookupUnknown(p)
    BY <2>21 DEF LookupUnknown
  <2>22. CASE Enroll(p)
    BY <2>22 DEF Enroll
  <2>23. CASE LookupAnswers(p)
    BY <2>23 DEF LookupAnswers
  <2>24. CASE LookupQuestion(p)
    BY <2>24 DEF LookupQuestion
  <2>25. CASE Ready(p)
    BY <2>25 DEF Ready
  <2>26. CASE NotReady(p)
    BY <2>26 DEF NotReady
  <2>27. CASE Ask(p)
    BY <2>27 DEF Ask
  <2>28. CASE Fails(p)
    BY <2>28 DEF Fails
  <2>29. QED
    BY <1>1, <2>1, <2>2, <2>3, <2>4, <2>5, <2>6, <2>7, <2>8, <2>9, <2>10,
       <2>11, <2>12, <2>13, <2>14, <2>15, <2>16, <2>17, <2>18, <2>19, <2>20,
       <2>21, <2>22, <2>23, <2>24, <2>25, <2>26, <2>27, <2>28
    DEF ProcessStep, Receive, Find, Approve, Answer
<1>2. ASSUME NEW a \in Names, SeedRunEnds(a)
      PROVE  LocalsAreTrue'
  BY <1>2 DEF SeedRunEnds
<1>3. CASE UNCHANGED vars
  BY <1>3 DEF vars, table, locals, observed
<1>4. QED
  BY <1>1, <1>2, <1>3 DEF Next

\* A write that changes what a process relies on overtakes it.
LEMMA ReadingsStep ==
    IInv /\ [Next]_vars => ReadingsStand'
<1> SUFFICES ASSUME IInv, [Next]_vars
             PROVE  ReadingsStand'
  OBVIOUS
<1> USE GroupAssumption DEF GroupAssumption, IInv, ReadingsStand, TypeOK, Optional,
  Informed, Overtakes, ReadersOf, Decide, RecordPending, SetStatus, CancelSeed, AfterFind,
  Terminal, Goto, Clear, Ends, Returns, Holds,
  table, locals, observed
<1>1. ASSUME NEW p \in Processes, ProcessStep(p)
      PROVE  ReadingsStand'
  <2>1. CASE \E s \in Senders, t \in PrivateTexts : Manage(p, s, t)
    BY <2>1 DEF Manage
  <2>2. CASE \E g \in Groups, t \in GroupTexts : Hear(p, g, t)
    BY <2>2 DEF Hear
  <2>3. CASE FindByAlias(p)
    BY <2>3 DEF FindByAlias, Found
  <2>4. CASE MissByAlias(p)
    BY <2>4 DEF MissByAlias
  <2>5. CASE FindById(p)
    BY <2>5 DEF FindById, Found
  <2>6. CASE MissById(p)
    BY <2>6 DEF MissById
  <2>7. CASE UnknownGroup(p)
    BY <2>7 DEF UnknownGroup
  <2>8. CASE AliasIsFree(p)
    BY <2>8 DEF AliasIsFree
  <2>9. CASE AliasIsTaken(p)
    BY <2>9 DEF AliasIsTaken
  <2>10. CASE RecordApproved(p)
    BY <2>10 DEF RecordApproved
  <2>11. CASE SeedStarts(p)
    BY <2>11 DEF SeedStarts
  <2>12. CASE SeedIsLost(p)
    BY <2>12 DEF SeedIsLost
  <2>13. CASE SeedIsReplayed(p)
    BY <2>13 DEF SeedIsReplayed
  <2>14. CASE SeedIsBusy(p)
    BY <2>14 DEF SeedIsBusy
  <2>15. CASE WaitEnds(p)
    BY <2>15 DEF WaitEnds
  <2>16. CASE WaitFails(p)
    BY <2>16 DEF WaitFails
  <2>17. CASE Activate(p)
    BY <2>17 DEF Activate
  <2>18. CASE Reset(p)
    BY <2>18 DEF Reset
  <2>19. CASE Disable(p)
    BY <2>19 DEF Disable
  <2>20. CASE Conflict(p)
    <3>1. ASSUME NEW from, Returns(p, from)
          PROVE  ReadingsStand'
      BY <3>1
    <3>2. QED
      BY <2>20, <3>1 DEF Conflict
  <2>21. CASE LookupUnknown(p)
    BY <2>21 DEF LookupUnknown
  <2>22. CASE Enroll(p)
    BY <2>22 DEF Enroll
  <2>23. CASE LookupAnswers(p)
    BY <2>23 DEF LookupAnswers
  <2>24. CASE LookupQuestion(p)
    BY <2>24 DEF LookupQuestion
  <2>25. CASE Ready(p)
    BY <2>25 DEF Ready
  <2>26. CASE NotReady(p)
    BY <2>26 DEF NotReady
  <2>27. CASE Ask(p)
    BY <2>27 DEF Ask
  <2>28. CASE Fails(p)
    BY <2>28 DEF Fails
  <2>29. QED
    BY <1>1, <2>1, <2>2, <2>3, <2>4, <2>5, <2>6, <2>7, <2>8, <2>9, <2>10,
       <2>11, <2>12, <2>13, <2>14, <2>15, <2>16, <2>17, <2>18, <2>19, <2>20,
       <2>21, <2>22, <2>23, <2>24, <2>25, <2>26, <2>27, <2>28
    DEF ProcessStep, Receive, Find, Approve, Answer
<1>2. ASSUME NEW a \in Names, SeedRunEnds(a)
      PROVE  ReadingsStand'
  BY <1>2 DEF SeedRunEnds
<1>3. CASE UNCHANGED vars
  BY <1>3 DEF vars, table, locals, observed
<1>4. QED
  BY <1>1, <1>2, <1>3 DEF Next

\* An approval that was not overtaken activates the group it is about.
LEMMA ApprovedStep ==
    IInv /\ [Next]_vars => EnabledIsApproved'
<1> SUFFICES ASSUME IInv, [Next]_vars
             PROVE  EnabledIsApproved'
  OBVIOUS
<1> USE GroupAssumption DEF GroupAssumption, IInv, EnabledIsApproved, IsEnabled, ReadingsStand, TypeOK, Optional,
  Overtakes, Decide, RecordPending, SetStatus, CancelSeed, AfterFind,
  Terminal, Goto, Clear, Ends, Returns, Holds,
  table, locals, observed
<1>1. ASSUME NEW p \in Processes, ProcessStep(p)
      PROVE  EnabledIsApproved'
  <2>1. CASE \E s \in Senders, t \in PrivateTexts : Manage(p, s, t)
    BY <2>1 DEF Manage
  <2>2. CASE \E g \in Groups, t \in GroupTexts : Hear(p, g, t)
    BY <2>2 DEF Hear
  <2>3. CASE FindByAlias(p)
    BY <2>3 DEF FindByAlias, Found
  <2>4. CASE MissByAlias(p)
    BY <2>4 DEF MissByAlias
  <2>5. CASE FindById(p)
    BY <2>5 DEF FindById, Found
  <2>6. CASE MissById(p)
    BY <2>6 DEF MissById
  <2>7. CASE UnknownGroup(p)
    BY <2>7 DEF UnknownGroup
  <2>8. CASE AliasIsFree(p)
    BY <2>8 DEF AliasIsFree
  <2>9. CASE AliasIsTaken(p)
    BY <2>9 DEF AliasIsTaken
  <2>10. CASE RecordApproved(p)
    BY <2>10 DEF RecordApproved
  <2>11. CASE SeedStarts(p)
    BY <2>11 DEF SeedStarts
  <2>12. CASE SeedIsLost(p)
    BY <2>12 DEF SeedIsLost
  <2>13. CASE SeedIsReplayed(p)
    BY <2>13 DEF SeedIsReplayed
  <2>14. CASE SeedIsBusy(p)
    BY <2>14 DEF SeedIsBusy
  <2>15. CASE WaitEnds(p)
    BY <2>15 DEF WaitEnds
  <2>16. CASE WaitFails(p)
    BY <2>16 DEF WaitFails
  <2>17. CASE Activate(p)
    BY <2>17 DEF Activate
  <2>18. CASE Reset(p)
    BY <2>18 DEF Reset
  <2>19. CASE Disable(p)
    BY <2>19 DEF Disable
  <2>20. CASE Conflict(p)
    <3>1. ASSUME NEW from, Returns(p, from)
          PROVE  EnabledIsApproved'
      BY <3>1
    <3>2. QED
      BY <2>20, <3>1 DEF Conflict
  <2>21. CASE LookupUnknown(p)
    BY <2>21 DEF LookupUnknown
  <2>22. CASE Enroll(p)
    BY <2>22 DEF Enroll
  <2>23. CASE LookupAnswers(p)
    BY <2>23 DEF LookupAnswers
  <2>24. CASE LookupQuestion(p)
    BY <2>24 DEF LookupQuestion
  <2>25. CASE Ready(p)
    BY <2>25 DEF Ready
  <2>26. CASE NotReady(p)
    BY <2>26 DEF NotReady
  <2>27. CASE Ask(p)
    BY <2>27 DEF Ask
  <2>28. CASE Fails(p)
    BY <2>28 DEF Fails
  <2>29. QED
    BY <1>1, <2>1, <2>2, <2>3, <2>4, <2>5, <2>6, <2>7, <2>8, <2>9, <2>10,
       <2>11, <2>12, <2>13, <2>14, <2>15, <2>16, <2>17, <2>18, <2>19, <2>20,
       <2>21, <2>22, <2>23, <2>24, <2>25, <2>26, <2>27, <2>28
    DEF ProcessStep, Receive, Find, Approve, Answer
<1>2. ASSUME NEW a \in Names, SeedRunEnds(a)
      PROVE  EnabledIsApproved'
  BY <1>2 DEF SeedRunEnds
<1>3. CASE UNCHANGED vars
  BY <1>3 DEF vars, table, locals, observed
<1>4. QED
  BY <1>1, <1>2, <1>3 DEF Next

\* A write to the group of a question overtakes it, or leaves its session.
LEMMA QuestionStep ==
    IInv /\ [Next]_vars => QuestionIsCurrent'
<1> SUFFICES ASSUME IInv, [Next]_vars
             PROVE  QuestionIsCurrent'
  OBVIOUS
<1> USE GroupAssumption DEF GroupAssumption, IInv, QuestionIsCurrent, IsEnabled, SessionFollowsAlias, LocalsAreTrue,
  TypeOK, Optional, Informed, Overtakes, ReadersOf, RecordPending, SetStatus, CancelSeed, AfterFind,
  Terminal, Goto, Clear, Ends, Returns, Holds,
  table, locals, observed
<1>1. ASSUME NEW p \in Processes, ProcessStep(p)
      PROVE  QuestionIsCurrent'
  <2>1. CASE \E s \in Senders, t \in PrivateTexts : Manage(p, s, t)
    BY <2>1 DEF Manage
  <2>2. CASE \E g \in Groups, t \in GroupTexts : Hear(p, g, t)
    BY <2>2 DEF Hear
  <2>3. CASE FindByAlias(p)
    BY <2>3 DEF FindByAlias, Found
  <2>4. CASE MissByAlias(p)
    BY <2>4 DEF MissByAlias
  <2>5. CASE FindById(p)
    BY <2>5 DEF FindById, Found
  <2>6. CASE MissById(p)
    BY <2>6 DEF MissById
  <2>7. CASE UnknownGroup(p)
    BY <2>7 DEF UnknownGroup
  <2>8. CASE AliasIsFree(p)
    BY <2>8 DEF AliasIsFree
  <2>9. CASE AliasIsTaken(p)
    BY <2>9 DEF AliasIsTaken
  <2>10. CASE RecordApproved(p)
    BY <2>10 DEF RecordApproved
  <2>11. CASE SeedStarts(p)
    BY <2>11 DEF SeedStarts
  <2>12. CASE SeedIsLost(p)
    BY <2>12 DEF SeedIsLost
  <2>13. CASE SeedIsReplayed(p)
    BY <2>13 DEF SeedIsReplayed
  <2>14. CASE SeedIsBusy(p)
    BY <2>14 DEF SeedIsBusy
  <2>15. CASE WaitEnds(p)
    BY <2>15 DEF WaitEnds
  <2>16. CASE WaitFails(p)
    BY <2>16 DEF WaitFails
  <2>17. CASE Activate(p)
    <3>1. ses[p] = ali[p]
      BY <2>17 DEF Activate
    <3>2. ASSUME NEW i \in Names, IsEnabled(i)
          PROVE  IsEnabled(i)' /\ session'[i] = session[i]
      <4>1. session[i] = alias[i] /\ session[i] # Absent
        BY <3>2
      <4>2. QED
        BY <2>17, <3>1, <3>2, <4>1 DEF Activate
    <3>3. ASSUME NEW q \in Processes \ overtaken', pc'[q] \in {"check", "ask"}
          PROVE  /\ q \notin overtaken /\ pc[q] \in {"check", "ask"}
                 /\ gid'[q] = gid[q] /\ ses'[q] = ses[q] /\ gid[q] \in Names
      BY <2>17, <3>3 DEF Activate
    <3>4. QED
      BY <3>2, <3>3
  <2>18. CASE Reset(p)
    BY <2>18 DEF Reset
  <2>19. CASE Disable(p)
    <3>1. ASSUME NEW q \in Processes \ overtaken', pc'[q] \in {"check", "ask"}
          PROVE  /\ q \notin overtaken /\ pc[q] \in {"check", "ask"}
                 /\ gid'[q] = gid[q] /\ ses'[q] = ses[q] /\ gid[q] \in Names
                 /\ ~Holds(gid[q], ali[p])
      BY <2>19, <3>1 DEF Disable
    <3>2. ASSUME NEW i \in Names, ~Holds(i, ali[p])
          PROVE  status'[i] = status[i] /\ session'[i] = session[i]
      BY <2>19, <3>2 DEF Disable
    <3>3. QED
      BY <3>1, <3>2
  <2>20. CASE Conflict(p)
    <3>1. ASSUME NEW from, Returns(p, from)
          PROVE  QuestionIsCurrent'
      BY <3>1
    <3>2. QED
      BY <2>20, <3>1 DEF Conflict
  <2>21. CASE LookupUnknown(p)
    BY <2>21 DEF LookupUnknown
  <2>22. CASE Enroll(p)
    BY <2>22 DEF Enroll
  <2>23. CASE LookupAnswers(p)
    BY <2>23 DEF LookupAnswers
  <2>24. CASE LookupQuestion(p)
    BY <2>24 DEF LookupQuestion
  <2>25. CASE Ready(p)
    BY <2>25 DEF Ready
  <2>26. CASE NotReady(p)
    BY <2>26 DEF NotReady
  <2>27. CASE Ask(p)
    BY <2>27 DEF Ask
  <2>28. CASE Fails(p)
    BY <2>28 DEF Fails
  <2>29. QED
    BY <1>1, <2>1, <2>2, <2>3, <2>4, <2>5, <2>6, <2>7, <2>8, <2>9, <2>10,
       <2>11, <2>12, <2>13, <2>14, <2>15, <2>16, <2>17, <2>18, <2>19, <2>20,
       <2>21, <2>22, <2>23, <2>24, <2>25, <2>26, <2>27, <2>28
    DEF ProcessStep, Receive, Find, Approve, Answer
<1>2. ASSUME NEW a \in Names, SeedRunEnds(a)
      PROVE  QuestionIsCurrent'
  BY <1>2 DEF SeedRunEnds
<1>3. CASE UNCHANGED vars
  BY <1>3 DEF vars, table, locals, observed
<1>4. QED
  BY <1>1, <1>2, <1>3 DEF Next

\* Who takes the alias of an approval overtakes it.
LEMMA ClearStep ==
    IInv /\ [Next]_vars => RecordIsClear'
<1> SUFFICES ASSUME IInv, [Next]_vars
             PROVE  RecordIsClear'
  OBVIOUS
<1> USE GroupAssumption DEF GroupAssumption, IInv, RecordIsClear, Taken,
  TypeOK, Optional, Informed, Overtakes, ReadersOf, RecordPending, SetStatus, CancelSeed, AfterFind,
  Terminal, Goto, Clear, Ends, Returns, Holds,
  table, locals, observed
<1>1. ASSUME NEW p \in Processes, ProcessStep(p)
      PROVE  RecordIsClear'
  <2>1. CASE \E s \in Senders, t \in PrivateTexts : Manage(p, s, t)
    BY <2>1 DEF Manage
  <2>2. CASE \E g \in Groups, t \in GroupTexts : Hear(p, g, t)
    BY <2>2 DEF Hear
  <2>3. CASE FindByAlias(p)
    BY <2>3 DEF FindByAlias, Found
  <2>4. CASE MissByAlias(p)
    BY <2>4 DEF MissByAlias
  <2>5. CASE FindById(p)
    BY <2>5 DEF FindById, Found
  <2>6. CASE MissById(p)
    BY <2>6 DEF MissById
  <2>7. CASE UnknownGroup(p)
    BY <2>7 DEF UnknownGroup
  <2>8. CASE AliasIsFree(p)
    BY <2>8 DEF AliasIsFree
  <2>9. CASE AliasIsTaken(p)
    BY <2>9 DEF AliasIsTaken
  <2>10. CASE RecordApproved(p)
    BY <2>10 DEF RecordApproved
  <2>11. CASE SeedStarts(p)
    BY <2>11 DEF SeedStarts
  <2>12. CASE SeedIsLost(p)
    BY <2>12 DEF SeedIsLost
  <2>13. CASE SeedIsReplayed(p)
    BY <2>13 DEF SeedIsReplayed
  <2>14. CASE SeedIsBusy(p)
    BY <2>14 DEF SeedIsBusy
  <2>15. CASE WaitEnds(p)
    BY <2>15 DEF WaitEnds
  <2>16. CASE WaitFails(p)
    BY <2>16 DEF WaitFails
  <2>17. CASE Activate(p)
    BY <2>17 DEF Activate
  <2>18. CASE Reset(p)
    BY <2>18 DEF Reset
  <2>19. CASE Disable(p)
    BY <2>19 DEF Disable
  <2>20. CASE Conflict(p)
    <3>1. ASSUME NEW from, Returns(p, from)
          PROVE  RecordIsClear'
      BY <3>1
    <3>2. QED
      BY <2>20, <3>1 DEF Conflict
  <2>21. CASE LookupUnknown(p)
    BY <2>21 DEF LookupUnknown
  <2>22. CASE Enroll(p)
    BY <2>22 DEF Enroll
  <2>23. CASE LookupAnswers(p)
    BY <2>23 DEF LookupAnswers
  <2>24. CASE LookupQuestion(p)
    BY <2>24 DEF LookupQuestion
  <2>25. CASE Ready(p)
    BY <2>25 DEF Ready
  <2>26. CASE NotReady(p)
    BY <2>26 DEF NotReady
  <2>27. CASE Ask(p)
    BY <2>27 DEF Ask
  <2>28. CASE Fails(p)
    BY <2>28 DEF Fails
  <2>29. QED
    BY <1>1, <2>1, <2>2, <2>3, <2>4, <2>5, <2>6, <2>7, <2>8, <2>9, <2>10,
       <2>11, <2>12, <2>13, <2>14, <2>15, <2>16, <2>17, <2>18, <2>19, <2>20,
       <2>21, <2>22, <2>23, <2>24, <2>25, <2>26, <2>27, <2>28
    DEF ProcessStep, Receive, Find, Approve, Answer
<1>2. ASSUME NEW a \in Names, SeedRunEnds(a)
      PROVE  RecordIsClear'
  BY <1>2 DEF SeedRunEnds
<1>3. CASE UNCHANGED vars
  BY <1>3 DEF vars, table, locals, observed
<1>4. QED
  BY <1>1, <1>2, <1>3 DEF Next

\* It holds at the start, and every step keeps it.
LEMMA InitInv == Init => IInv
  BY GroupAssumption
  DEF GroupAssumption, Init, IInv, TypeOK, Optional, RunStates, Locations,
      SessionFollowsAlias, LocalsAreTrue, ReadingsStand, EnabledIsApproved,
      IsEnabled, QuestionIsCurrent, RecordIsClear

LEMMA StepInv == IInv /\ [Next]_vars => IInv'
  BY TypeStep, SessionStep, LocalsStep, ReadingsStep, ApprovedStep, QuestionStep, ClearStep
  DEF IInv

\* The inductive invariant of the groups holds in every reachable state, for any
\* number of processes, groups, names and commands.
THEOREM GroupInvariant == Spec => []IInv
  BY InitInv, StepInv, PTL DEF Spec

\* Every variable keeps its type, and no two rows have one alias.
THEOREM GroupTypes == Spec => []TypeOK
<1>1. IInv => TypeOK
  BY DEF IInv
<1>2. QED
  BY <1>1, GroupInvariant, PTL

\* Groups that are enabled at the same time have different sessions.
THEOREM SessionsAreDisjoint == Spec => []SessionsDisjoint
<1>1. IInv => SessionsDisjoint
  BY DEF IInv, SessionsDisjoint, SessionFollowsAlias, IsEnabled, TypeOK
<1>2. QED
  BY <1>1, GroupInvariant, PTL

\* The seed run of an enabled group's session is over.
THEOREM SeedsAreOver == Spec => []SeedIsOver
<1>1. IInv => SeedIsOver
  BY DEF IInv, SeedIsOver, SessionFollowsAlias, IsEnabled
<1>2. QED
  BY <1>1, GroupInvariant, PTL

\* A group is enabled against the owner's last decision only by an approval
\* that another command overtook.
THEOREM EnabledByOwner == Spec => []EnabledIsApproved
<1>1. IInv => EnabledIsApproved
  BY DEF IInv
<1>2. QED
  BY <1>1, GroupInvariant, PTL

\* A question that was not overtaken goes to the session of its enabled group.
THEOREM QuestionsAreCurrent == Spec => []QuestionIsCurrent
<1>1. IInv => QuestionIsCurrent
  BY DEF IInv
<1>2. QED
  BY <1>1, GroupInvariant, PTL

\* An approval that was not overtaken does not meet the UNIQUE constraint.
THEOREM RecordsAreClear == Spec => []RecordIsClear
<1>1. IInv => RecordIsClear
  BY DEF IInv
<1>2. QED
  BY <1>1, GroupInvariant, PTL

\* Only the owner's commands and an upsert that was overtaken write an existing row.
LEMMA RowsStep ==
    IInv /\ [Next]_vars => RowsStayTheOwners
<1> SUFFICES ASSUME IInv, [Next]_vars
             PROVE  RowsStayTheOwners
  OBVIOUS
<1> USE GroupAssumption DEF GroupAssumption, IInv, RowsStayTheOwners, TypeOK, LocalsAreTrue, ReadingsStand,
  RecordPending, SetStatus, CancelSeed, Goto, Clear, Ends, Returns, Holds,
  table, locals, observed
<1>1. ASSUME NEW p \in Processes, ProcessStep(p)
      PROVE  RowsStayTheOwners
  <2>1. CASE \E s \in Senders, t \in PrivateTexts : Manage(p, s, t)
    BY <2>1 DEF Manage
  <2>2. CASE \E g \in Groups, t \in GroupTexts : Hear(p, g, t)
    BY <2>2 DEF Hear
  <2>3. CASE FindByAlias(p)
    BY <2>3 DEF FindByAlias, Found
  <2>4. CASE MissByAlias(p)
    BY <2>4 DEF MissByAlias
  <2>5. CASE FindById(p)
    BY <2>5 DEF FindById, Found
  <2>6. CASE MissById(p)
    BY <2>6 DEF MissById
  <2>7. CASE UnknownGroup(p)
    BY <2>7 DEF UnknownGroup
  <2>8. CASE AliasIsFree(p)
    BY <2>8 DEF AliasIsFree
  <2>9. CASE AliasIsTaken(p)
    BY <2>9 DEF AliasIsTaken
  <2>10. CASE RecordApproved(p)
    BY <2>10 DEF RecordApproved
  <2>11. CASE SeedStarts(p)
    BY <2>11 DEF SeedStarts
  <2>12. CASE SeedIsLost(p)
    BY <2>12 DEF SeedIsLost
  <2>13. CASE SeedIsReplayed(p)
    BY <2>13 DEF SeedIsReplayed
  <2>14. CASE SeedIsBusy(p)
    BY <2>14 DEF SeedIsBusy
  <2>15. CASE WaitEnds(p)
    BY <2>15 DEF WaitEnds
  <2>16. CASE WaitFails(p)
    BY <2>16 DEF WaitFails
  <2>17. CASE Activate(p)
    BY <2>17 DEF Activate
  <2>18. CASE Reset(p)
    BY <2>18 DEF Reset
  <2>19. CASE Disable(p)
    BY <2>19 DEF Disable
  <2>20. CASE Conflict(p)
    <3>1. ASSUME NEW from, Returns(p, from)
          PROVE  RowsStayTheOwners
      BY <3>1
    <3>2. QED
      BY <2>20, <3>1 DEF Conflict
  <2>21. CASE LookupUnknown(p)
    BY <2>21 DEF LookupUnknown
  <2>22. CASE Enroll(p)
    BY <2>22 DEF Enroll
  <2>23. CASE LookupAnswers(p)
    BY <2>23 DEF LookupAnswers
  <2>24. CASE LookupQuestion(p)
    BY <2>24 DEF LookupQuestion
  <2>25. CASE Ready(p)
    BY <2>25 DEF Ready
  <2>26. CASE NotReady(p)
    BY <2>26 DEF NotReady
  <2>27. CASE Ask(p)
    BY <2>27 DEF Ask
  <2>28. CASE Fails(p)
    BY <2>28 DEF Fails
  <2>29. QED
    BY <1>1, <2>1, <2>2, <2>3, <2>4, <2>5, <2>6, <2>7, <2>8, <2>9, <2>10,
       <2>11, <2>12, <2>13, <2>14, <2>15, <2>16, <2>17, <2>18, <2>19, <2>20,
       <2>21, <2>22, <2>23, <2>24, <2>25, <2>26, <2>27, <2>28
    DEF ProcessStep, Receive, Find, Approve, Answer
<1>2. ASSUME NEW a \in Names, SeedRunEnds(a)
      PROVE  RowsStayTheOwners
  BY <1>2 DEF SeedRunEnds
<1>3. CASE UNCHANGED vars
  BY <1>3 DEF vars, table, locals, observed
<1>4. QED
  BY <1>1, <1>2, <1>3 DEF Next

\* What a group says changes the owner's row only in the race of two enrolments.
THEOREM RowsStayOwned == Spec => RowsAreTheOwners
<1>1. IInv /\ [Next]_vars => [RowsStayTheOwners]_vars
  BY RowsStep
<1>2. QED
  BY <1>1, GroupInvariant, PTL DEF Spec, RowsAreTheOwners

-----------------------------------------------------------------------------
(* The parser.                                                             *)

\* Whatever is written in a group, it is never one of the owner's commands.
THEOREM GroupsDoNotManage ==
    \A t : ParseCommand(t, "group").kind \notin Management
  BY DEF ParseCommand, ParseGroup, Management, PlainText, Forbidden, Parsed

\* docs/01 says that a group message without @Bot is ignored.  It is, unless it
\* has no word: that one, and no other, becomes a question without @Bot at its
\* head, for it is plain text before the group parser sees it.
THEOREM UnmentionedIsBlank ==
    \A t : ParseCommand(t, "group") = PlainText /\ ~t.mention <=> IsBlank(t)
  BY DEF ParseCommand, ParseGroup, IsBlank, PlainText, Forbidden, Parsed

\* A private text that the gateway takes for a /group command and the runtime
\* lets pass has a blank after its slash, or another slash.
LEMMA OddSpelling ==
    ASSUME NEW t, ParseCommand(t, "private").kind \in Management,
           ~IsGroupManagementCommand(t)
    PROVE  t.slashes \notin {0, 1} \/ t.gap
<1>1. ~t.mention /\ t.slashes # 0 /\ t.words # <<>>
  BY DEF ParseCommand, ParsePrivate, Management, PlainText, Help, Parsed
<1>2. Lower(Head(t.words)) = "group"
  <2> SUFFICES ASSUME Lower(Head(t.words)) # "group"
               PROVE  FALSE
    OBVIOUS
  <2>1. ParseCommand(t, "private").kind \in
           {"GROUP_QA_STATUS", Apply(PrivateRules, t.words).kind}
    BY <1>1 DEF ParseCommand, ParsePrivate, IsBlank, Parsed
  <2>2. Apply(PrivateRules, t.words).kind \notin Management
    BY DEF Apply, PrivateRules, Rule, Parsed, Help, Management
  <2>3. QED
    BY <2>1, <2>2 DEF Management
<1>3. QED
  BY <1>1, <1>2 DEF IsGroupManagementCommand

\* So those are the only approvals, resets and disablings that it lets pass.
LEMMA ManageStep ==
    CommandIsOdd
<1> SUFFICES ASSUME NEW p \in Remote, NEW s \in Senders, NEW t \in PrivateTexts,
                    Manage(p, s, t)
             PROVE  t.gap \/ t.slashes # 1
  BY DEF CommandIsOdd
<1>1. ParseCommand(t, "private").kind \in Management /\ ~IsGroupManagementCommand(t)
  BY DEF Manage, Operation, Management
<1>2. QED
  BY <1>1, OddSpelling

THEOREM OnlyOddSpellingsPass == Spec => OnlyOddSpellings
<1>1. [Next]_vars => [CommandIsOdd]_vars
  BY ManageStep
<1>2. QED
  BY <1>1, PTL DEF Spec, OnlyOddSpellings

=============================================================================
