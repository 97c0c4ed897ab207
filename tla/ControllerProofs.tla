-------------------------- MODULE ControllerProofs --------------------------
(* Proofs about the controller client, for any number of processes, keys,  *)
(* sessions and faults.                                                    *)
EXTENDS ControllerClient, TLAPS

-----------------------------------------------------------------------------
(* What a step of one client can change.                                   *)

\* What a client knows.
LocalsOK ==
    /\ pc \in [Clients -> Locations]
    /\ key \in [Clients -> Keys \cup {NoKey}]
    /\ site \in [Clients -> Sessions]
    /\ token \in [Clients -> BOOLEAN]
    /\ snap \in [Clients -> [SnapFields -> SUBSET Keys]]
    /\ \A c \in Clients :
          pc[c] \notin {"idle", "r_force", "r_list", "r_pick"} => key[c] \in Keys

OthersKeep(c) ==
    \A d \in Clients \ {c} :
        /\ pc'[d] = pc[d] /\ key'[d] = key[d] /\ site'[d] = site[d]
        /\ token'[d] = token[d] /\ snap'[d] = snap[d]

\* The tool call of each location; the others read.
Effect(c) ==
    \/ UNCHANGED controller
    \/ pc[c] = "start" /\ DoStart(key[c])
    \/ pc[c] \in {"c_cancel", "r_cancel"} /\ DoCancel(key[c])
    \/ pc[c] \in {"ack", "c_ack", "r_ack"} /\ DoAck(key[c])
    \/ pc[c] \in {"close", "c_close", "r_close"} /\ DoClose(key[c])
    \/ pc[c] \in {"release", "release_raise", "c_release"} /\ DoRelease(site[c], key[c])
    \/ pc[c] = "r_force" /\ DoRecover(site[c], c)
    \/ pc[c] = "r_pick" /\ snap[c].todo = {} /\ DoRelease(site[c], c)

\* A failure is noted against the key of the client; only a start whose answer
\* is lost, or has no lock token, has an effect all the same.
Note(c) ==
    \/ UNCHANGED mishap
    \/ /\ pc[c] \notin Recovering \cup {"idle"}
       /\ \E call \in Calls : mishap' = [mishap EXCEPT ![key[c]] = @ \cup {call}]
       /\ UNCHANGED controller \/ StartLost(c) \/ StartTokenless(c)

\* Failures, messages and recoveries are counted.
Count(c) ==
    /\ \/ UNCHANGED <<broken, faults>>
       \/ Raises(c)
       \/ /\ faults < MaxFaults /\ faults' = faults + 1
          /\ broken' = [broken EXCEPT ![c] = FALSE]
    /\ \/ UNCHANGED tries
       \/ \E k \in Keys : tries[k] < MaxTries[k] /\ tries' = [tries EXCEPT ![k] = @ + 1]
    /\ \/ UNCHANGED recovers
       \/ recovers < MaxRecovers /\ recovers' = recovers + 1

\* What is on record of results and of recoveries.
Record(c) ==
    /\ \/ UNCHANGED botched
       \/ pc[c] \in Recovering /\ botched' = botched \cup {site[c]}
    /\ \/ UNCHANGED returned
       \/ /\ pc[c] = "release" /\ DoRelease(site[c], key[c])
          /\ returned' = returned \cup {key[c]}
    /\ passed \subseteq passed' /\ passed' \subseteq passed \cup Keys

\* The call of a client.
LEMMA StepEffect ==
    ASSUME NEW c \in Clients, ClientStep(c)
    PROVE  Effect(c)
<1> USE DEF Effect, Recovering, Goto,
  Answers, AnswerLost, CallFails, CallRaises, CallAnyway, ReadAnswers, ReadRaises,
  Released, ReleaseRefused, RecoverEffect, controller
<1>1. CASE \E k \in Keys : Dispatch(c, k)
  BY <1>1 DEF Dispatch
<1>2. CASE \E s \in Sessions : Recover(c, s)
  BY <1>2 DEF Recover
<1>3. CASE StatusReady(c)
  BY <1>3 DEF StatusReady
<1>4. CASE StatusRefused(c)
  BY <1>4 DEF StatusRefused
<1>5. CASE StartFresh(c)
  BY <1>5 DEF StartFresh
<1>6. CASE StartLost(c)
  BY <1>6 DEF StartLost
<1>31. CASE StartTokenless(c)
  BY <1>31 DEF StartTokenless
<1>7. CASE StartRefused(c)
  BY <1>7 DEF StartRefused
<1>8. CASE StartReplayed(c)
  BY <1>8 DEF StartReplayed
<1>9. CASE ReadReplay(c)
  BY <1>9 DEF ReadReplay
<1>10. CASE ReplayRaises(c)
  BY <1>10 DEF ReplayRaises
<1>11. CASE WaitReady(c)
  BY <1>11 DEF WaitReady
<1>12. CASE WaitFails(c)
  BY <1>12 DEF WaitFails
<1>13. CASE ReadResult(c)
  BY <1>13 DEF ReadResult
<1>14. CASE Ack(c)
  BY <1>14 DEF Ack
<1>15. CASE Close(c)
  BY <1>15 DEF Close
<1>16. CASE Release(c)
  BY <1>16 DEF Release
<1>17. CASE ReleaseRaises(c)
  BY <1>17 DEF ReleaseRaises
<1>18. CASE CleanupCancel(c)
  BY <1>18 DEF CleanupCancel
<1>19. CASE CleanupAck(c)
  BY <1>19 DEF CleanupAck
<1>20. CASE CleanupClose(c)
  BY <1>20 DEF CleanupClose
<1>21. CASE CleanupRelease(c)
  BY <1>21 DEF CleanupRelease
<1>22. CASE ForceRecover(c)
  BY <1>22 DEF ForceRecover
<1>23. CASE ListRuns(c)
  BY <1>23 DEF ListRuns
<1>24. CASE PickRun(c)
  BY <1>24 DEF PickRun
<1>25. CASE RecoverCancel(c)
  BY <1>25 DEF RecoverCancel
<1>26. CASE RecoverAck(c)
  BY <1>26 DEF RecoverAck
<1>27. CASE RecoverClose(c)
  BY <1>27 DEF RecoverClose
<1>28. CASE RecoverRelease(c)
  BY <1>28 DEF RecoverRelease
<1>29. CASE RecoverRaises(c)
  BY <1>29 DEF RecoverRaises
<1>30. CASE Crash(c)
  BY <1>30 DEF Crash
<1>32. QED
  BY <1>1, <1>2, <1>3, <1>4, <1>5, <1>6, <1>7, <1>8, <1>9, <1>10, <1>11, <1>12, <1>13,
    <1>14, <1>15, <1>16, <1>17, <1>18, <1>19, <1>20, <1>21, <1>22, <1>23, <1>24, <1>25,
    <1>26, <1>27, <1>28, <1>29, <1>30, <1>31
  DEF ClientStep, Works, Lifecycle, Cleanup, Recovery

\* What is noted of it.
LEMMA StepNote ==
    ASSUME NEW c \in Clients, ClientStep(c)
    PROVE  Note(c)
<1> USE DEF Note, Calls, Recovering, Goto,
  Answers, AnswerLost, CallFails, CallRaises, CallAnyway, ReadAnswers, ReadRaises,
  Released, ReleaseRefused, Botch, observed
<1>1. CASE \E k \in Keys : Dispatch(c, k)
  BY <1>1 DEF Dispatch
<1>2. CASE \E s \in Sessions : Recover(c, s)
  BY <1>2 DEF Recover
<1>3. CASE StatusReady(c)
  BY <1>3 DEF StatusReady
<1>4. CASE StatusRefused(c)
  BY <1>4 DEF StatusRefused
<1>5. CASE StartFresh(c)
  BY <1>5 DEF StartFresh
<1>6. CASE StartLost(c)
  BY <1>6 DEF StartLost
<1>31. CASE StartTokenless(c)
  BY <1>31 DEF StartTokenless
<1>7. CASE StartRefused(c)
  BY <1>7 DEF StartRefused
<1>8. CASE StartReplayed(c)
  BY <1>8 DEF StartReplayed
<1>9. CASE ReadReplay(c)
  BY <1>9 DEF ReadReplay
<1>10. CASE ReplayRaises(c)
  BY <1>10 DEF ReplayRaises
<1>11. CASE WaitReady(c)
  BY <1>11 DEF WaitReady
<1>12. CASE WaitFails(c)
  BY <1>12 DEF WaitFails
<1>13. CASE ReadResult(c)
  BY <1>13 DEF ReadResult
<1>14. CASE Ack(c)
  BY <1>14 DEF Ack
<1>15. CASE Close(c)
  BY <1>15 DEF Close
<1>16. CASE Release(c)
  BY <1>16 DEF Release
<1>17. CASE ReleaseRaises(c)
  BY <1>17 DEF ReleaseRaises
<1>18. CASE CleanupCancel(c)
  BY <1>18 DEF CleanupCancel
<1>19. CASE CleanupAck(c)
  BY <1>19 DEF CleanupAck
<1>20. CASE CleanupClose(c)
  BY <1>20 DEF CleanupClose
<1>21. CASE CleanupRelease(c)
  BY <1>21 DEF CleanupRelease
<1>22. CASE ForceRecover(c)
  BY <1>22 DEF ForceRecover
<1>23. CASE ListRuns(c)
  BY <1>23 DEF ListRuns
<1>24. CASE PickRun(c)
  BY <1>24 DEF PickRun
<1>25. CASE RecoverCancel(c)
  BY <1>25 DEF RecoverCancel
<1>26. CASE RecoverAck(c)
  BY <1>26 DEF RecoverAck
<1>27. CASE RecoverClose(c)
  BY <1>27 DEF RecoverClose
<1>28. CASE RecoverRelease(c)
  BY <1>28 DEF RecoverRelease
<1>29. CASE RecoverRaises(c)
  BY <1>29 DEF RecoverRaises
<1>30. CASE Crash(c)
  BY <1>30 DEF Crash
<1>32. QED
  BY <1>1, <1>2, <1>3, <1>4, <1>5, <1>6, <1>7, <1>8, <1>9, <1>10, <1>11, <1>12, <1>13,
    <1>14, <1>15, <1>16, <1>17, <1>18, <1>19, <1>20, <1>21, <1>22, <1>23, <1>24, <1>25,
    <1>26, <1>27, <1>28, <1>29, <1>30, <1>31
  DEF ClientStep, Works, Lifecycle, Cleanup, Recovery

\* What is counted of it.
LEMMA StepCount ==
    ASSUME NEW c \in Clients, ClientStep(c)
    PROVE  Count(c)
<1> USE DEF Count, Answers, AnswerLost, CallFails, CallRaises, CallAnyway, ReadAnswers, ReadRaises,
  Quiet, Botch, ReleaseRefused
<1>1. CASE \E k \in Keys : Dispatch(c, k)
  BY <1>1 DEF Dispatch
<1>2. CASE \E s \in Sessions : Recover(c, s)
  BY <1>2 DEF Recover
<1>3. CASE StatusReady(c)
  BY <1>3 DEF StatusReady
<1>4. CASE StatusRefused(c)
  BY <1>4 DEF StatusRefused
<1>5. CASE StartFresh(c)
  BY <1>5 DEF StartFresh
<1>6. CASE StartLost(c)
  BY <1>6 DEF StartLost
<1>31. CASE StartTokenless(c)
  BY <1>31 DEF StartTokenless
<1>7. CASE StartRefused(c)
  BY <1>7 DEF StartRefused
<1>8. CASE StartReplayed(c)
  BY <1>8 DEF StartReplayed
<1>9. CASE ReadReplay(c)
  BY <1>9 DEF ReadReplay
<1>10. CASE ReplayRaises(c)
  BY <1>10 DEF ReplayRaises
<1>11. CASE WaitReady(c)
  BY <1>11 DEF WaitReady
<1>12. CASE WaitFails(c)
  BY <1>12 DEF WaitFails
<1>13. CASE ReadResult(c)
  BY <1>13 DEF ReadResult
<1>14. CASE Ack(c)
  BY <1>14 DEF Ack
<1>15. CASE Close(c)
  BY <1>15 DEF Close
<1>16. CASE Release(c)
  BY <1>16 DEF Release
<1>17. CASE ReleaseRaises(c)
  BY <1>17 DEF ReleaseRaises
<1>18. CASE CleanupCancel(c)
  BY <1>18 DEF CleanupCancel
<1>19. CASE CleanupAck(c)
  BY <1>19 DEF CleanupAck
<1>20. CASE CleanupClose(c)
  BY <1>20 DEF CleanupClose
<1>21. CASE CleanupRelease(c)
  BY <1>21 DEF CleanupRelease
<1>22. CASE ForceRecover(c)
  BY <1>22 DEF ForceRecover
<1>23. CASE ListRuns(c)
  BY <1>23 DEF ListRuns
<1>24. CASE PickRun(c)
  BY <1>24 DEF PickRun
<1>25. CASE RecoverCancel(c)
  BY <1>25 DEF RecoverCancel
<1>26. CASE RecoverAck(c)
  BY <1>26 DEF RecoverAck
<1>27. CASE RecoverClose(c)
  BY <1>27 DEF RecoverClose
<1>28. CASE RecoverRelease(c)
  BY <1>28 DEF RecoverRelease
<1>29. CASE RecoverRaises(c)
  BY <1>29 DEF RecoverRaises
<1>30. CASE Crash(c)
  BY <1>30 DEF Crash
<1>32. QED
  BY <1>1, <1>2, <1>3, <1>4, <1>5, <1>6, <1>7, <1>8, <1>9, <1>10, <1>11, <1>12, <1>13,
    <1>14, <1>15, <1>16, <1>17, <1>18, <1>19, <1>20, <1>21, <1>22, <1>23, <1>24, <1>25,
    <1>26, <1>27, <1>28, <1>29, <1>30, <1>31
  DEF ClientStep, Works, Lifecycle, Cleanup, Recovery

\* What goes on record.
LEMMA StepRecord ==
    ASSUME NEW c \in Clients, ClientStep(c)
    PROVE  Record(c)
<1> USE DEF Record, Recovering, Goto, Quiet, Botch, observed, Answers, Released
<1>1. CASE \E k \in Keys : Dispatch(c, k)
  BY <1>1 DEF Dispatch
<1>2. CASE \E s \in Sessions : Recover(c, s)
  BY <1>2 DEF Recover
<1>3. CASE StatusReady(c)
  BY <1>3 DEF StatusReady
<1>4. CASE StatusRefused(c)
  BY <1>4 DEF StatusRefused
<1>5. CASE StartFresh(c)
  BY <1>5 DEF StartFresh
<1>6. CASE StartLost(c)
  BY <1>6 DEF StartLost
<1>31. CASE StartTokenless(c)
  BY <1>31 DEF StartTokenless
<1>7. CASE StartRefused(c)
  BY <1>7 DEF StartRefused
<1>8. CASE StartReplayed(c)
  BY <1>8 DEF StartReplayed
<1>9. CASE ReadReplay(c)
  BY <1>9 DEF ReadReplay
<1>10. CASE ReplayRaises(c)
  BY <1>10 DEF ReplayRaises
<1>11. CASE WaitReady(c)
  BY <1>11 DEF WaitReady
<1>12. CASE WaitFails(c)
  BY <1>12 DEF WaitFails
<1>13. CASE ReadResult(c)
  BY <1>13 DEF ReadResult
<1>14. CASE Ack(c)
  BY <1>14 DEF Ack
<1>15. CASE Close(c)
  BY <1>15 DEF Close
<1>16. CASE Release(c)
  BY <1>16 DEF Release
<1>17. CASE ReleaseRaises(c)
  BY <1>17 DEF ReleaseRaises
<1>18. CASE CleanupCancel(c)
  BY <1>18 DEF CleanupCancel
<1>19. CASE CleanupAck(c)
  BY <1>19 DEF CleanupAck
<1>20. CASE CleanupClose(c)
  BY <1>20 DEF CleanupClose
<1>21. CASE CleanupRelease(c)
  BY <1>21 DEF CleanupRelease
<1>22. CASE ForceRecover(c)
  BY <1>22 DEF ForceRecover
<1>23. CASE ListRuns(c)
  BY <1>23 DEF ListRuns, RunsOn
<1>24. CASE PickRun(c)
  BY <1>24 DEF PickRun
<1>25. CASE RecoverCancel(c)
  BY <1>25 DEF RecoverCancel
<1>26. CASE RecoverAck(c)
  BY <1>26 DEF RecoverAck
<1>27. CASE RecoverClose(c)
  BY <1>27 DEF RecoverClose
<1>28. CASE RecoverRelease(c)
  BY <1>28 DEF RecoverRelease
<1>29. CASE RecoverRaises(c)
  BY <1>29 DEF RecoverRaises
<1>30. CASE Crash(c)
  BY <1>30 DEF Crash
<1>32. QED
  BY <1>1, <1>2, <1>3, <1>4, <1>5, <1>6, <1>7, <1>8, <1>9, <1>10, <1>11, <1>12, <1>13,
    <1>14, <1>15, <1>16, <1>17, <1>18, <1>19, <1>20, <1>21, <1>22, <1>23, <1>24, <1>25,
    <1>26, <1>27, <1>28, <1>29, <1>30, <1>31
  DEF ClientStep, Works, Lifecycle, Cleanup, Recovery

\* The calls a recovery makes for a run.
LEMMA CallForIsCall ==
    ASSUME NEW c, NEW k, NEW done
    PROVE  CallFor(c, k, done) \in {"r_cancel", "r_ack", "r_close", "r_pick"}
  BY DEF CallFor

\* A step of one client changes what that client knows.
LEMMA StepFrame ==
    ASSUME LocalsOK, NEW c \in Clients, ClientStep(c)
    PROVE  LocalsOK' /\ OthersKeep(c)
<1> USE ControllerAssumption DEF ControllerAssumption, LocalsOK, OthersKeep, Locations,
  Recovering, EmptySnap, Goto, Keep, Forget, Botch
<1>1. CASE \E k \in Keys : Dispatch(c, k)
  BY <1>1 DEF Dispatch
<1>2. CASE \E s \in Sessions : Recover(c, s)
  BY <1>2 DEF Recover
<1>3. CASE StatusReady(c)
  BY <1>3 DEF StatusReady
<1>4. CASE StatusRefused(c)
  BY <1>4 DEF StatusRefused
<1>5. CASE StartFresh(c)
  BY <1>5 DEF StartFresh
<1>6. CASE StartLost(c)
  BY <1>6 DEF StartLost
<1>31. CASE StartTokenless(c)
  BY <1>31 DEF StartTokenless
<1>7. CASE StartRefused(c)
  BY <1>7 DEF StartRefused
<1>8. CASE StartReplayed(c)
  BY <1>8 DEF StartReplayed
<1>9. CASE ReadReplay(c)
  BY <1>9 DEF ReadReplay
<1>10. CASE ReplayRaises(c)
  BY <1>10 DEF ReplayRaises
<1>11. CASE WaitReady(c)
  BY <1>11 DEF WaitReady
<1>12. CASE WaitFails(c)
  BY <1>12 DEF WaitFails
<1>13. CASE ReadResult(c)
  BY <1>13 DEF ReadResult
<1>14. CASE Ack(c)
  BY <1>14 DEF Ack
<1>15. CASE Close(c)
  BY <1>15 DEF Close
<1>16. CASE Release(c)
  BY <1>16 DEF Release
<1>17. CASE ReleaseRaises(c)
  BY <1>17 DEF ReleaseRaises
<1>18. CASE CleanupCancel(c)
  BY <1>18 DEF CleanupCancel
<1>19. CASE CleanupAck(c)
  BY <1>19 DEF CleanupAck
<1>20. CASE CleanupClose(c)
  <2>1. CASE Goto(c, "c_close", "c_release") /\ Keep
    BY <2>1
  <2>2. CASE Goto(c, "c_close", "idle") /\ Forget(c)
    BY <2>2
  <2>3. QED
    BY <1>20, <2>1, <2>2 DEF CleanupClose
<1>21. CASE CleanupRelease(c)
  BY <1>21 DEF CleanupRelease
<1>22. CASE ForceRecover(c)
  BY <1>22 DEF ForceRecover
<1>23. CASE ListRuns(c)
  <2>1. PICK R \in SUBSET Keys, T \in SUBSET Keys :
           snap' = [snap EXCEPT ![c] =
                      [runs   |-> R,
                       live   |-> {k \in R : run[k] = "in_progress"},
                       acked  |-> acked \cap R,
                       moved  |-> T,
                       closed |-> closed \cap R,
                       todo   |-> R]]
    BY <1>23 DEF ListRuns, RunsOn
  <2>2. [runs   |-> R,
         live   |-> {k \in R : run[k] = "in_progress"},
         acked  |-> acked \cap R,
         moved  |-> T,
         closed |-> closed \cap R,
         todo   |-> R] \in [SnapFields -> SUBSET Keys]
    BY DEF SnapFields
  <2>3. snap' \in [Clients -> [SnapFields -> SUBSET Keys]]
    BY <2>1, <2>2
  <2>4. QED
    BY <1>23, <2>1, <2>3 DEF ListRuns
<1>24. CASE PickRun(c)
  <2>1. PICK k \in snap[c].todo :
           /\ Goto(c, "r_pick", CallFor(c, k, "none"))
           /\ key' = [key EXCEPT ![c] = k]
           /\ snap' = [snap EXCEPT ![c].todo = @ \ {k}]
           /\ UNCHANGED <<site, token>>
    BY <1>24 DEF PickRun
  <2>2. snap[c] \in [SnapFields -> SUBSET Keys] /\ "todo" \in SnapFields
    BY DEF SnapFields
  <2>3. snap' = [snap EXCEPT ![c] = [snap[c] EXCEPT !.todo = @ \ {k}]]
    BY <2>1
  <2>4. [snap[c] EXCEPT !.todo = @ \ {k}] \in [SnapFields -> SUBSET Keys]
    BY <2>2
  <2>5. snap' \in [Clients -> [SnapFields -> SUBSET Keys]]
    BY <2>3, <2>4
  <2>6. k \in Keys /\ CallFor(c, k, "none") \in {"r_cancel", "r_ack", "r_close", "r_pick"}
    BY <2>1, <2>2, CallForIsCall
  <2>7. QED
    BY <2>1, <2>3, <2>5, <2>6
<1>25. CASE RecoverCancel(c)
  <2>1. CallFor(c, key[c], "cancel") \in {"r_cancel", "r_ack", "r_close", "r_pick"}
    BY CallForIsCall
  <2>2. QED
    BY <1>25, <2>1 DEF RecoverCancel
<1>26. CASE RecoverAck(c)
  <2>1. CallFor(c, key[c], "ack") \in {"r_cancel", "r_ack", "r_close", "r_pick"}
    BY CallForIsCall
  <2>2. QED
    BY <1>26, <2>1 DEF RecoverAck
<1>27. CASE RecoverClose(c)
  BY <1>27 DEF RecoverClose
<1>28. CASE RecoverRelease(c)
  BY <1>28 DEF RecoverRelease
<1>29. CASE RecoverRaises(c)
  BY <1>29 DEF RecoverRaises
<1>30. CASE Crash(c)
  BY <1>30 DEF Crash
<1>32. QED
  BY <1>1, <1>2, <1>3, <1>4, <1>5, <1>6, <1>7, <1>8, <1>9, <1>10, <1>11, <1>12, <1>13,
    <1>14, <1>15, <1>16, <1>17, <1>18, <1>19, <1>20, <1>21, <1>22, <1>23, <1>24, <1>25,
    <1>26, <1>27, <1>28, <1>29, <1>30, <1>31
  DEF ClientStep, Works, Lifecycle, Cleanup, Recovery

-----------------------------------------------------------------------------
(* What a step can change at the controller and on record.                 *)

\* What the controller, the counters and the records hold.
SharedOK ==
    /\ lock \in [Sessions -> Keys \cup Clients \cup {Free}]
    /\ run \in [Keys -> RunStates]
    /\ acked \subseteq Keys
    /\ closed \subseteq Keys
    /\ broken \in [Clients -> BOOLEAN]
    /\ tries \in [Keys -> Nat]
    /\ \A k \in Keys : tries[k] <= MaxTries[k]
    /\ recovers \in 0..MaxRecovers
    /\ faults \in 0..MaxFaults
    /\ mishap \in [Keys -> SUBSET Calls]
    /\ botched \subseteq Sessions
    /\ passed \subseteq Keys
    /\ returned \subseteq Keys

\* The type invariant in two parts.
LEMMA TypeParts ==
    TypeOK <=> SharedOK /\ LocalsOK
  BY DEF TypeOK, SharedOK, LocalsOK

\* Its parts after a step.
LEMMA TypePartsNext ==
    TypeOK' <=> SharedOK' /\ LocalsOK'
  BY DEF TypeOK, SharedOK, LocalsOK

\* Only a location with a key calls a tool for a run.
LEMMA ToolHasKey ==
    ASSUME LocalsOK, NEW c \in Clients,
           pc[c] \notin {"idle", "r_force", "r_list", "r_pick"}
    PROVE  key[c] \in Keys
  BY DEF LocalsOK

\* A call keeps the controller's variables in their sets.
LEMMA EffectTypes ==
    ASSUME TypeOK, NEW c \in Clients, Effect(c)
    PROVE  /\ lock' \in [Sessions -> Keys \cup Clients \cup {Free}]
           /\ run' \in [Keys -> RunStates]
           /\ acked' \subseteq Keys
           /\ closed' \subseteq Keys
<1>1. SharedOK /\ site[c] \in Sessions
  BY TypeParts DEF TypeOK
<1>2. pc[c] \in {"start", "c_cancel", "r_cancel", "ack", "c_ack", "r_ack", "close",
                 "c_close", "r_close"} => key[c] \in Keys
  BY ToolHasKey, TypeParts
<1>3. QED
  BY <1>1, <1>2
  DEF SharedOK, Effect, DoStart, DoCancel, DoAck, DoClose, DoRelease, DoRecover,
      RunStates, controller

\* Every step keeps every variable in its set.
LEMMA TypeStep ==
    TypeOK /\ [Next]_vars => TypeOK'
<1> SUFFICES ASSUME TypeOK, [Next]_vars
             PROVE  TypeOK'
  OBVIOUS
<1>1. SharedOK /\ LocalsOK
  BY TypeParts
<1>2. ASSUME NEW c \in Clients, ClientStep(c)
      PROVE  TypeOK'
  <2>1. LocalsOK'
    BY <1>1, <1>2, StepFrame
  <2>2. /\ lock' \in [Sessions -> Keys \cup Clients \cup {Free}]
        /\ run' \in [Keys -> RunStates]
        /\ acked' \subseteq Keys
        /\ closed' \subseteq Keys
    BY <1>2, StepEffect, EffectTypes
  <2>3. mishap' \in [Keys -> SUBSET Calls]
    BY <1>1, <1>2, StepNote DEF Note, SharedOK
  <2>4. broken' \in [Clients -> BOOLEAN] /\ faults' \in 0..MaxFaults
    <3>1. MaxFaults \in Nat /\ faults \in 0..MaxFaults /\ broken \in [Clients -> BOOLEAN]
      BY <1>1, ControllerAssumption DEF ControllerAssumption, SharedOK
    <3>2. CASE Raises(c)
      <4>1. faults' \in 0..MaxFaults
        BY <3>1, <3>2 DEF Raises
      <4>2. broken' \in [Clients -> BOOLEAN]
        BY <3>1, <3>2, Zenon DEF Raises
      <4>3. QED
        BY <4>1, <4>2
    <3>3. CASE ~Raises(c)
      <4>1. \/ UNCHANGED <<broken, faults>>
            \/ /\ faults < MaxFaults /\ faults' = faults + 1
               /\ broken' = [broken EXCEPT ![c] = FALSE]
        BY <1>2, <3>3, StepCount DEF Count
      <4>2. faults' \in 0..MaxFaults
        BY <3>1, <4>1
      <4>3. broken' \in [Clients -> BOOLEAN]
        BY <3>1, <4>1, Zenon
      <4>4. QED
        BY <4>2, <4>3
    <3>4. QED
      BY <3>2, <3>3
  <2>5. /\ tries' \in [Keys -> Nat] /\ \A k \in Keys : tries'[k] <= MaxTries[k]
        /\ recovers' \in 0..MaxRecovers
    BY <1>1, <1>2, StepCount, ControllerAssumption DEF Count, SharedOK, ControllerAssumption
  <2>6. botched' \subseteq Sessions
    BY <1>1, <1>2, StepRecord DEF Record, SharedOK, LocalsOK
  <2>7. returned' \subseteq Keys /\ passed' \subseteq Keys
    BY <1>1, <1>2, StepRecord, ToolHasKey DEF Record, SharedOK
  <2>8. QED
    BY <2>1, <2>2, <2>3, <2>4, <2>5, <2>6, <2>7, TypePartsNext DEF SharedOK
<1>3. CASE World
  BY <1>1, <1>3, TypePartsNext
  DEF World, LeaseExpires, RunFinishes, SharedOK, LocalsOK, RunStates, client, bounds, observed
<1>4. CASE UNCHANGED vars
  BY <1>1, <1>4, TypePartsNext
  DEF vars, SharedOK, LocalsOK, controller, client, bounds, observed
<1>5. QED
  BY <1>2, <1>3, <1>4 DEF Next, Waiting

\* Acks, closes and notes stay, and a run only goes forward.
Forward ==
    /\ acked \subseteq acked' /\ closed \subseteq closed' /\ botched \subseteq botched'
    /\ passed \subseteq passed'
    /\ \A k \in Keys :
          /\ mishap[k] \subseteq mishap'[k]
          /\ run[k] \in Terminal => run'[k] = run[k]
          /\ run[k] = "in_progress" => run'[k] \in Terminal \cup {"in_progress"}

\* Every step goes forward.
LEMMA StepsGoForward ==
    ASSUME TypeOK, [Next]_vars
    PROVE  Forward
<1> USE DEF Forward, RunStates, Terminal
<1>1. SharedOK
  BY TypeParts
<1>2. ASSUME NEW c \in Clients, ClientStep(c)
      PROVE  Forward
  <2>1. \A k \in Keys : mishap[k] \subseteq mishap'[k]
    BY <1>1, <1>2, StepNote DEF Note, SharedOK
  <2>2. botched \subseteq botched' /\ passed \subseteq passed'
    BY <1>2, StepRecord DEF Record
  <2>3. /\ acked \subseteq acked' /\ closed \subseteq closed'
        /\ \A k \in Keys : /\ run[k] \in Terminal => run'[k] = run[k]
                           /\ run[k] = "in_progress" => run'[k] \in Terminal \cup {"in_progress"}
    BY <1>1, <1>2, StepEffect
    DEF SharedOK, Effect, DoStart, DoCancel, DoAck, DoClose, DoRelease, DoRecover, controller
  <2>4. QED
    BY <2>1, <2>2, <2>3
<1>3. CASE World
  BY <1>1, <1>3
  DEF World, LeaseExpires, RunFinishes, SharedOK, bounds, observed
<1>4. CASE UNCHANGED vars
  BY <1>4 DEF vars, controller, observed
<1>5. QED
  BY <1>2, <1>3, <1>4 DEF Next, Waiting

\* What is explained stays so, unless the run is started.
LEMMA ExplainedStays ==
    ASSUME TypeOK, Forward, NEW k \in Keys, run[k] # "none"
    PROVE  /\ RunIsExplained(k) => RunIsExplained(k)'
           /\ AckIsExplained(k) => AckIsExplained(k)'
           /\ CloseIsExplained(k) => CloseIsExplained(k)'
           /\ (lock'[SessionOf[k]] = k => lock[SessionOf[k]] = k) /\ LockIsExplained(k)
                 => LockIsExplained(k)'
<1>1. /\ acked \subseteq acked' /\ closed \subseteq closed' /\ mishap[k] \subseteq mishap'[k]
      /\ run'[k] = "in_progress" => run[k] = "in_progress"
      /\ run[k] \in RunStates
  BY DEF Forward, TypeOK, RunStates, Terminal
<1>2. ASSUME NEW calls, Noted(k, calls)
      PROVE  Noted(k, calls)'
  BY <1>1, <1>2 DEF Noted
<1>3. QED
  BY <1>1, <1>2 DEF RunIsExplained, AckIsExplained, CloseIsExplained, LockIsExplained

\* A run is started only by the client that has its key, and a lock is given
\* only to such a run or to a recovery.
LEMMA LockGoesTo ==
    ASSUME TypeOK, [Next]_vars
    PROVE  /\ \A k \in Keys : run[k] = "none" /\ run'[k] # "none" =>
                 \E c \in Clients : ClientStep(c) /\ pc[c] = "start" /\ key[c] = k /\ DoStart(k)
           /\ \A s \in Sessions : lock'[s] # lock[s] /\ lock'[s] # Free =>
                 \E c \in Clients :
                    /\ ClientStep(c)
                    /\ \/ pc[c] = "start" /\ DoStart(key[c]) /\ s = SessionOf[key[c]]
                          /\ lock[s] = Free /\ lock'[s] = key[c]
                       \/ pc[c] = "r_force" /\ site[c] = s /\ lock'[s] = c /\ DoRecover(s, c)
<1>1. SharedOK
  BY TypeParts
<1>2. ASSUME NEW c \in Clients, ClientStep(c)
      PROVE  /\ \A k \in Keys : run[k] = "none" /\ run'[k] # "none" =>
                   pc[c] = "start" /\ key[c] = k /\ DoStart(k)
             /\ \A s \in Sessions : lock'[s] # lock[s] /\ lock'[s] # Free =>
                   \/ pc[c] = "start" /\ DoStart(key[c]) /\ s = SessionOf[key[c]]
                         /\ lock[s] = Free /\ lock'[s] = key[c]
                   \/ pc[c] = "r_force" /\ site[c] = s /\ lock'[s] = c /\ DoRecover(s, c)
  <2>1. pc[c] \in {"start", "c_cancel", "r_cancel"} => key[c] \in Keys
    BY ToolHasKey, TypeParts
  <2>2. site[c] \in Sessions /\ SessionOf \in [Keys -> Sessions]
    BY ControllerAssumption DEF TypeOK, ControllerAssumption
  <2>3. CASE pc[c] = "start" /\ DoStart(key[c])
    BY <1>1, <2>1, <2>2, <2>3 DEF DoStart, SharedOK
  <2>4. CASE pc[c] = "r_force" /\ DoRecover(site[c], c)
    BY <1>1, <2>2, <2>4 DEF DoRecover, SharedOK
  <2>5. CASE ~(pc[c] = "start" /\ DoStart(key[c])) /\ ~(pc[c] = "r_force" /\ DoRecover(site[c], c))
    <3>1. \A k \in Keys : run[k] = "none" => run'[k] = "none"
      BY <1>1, <1>2, <2>1, <2>5, StepEffect
      DEF SharedOK, Effect, DoCancel, DoAck, DoClose, DoRelease, controller
    <3>2. \A s \in Sessions : lock'[s] = lock[s] \/ lock'[s] = Free
      BY <1>1, <1>2, <2>5, StepEffect
      DEF SharedOK, Effect, DoCancel, DoAck, DoClose, DoRelease, controller
    <3>3. QED
      BY <3>1, <3>2
  <2>6. QED
    BY <2>3, <2>4, <2>5
<1>3. CASE World
  BY <1>1, <1>3 DEF World, LeaseExpires, RunFinishes, SharedOK
<1>4. CASE UNCHANGED vars
  BY <1>4 DEF vars, controller
<1>5. QED
  BY <1>2, <1>3, <1>4 DEF Next, Waiting

-----------------------------------------------------------------------------
(* start_or_send.                                                          *)

\* A client takes a message up only with Dispatch.
LEMMA AttendsAgain ==
    ASSUME LocalsOK, NEW c \in Clients, ClientStep(c), NEW m \in Keys, Attends(c, m)'
    PROVE  Attends(c, m) \/ Dispatch(c, m)
<1> USE DEF LocalsOK, Attends, Recovering, Goto, Keep, Forget, Botch
<1>1. CASE \E k \in Keys : Dispatch(c, k)
  <2>1. PICK l \in Keys : Dispatch(c, l)
    BY <1>1
  <2>2. l = m
    BY <2>1 DEF Dispatch
  <2>3. QED
    BY <2>1, <2>2
<1>2. CASE \E s \in Sessions : Recover(c, s)
  BY <1>2 DEF Recover
<1>3. CASE StatusReady(c)
  BY <1>3 DEF StatusReady
<1>4. CASE StatusRefused(c)
  BY <1>4 DEF StatusRefused
<1>5. CASE StartFresh(c)
  BY <1>5 DEF StartFresh
<1>6. CASE StartLost(c)
  BY <1>6 DEF StartLost
<1>31. CASE StartTokenless(c)
  BY <1>31 DEF StartTokenless
<1>7. CASE StartRefused(c)
  BY <1>7 DEF StartRefused
<1>8. CASE StartReplayed(c)
  BY <1>8 DEF StartReplayed
<1>9. CASE ReadReplay(c)
  BY <1>9 DEF ReadReplay
<1>10. CASE ReplayRaises(c)
  BY <1>10 DEF ReplayRaises
<1>11. CASE WaitReady(c)
  BY <1>11 DEF WaitReady
<1>12. CASE WaitFails(c)
  BY <1>12 DEF WaitFails
<1>13. CASE ReadResult(c)
  BY <1>13 DEF ReadResult
<1>14. CASE Ack(c)
  BY <1>14 DEF Ack
<1>15. CASE Close(c)
  BY <1>15 DEF Close
<1>16. CASE Release(c)
  BY <1>16 DEF Release
<1>17. CASE ReleaseRaises(c)
  BY <1>17 DEF ReleaseRaises
<1>18. CASE CleanupCancel(c)
  BY <1>18 DEF CleanupCancel
<1>19. CASE CleanupAck(c)
  BY <1>19 DEF CleanupAck
<1>20. CASE CleanupClose(c)
  BY <1>20 DEF CleanupClose
<1>21. CASE CleanupRelease(c)
  BY <1>21 DEF CleanupRelease
<1>22. CASE ForceRecover(c)
  BY <1>22 DEF ForceRecover
<1>23. CASE ListRuns(c)
  BY <1>23 DEF ListRuns
<1>24. CASE PickRun(c)
  <2>1. pc'[c] \in {"r_cancel", "r_ack", "r_close", "r_pick"}
    BY <1>24, CallForIsCall DEF PickRun
  <2>2. QED
    BY <2>1
<1>25. CASE RecoverCancel(c)
  <2>1. pc'[c] \in {"r_cancel", "r_ack", "r_close", "r_pick"}
    BY <1>25, CallForIsCall DEF RecoverCancel
  <2>2. QED
    BY <2>1
<1>26. CASE RecoverAck(c)
  <2>1. pc'[c] \in {"r_cancel", "r_ack", "r_close", "r_pick"}
    BY <1>26, CallForIsCall DEF RecoverAck
  <2>2. QED
    BY <2>1
<1>27. CASE RecoverClose(c)
  BY <1>27 DEF RecoverClose
<1>28. CASE RecoverRelease(c)
  BY <1>28 DEF RecoverRelease
<1>29. CASE RecoverRaises(c)
  BY <1>29 DEF RecoverRaises
<1>30. CASE Crash(c)
  BY <1>30 DEF Crash
<1>32. QED
  BY <1>1, <1>2, <1>3, <1>4, <1>5, <1>6, <1>7, <1>8, <1>9, <1>10, <1>11, <1>12, <1>13,
    <1>14, <1>15, <1>16, <1>17, <1>18, <1>19, <1>20, <1>21, <1>22, <1>23, <1>24, <1>25,
    <1>26, <1>27, <1>28, <1>29, <1>30, <1>31
  DEF ClientStep, Works, Lifecycle, Cleanup, Recovery

\* Two clients never work on one message.
LEMMA OneClientStep ==
    ASSUME TypeOK, OneClientPerKey, [Next]_vars
    PROVE  OneClientPerKey'
<1>1. LocalsOK
  BY TypeParts
<1>2. ASSUME NEW c \in Clients, ClientStep(c)
      PROVE  OneClientPerKey'
  <2>1. \A d \in Clients \ {c}, k \in Keys : Attends(d, k)' => Attends(d, k)
    BY <1>1, <1>2, StepFrame DEF OthersKeep, Attends
  <2>2. \A k \in Keys : Attends(c, k)' =>
           Attends(c, k) \/ \A d \in Clients : ~Attends(d, k)
    BY <1>1, <1>2, AttendsAgain DEF Dispatch
  <2>3. QED
    BY <2>1, <2>2 DEF OneClientPerKey
<1>3. CASE World
  BY <1>3 DEF World, LeaseExpires, RunFinishes, OneClientPerKey, Attends, client
<1>4. CASE UNCHANGED vars
  BY <1>4 DEF vars, OneClientPerKey, Attends, client
<1>5. QED
  BY <1>2, <1>3, <1>4 DEF Next, Waiting

\* A failed call is noted.
LEMMA FailureIsNoted ==
    ASSUME TypeOK, NEW c \in Clients, NEW m \in Keys, key[c] = m, NEW call, CallFails(c, call)
    PROVE  call \in mishap'[m]
  BY DEF CallFails, TypeOK

\* Only a start locks a session for a run.
LEMMA LockStaysAway ==
    ASSUME TypeOK, NEW c \in Clients, ClientStep(c), NEW m \in Keys,
           run[m] # "none", lock'[SessionOf[m]] = m
    PROVE  lock[SessionOf[m]] = m
<1>1. pc[c] = "start" => key[c] \in Keys
  BY TypeParts, ToolHasKey
<1>2. /\ SessionOf[m] \in Sessions /\ m # Free /\ m # c
      /\ lock \in [Sessions -> Keys \cup Clients \cup {Free}]
      /\ run \in [Keys -> RunStates]
  BY ControllerAssumption DEF ControllerAssumption, TypeOK
<1>3. Effect(c)
  BY StepEffect
<1>4. QED
  BY <1>1, <1>2, <1>3
  DEF Effect, DoStart, DoCancel, DoAck, DoClose, DoRelease, DoRecover, controller

\* What an action of start_or_send leaves holds of its next call, and what it
\* leaves behind is explained.
LEMMA CallStep ==
    ASSUME IInv, NEW c \in Clients, ClientStep(c), NEW m, key[c] = m,
           pc[c] \notin Recovering \cup {"idle"}
    PROVE  /\ CallIsTrue(c)'
           /\ pc'[c] \in Recovering \cup {"idle"} \/ key'[c] = m
           /\ pc'[c] \in Recovering \cup {"idle"} /\ run'[m] # "none" => Explained(m)'
<1>1. TypeOK /\ TypeOK' /\ Forward /\ CallIsTrue(c) /\ LocalsOK
  BY TypeStep, StepsGoForward, TypeParts DEF IInv, Next
<1>2. m \in Keys /\ mishap[m] \subseteq mishap'[m]
  BY <1>1, ToolHasKey DEF Recovering, Forward
<1>3. run[m] # "none" =>
         /\ RunIsExplained(m) => RunIsExplained(m)'
         /\ AckIsExplained(m) => AckIsExplained(m)'
         /\ CloseIsExplained(m) => CloseIsExplained(m)'
         /\ LockIsExplained(m) => LockIsExplained(m)'
         /\ Explained(m) => Explained(m)'
  BY <1>1, <1>2, ExplainedStays, LockStaysAway DEF Explained
<1>4. /\ run[m] # "none" => run'[m] # "none"
      /\ run[m] \in Terminal => run'[m] \in Terminal
      /\ m \in acked => m \in acked'
      /\ m \in closed => m \in closed'
  BY <1>1, <1>2 DEF Forward, TypeOK, RunStates, Terminal
<1>5. /\ "cancel" \in mishap'[m] => RunIsExplained(m)'
      /\ "ack" \in mishap'[m] => AckIsExplained(m)'
      /\ "close" \in mishap'[m] => CloseIsExplained(m)'
      /\ "release" \in mishap'[m] => LockIsExplained(m)'
      /\ "start" \in mishap'[m] \/ "crash" \in mishap'[m] => Explained(m)'
      /\ run'[m] # "in_progress" => RunIsExplained(m)'
      /\ m \in acked' => AckIsExplained(m)'
      /\ m \in closed' => CloseIsExplained(m)'
      /\ lock'[SessionOf[m]] # m => LockIsExplained(m)'
      /\ Explained(m) => RunIsExplained(m) /\ LockIsExplained(m)
      /\ /\ RunIsExplained(m)' /\ AckIsExplained(m)'
         /\ CloseIsExplained(m)' /\ LockIsExplained(m)'
         => Explained(m)'
  BY DEF Explained, RunIsExplained, AckIsExplained, CloseIsExplained, LockIsExplained, Noted
<1>6. \A call : CallFails(c, call) => call \in mishap'[m]
  BY <1>1, <1>2, FailureIsNoted
<1>7. run[m] \in RunStates /\ SessionOf[m] \in Sessions
  BY <1>1, <1>2, ControllerAssumption DEF TypeOK, ControllerAssumption
<1> USE DEF LocalsOK, CallIsTrue, Owned, CleaningUp, Recovering, Terminal
<1>8. CASE StatusReady(c)
  <2>1. /\ pc[c] = "status" /\ pc'[c] = "start"
        /\ key'[c] = m /\ token'[c] = token[c] /\ site'[c] = site[c]
        /\ UNCHANGED <<lock, run, acked, closed>>
    BY <1>8, <1>1, <1>2, <1>6
    DEF StatusReady, Goto, Keep, Forget, Answers, AnswerLost, CallRaises, CallAnyway,
      ReadAnswers, ReadRaises, controller
  <2>2. QED
    BY <1>1, <1>2, <1>3, <1>4, <1>5, <1>7, <2>1
<1>9. CASE StatusRefused(c)
  <2>1. /\ pc[c] = "status" /\ pc'[c] = "idle"
        /\ ~token'[c]
        /\ UNCHANGED <<lock, run, acked, closed>>
    BY <1>9, <1>1, <1>2, <1>6
    DEF StatusRefused, Goto, Keep, Forget, Answers, AnswerLost, CallRaises, CallAnyway,
      ReadAnswers, ReadRaises, controller
  <2>2. QED
    BY <1>1, <1>2, <1>3, <1>4, <1>5, <1>7, <2>1
<1>10. CASE StartFresh(c)
  <2>1. /\ pc[c] = "start" /\ pc'[c] = "wait"
        /\ key'[c] = m /\ token'[c] /\ site'[c] = site[c]
        /\ run'[m] # "none"
    BY <1>10, <1>1, <1>2, <1>6
    DEF StartFresh, Goto, Keep, Forget, Answers, AnswerLost, CallRaises, CallAnyway,
      ReadAnswers, ReadRaises, controller, DoStart, TypeOK
  <2>2. QED
    BY <1>1, <1>2, <1>3, <1>4, <1>5, <1>7, <2>1
<1>11. CASE StartLost(c)
  <2>1. /\ pc[c] = "start" /\ pc'[c] = "idle"
        /\ ~token'[c]
        /\ "start" \in mishap'[m]
    BY <1>11, <1>1, <1>2, <1>6
    DEF StartLost, Goto, Keep, Forget, Answers, AnswerLost, CallRaises, CallAnyway,
      ReadAnswers, ReadRaises, controller, TypeOK
  <2>2. QED
    BY <1>1, <1>2, <1>3, <1>4, <1>5, <1>7, <2>1
<1>28. CASE StartTokenless(c)
  <2>1. /\ pc[c] = "start" /\ pc'[c] = "c_cancel"
        /\ key'[c] = m /\ token'[c] = token[c] /\ site'[c] = site[c]
        /\ "start" \in mishap'[m]
        /\ run'[m] # "none"
    BY <1>28, <1>1, <1>2
    DEF StartTokenless, Goto, Keep, DoStart, TypeOK
  <2>2. /\ ~token'[c] /\ site'[c] = SessionOf[m]
        /\ RunIsExplained(m)' /\ LockIsExplained(m)'
    BY <1>1, <1>5, <2>1 DEF Explained
  <2>3. QED
    BY <2>1, <2>2
<1>12. CASE StartRefused(c)
  <2>1. /\ pc[c] = "start" /\ pc'[c] = "idle"
        /\ ~token'[c]
        /\ UNCHANGED <<lock, run, acked, closed>>
    BY <1>12, <1>1, <1>2, <1>6
    DEF StartRefused, Goto, Keep, Forget, Answers, AnswerLost, CallRaises, CallAnyway,
      ReadAnswers, ReadRaises, controller
  <2>2. QED
    BY <1>1, <1>2, <1>3, <1>4, <1>5, <1>7, <2>1
<1>13. CASE StartReplayed(c)
  <2>1. \/ /\ pc[c] = "start" /\ pc'[c] = "replay"
           /\ key'[c] = m /\ token'[c] = token[c] /\ site'[c] = site[c]
           /\ UNCHANGED <<lock, run, acked, closed>>
           /\ run[m] \in Terminal
        \/ /\ pc[c] = "start" /\ pc'[c] = "c_cancel"
           /\ key'[c] = m /\ token'[c] = token[c] /\ site'[c] = site[c]
           /\ UNCHANGED <<lock, run, acked, closed>>
           /\ run[m] = "in_progress"
    BY <1>13, <1>1, <1>2, <1>6
    DEF StartReplayed, Goto, Keep, Forget, Answers, AnswerLost, CallRaises, CallAnyway,
      ReadAnswers, ReadRaises, controller
  <2>2. QED
    BY <1>1, <1>2, <1>3, <1>4, <1>5, <1>7, <2>1
<1>14. CASE ReadReplay(c)
  <2>1. /\ pc[c] = "replay" /\ pc'[c] = "idle"
        /\ ~token'[c]
        /\ UNCHANGED <<lock, run, acked, closed>>
    BY <1>14, <1>1, <1>2, <1>6
    DEF ReadReplay, Goto, Keep, Forget, Answers, AnswerLost, CallRaises, CallAnyway,
      ReadAnswers, ReadRaises, controller
  <2>2. QED
    BY <1>1, <1>2, <1>3, <1>4, <1>5, <1>7, <2>1
<1>15. CASE ReplayRaises(c)
  <2>1. /\ pc[c] = "replay" /\ pc'[c] = "c_cancel"
        /\ key'[c] = m /\ token'[c] = token[c] /\ site'[c] = site[c]
        /\ UNCHANGED <<lock, run, acked, closed>>
    BY <1>15, <1>1, <1>2, <1>6
    DEF ReplayRaises, Goto, Keep, Forget, Answers, AnswerLost, CallRaises, CallAnyway,
      ReadAnswers, ReadRaises, controller
  <2>2. QED
    BY <1>1, <1>2, <1>3, <1>4, <1>5, <1>7, <2>1
<1>16. CASE WaitReady(c)
  <2>1. /\ pc[c] = "wait" /\ pc'[c] = "read"
        /\ key'[c] = m /\ token'[c] = token[c] /\ site'[c] = site[c]
        /\ UNCHANGED <<lock, run, acked, closed>>
        /\ run[m] \in Terminal
    BY <1>16, <1>1, <1>2, <1>6
    DEF WaitReady, Goto, Keep, Forget, Answers, AnswerLost, CallRaises, CallAnyway,
      ReadAnswers, ReadRaises, controller
  <2>2. QED
    BY <1>1, <1>2, <1>3, <1>4, <1>5, <1>7, <2>1
<1>17. CASE WaitFails(c)
  <2>1. /\ pc[c] = "wait" /\ pc'[c] = "c_cancel"
        /\ key'[c] = m /\ token'[c] = token[c] /\ site'[c] = site[c]
    BY <1>17, <1>1, <1>2, <1>6
    DEF WaitFails, Goto, Keep, Forget, Answers, AnswerLost, CallRaises, CallAnyway,
      ReadAnswers, ReadRaises, controller
  <2>2. QED
    BY <1>1, <1>2, <1>3, <1>4, <1>5, <1>7, <2>1
<1>18. CASE ReadResult(c)
  <2>1. \/ /\ pc[c] = "read" /\ pc'[c] = "ack"
           /\ key'[c] = m /\ token'[c] = token[c] /\ site'[c] = site[c]
        \/ /\ pc[c] = "read" /\ pc'[c] = "c_cancel"
           /\ key'[c] = m /\ token'[c] = token[c] /\ site'[c] = site[c]
    BY <1>18, <1>1, <1>2, <1>6
    DEF ReadResult, Goto, Keep, Forget, Answers, AnswerLost, CallRaises, CallAnyway,
      ReadAnswers, ReadRaises, controller
  <2>2. QED
    BY <1>1, <1>2, <1>3, <1>4, <1>5, <1>7, <2>1
<1>19. CASE Ack(c)
  <2>1. \/ /\ pc[c] = "ack" /\ pc'[c] = "close"
           /\ key'[c] = m /\ token'[c] = token[c] /\ site'[c] = site[c]
           /\ m \in acked'
        \/ /\ pc[c] = "ack" /\ pc'[c] = "c_cancel"
           /\ key'[c] = m /\ token'[c] = token[c] /\ site'[c] = site[c]
    BY <1>19, <1>1, <1>2, <1>6
    DEF Ack, Goto, Keep, Forget, Answers, AnswerLost, CallRaises, CallAnyway, ReadAnswers,
      ReadRaises, controller, DoAck
  <2>2. QED
    BY <1>1, <1>2, <1>3, <1>4, <1>5, <1>7, <2>1
<1>20. CASE Close(c)
  <2>1. \/ /\ pc[c] = "close" /\ pc'[c] = "release"
           /\ key'[c] = m /\ token'[c] = token[c] /\ site'[c] = site[c]
           /\ m \in closed'
        \/ /\ pc[c] = "close" /\ pc'[c] = "release_raise"
           /\ key'[c] = m /\ token'[c] = token[c] /\ site'[c] = site[c]
           /\ m \in closed' \/ "close" \in mishap'[m]
    BY <1>20, <1>1, <1>2, <1>6
    DEF Close, Goto, Keep, Forget, Answers, AnswerLost, CallRaises, CallAnyway,
      ReadAnswers, ReadRaises, controller, DoClose
  <2>2. QED
    BY <1>1, <1>2, <1>3, <1>4, <1>5, <1>7, <2>1
<1>21. CASE Release(c)
  <2>1. /\ pc[c] = "release" /\ pc'[c] = "idle"
        /\ ~token'[c]
        /\ lock'[SessionOf[m]] # m
    BY <1>21, <1>1, <1>2, <1>6, <1>7, ControllerAssumption
    DEF Release, Goto, Keep, Forget, Answers, AnswerLost, CallRaises, CallAnyway,
      ReadAnswers, ReadRaises, controller, Released, DoRelease, ControllerAssumption,
      TypeOK
  <2>2. QED
    BY <1>1, <1>2, <1>3, <1>4, <1>5, <1>7, <2>1
<1>22. CASE ReleaseRaises(c)
  <2>1. \/ /\ pc[c] = "release" /\ pc'[c] = "idle"
           /\ ~token'[c]
           /\ lock'[SessionOf[m]] # m \/ "release" \in mishap'[m]
        \/ /\ pc[c] = "release_raise" /\ pc'[c] = "idle"
           /\ ~token'[c]
           /\ lock'[SessionOf[m]] # m \/ "release" \in mishap'[m]
    BY <1>22, <1>1, <1>2, <1>6, <1>7, ControllerAssumption
    DEF ReleaseRaises, Goto, Keep, Forget, Answers, AnswerLost, CallRaises, CallAnyway,
      ReadAnswers, ReadRaises, controller, Released, ReleaseRefused, DoRelease,
      ControllerAssumption, TypeOK
  <2>2. QED
    BY <1>1, <1>2, <1>3, <1>4, <1>5, <1>7, <2>1
<1>23. CASE CleanupCancel(c)
  <2>1. /\ pc[c] = "c_cancel" /\ pc'[c] = "c_ack"
        /\ key'[c] = m /\ token'[c] = token[c] /\ site'[c] = site[c]
        /\ run'[m] # "in_progress" \/ "cancel" \in mishap'[m]
    BY <1>23, <1>1, <1>2, <1>6
    DEF CleanupCancel, Goto, Keep, Forget, Answers, AnswerLost, CallRaises, CallAnyway,
      ReadAnswers, ReadRaises, controller, DoCancel, TypeOK
  <2>2. QED
    BY <1>1, <1>2, <1>3, <1>4, <1>5, <1>7, <2>1
<1>24. CASE CleanupAck(c)
  <2>1. /\ pc[c] = "c_ack" /\ pc'[c] = "c_close"
        /\ key'[c] = m /\ token'[c] = token[c] /\ site'[c] = site[c]
        /\ m \in acked' \/ "ack" \in mishap'[m]
    BY <1>24, <1>1, <1>2, <1>6
    DEF CleanupAck, Goto, Keep, Forget, Answers, AnswerLost, CallRaises, CallAnyway,
      ReadAnswers, ReadRaises, controller, DoAck
  <2>2. QED
    BY <1>1, <1>2, <1>3, <1>4, <1>5, <1>7, <2>1
<1>25. CASE CleanupClose(c)
  <2>1. \/ /\ pc[c] = "c_close" /\ pc'[c] = "c_release"
           /\ key'[c] = m /\ token'[c] = token[c] /\ site'[c] = site[c]
           /\ token[c]
           /\ m \in closed' \/ "close" \in mishap'[m]
        \/ /\ pc[c] = "c_close" /\ pc'[c] = "idle"
           /\ ~token'[c]
           /\ ~token[c]
           /\ m \in closed' \/ "close" \in mishap'[m]
    BY <1>25, <1>1, <1>2, <1>6
    DEF CleanupClose, Goto, Keep, Forget, Answers, AnswerLost, CallRaises, CallAnyway,
      ReadAnswers, ReadRaises, controller, DoClose
  <2>2. QED
    BY <1>1, <1>2, <1>3, <1>4, <1>5, <1>7, <2>1
<1>26. CASE CleanupRelease(c)
  <2>1. /\ pc[c] = "c_release" /\ pc'[c] = "idle"
        /\ ~token'[c]
        /\ lock'[SessionOf[m]] # m \/ "release" \in mishap'[m]
    BY <1>26, <1>1, <1>2, <1>6, <1>7, ControllerAssumption
    DEF CleanupRelease, Goto, Keep, Forget, Answers, AnswerLost, CallRaises, CallAnyway,
      ReadAnswers, ReadRaises, controller, Released, ReleaseRefused, DoRelease,
      ControllerAssumption, TypeOK
  <2>2. QED
    BY <1>1, <1>2, <1>3, <1>4, <1>5, <1>7, <2>1
<1>27. CASE Crash(c)
  <2>1. /\ pc'[c] = "idle"
        /\ ~token'[c]
        /\ "crash" \in mishap'[m]
    BY <1>27, <1>1, <1>2, <1>6
    DEF Crash, Goto, Keep, Forget, Answers, AnswerLost, CallRaises, CallAnyway,
      ReadAnswers, ReadRaises, controller, TypeOK
  <2>2. QED
    BY <1>1, <1>2, <1>3, <1>4, <1>5, <1>7, <2>1
<1>29. QED
  BY <1>1, <1>8, <1>9, <1>10, <1>11, <1>12, <1>13, <1>14, <1>15, <1>16, <1>17, <1>18,
    <1>19, <1>20, <1>21, <1>22, <1>23, <1>24, <1>25, <1>26, <1>27, <1>28
  DEF ClientStep, Works, Lifecycle, Cleanup, Recovery, Dispatch, Recover, Goto,
      ForceRecover, ListRuns, PickRun, RecoverCancel, RecoverAck, RecoverClose,
      RecoverRelease, RecoverRaises

\* A recovery goes on with its lock and its session, or ends: it broke off, or
\* there is no lock of its own left.
LEMMA RecoveryMoves ==
    ASSUME TypeOK, NEW c \in Clients, ClientStep(c), pc[c] \in Recovering
    PROVE  \/ /\ pc'[c] \in Recovering \ {"r_force"} /\ site'[c] = site[c]
              /\ IF pc[c] = "r_force" THEN token'[c] /\ lock'[site[c]] = c
                                      ELSE token'[c] = token[c]
           \/ pc'[c] = "idle" /\ ~token'[c] /\ site[c] \in botched'
           \/ /\ pc[c] = "r_pick" /\ snap[c].todo = {}
              /\ pc'[c] = "idle" /\ ~token'[c] /\ lock'[site[c]] # c
<1>1. /\ pc \in [Clients -> Locations] /\ token \in [Clients -> BOOLEAN]
      /\ lock \in [Sessions -> Keys \cup Clients \cup {Free}] /\ site[c] \in Sessions
  BY DEF TypeOK
<1> USE DEF Recovering, Goto, Keep, Forget
<1>2. CASE ForceRecover(c)
  BY <1>1, <1>2 DEF ForceRecover, Answers, DoRecover
<1>3. CASE ListRuns(c)
  BY <1>1, <1>3 DEF ListRuns
<1>4. CASE PickRun(c)
  <2>1. pc'[c] \in {"r_cancel", "r_ack", "r_close", "r_pick"}
    BY <1>1, <1>4, CallForIsCall DEF PickRun
  <2>2. QED
    BY <1>4, <2>1 DEF PickRun
<1>5. CASE RecoverCancel(c)
  <2>1. pc'[c] \in {"r_cancel", "r_ack", "r_close", "r_pick"}
    BY <1>1, <1>5, CallForIsCall DEF RecoverCancel
  <2>2. QED
    BY <1>5, <2>1 DEF RecoverCancel
<1>6. CASE RecoverAck(c)
  <2>1. pc'[c] \in {"r_cancel", "r_ack", "r_close", "r_pick"}
    BY <1>1, <1>6, CallForIsCall DEF RecoverAck
  <2>2. QED
    BY <1>6, <2>1 DEF RecoverAck
<1>7. CASE RecoverClose(c)
  BY <1>1, <1>7 DEF RecoverClose
<1>8. CASE RecoverRelease(c)
  BY <1>1, <1>8, ControllerAssumption
  DEF RecoverRelease, Answers, ReadAnswers, DoRelease, ControllerAssumption, controller
<1>9. CASE RecoverRaises(c)
  BY <1>1, <1>9 DEF RecoverRaises, Botch
<1>10. CASE Crash(c)
  BY <1>1, <1>10 DEF Crash
<1>11. QED
  BY <1>1, <1>2, <1>3, <1>4, <1>5, <1>6, <1>7, <1>8, <1>9, <1>10
  DEF ClientStep, Works, Lifecycle, Cleanup, Recovery, Dispatch, Recover,
      StatusReady, StatusRefused, StartFresh, StartLost, StartTokenless,
        StartRefused, StartReplayed,
        ReadReplay, ReplayRaises, WaitReady, WaitFails, ReadResult, Ack, Close, Release,
        ReleaseRaises, CleanupCancel, CleanupAck, CleanupClose, CleanupRelease

\* A client that is idle or in a recovery.
LEMMA IdleStep ==
    ASSUME IInv, NEW c \in Clients, ClientStep(c), pc[c] \in Recovering \cup {"idle"}
    PROVE  CallIsTrue(c)'
<1>1. TypeOK /\ CallIsTrue(c) /\ LocalsOK
  BY TypeParts DEF IInv
<1>2. CASE pc[c] \in Recovering
  BY <1>1, <1>2, RecoveryMoves DEF CallIsTrue, Owned, CleaningUp, Recovering
<1>3. CASE \E s \in Sessions : Recover(c, s)
  BY <1>1, <1>3
  DEF Recover, Goto, LocalsOK, CallIsTrue, Owned, CleaningUp, Recovering, controller
<1>4. ASSUME NEW k \in Keys, Dispatch(c, k)
      PROVE  CallIsTrue(c)'
  <2>1. /\ pc[c] = "idle" /\ pc'[c] = "status" /\ key'[c] = k /\ site'[c] = SessionOf[k]
        /\ ~token'[c] /\ UNCHANGED <<lock, run, acked, closed, mishap>>
    BY <1>1, <1>4
    DEF Dispatch, Goto, LocalsOK, CallIsTrue, Recovering, controller, observed
  <2>2. run[k] # "none" => Explained(k)
    BY <1>4 DEF Dispatch, IInv, LeftoversExplained, Unattended
  <2>3. run'[k] # "none" => Explained(k)'
    BY <2>1, <2>2 DEF Explained, RunIsExplained, AckIsExplained, CloseIsExplained,
                      LockIsExplained, Noted
  <2>4. QED
    BY <2>1, <2>3 DEF CallIsTrue, Owned, CleaningUp, Recovering
<1>5. CASE Crash(c) \/ Works(c)
  BY <1>1, <1>2, <1>5
  DEF Crash, Works, Lifecycle, Cleanup, Recovery, Goto, Recovering,
      StatusReady, StatusRefused, StartFresh, StartLost, StartTokenless,
        StartRefused, StartReplayed,
        ReadReplay, ReplayRaises, WaitReady, WaitFails, ReadResult, Ack, Close, Release,
        ReleaseRaises, CleanupCancel, CleanupAck, CleanupClose, CleanupRelease,
        ForceRecover, ListRuns, PickRun, RecoverCancel, RecoverAck, RecoverClose,
        RecoverRelease, RecoverRaises
<1>6. QED
  BY <1>3, <1>4, <1>5 DEF ClientStep

\* Only a start locks a session for a run, whoever acts.
LEMMA NoLockReturns ==
    ASSUME TypeOK, [Next]_vars, NEW k \in Keys, run[k] # "none", lock'[SessionOf[k]] = k
    PROVE  lock[SessionOf[k]] = k
<1>1. SessionOf[k] \in Sessions /\ k # Free /\ lock \in [Sessions -> Keys \cup Clients \cup {Free}]
  BY ControllerAssumption DEF ControllerAssumption, TypeOK
<1>2. CASE World
  BY <1>1, <1>2 DEF World, LeaseExpires, RunFinishes
<1>3. CASE UNCHANGED vars
  BY <1>3 DEF vars, controller
<1>4. QED
  BY <1>2, <1>3, LockStaysAway DEF Next, Waiting

\* What holds of the call of a client that does not act stays.
LEMMA OtherCall ==
    ASSUME IInv, [Next]_vars, NEW d \in Clients,
           pc'[d] = pc[d], key'[d] = key[d], site'[d] = site[d], token'[d] = token[d],
           \A c \in Clients : ClientStep(c) => c # d
    PROVE  CallIsTrue(d)'
<1>1. TypeOK /\ CallIsTrue(d) /\ LocalsOK /\ Forward
  BY TypeParts, StepsGoForward DEF IInv
<1>2. CASE pc[d] \in Recovering \cup {"idle"}
  BY <1>1, <1>2 DEF CallIsTrue, Owned, CleaningUp, Recovering
<1>3. ASSUME pc[d] \notin Recovering \cup {"idle"}, NEW m, m = key[d]
      PROVE  CallIsTrue(d)'
  <2>1. m \in Keys /\ Attends(d, m)
    BY <1>1, <1>3, ToolHasKey DEF Recovering, Attends
  <2>2. run[m] = "none" => run'[m] = "none"
    <3>1. \A c \in Clients : ClientStep(c) /\ pc[c] = "start" => key[c] # m
      BY <2>1 DEF IInv, OneClientPerKey, Attends, Recovering
    <3>2. QED
      BY <1>1, <2>1, <3>1, LockGoesTo
  <2>3. run[m] # "none" =>
           /\ RunIsExplained(m) => RunIsExplained(m)'
           /\ AckIsExplained(m) => AckIsExplained(m)'
           /\ CloseIsExplained(m) => CloseIsExplained(m)'
           /\ LockIsExplained(m) => LockIsExplained(m)'
           /\ Explained(m) => Explained(m)'
    BY <1>1, <2>1, ExplainedStays, NoLockReturns DEF Explained
  <2>4. /\ run[m] # "none" => run'[m] # "none"
        /\ run[m] \in Terminal => run'[m] \in Terminal
        /\ m \in acked => m \in acked'
        /\ m \in closed => m \in closed'
    BY <1>1, <2>1 DEF Forward, TypeOK, RunStates, Terminal
  <2>5. QED
    BY <1>1, <1>3, <2>1, <2>2, <2>3, <2>4
    DEF CallIsTrue, Owned, CleaningUp, Recovering, Terminal
<1>4. QED
  BY <1>2, <1>3

\* What is known at each call of start_or_send is kept by every step.
LEMMA CallsStep ==
    IInv /\ [Next]_vars => \A d \in Clients : CallIsTrue(d)'
<1> SUFFICES ASSUME IInv, [Next]_vars, NEW d \in Clients
             PROVE  CallIsTrue(d)'
  OBVIOUS
<1>1. TypeOK /\ LocalsOK
  BY TypeParts DEF IInv
<1>2. CASE ClientStep(d)
  BY <1>2, CallStep, IdleStep
<1>3. ASSUME NEW c \in Clients, ClientStep(c), ~ClientStep(d)
      PROVE  CallIsTrue(d)'
  <2>1. OthersKeep(c) /\ c # d
    BY <1>1, <1>3, StepFrame
  <2>2. pc'[d] = pc[d] /\ key'[d] = key[d] /\ site'[d] = site[d] /\ token'[d] = token[d]
    BY <2>1 DEF OthersKeep
  <2>3. \A e \in Clients : ClientStep(e) => e # d
    BY <1>3
  <2>4. QED
    BY <2>2, <2>3, OtherCall
<1>4. CASE World /\ \A c \in Clients : ~ClientStep(c)
  <2>1. UNCHANGED client
    BY <1>4 DEF World, LeaseExpires, RunFinishes
  <2>2. QED
    BY <1>4, <2>1, OtherCall DEF client
<1>5. CASE UNCHANGED vars /\ \A c \in Clients : ~ClientStep(c)
  <2>1. UNCHANGED client
    BY <1>5 DEF vars
  <2>2. QED
    BY <1>5, <2>1, OtherCall DEF client
<1>6. QED
  BY <1>2, <1>3, <1>4, <1>5 DEF Next, Waiting

\* A run that nobody attends has nothing left that is not explained.
LEMMA LeftoversStep ==
    IInv /\ [Next]_vars => LeftoversExplained'
<1> SUFFICES ASSUME IInv, [Next]_vars, NEW k \in Keys,
                    \A c \in Clients : ~Attends(c, k)', run'[k] # "none"
             PROVE  Explained(k)'
  BY DEF LeftoversExplained, Unattended
<1>1. TypeOK /\ LocalsOK /\ Forward
  BY TypeParts, StepsGoForward DEF IInv
<1>2. CASE \E c \in Clients : Attends(c, k)
  <2>1. PICK c \in Clients : Attends(c, k)
    BY <1>2
  <2>2. ASSUME NEW d \in Clients \ {c}, ClientStep(d)
        PROVE  FALSE
    <3>1. pc'[c] = pc[c] /\ key'[c] = key[c]
      BY <1>1, <2>2, StepFrame DEF OthersKeep
    <3>2. QED
      BY <2>1, <3>1 DEF Attends
  <2>3. CASE ClientStep(c)
    <3>1. key[c] = k /\ pc[c] \notin Recovering \cup {"idle"}
      BY <2>1 DEF Attends
    <3>2. /\ pc'[c] \in Recovering \cup {"idle"} \/ key'[c] = k
          /\ pc'[c] \in Recovering \cup {"idle"} /\ run'[k] # "none" => Explained(k)'
      BY <2>3, <3>1, CallStep
    <3>3. QED
      BY <3>2 DEF Attends
  <2>4. CASE World \/ UNCHANGED vars
    <3>1. UNCHANGED client
      BY <2>4 DEF World, LeaseExpires, RunFinishes, vars
    <3>2. QED
      BY <2>1, <3>1 DEF client, Attends
  <2>5. QED
    BY <2>2, <2>3, <2>4 DEF Next, Waiting
<1>3. CASE \A c \in Clients : ~Attends(c, k)
  <2>1. run[k] # "none"
    <3>1. SUFFICES ASSUME run[k] = "none"
                   PROVE  FALSE
      OBVIOUS
    <3>2. PICK c \in Clients : pc[c] = "start" /\ key[c] = k
      BY <1>1, <3>1, LockGoesTo
    <3>3. QED
      BY <1>3, <3>2 DEF Attends, Recovering
  <2>2. Explained(k)
    BY <1>3, <2>1 DEF IInv, LeftoversExplained, Unattended
  <2>3. QED
    BY <1>1, <2>1, <2>2, ExplainedStays, NoLockReturns DEF Explained
<1>4. QED
  BY <1>2, <1>3

\* No lock is given to a run that was not started.
LEMMA UnstartedStep ==
    IInv /\ [Next]_vars =>
        \A k \in Keys : run'[k] = "none" => lock'[SessionOf[k]] # k
<1> SUFFICES ASSUME IInv, [Next]_vars, NEW k \in Keys,
                    run'[k] = "none", lock'[SessionOf[k]] = k
             PROVE  FALSE
  OBVIOUS
<1>1. TypeOK /\ LocalsOK /\ Forward
  BY TypeParts, StepsGoForward DEF IInv
<1>2. run[k] = "none"
  BY <1>1 DEF Forward, TypeOK, RunStates, Terminal
<1>3. /\ SessionOf[k] \in Sessions /\ k # Free /\ k \notin Clients
      /\ lock[SessionOf[k]] # k
  BY <1>2, ControllerAssumption DEF ControllerAssumption, IInv
<1>4. PICK c \in Clients : pc[c] = "start" /\ DoStart(key[c]) /\ key[c] = k
  BY <1>1, <1>3, LockGoesTo
<1>5. QED
  BY <1>1, <1>2, <1>4 DEF DoStart, TypeOK

\* A client that holds a lock of its recovery is in that recovery.
LEMMA HolderRecovers ==
    ASSUME IInv, NEW c \in Clients, NEW s \in Sessions, lock[s] = c, Holds(c, s)
    PROVE  pc[c] \in Recovering \ {"r_force"} /\ token[c] /\ site[c] = s
<1>1. TypeOK /\ LocalsOK /\ CallIsTrue(c)
  BY TypeParts DEF IInv
<1>2. token[c] /\ site[c] = s /\ pc[c] \notin {"idle", "r_force"}
  BY <1>1 DEF Holds, CallIsTrue
<1>3. pc[c] \in Recovering
  <2>1. SUFFICES ASSUME pc[c] \notin Recovering
                 PROVE  FALSE
    OBVIOUS
  <2>2. key[c] \in Keys /\ key[c] = c
    BY <1>1, <1>2, <2>1, ToolHasKey DEF Holds, Recovering
  <2>3. QED
    BY <2>2, ControllerAssumption DEF ControllerAssumption
<1>4. QED
  BY <1>2, <1>3

\* A lock of a recovery is held by it, or the recovery broke off.
LEMMA RecoveryLockStep ==
    IInv /\ [Next]_vars => RecoveryLockExplained'
<1> SUFFICES ASSUME IInv, [Next]_vars, NEW s \in Sessions, NEW e \in Clients,
                    lock'[s] = e, s \notin botched'
             PROVE  Holds(e, s)'
  BY DEF RecoveryLockExplained
<1>1. TypeOK /\ LocalsOK /\ Forward /\ s \notin botched
  BY TypeParts, StepsGoForward DEF IInv, Forward
<1>2. CASE lock[s] = e
  <2>1. Holds(e, s)
    BY <1>1, <1>2 DEF IInv, RecoveryLockExplained
  <2>2. pc[e] \in Recovering \ {"r_force"} /\ token[e] /\ site[e] = s
    BY <1>2, <2>1, HolderRecovers
  <2>3. CASE ClientStep(e)
    BY <1>1, <2>2, <2>3, RecoveryMoves DEF Holds, Recovering
  <2>4. ASSUME NEW c \in Clients \ {e}, ClientStep(c)
        PROVE  Holds(e, s)'
    BY <1>1, <2>2, <2>4, StepFrame DEF OthersKeep, Holds
  <2>5. CASE World \/ UNCHANGED vars
    <3>1. UNCHANGED client
      BY <2>5 DEF World, LeaseExpires, RunFinishes, vars
    <3>2. QED
      BY <2>2, <3>1 DEF client, Holds
  <2>6. QED
    BY <2>3, <2>4, <2>5 DEF Next, Waiting
<1>3. CASE lock[s] # e
  <2>1. PICK c \in Clients :
           /\ ClientStep(c)
           /\ \/ pc[c] = "start" /\ lock'[s] = key[c]
              \/ pc[c] = "r_force" /\ site[c] = s /\ lock'[s] = c
    BY <1>1, <1>3, LockGoesTo, ControllerAssumption DEF ControllerAssumption
  <2>2. pc[c] # "start"
    <3>1. pc[c] = "start" => key[c] \in Keys
      BY <1>1, ToolHasKey
    <3>2. QED
      BY <2>1, <3>1, ControllerAssumption DEF ControllerAssumption
  <2>3. c = e /\ pc[e] = "r_force" /\ site[e] = s
    BY <2>1, <2>2
  <2>4. QED
    BY <1>1, <2>1, <2>3, RecoveryMoves DEF Holds, Recovering
<1>4. QED
  BY <1>2, <1>3

\* A run that is over, acked and closed.
Finished(k) == run[k] \in Terminal /\ k \in acked \cap closed

\* A result is returned after the whole lifecycle, which nothing undoes.
LEMMA ReturnedStep ==
    IInv /\ [Next]_vars => ReturnedIsClean'
<1> SUFFICES ASSUME IInv, [Next]_vars, NEW k \in returned'
             PROVE  Finished(k)' /\ lock'[SessionOf[k]] # k
  BY DEF ReturnedIsClean, Finished
<1>1. TypeOK /\ TypeOK' /\ LocalsOK /\ Forward
  BY TypeParts, StepsGoForward, TypeStep DEF IInv
<1>2. k \in Keys
  BY <1>1 DEF TypeOK
<1>3. Finished(k) => Finished(k)'
  BY <1>1, <1>2 DEF Finished, Forward
<1>4. CASE k \in returned
  <2>1. Finished(k) /\ lock[SessionOf[k]] # k
    BY <1>4 DEF IInv, ReturnedIsClean, Finished
  <2>2. QED
    BY <1>1, <1>2, <1>3, <2>1, NoLockReturns DEF Finished, Terminal
<1>5. CASE k \notin returned
  <2>1. PICK c \in Clients :
           pc[c] = "release" /\ DoRelease(site[c], key[c]) /\ key[c] = k
    <3>1. ASSUME NEW c \in Clients, ClientStep(c)
          PROVE  pc[c] = "release" /\ DoRelease(site[c], key[c]) /\ key[c] = k
      BY <1>5, <3>1, StepRecord DEF Record
    <3>2. CASE World \/ UNCHANGED vars
      BY <1>5, <3>2 DEF World, LeaseExpires, RunFinishes, vars, observed
    <3>3. QED
      BY <3>1, <3>2 DEF Next, Waiting
  <2>2. Finished(k) /\ site[c] = SessionOf[k]
    BY <2>1 DEF IInv, CallIsTrue, Finished, Recovering
  <2>3. lock'[SessionOf[k]] = Free /\ k # Free
    BY <1>1, <1>2, <2>1, <2>2, ControllerAssumption
    DEF ControllerAssumption, DoRelease, TypeOK
  <2>4. QED
    BY <1>3, <2>2, <2>3
<1>6. QED
  BY <1>4, <1>5

\* Nothing is started at first.
LEMMA InvariantStarts ==
    Init => IInv
<1> SUFFICES ASSUME Init
             PROVE  IInv
  OBVIOUS
<1>1. TypeOK
  BY ControllerAssumption
  DEF ControllerAssumption, Init, TypeOK, RunStates, Calls, Locations, Recovering, EmptySnap,
      SnapFields
<1>2. /\ \A c \in Clients : pc[c] = "idle" /\ ~token[c]
      /\ \A k \in Keys : run[k] = "none"
      /\ \A s \in Sessions : lock[s] = Free
      /\ returned = {}
  BY DEF Init
<1>3. Free \notin Keys \cup Clients /\ SessionOf \in [Keys -> Sessions]
  BY ControllerAssumption DEF ControllerAssumption
<1>4. \A c \in Clients : CallIsTrue(c)
  BY <1>2 DEF CallIsTrue, Owned, CleaningUp, Recovering
<1>5. QED
  BY <1>1, <1>2, <1>3, <1>4
  DEF IInv, OneClientPerKey, Attends, LeftoversExplained, RecoveryLockExplained,
      ReturnedIsClean

\* Every step keeps the inductive invariant.
LEMMA InvariantStep ==
    IInv /\ [Next]_vars => IInv'
<1> SUFFICES ASSUME IInv, [Next]_vars
             PROVE  IInv'
  OBVIOUS
<1>1. TypeOK' /\ OneClientPerKey'
  BY TypeStep, OneClientStep DEF IInv
<1>2. (\A c \in Clients : CallIsTrue(c)') /\ LeftoversExplained'
  BY CallsStep, LeftoversStep
<1>3. \A k \in Keys : run'[k] = "none" => lock'[SessionOf[k]] # k
  BY UnstartedStep
<1>4. RecoveryLockExplained' /\ ReturnedIsClean'
  BY RecoveryLockStep, ReturnedStep
<1>5. QED
  BY <1>1, <1>2, <1>3, <1>4 DEF IInv

\* The inductive invariant of start_or_send holds of every behaviour.
THEOREM ClientInvariant == Spec => []IInv
  BY InvariantStarts, InvariantStep, PTL DEF Spec

\* Every variable stays in its set.
THEOREM ClientTypes == Spec => []TypeOK
<1>1. IInv => TypeOK
  BY DEF IInv
<1>2. QED
  BY <1>1, ClientInvariant, PTL

\* Only what a failed call itself left, a lost start or a crash stays behind.
THEOREM LeftoversAreExplained == Spec => []LeftoversExplained
<1>1. IInv => LeftoversExplained
  BY DEF IInv
<1>2. QED
  BY <1>1, ClientInvariant, PTL

\* A lock of recover_session stays behind only where a recovery broke off.
THEOREM RecoveryLocksAreExplained == Spec => []RecoveryLockExplained
<1>1. IInv => RecoveryLockExplained
  BY DEF IInv
<1>2. QED
  BY <1>1, ClientInvariant, PTL

\* A result that went through the whole lifecycle leaves nothing behind.
THEOREM ReturnedAreClean == Spec => []ReturnedIsClean
<1>1. IInv => ReturnedIsClean
  BY DEF IInv
<1>2. QED
  BY <1>1, ClientInvariant, PTL

-----------------------------------------------------------------------------
(* recover_session: no run goes out of its sight.                          *)

\* What a recovery that does not act has still to do stays, or is done.
LEMMA TodoStays ==
    ASSUME TypeOK, Forward, NEW c \in Clients, NEW k \in Keys,
           pc'[c] = pc[c], key'[c] = key[c], snap'[c] = snap[c],
           run[k] # "none", Accounted(c, k)
    PROVE  Accounted(c, k)'
<1>1. /\ run[k] \in Terminal => run'[k] \in Terminal
      /\ k \in acked => k \in acked'
      /\ k \in closed => k \in closed'
      /\ k \in passed => k \in passed'
  BY DEF Forward
<1>2. ListingStands(c, k) => ListingStands(c, k)'
  BY <1>1 DEF ListingStands
<1>3. QED
  BY <1>1, <1>2 DEF Accounted, Cleared, StillToDo

\* The calls for a run are made in their order, none is left out.
LEMMA TodoStep ==
    ASSUME TypeOK, TypeOK', Forward, NEW c \in Clients, ClientStep(c), pc[c] # "r_list",
           pc'[c] \in Recovering \ {"r_force", "r_list"},
           NEW k \in RunsOn(site[c]), Cleared(c, k) \/ StillToDo(c, k)
    PROVE  Cleared(c, k)' \/ StillToDo(c, k)'
<1>1. /\ k \in Keys /\ run[k] \in RunStates /\ run[k] # "none" /\ site[c] \in Sessions
      /\ snap[c] \in [SnapFields -> SUBSET Keys]
  BY DEF RunsOn, TypeOK
<1>2. /\ run[k] \in Terminal => run'[k] \in Terminal
      /\ k \in acked => k \in acked'
      /\ k \in closed => k \in closed'
  BY <1>1 DEF Forward
<1>3. /\ ListingStands(c, k) /\ snap'[c].live = snap[c].live
      /\ snap'[c].acked = snap[c].acked /\ snap'[c].closed = snap[c].closed
      => ListingStands(c, k)'
  BY <1>2 DEF ListingStands
<1>4. CASE ListRuns(c)
  BY <1>4 DEF ListRuns, Goto
<1>5. CASE PickRun(c)
  <2>1. PICK m \in snap[c].todo :
           /\ pc[c] = "r_pick" /\ pc'[c] = CallFor(c, m, "none") /\ key'[c] = m
           /\ snap' = [snap EXCEPT ![c].todo = @ \ {m}]
    BY <1>5 DEF PickRun, Goto, TypeOK
  <2>2. /\ snap'[c].runs = snap[c].runs /\ snap'[c].live = snap[c].live
        /\ snap'[c].acked = snap[c].acked /\ snap'[c].moved = snap[c].moved
        /\ snap'[c].closed = snap[c].closed /\ snap'[c].todo = snap[c].todo \ {m}
    BY <1>1, <2>1 DEF TypeOK, SnapFields
  <2>3. Cleared(c, k) \/ (k \in snap[c].todo /\ ListingStands(c, k))
    BY <2>1 DEF StillToDo
  <2>4. CASE Cleared(c, k)
    BY <1>2, <2>2, <2>4 DEF Cleared
  <2>5. CASE k # m /\ k \in snap[c].todo /\ ListingStands(c, k)
    BY <1>3, <2>2, <2>5 DEF StillToDo
  <2>6. CASE k = m /\ ListingStands(c, k)
    <3>1. ListingStands(c, k)'
      BY <1>3, <2>2, <2>6
    <3>2. QED
      BY <2>1, <2>2, <2>6, <3>1 DEF CallFor, Settled, ListingStands, StillToDo, Cleared
  <2>7. QED
    BY <2>2, <2>3, <2>4, <2>5, <2>6
<1>6. CASE RecoverCancel(c)
  <2>1. /\ pc[c] = "r_cancel" /\ pc'[c] = CallFor(c, key[c], "cancel")
        /\ key'[c] = key[c] /\ snap'[c] = snap[c]
        /\ run' = [run EXCEPT ![key[c]] = IF @ = "in_progress" THEN "cancelled" ELSE @]
    BY <1>6 DEF RecoverCancel, Goto, Answers, DoCancel, Keep, TypeOK
  <2>2. key[c] = k => run'[k] \in Terminal
    BY <1>1, <2>1 DEF TypeOK, RunStates, Terminal
  <2>3. QED
    BY <1>2, <1>3, <2>1, <2>2 DEF CallFor, Settled, ListingStands, StillToDo, Cleared
<1>7. CASE RecoverAck(c)
  <2>1. /\ pc[c] = "r_ack" /\ pc'[c] = CallFor(c, key[c], "ack")
        /\ key'[c] = key[c] /\ snap'[c] = snap[c] /\ key[c] \in acked'
    BY <1>7 DEF RecoverAck, Goto, Answers, DoAck, Keep, TypeOK
  <2>2. QED
    BY <1>2, <1>3, <2>1 DEF CallFor, Settled, StillToDo, Cleared
<1>8. CASE RecoverClose(c)
  <2>1. /\ pc[c] = "r_close" /\ key'[c] = key[c] /\ snap'[c] = snap[c] /\ key[c] \in closed'
    BY <1>8 DEF RecoverClose, Goto, Answers, DoClose, Keep, TypeOK
  <2>2. QED
    BY <1>2, <1>3, <2>1 DEF StillToDo, Cleared
<1>9. CASE ForceRecover(c) \/ RecoverRelease(c) \/ RecoverRaises(c) \/ Crash(c)
  BY <1>9
  DEF ForceRecover, RecoverRelease, RecoverRaises, Crash, Goto, Recovering, TypeOK
<1>10. CASE (\E m \in Keys : Dispatch(c, m)) \/ \E s \in Sessions : Recover(c, s)
  BY <1>10 DEF Dispatch, Recover, Goto, Recovering, TypeOK
<1>11. CASE Lifecycle(c) \/ Cleanup(c)
  BY <1>11
  DEF Lifecycle, Cleanup, Goto, Recovering, TypeOK,
      StatusReady, StatusRefused, StartFresh, StartLost, StartTokenless,
        StartRefused, StartReplayed,
        ReadReplay, ReplayRaises, WaitReady, WaitFails, ReadResult, Ack, Close, Release,
        ReleaseRaises, CleanupCancel, CleanupAck, CleanupClose, CleanupRelease
<1>12. QED
  BY <1>4, <1>5, <1>6, <1>7, <1>8, <1>9, <1>10, <1>11
  DEF ClientStep, Works, Recovery

\* Only the listing says which runs a recovery takes up.
LEMMA RunsStay ==
    ASSUME TypeOK, NEW c \in Clients, ClientStep(c), pc[c] # "r_list",
           pc'[c] \in Recovering \ {"r_force", "r_list"}
    PROVE  snap'[c].runs = snap[c].runs
<1>1. snap[c] \in [SnapFields -> SUBSET Keys]
  BY DEF TypeOK
<1>2. CASE PickRun(c)
  <2>1. PICK m \in snap[c].todo : snap' = [snap EXCEPT ![c].todo = @ \ {m}]
    BY <1>2 DEF PickRun
  <2>2. QED
    BY <1>1, <2>1 DEF SnapFields, TypeOK
<1>3. CASE ~PickRun(c)
  BY <1>3
  DEF TypeOK, ClientStep, Works, Lifecycle, Cleanup, Recovery, Goto, Dispatch, Recover, Crash,
         Recovering, Keep,
         StatusReady, StatusRefused, StartFresh, StartLost, StartTokenless,
           StartRefused, StartReplayed,
           ReadReplay, ReplayRaises, WaitReady, WaitFails, ReadResult, Ack, Close,
           Release, ReleaseRaises, CleanupCancel, CleanupAck, CleanupClose,
           CleanupRelease, ForceRecover, ListRuns, RecoverCancel, RecoverAck,
           RecoverClose, RecoverRelease, RecoverRaises
<1>4. QED
  BY <1>2, <1>3

\* force_recover is followed by the listing.
LEMMA ForceGoesToList ==
    ASSUME TypeOK, NEW c \in Clients, ClientStep(c), pc[c] = "r_force"
    PROVE  pc'[c] \in {"r_list", "idle"}
  BY DEF TypeOK, ClientStep, Works, Lifecycle, Cleanup, Recovery, Goto, Dispatch, Recover, Crash,
         StatusReady, StatusRefused, StartFresh, StartLost, StartTokenless,
           StartRefused, StartReplayed,
           ReadReplay, ReplayRaises, WaitReady, WaitFails, ReadResult, Ack, Close,
           Release, ReleaseRaises, CleanupCancel, CleanupAck, CleanupClose,
           CleanupRelease, ForceRecover, ListRuns, PickRun, RecoverCancel, RecoverAck,
           RecoverClose, RecoverRelease, RecoverRaises

\* A recovery begins with force_recover.
LEMMA RecoveryBegins ==
    ASSUME TypeOK, NEW c \in Clients, ClientStep(c), pc[c] \notin Recovering
    PROVE  pc'[c] \notin Recovering \ {"r_force"}
  BY DEF TypeOK, ClientStep, Works, Lifecycle, Cleanup, Recovery, Goto, Dispatch, Recover, Crash,
         Recovering,
         StatusReady, StatusRefused, StartFresh, StartLost, StartTokenless,
           StartRefused, StartReplayed,
           ReadReplay, ReplayRaises, WaitReady, WaitFails, ReadResult, Ack, Close,
           Release, ReleaseRaises, CleanupCancel, CleanupAck, CleanupClose,
           CleanupRelease, ForceRecover, ListRuns, PickRun, RecoverCancel, RecoverAck,
           RecoverClose, RecoverRelease, RecoverRaises

\* The call after force_recover is the list.
LEMMA ListIsNext ==
    ASSUME TypeOK, NEW c \in Clients, ClientStep(c), pc[c] = "r_list",
           pc'[c] \in Recovering \ {"r_force", "r_list"}
    PROVE  ListRuns(c)
  BY DEF TypeOK, ClientStep, Works, Lifecycle, Cleanup, Recovery, Goto, Dispatch, Recover, Crash,
         Recovering,
         StatusReady, StatusRefused, StartFresh, StartLost, StartTokenless,
           StartRefused, StartReplayed,
           ReadReplay, ReplayRaises, WaitReady, WaitFails, ReadResult, Ack, Close,
           Release, ReleaseRaises, CleanupCancel, CleanupAck, CleanupClose,
           CleanupRelease, ForceRecover, PickRun, RecoverCancel, RecoverAck,
           RecoverClose, RecoverRelease, RecoverRaises

\* What the listing lets the recovery take up is to be done, the rest is over or
\* passed by.
LEMMA ListIsKept ==
    ASSUME TypeOK, TypeOK', NEW c \in Clients, ListRuns(c)
    PROVE  /\ snap'[c].runs \subseteq RunsOn(site[c])
           /\ \A k \in RunsOn(site[c]) : Accounted(c, k)'
<1>1. PICK R \in SUBSET RunsOn(site[c]), T \in SUBSET Keys :
         /\ snap' = [snap EXCEPT ![c] =
                       [runs   |-> R,
                        live   |-> {m \in R : run[m] = "in_progress"},
                        acked  |-> acked \cap R,
                        moved  |-> T,
                        closed |-> closed \cap R,
                        todo   |-> R]]
         /\ passed' = passed \cup {m \in RunsOn(site[c]) \ R : run[m] = "in_progress"}
  BY DEF ListRuns
<1>2. /\ snap'[c].runs = R /\ snap'[c].live = {m \in R : run[m] = "in_progress"}
      /\ snap'[c].acked = acked \cap R /\ snap'[c].closed = closed \cap R
      /\ snap'[c].todo = R
  BY <1>1 DEF TypeOK
<1>3. UNCHANGED <<run, acked, closed>>
  BY DEF ListRuns, ReadAnswers, Answers, controller
<1>4. ASSUME NEW k \in RunsOn(site[c])
      PROVE  Accounted(c, k)'
  <2>1. k \in Keys /\ run[k] \in RunStates /\ run[k] # "none"
    BY DEF RunsOn, TypeOK
  <2>2. CASE k \in R
    <3>1. ListingStands(c, k)'
      BY <1>2, <1>3, <2>1, <2>2 DEF ListingStands, RunStates, Terminal
    <3>2. QED
      BY <1>2, <2>2, <3>1 DEF StillToDo, Accounted
  <2>3. CASE k \notin R
    BY <1>1, <1>2, <1>3, <2>1, <2>3 DEF Accounted, RunStates, Terminal
  <2>4. QED
    BY <2>2, <2>3
<1>5. QED
  BY <1>2, <1>4

\* While a recovery has the lock, its session gets no run.
LEMMA ListingBefore ==
    ASSUME TypeOK, TypeOK', [Next]_vars, NEW c \in Clients, Listing(c)'
    PROVE  /\ site'[c] = site[c] /\ lock[site[c]] = c
           /\ pc[c] = "r_list" \/ Listing(c)
           /\ RunsOn(site[c])' = RunsOn(site[c])
           /\ \/ ClientStep(c)
              \/ pc'[c] = pc[c] /\ key'[c] = key[c] /\ snap'[c] = snap[c]
<1>1. /\ LocalsOK /\ Forward /\ site[c] \in Sessions
      /\ pc'[c] \in Recovering \ {"r_force", "r_list"} /\ lock'[site'[c]] = c
  BY TypeParts, StepsGoForward DEF Listing, TypeOK
<1>2. c # Free /\ c \notin Keys
  BY ControllerAssumption DEF ControllerAssumption
<1>3. /\ site'[c] = site[c] /\ pc[c] \in Recovering \ {"r_force"}
      /\ ~ClientStep(c) => pc'[c] = pc[c] /\ key'[c] = key[c] /\ snap'[c] = snap[c]
  <2>1. CASE ClientStep(c)
    <3>1. CASE pc[c] \in Recovering
      BY <1>1, <2>1, <3>1, RecoveryMoves, ForceGoesToList DEF Recovering
    <3>2. CASE pc[c] \notin Recovering
      BY <1>1, <2>1, <3>2, RecoveryBegins DEF Recovering
    <3>3. QED
      BY <3>1, <3>2
  <2>2. ASSUME NEW d \in Clients \ {c}, ClientStep(d), ~ClientStep(c)
        PROVE  UNCHANGED <<pc[c], key[c], site[c], snap[c]>>
    BY <1>1, <2>2, StepFrame DEF OthersKeep
  <2>3. ASSUME World \/ UNCHANGED vars
        PROVE  UNCHANGED <<pc[c], key[c], site[c], snap[c]>>
    BY <2>3 DEF World, LeaseExpires, RunFinishes, vars, client
  <2>4. CASE ~ClientStep(c)
    <3>1. UNCHANGED <<pc[c], key[c], site[c], snap[c]>>
      BY <2>2, <2>3, <2>4 DEF Next, Waiting
    <3>2. pc[c] # "r_force"
      BY <1>1, <3>1
    <3>3. QED
      BY <1>1, <3>1, <3>2
  <2>5. QED
    BY <2>1, <2>4
<1>4. lock[site[c]] = c
  <2>1. SUFFICES ASSUME lock[site[c]] # c
                 PROVE  FALSE
    OBVIOUS
  <2>2. PICK d \in Clients :
           \/ pc[d] = "start" /\ lock'[site[c]] = key[d]
           \/ pc[d] = "r_force" /\ lock'[site[c]] = d
    BY <1>1, <1>2, <1>3, <2>1, LockGoesTo
  <2>3. pc[d] = "start" => key[d] \in Keys
    BY <1>1, ToolHasKey
  <2>4. QED
    BY <1>1, <1>2, <1>3, <2>2, <2>3
<1>5. ASSUME NEW k \in Keys, SessionOf[k] = site[c]
      PROVE  run[k] = "none" <=> run'[k] = "none"
  <2>1. run[k] = "none" /\ run'[k] # "none" => DoStart(k)
    BY <1>1, LockGoesTo
  <2>2. ~DoStart(k)
    BY <1>2, <1>4, <1>5 DEF DoStart
  <2>3. run[k] # "none" => run'[k] # "none"
    BY <1>1 DEF Forward, TypeOK, RunStates, Terminal
  <2>4. QED
    BY <2>1, <2>2, <2>3
<1>6. RunsOn(site[c])' = RunsOn(site[c])
  BY <1>3, <1>5 DEF RunsOn
<1>7. QED
  BY <1>3, <1>4, <1>6 DEF Listing

\* A recovery loses no run out of its sight.
LEMMA ListingStep ==
    RecoveryInv /\ [Next]_vars => ListingIsKept'
<1> SUFFICES ASSUME RecoveryInv, [Next]_vars, NEW c \in Clients, Listing(c)'
             PROVE  /\ snap'[c].runs \subseteq RunsOn(site[c])'
                    /\ \A k \in RunsOn(site[c])' : Accounted(c, k)'
  BY DEF ListingIsKept
<1>1. TypeOK /\ TypeOK' /\ Forward
  BY TypeStep, StepsGoForward DEF RecoveryInv, IInv
<1>2. /\ site'[c] = site[c] /\ RunsOn(site[c])' = RunsOn(site[c])
      /\ site[c] \in Sessions
      /\ pc'[c] \in Recovering \ {"r_force", "r_list"}
  BY <1>1, ListingBefore DEF TypeOK, Listing
<1>3. CASE pc[c] = "r_list"
  <2>1. ClientStep(c)
    BY <1>1, <1>2, <1>3, ListingBefore
  <2>2. QED
    BY <1>1, <1>2, <1>3, <2>1, ListIsNext, ListIsKept
<1>4. CASE pc[c] # "r_list"
  <2>1. /\ snap[c].runs \subseteq RunsOn(site[c])
        /\ \A k \in RunsOn(site[c]) : Accounted(c, k)
    BY <1>1, <1>4, ListingBefore DEF RecoveryInv, ListingIsKept
  <2>2. snap'[c].runs = snap[c].runs
    BY <1>1, <1>2, <1>4, ListingBefore, RunsStay
  <2>3. ASSUME NEW k \in RunsOn(site[c])
        PROVE  Accounted(c, k)'
    <3>1. k \in Keys /\ run[k] # "none" /\ Accounted(c, k)
      BY <2>1 DEF RunsOn
    <3>2. CASE ~ClientStep(c)
      BY <1>1, <3>1, <3>2, ListingBefore, TodoStays
    <3>3. CASE ClientStep(c) /\ k \in snap[c].runs
      <4>1. Cleared(c, k) \/ StillToDo(c, k)
        BY <3>1, <3>3 DEF Accounted
      <4>2. Cleared(c, k)' \/ StillToDo(c, k)'
        BY <1>1, <1>2, <1>4, <3>3, <4>1, TodoStep
      <4>3. QED
        BY <2>2, <3>3, <4>2 DEF Accounted
    <3>4. CASE k \notin snap[c].runs
      BY <1>1, <2>2, <3>1, <3>4 DEF Accounted, Forward
    <3>5. QED
      BY <3>2, <3>3, <3>4
  <2>4. QED
    BY <1>2, <2>1, <2>2, <2>3
<1>5. QED
  BY <1>3, <1>4

-----------------------------------------------------------------------------
(* The lock a run has while it goes on.                                    *)

\* A lock is given back by the client that has it, or the lease runs out.
LEMMA LockFreed ==
    ASSUME TypeOK, [Next]_vars, NEW s \in Sessions, lock[s] # Free, lock'[s] = Free
    PROVE  \/ \E c \in Clients :
                 /\ pc[c] \in {"release", "release_raise", "c_release"}
                 /\ site[c] = s /\ lock[s] = key[c]
           \/ \E c \in Clients :
                 pc[c] = "r_pick" /\ snap[c].todo = {} /\ site[c] = s /\ lock[s] = c
           \/ \A c \in Clients : ~Holds(c, s)
<1>1. CASE \E c \in Clients : ClientStep(c)
  <2>1. PICK c \in Clients : ClientStep(c)
    BY <1>1
  <2>2. Effect(c)
    BY <2>1, StepEffect
  <2>3. c # Free /\ (pc[c] = "start" => key[c] # Free)
    BY ControllerAssumption, TypeParts, ToolHasKey DEF ControllerAssumption
  <2>4. QED
    BY <2>2, <2>3
    DEF Effect, controller, TypeOK, DoStart, DoCancel, DoAck, DoClose, DoRelease, DoRecover
<1>2. CASE World \/ UNCHANGED vars
  BY <1>2 DEF World, LeaseExpires, RunFinishes, vars, controller, TypeOK
<1>3. QED
  BY <1>1, <1>2 DEF Next, Waiting

\* A run that goes on as it should has a client, which has the lock token.
LEMMA LiveRunIsHeld ==
    ASSUME IInv, NEW k \in Keys, ~RunIsExplained(k)
    PROVE  \E c \in Clients :
              pc[c] \in {"wait", "c_cancel"} /\ key[c] = k /\ token[c] /\ site[c] = SessionOf[k]
<1>1. run[k] = "in_progress" /\ run[k] \notin Terminal
  BY DEF RunIsExplained, Terminal
<1>2. PICK c \in Clients : Attends(c, k)
  BY <1>1 DEF IInv, LeftoversExplained, Unattended, Explained
<1>3. pc[c] \in Locations /\ token[c] \in BOOLEAN
  BY DEF IInv, TypeOK
<1>4. pc[c] \in {"wait", "c_cancel"}
  BY <1>1, <1>2, <1>3
  DEF IInv, CallIsTrue, Attends, Explained, CleaningUp, Owned, Locations, Recovering
<1>5. QED
  BY <1>1, <1>2, <1>3, <1>4
  DEF IInv, CallIsTrue, Attends, CleaningUp, Owned, Recovering

\* A recovery at its end has cleared what it took up, and the rest was over or
\* passed by.
LEMMA LastPickIsCleared ==
    ASSUME ListingIsKept, NEW c \in Clients, pc[c] = "r_pick", snap[c].todo = {},
           lock[site[c]] = c
    PROVE  /\ \A k \in snap[c].runs : Cleared(c, k)
           /\ \A k \in RunsOn(site[c]) : run[k] \in Terminal \/ k \in passed
<1>1. Listing(c)
  BY DEF Listing, Recovering
<1>2. \A k \in RunsOn(site[c]) : Accounted(c, k) /\ ~StillToDo(c, k)
  BY <1>1 DEF ListingIsKept, StillToDo
<1>3. snap[c].runs \subseteq RunsOn(site[c])
  BY <1>1 DEF ListingIsKept
<1>4. QED
  BY <1>2, <1>3 DEF Accounted, Cleared

\* What goes on without a mishap did so before, or is started now.
LEMMA LiveRunBefore ==
    ASSUME TypeOK, [Next]_vars, NEW k \in Keys, ~RunIsExplained(k)'
    PROVE  ~RunIsExplained(k) \/ DoStart(k)
<1>1. Forward
  BY StepsGoForward
<1>2. CASE run[k] = "none"
  <2>1. run'[k] # "none"
    BY DEF RunIsExplained
  <2>2. QED
    BY <1>2, <2>1, LockGoesTo
<1>3. CASE run[k] # "none"
  BY <1>1, <1>3, ExplainedStays
<1>4. QED
  BY <1>2, <1>3

\* The lock of a run that goes on can only go to a recovery.
LEMMA GuardStep ==
    RecoveryInv /\ [Next]_vars => LiveRunIsGuarded'
<1> SUFFICES ASSUME RecoveryInv, [Next]_vars, NEW k \in Keys, ~RunIsExplained(k)',
                    SessionOf[k] \notin botched', k \notin passed'
             PROVE  \/ lock'[SessionOf[k]] = k
                    \/ \E c \in Clients : lock'[SessionOf[k]] = c /\ Holds(c, SessionOf[k])'
  BY DEF LiveRunIsGuarded
<1> DEFINE s == SessionOf[k]
<1>1. TypeOK /\ TypeOK' /\ LocalsOK /\ Forward
  BY TypeParts, TypeStep, StepsGoForward DEF RecoveryInv, IInv
<1>2. s \in Sessions /\ s \notin botched /\ k \notin passed /\ k # Free 
      /\ k \notin Clients /\ Free \notin Clients
  BY <1>1, ControllerAssumption DEF ControllerAssumption, Forward
<1>3. \A c \in Clients : lock'[s] = c => Holds(c, s)'
  BY <1>2, RecoveryLockStep DEF RecoveryInv, RecoveryLockExplained
<1>4. CASE DoStart(k)
  BY <1>1, <1>2, <1>4 DEF DoStart, TypeOK
<1>5. CASE ~RunIsExplained(k)
  <2>1. lock[s] = k \/ (lock[s] \in Clients /\ Holds(lock[s], s))
    BY <1>2, <1>5 DEF RecoveryInv, LiveRunIsGuarded
  <2>2. CASE lock'[s] = lock[s]
    BY <1>3, <2>1, <2>2
  <2>3. CASE lock'[s] # lock[s] /\ lock'[s] # Free
    <3>1. lock'[s] \in Clients
      BY <1>1, <1>2, <2>1, <2>3, LockGoesTo
    <3>2. QED
      BY <1>3, <3>1
  <2>4. CASE lock'[s] # lock[s] /\ lock'[s] = Free
    <3>1. run[k] = "in_progress" /\ run[k] \notin Terminal
      BY <1>5 DEF RunIsExplained, Terminal
    <3>2. ASSUME NEW c \in Clients, pc[c] \in {"release", "release_raise", "c_release"},
                 lock[s] = key[c]
          PROVE  FALSE
      <4>1. key[c] \in Keys
        BY <1>1, <3>2, ToolHasKey
      <4>2. key[c] = k
        BY <2>1, <3>2, <4>1, ControllerAssumption DEF ControllerAssumption
      <4>3. CallIsTrue(c)
        BY DEF RecoveryInv, IInv
      <4>4. QED
        BY <1>5, <3>1, <3>2, <4>2, <4>3 DEF CallIsTrue, CleaningUp
    <3>3. ASSUME NEW c \in Clients, pc[c] = "r_pick", snap[c].todo = {}, site[c] = s,
                 lock[s] = c
          PROVE  FALSE
      <4>1. k \in RunsOn(site[c])
        BY <3>1, <3>3 DEF RunsOn
      <4>2. QED
        BY <1>2, <3>1, <3>3, <4>1, LastPickIsCleared DEF RecoveryInv
    <3>4. \E c \in Clients : Holds(c, s)
      <4>1. CASE lock[s] = k
        <5>1. PICK c \in Clients :
                 pc[c] \in {"wait", "c_cancel"} /\ key[c] = k /\ token[c] /\ site[c] = s
          BY <1>5, LiveRunIsHeld DEF RecoveryInv
        <5>2. QED
          BY <4>1, <5>1 DEF Holds, Recovering
      <4>2. QED
        BY <2>1, <4>1
    <3>5. QED
      BY <1>1, <1>2, <2>4, <3>2, <3>3, <3>4, LockFreed
  <2>5. QED
    BY <2>2, <2>3, <2>4
<1>6. QED
  BY <1>1, <1>4, <1>5, LiveRunBefore

\* A run is started only on a free session.
LEMMA OneLiveStep ==
    RecoveryInv /\ [Next]_vars => OneLiveRun'
<1> SUFFICES ASSUME RecoveryInv, [Next]_vars, NEW k \in Keys, NEW l \in Keys, k # l,
                    SessionOf[k] = SessionOf[l], ~RunIsExplained(k)', ~RunIsExplained(l)',
                    SessionOf[k] \notin botched', {k, l} \cap passed' = {}
             PROVE  FALSE
  BY DEF OneLiveRun, RunIsExplained
<1>1. TypeOK /\ Forward
  BY StepsGoForward DEF RecoveryInv, IInv
<1>2. SessionOf[k] \notin botched /\ k \notin passed /\ l \notin passed
      /\ Free \notin Keys \cup Clients
  BY <1>1, ControllerAssumption DEF ControllerAssumption, Forward
<1>3. ~RunIsExplained(k) \/ ~RunIsExplained(l)
  <2>1. CASE DoStart(k) /\ DoStart(l)
    BY <1>1, <2>1 DEF DoStart, TypeOK
  <2>2. QED
    BY <1>1, <2>1, LiveRunBefore
<1>4. ASSUME NEW m \in Keys, NEW n \in Keys, ~RunIsExplained(m), DoStart(n),
             SessionOf[m] = SessionOf[n], SessionOf[m] \notin botched, m \notin passed
      PROVE  FALSE
  BY <1>2, <1>4 DEF RecoveryInv, LiveRunIsGuarded, DoStart
<1>5. CASE ~RunIsExplained(k) /\ ~RunIsExplained(l)
  BY <1>2, <1>5 DEF RecoveryInv, OneLiveRun, RunIsExplained
<1>6. QED
  BY <1>1, <1>2, <1>3, <1>4, <1>5, LiveRunBefore

\* The client that frees a recovered session went through its whole list.
LEMMA GivesBack ==
    ASSUME IInv, [Next]_vars, NEW s \in Sessions, NEW c \in Clients,
           lock[s] = c, Holds(c, s), lock'[s] = Free
    PROVE  pc[c] = "r_pick" /\ snap[c].todo = {} /\ site[c] = s
<1>1. TypeOK /\ LocalsOK
  BY TypeParts DEF IInv
<1>2. c # Free /\ c \notin Keys
  BY ControllerAssumption DEF ControllerAssumption
<1>3. ASSUME NEW d \in Clients, pc[d] \in {"release", "release_raise", "c_release"}
      PROVE  lock[s] # key[d]
  <2>1. key[d] \in Keys
    BY <1>1, <1>3, ToolHasKey
  <2>2. QED
    BY <1>2, <2>1
<1>4. QED
  BY <1>1, <1>2, <1>3, LockFreed

-----------------------------------------------------------------------------
(* The theorems about recover_session.                                     *)

\* What a recovery took up stays in its sight, a run that goes on without a
\* mishap is guarded, and is the only one.
THEOREM RecoveryInvariant == Spec => []RecoveryInv
<1>1. Init => RecoveryInv
  <2>1. ASSUME Init
        PROVE  /\ \A c \in Clients : pc[c] = "idle"
               /\ \A k \in Keys : run[k] = "none"
    BY <2>1 DEF Init
  <2>2. QED
    BY <2>1, InvariantStarts
    DEF RecoveryInv, ListingIsKept, Listing, LiveRunIsGuarded, OneLiveRun,
        RunIsExplained, Recovering
<1>2. RecoveryInv /\ [Next]_vars => RecoveryInv'
  BY InvariantStep, ListingStep, GuardStep, OneLiveStep DEF RecoveryInv
<1>3. QED
  BY <1>1, <1>2, PTL DEF Spec

\* Two runs go on in one session only after a mishap, a recovery that broke off,
\* or a listing that did not let a recovery take a run up.
THEOREM OneRunIsLive == Spec => []OneLiveRun
<1>1. RecoveryInv => OneLiveRun
  BY DEF RecoveryInv
<1>2. QED
  BY <1>1, RecoveryInvariant, PTL

\* A recovered session is given back with every run the recovery took up over,
\* closed, and acked unless it was transferred.
THEOREM RecoveriesAreComplete == Spec => RecoveryIsComplete
<1>1. RecoveryInv /\ [Next]_vars => GivenBackIsCleared
  <2> SUFFICES ASSUME RecoveryInv, [Next]_vars, NEW s \in Sessions, NEW c \in Clients,
                      lock[s] = c, Holds(c, s), lock'[s] = Free
               PROVE  \A k \in snap[c].runs : Cleared(c, k)
    BY DEF GivenBackIsCleared
  <2>1. pc[c] = "r_pick" /\ snap[c].todo = {} /\ site[c] = s
    BY GivesBack DEF RecoveryInv
  <2>2. QED
    BY <2>1, LastPickIsCleared DEF RecoveryInv
<1>2. QED
  BY <1>1, RecoveryInvariant, PTL DEF Spec, RecoveryIsComplete

=============================================================================
