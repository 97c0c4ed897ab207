-------------------------- MODULE RunLedgerProofs --------------------------
(* Proof that the controller client implements the run ledger, for any      *)
(* number of processes, keys, sessions and faults.                          *)
EXTENDS ControllerRefinement, ControllerProofs

-----------------------------------------------------------------------------
(* Runs that were not started.                                             *)

\* The tool calls for a run are made for one that was started.
LEMMA StartedStep ==
    IInv /\ StartedInv /\ [Next]_vars => StartedInv'
<1> SUFFICES ASSUME IInv, StartedInv, [Next]_vars
             PROVE  StartedInv'
  OBVIOUS
<1>1. TypeOK /\ TypeOK' /\ LocalsOK /\ Forward
  BY TypeParts, TypeStep, StepsGoForward DEF IInv
<1>2. \A k \in Keys : run[k] # "none" => run'[k] # "none"
  BY <1>1 DEF Forward, TypeOK, RunStates, Terminal
<1>3. ASSUME NEW c \in Clients, ClientStep(c)
      PROVE  StartedInv'
  <2>1. ASSUME NEW k \in (acked' \cup closed') \ (acked \cup closed)
        PROVE  k \in Keys /\ run[k] # "none"
    <3>1. /\ pc[c] \in {"ack", "close", "c_ack", "c_close", "r_ack", "r_close"} /\ k = key[c]
          /\ k \in Keys
      BY <1>1, <1>3, StepEffect, ToolHasKey
      DEF Effect, DoStart, DoCancel, DoAck, DoClose, DoRelease, DoRecover, controller
    <3>2. QED
      BY <3>1 DEF IInv, CallIsTrue, StartedInv, Owned, CleaningUp
  <2>2. ASSUME NEW k \in Keys,
               \/ k \in snap'[c].todo
               \/ pc'[c] \in {"r_cancel", "r_ack", "r_close"} /\ key'[c] = k
        PROVE  run[k] # "none"
    <3>1. CASE ListRuns(c)
      BY <1>1, <2>2, <3>1 DEF ListRuns, RunsOn, Goto, TypeOK
    <3>2. CASE PickRun(c)
      BY <1>1, <2>2, <3>2 DEF PickRun, Goto, TypeOK, SnapFields, StartedInv
    <3>3. CASE RecoverCancel(c) \/ RecoverAck(c) \/ RecoverClose(c)
      BY <1>1, <2>2, <3>3
      DEF RecoverCancel, RecoverAck, RecoverClose, Goto, Keep, TypeOK, StartedInv
    <3>4. CASE ForceRecover(c) \/ RecoverRelease(c) \/ RecoverRaises(c) \/ Crash(c)
      BY <1>1, <2>2, <3>4
      DEF ForceRecover, RecoverRelease, RecoverRaises, Crash, Goto, Forget, Botch, EmptySnap,
          SnapFields, TypeOK, StartedInv
    <3>5. CASE (\E m \in Keys : Dispatch(c, m)) \/ \E s \in Sessions : Recover(c, s)
      BY <1>1, <2>2, <3>5 DEF Dispatch, Recover, Goto, TypeOK, StartedInv
    <3>6. CASE Lifecycle(c) \/ Cleanup(c)
      BY <1>1, <2>2, <3>6
      DEF Lifecycle, Cleanup, Goto, Keep, Forget, EmptySnap, SnapFields, TypeOK, StartedInv,
          StatusReady, StatusRefused, StartFresh, StartLost, StartTokenless,
            StartRefused, StartReplayed,
          ReadReplay, ReplayRaises, WaitReady, WaitFails, ReadResult, Ack, Close, Release,
          ReleaseRaises, CleanupCancel, CleanupAck, CleanupClose, CleanupRelease
    <3>7. QED
      BY <1>3, <3>1, <3>2, <3>3, <3>4, <3>5, <3>6 DEF ClientStep, Works, Recovery
  <2>3. ASSUME NEW d \in Clients \ {c}
        PROVE  pc'[d] = pc[d] /\ key'[d] = key[d] /\ snap'[d] = snap[d]
    BY <1>1, <1>3, StepFrame DEF OthersKeep
  <2>4. acked' \subseteq Keys /\ closed' \subseteq Keys
    BY <1>1 DEF TypeOK
  <2>5. \A k \in acked' \cup closed' : run'[k] # "none"
    BY <1>2, <2>1, <2>4 DEF StartedInv
  <2>6. ASSUME NEW d \in Clients, NEW k \in Keys,
               \/ k \in snap'[d].todo
               \/ pc'[d] \in {"r_cancel", "r_ack", "r_close"} /\ key'[d] = k
        PROVE  run'[k] # "none"
    <3>1. CASE d = c
      BY <1>2, <2>2, <2>6, <3>1
    <3>2. CASE d # c
      BY <1>2, <2>3, <2>6, <3>2 DEF StartedInv
    <3>3. QED
      BY <3>1, <3>2
  <2>7. QED
    BY <2>5, <2>6 DEF StartedInv
<1>4. CASE World \/ UNCHANGED vars
  <2>1. UNCHANGED <<acked, closed, pc, key, snap>>
    BY <1>4 DEF World, LeaseExpires, RunFinishes, vars, controller, client
  <2>2. acked \subseteq Keys /\ closed \subseteq Keys
    BY <1>1 DEF TypeOK
  <2>3. QED
    BY <1>2, <2>1, <2>2 DEF StartedInv
<1>5. QED
  BY <1>3, <1>4 DEF Next, Waiting

\* No list, ack or close of a run that was not started, in any behaviour.
THEOREM OnlyStartedRuns == Spec => [](IInv /\ StartedInv)
<1>1. Init => IInv /\ StartedInv
  <2>1. Init => StartedInv
    BY DEF Init, StartedInv, EmptySnap, SnapFields
  <2>2. QED
    BY <2>1, InvariantStarts
<1>2. IInv /\ StartedInv /\ [Next]_vars => (IInv /\ StartedInv)'
  BY InvariantStep, StartedStep
<1>3. QED
  BY <1>1, <1>2, PTL DEF Spec

-----------------------------------------------------------------------------
(* Steps of the ledger.                                                    *)

\* Nothing changes for run l.
Stays(l) ==
    /\ StageOf(l)' = StageOf(l)
    /\ NeedsOf(l)' = NeedsOf(l)
    /\ ExcusedOf(l)' = ExcusedOf(l)

\* One call is done for run k, or one fails, or all that are left fail.
Did(k) ==
    \/ /\ ExcusedOf(k)' = ExcusedOf(k)
       /\ \E call \in Needed : NeedsOf(k)' = NeedsOf(k) \ {call}
    \/ /\ NeedsOf(k)' = NeedsOf(k)
       /\ \/ \E call \in Needed : ExcusedOf(k)' = ExcusedOf(k) \cup {call}
          \/ ExcusedOf(k)' = Needed
          \/ ExcusedOf(k)' = ExcusedOf(k)

\* No run changes.
LEMMA AllStay ==
    ASSUME \A l \in Keys : Stays(l)
    PROVE  UNCHANGED Ledger!ledger
<1>1. Stage' = Stage /\ Needs' = Needs /\ Excused' = Excused
  BY DEF Stays, Stage, Needs, Excused
<1>2. QED
  BY <1>1 DEF Ledger!ledger

\* One run changes.
LEMMA OneMoves ==
    ASSUME NEW k \in Keys, \A l \in Keys \ {k} : Stays(l)
    PROVE  /\ Stage[k] = StageOf(k) /\ Stage' = [Stage EXCEPT ![k] = StageOf(k)']
           /\ Needs[k] = NeedsOf(k) /\ Needs' = [Needs EXCEPT ![k] = NeedsOf(k)']
           /\ Excused[k] = ExcusedOf(k) /\ Excused' = [Excused EXCEPT ![k] = ExcusedOf(k)']
           /\ Needs'[k] = NeedsOf(k)' /\ Excused'[k] = ExcusedOf(k)'
           /\ StageOf(k)' = StageOf(k) => Stage' = Stage
           /\ NeedsOf(k)' = NeedsOf(k) => Needs' = Needs
           /\ ExcusedOf(k)' = ExcusedOf(k) => Excused' = Excused
  BY DEF Stays, Stage, Needs, Excused

\* A call that is done or fails is a step of the ledger, and so is a client
\* that leaves its run when all that is left is excused.
LEMMA CallIsWork ==
    ASSUME NEW k \in Keys, \A l \in Keys \ {k} : Stays(l), Did(k),
           \/ StageOf(k)' = StageOf(k)
           \/ /\ StageOf(k) = "minded" /\ StageOf(k)' = "left"
              /\ NeedsOf(k)' \subseteq ExcusedOf(k)'
    PROVE  [Ledger!Next]_(Ledger!ledger)
<1>1. Needed = Ledger!NeededCalls
  BY DEF Needed, Ledger!NeededCalls
<1>2. Ledger!Does(k) \/ Ledger!Fails(k) \/ UNCHANGED <<Needs, Excused>>
  <2>1. CASE /\ ExcusedOf(k)' = ExcusedOf(k)
             /\ \E call \in Needed : NeedsOf(k)' = NeedsOf(k) \ {call}
    BY <1>1, <2>1, OneMoves DEF Ledger!Does
  <2>2. CASE /\ NeedsOf(k)' = NeedsOf(k)
             /\ \/ \E call \in Needed : ExcusedOf(k)' = ExcusedOf(k) \cup {call}
                \/ ExcusedOf(k)' = Needed
    <3>1. /\ Excused' = [Excused EXCEPT ![k] = ExcusedOf(k)']
          /\ Excused[k] = ExcusedOf(k) /\ Needs' = Needs
      BY <2>2, OneMoves
    <3>2. QED
      BY <1>1, <2>2, <3>1 DEF Ledger!Fails
  <2>3. CASE NeedsOf(k)' = NeedsOf(k) /\ ExcusedOf(k)' = ExcusedOf(k)
    BY <2>3, OneMoves
  <2>4. QED
    BY <2>1, <2>2, <2>3 DEF Did
<1>3. CASE StageOf(k)' = StageOf(k)
  BY <1>2, <1>3, OneMoves DEF Ledger!Next, Ledger!Work, Ledger!ledger
<1>4. CASE /\ StageOf(k) = "minded" /\ StageOf(k)' = "left"
           /\ NeedsOf(k)' \subseteq ExcusedOf(k)'
  <2>1. Ledger!GiveUp(k)
    BY <1>2, <1>4, OneMoves DEF Ledger!GiveUp, Ledger!Move
  <2>2. QED
    BY <2>1 DEF Ledger!Next
<1>5. QED
  BY <1>3, <1>4

-----------------------------------------------------------------------------
(* What the tools of the controller do to the needs of a run.              *)

\* A tool call for a run meets one of its needs, and no other run's.
LEMMA ToolDoes ==
    ASSUME TypeOK, NEW k \in Keys, DoCancel(k) \/ DoAck(k) \/ DoClose(k)
    PROVE  /\ \E call \in Needed : NeedsOf(k)' = NeedsOf(k) \ {call}
           /\ \A l \in Keys \ {k} : NeedsOf(l)' = NeedsOf(l)
           /\ \A l \in Keys : run'[l] = "none" <=> run[l] = "none"
<1>1. CASE DoCancel(k)
  <2>1. \A l \in Keys : run'[l] = "none" <=> run[l] = "none"
    BY <1>1 DEF DoCancel, TypeOK
  <2>2. NeedsOf(k)' = NeedsOf(k) \ {"cancel"}
    BY <1>1, <2>1 DEF DoCancel, TypeOK, NeedsOf, Lacks, Needed
  <2>3. \A l \in Keys \ {k} : NeedsOf(l)' = NeedsOf(l)
    BY <1>1, <2>1 DEF DoCancel, TypeOK, NeedsOf, Lacks
  <2>4. QED
    BY <2>1, <2>2, <2>3 DEF Needed
<1>2. CASE DoAck(k)
  <2>1. NeedsOf(k)' = NeedsOf(k) \ {"ack"}
    BY <1>2 DEF DoAck, TypeOK, NeedsOf, Lacks, Needed
  <2>2. \A l \in Keys \ {k} : NeedsOf(l)' = NeedsOf(l)
    BY <1>2 DEF DoAck, TypeOK, NeedsOf, Lacks
  <2>3. QED
    BY <1>2, <2>1, <2>2 DEF Needed, DoAck
<1>3. CASE DoClose(k)
  <2>1. NeedsOf(k)' = NeedsOf(k) \ {"close"}
    BY <1>3 DEF DoClose, TypeOK, NeedsOf, Lacks, Needed
  <2>2. \A l \in Keys \ {k} : NeedsOf(l)' = NeedsOf(l)
    BY <1>3 DEF DoClose, TypeOK, NeedsOf, Lacks
  <2>3. QED
    BY <1>3, <2>1, <2>2 DEF Needed, DoClose
<1>4. QED
  BY <1>1, <1>2, <1>3

\* A session's lock is taken away from the run that had it.
LEMMA LockTaken ==
    ASSUME TypeOK, NEW s \in Sessions, NEW v, v \notin Keys, lock' = [lock EXCEPT ![s] = v],
           UNCHANGED <<run, acked, closed>>
    PROVE  /\ \A l \in Keys : SessionOf[l] = s /\ lock[s] = l =>
                 NeedsOf(l)' = NeedsOf(l) \ {"release"}
           /\ \A l \in Keys : ~(SessionOf[l] = s /\ lock[s] = l) => NeedsOf(l)' = NeedsOf(l)
<1>1. \A l \in Keys : SessionOf[l] \in Sessions
  BY ControllerAssumption DEF ControllerAssumption
<1>2. ASSUME NEW l \in Keys, SessionOf[l] = s, lock[s] = l
      PROVE  NeedsOf(l)' = NeedsOf(l) \ {"release"}
  <2>1. lock'[SessionOf[l]] # l
    BY <1>2 DEF TypeOK
  <2>2. QED
    BY <1>2, <2>1 DEF NeedsOf, Lacks, Needed
<1>3. ASSUME NEW l \in Keys, ~(SessionOf[l] = s /\ lock[s] = l)
      PROVE  NeedsOf(l)' = NeedsOf(l)
  <2>1. lock'[SessionOf[l]] = l <=> lock[SessionOf[l]] = l
    BY <1>1, <1>3 DEF TypeOK
  <2>2. QED
    BY <2>1 DEF NeedsOf, Lacks
<1>4. QED
  BY <1>2, <1>3

\* When the stages and the excuses stay, taking a lock away is work on a run.
LEMMA LockTakenIsWork ==
    ASSUME TypeOK, NEW s \in Sessions, NEW v, v \notin Keys, lock' = [lock EXCEPT ![s] = v],
           UNCHANGED <<run, acked, closed>>,
           \A l \in Keys : StageOf(l)' = StageOf(l) /\ ExcusedOf(l)' = ExcusedOf(l)
    PROVE  [Ledger!Next]_(Ledger!ledger)
<1>1. CASE \E k \in Keys : SessionOf[k] = s /\ lock[s] = k
  <2>1. PICK k \in Keys : SessionOf[k] = s /\ lock[s] = k
    BY <1>1
  <2>2. \A l \in Keys \ {k} : Stays(l)
    BY <2>1, LockTaken DEF Stays
  <2>3. Did(k)
    BY <2>1, LockTaken DEF Did, Needed
  <2>4. QED
    BY <2>2, <2>3, CallIsWork
<1>2. CASE ~ \E k \in Keys : SessionOf[k] = s /\ lock[s] = k
  BY <1>2, LockTaken, AllStay DEF Stays
<1>3. QED
  BY <1>1, <1>2

-----------------------------------------------------------------------------
(* The steps of the clients.                                               *)

\* A start that has its effect is one whose answer arrives, or gets lost.
LEMMA StartsRun ==
    ASSUME TypeOK, NEW c \in Clients, ClientStep(c), pc[c] = "start", DoStart(key[c])
    PROVE  StartFresh(c) \/ StartLost(c) \/ StartTokenless(c)
<1>1. key[c] \in Keys /\ run' # run
  <2>1. key[c] \in Keys
    BY ToolHasKey, TypeParts DEF Recovering
  <2>2. QED
    BY <2>1 DEF DoStart, TypeOK
<1>2. ~UNCHANGED run
  BY <1>1
<1> USE DEF Goto
<1>3. CASE Lifecycle(c)
  BY <1>2, <1>3
  DEF Lifecycle, StatusReady, StatusRefused, StartRefused, StartReplayed, ReadReplay,
      ReplayRaises, WaitReady, WaitFails, ReadResult, Ack, Close, Release, ReleaseRaises,
      Answers, ReadAnswers, ReadRaises, controller
<1>4. CASE Cleanup(c)
  BY <1>4 DEF Cleanup, CleanupCancel, CleanupAck, CleanupClose, CleanupRelease
<1>5. CASE Recovery(c)
  BY <1>5
  DEF Recovery, ForceRecover, ListRuns, PickRun, RecoverCancel, RecoverAck, RecoverClose,
      RecoverRelease, RecoverRaises, Recovering
<1>6. CASE Crash(c) \/ (\E k \in Keys : Dispatch(c, k)) \/ \E s \in Sessions : Recover(c, s)
  BY <1>2, <1>6 DEF Crash, Dispatch, Recover, controller
<1>7. QED
  BY <1>3, <1>4, <1>5, <1>6 DEF ClientStep, Works

\* The stage of a run that the client is not at depends on its state only.
LEMMA StageStays ==
    ASSUME TypeOK, NEW c \in Clients, OthersKeep(c), NEW l \in Keys,
           Attends(c, l)' <=> Attends(c, l),
           run'[l] = "none" <=> run[l] = "none", l \in returned' <=> l \in returned
    PROVE  StageOf(l)' = StageOf(l)
<1>1. Unattended(l)' <=> Unattended(l)
  <2>1. \A d \in Clients \ {c} : Attends(d, l)' <=> Attends(d, l)
    BY DEF OthersKeep, Attends
  <2>2. QED
    BY <2>1 DEF Unattended
<1>2. QED
  BY <1>1 DEF StageOf

\* An idle client takes a message up, or begins a recovery.
LEMMA IdleLedgerStep ==
    ASSUME IInv, NEW c \in Clients, ClientStep(c), pc[c] = "idle"
    PROVE  [Ledger!Next]_(Ledger!ledger)
<1>1. TypeOK /\ LocalsOK /\ OthersKeep(c)
  BY TypeParts, StepFrame DEF IInv
<1>2. UNCHANGED <<lock, run, acked, closed>> /\ UNCHANGED <<mishap, returned>>
  BY StepEffect, StepNote, StepRecord DEF Effect, Note, Record, controller
<1>3. \A l \in Keys : NeedsOf(l)' = NeedsOf(l) /\ ExcusedOf(l)' = ExcusedOf(l)
  BY <1>2 DEF NeedsOf, ExcusedOf, Lacks, Noted
<1>4. \A l \in Keys : ~Attends(c, l)
  BY DEF Attends
<1>5. CASE \E k \in Keys : Attends(c, k)'
  <2>1. PICK k \in Keys : Attends(c, k)'
    BY <1>5
  <2>2. \A d \in Clients : ~Attends(d, k)
    BY <1>1, <1>4, <2>1, AttendsAgain DEF Dispatch
  <2>3. \A l \in Keys \ {k} : Stays(l)
    <3>1. ASSUME NEW l \in Keys \ {k}
          PROVE  Stays(l)
      <4>1. ~Attends(c, l)'
        BY <2>1 DEF Attends
      <4>2. StageOf(l)' = StageOf(l)
        BY <1>1, <1>2, <1>4, <4>1, StageStays
      <4>3. QED
        BY <1>3, <4>2 DEF Stays
    <3>2. QED
      BY <3>1
  <2>4. CASE run[k] = "none" \/ k \in returned
    <3>1. Stays(k)
      BY <1>2, <1>3, <2>4 DEF Stays, StageOf
    <3>2. QED
      BY <2>3, <3>1, AllStay
  <2>5. CASE run[k] # "none" /\ k \notin returned
    <3>1. StageOf(k) = "left"
      BY <2>2, <2>5 DEF StageOf, Unattended
    <3>2. StageOf(k)' = "minded"
      BY <1>2, <2>1, <2>5 DEF StageOf, Unattended
    <3>3. Ledger!Resume(k)
      BY <1>3, <2>3, <3>1, <3>2, OneMoves DEF Ledger!Resume, Ledger!Move
    <3>4. QED
      BY <3>3 DEF Ledger!Next
  <2>6. QED
    BY <2>4, <2>5
<1>6. CASE \A k \in Keys : ~Attends(c, k)'
  BY <1>1, <1>2, <1>3, <1>4, <1>6, StageStays, AllStay DEF Stays
<1>7. QED
  BY <1>5, <1>6

\* A recovery works on the runs it has listed and takes their session's lock.
LEMMA RecoveryLedgerStep ==
    ASSUME IInv, NEW c \in Clients, ClientStep(c), pc[c] \in Recovering
    PROVE  [Ledger!Next]_(Ledger!ledger)
<1>1. TypeOK /\ LocalsOK /\ OthersKeep(c) /\ c \notin Keys /\ Free \notin Keys
  BY TypeParts, StepFrame, ControllerAssumption DEF IInv, ControllerAssumption
<1>2. UNCHANGED <<mishap, returned>>
  BY StepNote, StepRecord DEF Note, Record, Recovering
<1>3. \A l \in Keys : ~Attends(c, l) /\ ~Attends(c, l)'
  BY <1>1, RecoveryMoves DEF Attends
<1>4. \A l \in Keys : run'[l] = "none" <=> run[l] = "none" => StageOf(l)' = StageOf(l)
  BY <1>1, <1>2, <1>3, StageStays
<1>5. \A l \in Keys : ExcusedOf(l)' = ExcusedOf(l)
  BY <1>2 DEF ExcusedOf, Noted
<1>6. CASE UNCHANGED controller
  <2>1. \A l \in Keys : Stays(l)
    BY <1>4, <1>5, <1>6 DEF Stays, NeedsOf, Lacks, controller
  <2>2. QED
    BY <2>1, AllStay
<1>7. CASE /\ pc[c] \in {"r_cancel", "r_ack", "r_close"}
           /\ DoCancel(key[c]) \/ DoAck(key[c]) \/ DoClose(key[c])
  <2>1. PICK k \in Keys : k = key[c]
    BY <1>1, <1>7 DEF TypeOK
  <2>2. DoCancel(k) \/ DoAck(k) \/ DoClose(k)
    BY <1>7, <2>1
  <2>3. \A l \in Keys : StageOf(l)' = StageOf(l)
    BY <1>1, <1>4, <2>2, ToolDoes
  <2>4. (\A l \in Keys \ {k} : Stays(l)) /\ Did(k)
    BY <1>1, <1>5, <2>2, <2>3, ToolDoes DEF Stays, Did
  <2>5. QED
    BY <2>3, <2>4, CallIsWork
<1>8. CASE DoRecover(site[c], c) \/ DoRelease(site[c], c)
  <2>1. /\ site[c] \in Sessions /\ UNCHANGED <<run, acked, closed>>
        /\ \E v \in {c, Free} : lock' = [lock EXCEPT ![site[c]] = v]
    BY <1>1, <1>8 DEF TypeOK, DoRecover, DoRelease
  <2>2. QED
    BY <1>1, <1>4, <1>5, <2>1, LockTakenIsWork
<1>9. QED
  BY <1>6, <1>7, <1>8, StepEffect DEF Effect, Recovering

\* While a client attends a run, no other does, and the client no other run.
LEMMA OnlyOneAttends ==
    ASSUME IInv, NEW c \in Clients, ClientStep(c), NEW h \in Keys, Attends(c, h)
    PROVE  /\ \A d \in Clients \ {c} : ~Attends(d, h) /\ ~Attends(d, h)'
           /\ \A l \in Keys \ {h} : ~Attends(c, l) /\ ~Attends(c, l)'
<1>1. LocalsOK /\ OthersKeep(c)
  BY TypeParts, StepFrame DEF IInv
<1>2. \A d \in Clients \ {c} : ~Attends(d, h) /\ ~Attends(d, h)'
  BY <1>1 DEF IInv, OneClientPerKey, OthersKeep, Attends
<1>3. \A l \in Keys \ {h} : ~Attends(c, l)
  BY DEF Attends
<1>4. \A l \in Keys : ~Dispatch(c, l)
  BY DEF Dispatch, Goto, Attends
<1>5. \A l \in Keys \ {h} : ~Attends(c, l)'
  BY <1>1, <1>3, <1>4, AttendsAgain
<1>6. QED
  BY <1>2, <1>3, <1>5

\* A client stays with its run, or leaves nothing behind that is not excused.
LEMMA AttendedStage ==
    ASSUME IInv, NEW c \in Clients, ClientStep(c), NEW h \in Keys, Attends(c, h),
           run'[h] = "none" <=> run[h] = "none", h \in returned' <=> h \in returned
    PROVE  \/ StageOf(h)' = StageOf(h)
           \/ /\ StageOf(h) = "minded" /\ StageOf(h)' = "left"
              /\ NeedsOf(h)' \subseteq ExcusedOf(h)'
<1>1. CASE run[h] = "none" \/ h \in returned \/ Attends(c, h)'
  BY <1>1 DEF StageOf, Unattended
<1>2. CASE run[h] # "none" /\ h \notin returned /\ ~Attends(c, h)'
  <2>1. StageOf(h) = "minded" /\ StageOf(h)' = "left"
    BY <1>2, OnlyOneAttends DEF StageOf, Unattended
  <2>2. Explained(h)'
    <3>1. key[c] = h /\ pc[c] \notin Recovering \cup {"idle"}
      BY DEF Attends
    <3>2. /\ pc'[c] \in Recovering \cup {"idle"} \/ key'[c] = h
          /\ pc'[c] \in Recovering \cup {"idle"} /\ run'[h] # "none" => Explained(h)'
      BY <3>1, CallStep
    <3>3. QED
      BY <1>2, <3>2 DEF Attends
  <2>3. NeedsOf(h)' \subseteq ExcusedOf(h)'
    BY <2>2
    DEF Explained, RunIsExplained, AckIsExplained, CloseIsExplained, LockIsExplained, Noted,
        NeedsOf, ExcusedOf, Lacks, Needed
  <2>4. QED
    BY <2>1, <2>3
<1>3. QED
  BY <1>1, <1>2

\* The start of a run: its lock is free, so no other run has its session's.
LEMMA StartLedgerStep ==
    ASSUME IInv, StartedInv, NEW c \in Clients, ClientStep(c), NEW h \in Keys, Attends(c, h),
           pc[c] = "start", DoStart(h),
           \A l \in Keys \ {h} : StageOf(l)' = StageOf(l) /\ ExcusedOf(l)' = ExcusedOf(l)
    PROVE  Ledger!Next
<1>1. /\ TypeOK /\ h \in Keys /\ Free \notin Keys /\ SessionOf \in [Keys -> Sessions]
      /\ key[c] = h
  BY ControllerAssumption DEF IInv, ControllerAssumption, Attends
<1>2. /\ lock[SessionOf[h]] = Free /\ lock' = [lock EXCEPT ![SessionOf[h]] = h]
      /\ run[h] = "none" /\ run' = [run EXCEPT ![h] = "in_progress"]
      /\ UNCHANGED <<acked, closed>>
  BY DEF DoStart
<1>3. NeedsOf(h)' = Ledger!NeededCalls
  <2>1. h \notin acked /\ h \notin closed
    BY <1>2 DEF StartedInv
  <2>2. run'[h] = "in_progress" /\ lock'[SessionOf[h]] = h
    BY <1>1, <1>2 DEF TypeOK
  <2>3. QED
    BY <1>2, <2>1, <2>2 DEF NeedsOf, Lacks, Needed, Ledger!NeededCalls
<1>4. \A l \in Keys \ {h} : Stays(l)
  <2>1. ASSUME NEW l \in Keys \ {h}
        PROVE  NeedsOf(l)' = NeedsOf(l)
    <3>1. run'[l] = run[l] /\ (lock'[SessionOf[l]] = l <=> lock[SessionOf[l]] = l)
      BY <1>1, <1>2 DEF TypeOK
    <3>2. QED
      BY <1>2, <3>1 DEF NeedsOf, Lacks
  <2>2. QED
    BY <2>1 DEF Stays
<1>5. Ledger!Begins(h)
  <2>1. ASSUME NEW l \in Keys \ {h}, SessionOf[l] = SessionOf[h]
        PROVE  "release" \notin Needs[l]
    BY <1>1, <1>2, <2>1 DEF Needs, NeedsOf, Lacks
  <2>2. QED
    BY <1>3, <1>4, <2>1, OneMoves DEF Ledger!Begins, Ledger!Alone
<1>6. StageOf(h) = "new" /\ run'[h] # "none" /\ h \notin returned
  BY <1>1, <1>2 DEF StageOf, TypeOK, IInv, ReturnedIsClean, Terminal
<1>7. CASE StartFresh(c)
  <2>1. pc'[c] = "wait" /\ key'[c] = h /\ UNCHANGED <<mishap, returned>>
    BY <1>1, <1>7 DEF StartFresh, Goto, Answers, Quiet, TypeOK
  <2>2. StageOf(h)' = "minded"
    BY <1>6, <2>1 DEF StageOf, Unattended, Attends, Recovering
  <2>3. ExcusedOf(h)' = ExcusedOf(h)
    BY <2>1 DEF ExcusedOf, Noted
  <2>4. Ledger!Start(h)
    BY <1>4, <1>5, <1>6, <2>2, <2>3, OneMoves DEF Ledger!Start, Ledger!Move
  <2>5. QED
    BY <2>4 DEF Ledger!Next
<1>8. CASE StartLost(c)
  <2>1. pc'[c] = "idle" /\ "start" \in mishap'[h] /\ UNCHANGED returned
    BY <1>1, <1>8 DEF StartLost, Goto, Quiet, TypeOK
  <2>2. StageOf(h)' = "left"
    BY <1>6, <2>1, OnlyOneAttends DEF StageOf, Unattended, Attends
  <2>3. ExcusedOf(h)' = Ledger!NeededCalls
    BY <2>1 DEF ExcusedOf, Noted, Needed, Ledger!NeededCalls
  <2>4. Ledger!StartLost(h)
    BY <1>4, <1>5, <1>6, <2>2, <2>3, OneMoves DEF Ledger!StartLost, Ledger!Move
  <2>5. QED
    BY <2>4 DEF Ledger!Next
<1>9. CASE StartTokenless(c)
  <2>1. pc'[c] = "c_cancel" /\ key'[c] = h /\ "start" \in mishap'[h] /\ UNCHANGED returned
    BY <1>1, <1>9 DEF StartTokenless, Goto, Keep, Quiet, TypeOK
  <2>2. StageOf(h)' = "minded"
    BY <1>6, <2>1 DEF StageOf, Unattended, Attends, Recovering
  <2>3. ExcusedOf(h)' = Ledger!NeededCalls
    BY <2>1 DEF ExcusedOf, Noted, Needed, Ledger!NeededCalls
  <2>4. Ledger!StartLost(h)
    BY <1>4, <1>5, <1>6, <2>2, <2>3, OneMoves DEF Ledger!StartLost, Ledger!Move
  <2>5. QED
    BY <2>4 DEF Ledger!Next
<1>10. QED
  BY <1>1, <1>7, <1>8, <1>9, StartsRun

\* A client that returns a result gave back the lock, the last thing to do.
LEMMA ReturnLedgerStep ==
    ASSUME IInv, NEW c \in Clients, ClientStep(c), NEW h \in Keys, Attends(c, h),
           h \in returned', h \notin returned,
           \A l \in Keys \ {h} : StageOf(l)' = StageOf(l) /\ ExcusedOf(l)' = ExcusedOf(l)
    PROVE  Ledger!Next
<1>1. /\ TypeOK /\ h \in Keys /\ Free \notin Keys /\ SessionOf[h] \in Sessions
      /\ key[c] = h /\ CallIsTrue(c)
  BY ControllerAssumption DEF IInv, ControllerAssumption, Attends
<1>2. pc[c] = "release" /\ DoRelease(site[c], h)
  BY <1>1, StepRecord DEF Record
<1>3. /\ run[h] \in Terminal /\ h \in acked /\ h \in closed
      /\ site[c] = SessionOf[h] /\ lock[SessionOf[h]] = h
  BY <1>1, <1>2 DEF CallIsTrue, Recovering, DoRelease
<1>4. UNCHANGED <<run, acked, closed>> /\ lock' = [lock EXCEPT ![SessionOf[h]] = Free]
  BY <1>2, <1>3 DEF DoRelease
<1>5. ~StartLost(c) /\ ~StartTokenless(c) /\ ~UNCHANGED controller
  BY <1>1, <1>2, <1>3, <1>4 DEF StartLost, StartTokenless, Goto, controller, TypeOK
<1>6. UNCHANGED mishap
  BY <1>5, StepNote DEF Note
<1>7. NeedsOf(h) = {"release"} /\ NeedsOf(h)' = {}
  <2>1. NeedsOf(h) = {"release"}
    BY <1>3 DEF NeedsOf, Lacks, Needed, Terminal
  <2>2. QED
    BY <1>1, <1>3, <1>4, <2>1, LockTaken
<1>8. \A l \in Keys \ {h} : Stays(l)
  BY <1>1, <1>3, <1>4, LockTaken DEF Stays
<1>9. StageOf(h) = "minded" /\ StageOf(h)' = "returned" /\ ExcusedOf(h)' = ExcusedOf(h)
  BY <1>3, <1>4, <1>6 DEF StageOf, Unattended, Terminal, ExcusedOf, Noted
<1>10. Ledger!Return(h)
  BY <1>7, <1>8, <1>9, OneMoves DEF Ledger!Return, Ledger!Move
<1>11. QED
  BY <1>10 DEF Ledger!Next

\* A client at a run calls for it, fails, starts it, leaves it or returns it.
LEMMA AttendingLedgerStep ==
    ASSUME IInv, StartedInv, NEW c \in Clients, ClientStep(c), NEW h \in Keys, Attends(c, h)
    PROVE  [Ledger!Next]_(Ledger!ledger)
<1>1. /\ TypeOK /\ OthersKeep(c) /\ CallIsTrue(c) /\ Free \notin Keys
      /\ key[c] = h /\ pc[c] \notin Recovering \cup {"idle"}
      /\ site[c] = SessionOf[h] /\ SessionOf[h] \in Sessions
  BY TypeParts, StepFrame, ControllerAssumption
  DEF IInv, ControllerAssumption, Attends, CallIsTrue
<1>2. \A l \in Keys \ {h} : l \in returned' <=> l \in returned
  BY <1>1, StepRecord DEF Record
<1>3. \A l \in Keys \ {h} : ExcusedOf(l)' = ExcusedOf(l)
  <2>1. \A l \in Keys \ {h} : mishap'[l] = mishap[l]
    BY <1>1, StepNote DEF Note, TypeOK
  <2>2. QED
    BY <2>1 DEF ExcusedOf, Noted
<1>4. ASSUME NEW l \in Keys \ {h}, run'[l] = "none" <=> run[l] = "none"
      PROVE  StageOf(l)' = StageOf(l)
  BY <1>1, <1>2, <1>4, OnlyOneAttends, StageStays
<1>5. CASE pc[c] = "start" /\ DoStart(h)
  <2>1. \A l \in Keys \ {h} : run'[l] = run[l]
    BY <1>1, <1>5 DEF DoStart, TypeOK
  <2>2. \A l \in Keys \ {h} : StageOf(l)' = StageOf(l)
    BY <1>4, <2>1
  <2>3. QED
    BY <1>3, <1>5, <2>2, StartLedgerStep
<1>6. CASE h \in returned' /\ h \notin returned
  <2>1. UNCHANGED run
    BY <1>1, <1>6, StepRecord DEF Record, DoRelease
  <2>2. \A l \in Keys \ {h} : StageOf(l)' = StageOf(l)
    BY <1>4, <2>1
  <2>3. QED
    BY <1>3, <1>6, <2>2, ReturnLedgerStep
<1>7. ASSUME h \in returned' <=> h \in returned,
             \A l \in Keys : run'[l] = "none" <=> run[l] = "none",
             \A l \in Keys \ {h} : NeedsOf(l)' = NeedsOf(l), Did(h)
      PROVE  [Ledger!Next]_(Ledger!ledger)
  <2>1. \A l \in Keys \ {h} : Stays(l)
    BY <1>3, <1>4, <1>7 DEF Stays
  <2>2. \/ StageOf(h)' = StageOf(h)
        \/ /\ StageOf(h) = "minded" /\ StageOf(h)' = "left"
           /\ NeedsOf(h)' \subseteq ExcusedOf(h)'
    BY <1>7, AttendedStage
  <2>3. QED
    BY <1>7, <2>1, <2>2, CallIsWork
<1>8. h \in returned => h \in returned'
  BY StepRecord DEF Record
<1>9. CASE UNCHANGED controller
  <2>1. \A l \in Keys : NeedsOf(l)' = NeedsOf(l)
    BY <1>9 DEF controller, NeedsOf, Lacks
  <2>2. CASE UNCHANGED mishap
    BY <1>6, <1>7, <1>8, <1>9, <2>1, <2>2 DEF Did, ExcusedOf, Noted, controller
  <2>3. CASE \E call \in Calls : mishap' = [mishap EXCEPT ![h] = @ \cup {call}]
    <3>1. PICK call \in Calls : mishap'[h] = mishap[h] \cup {call}
      BY <1>1, <2>3 DEF TypeOK
    <3>2. CASE call \in {"start", "crash"}
      <4>1. ExcusedOf(h)' = Needed
        BY <3>1, <3>2 DEF ExcusedOf, Noted
      <4>2. QED
        BY <1>6, <1>7, <1>8, <1>9, <2>1, <4>1 DEF Did, controller
    <3>3. CASE call \in Needed
      <4>1. ExcusedOf(h)' = ExcusedOf(h) \cup {call}
        BY <3>1, <3>3 DEF ExcusedOf, Noted, Needed
      <4>2. QED
        BY <1>6, <1>7, <1>8, <1>9, <2>1, <3>3, <4>1 DEF Did, controller
    <3>4. QED
      BY <3>1, <3>2, <3>3 DEF Calls, Needed
  <2>4. QED
    BY <1>1, <2>2, <2>3, StepNote DEF Note
<1>10. ASSUME ~UNCHANGED controller, pc[c] # "start"
       PROVE  \A l \in Keys : ExcusedOf(l)' = ExcusedOf(l)
  <2>1. UNCHANGED mishap
    BY <1>1, <1>10, StepNote DEF Note, StartLost, StartTokenless, Goto
  <2>2. QED
    BY <2>1 DEF ExcusedOf, Noted
<1>11. CASE pc[c] # "start" /\ (DoCancel(h) \/ DoAck(h) \/ DoClose(h))
  <2>1. /\ \E call \in Needed : NeedsOf(h)' = NeedsOf(h) \ {call}
        /\ \A l \in Keys \ {h} : NeedsOf(l)' = NeedsOf(l)
        /\ \A l \in Keys : run'[l] = "none" <=> run[l] = "none"
    BY <1>1, <1>11, ToolDoes
  <2>2. CASE ~UNCHANGED controller
    BY <1>6, <1>7, <1>8, <1>10, <1>11, <2>1, <2>2 DEF Did
  <2>3. QED
    BY <1>9, <2>2
<1>12. CASE pc[c] # "start" /\ DoRelease(site[c], h)
  <2>1. /\ lock[SessionOf[h]] = h /\ lock' = [lock EXCEPT ![SessionOf[h]] = Free]
        /\ UNCHANGED <<run, acked, closed>>
    BY <1>1, <1>12 DEF DoRelease
  <2>2. NeedsOf(h)' = NeedsOf(h) \ {"release"}
    BY <1>1, <2>1, LockTaken
  <2>3. \A l \in Keys \ {h} : NeedsOf(l)' = NeedsOf(l)
    BY <1>1, <2>1, LockTaken
  <2>4. CASE ~UNCHANGED controller
    BY <1>6, <1>7, <1>8, <1>10, <1>12, <2>1, <2>2, <2>3, <2>4 DEF Did, Needed
  <2>5. QED
    BY <1>9, <2>4
<1>13. QED
  BY <1>1, <1>5, <1>9, <1>11, <1>12, StepEffect DEF Effect, Recovering

\* Every step of the client model is a step of the ledger, or none.
LEMMA LedgerStep ==
    ASSUME IInv, StartedInv, [Next]_vars
    PROVE  [Ledger!Next]_(Ledger!ledger)
<1>1. ASSUME NEW c \in Clients, ClientStep(c)
      PROVE  [Ledger!Next]_(Ledger!ledger)
  <2>1. CASE pc[c] = "idle" \/ pc[c] \in Recovering
    BY <1>1, <2>1, IdleLedgerStep, RecoveryLedgerStep
  <2>2. CASE pc[c] \notin Recovering \cup {"idle"}
    <3>1. PICK h \in Keys : h = key[c]
      BY <2>2, TypeParts, ToolHasKey DEF IInv, Recovering
    <3>2. Attends(c, h)
      BY <2>2, <3>1 DEF Attends
    <3>3. QED
      BY <1>1, <3>2, AttendingLedgerStep
  <2>3. QED
    BY <2>1, <2>2
<1>2. ASSUME UNCHANGED <<client, observed>>
      PROVE  \A l \in Keys :
                /\ ExcusedOf(l)' = ExcusedOf(l)
                /\ run'[l] = "none" <=> run[l] = "none" => StageOf(l)' = StageOf(l)
  BY <1>2 DEF client, observed, ExcusedOf, Noted, StageOf, Unattended, Attends
<1>3. CASE \E s \in Sessions : LeaseExpires(s)
  <2>1. PICK s \in Sessions : LeaseExpires(s)
    BY <1>3
  <2>2. lock' = [lock EXCEPT ![s] = Free] /\ UNCHANGED <<run, acked, closed, client, observed>>
    BY <2>1 DEF LeaseExpires
  <2>3. \A l \in Keys : StageOf(l)' = StageOf(l) /\ ExcusedOf(l)' = ExcusedOf(l)
    BY <1>2, <2>2
  <2>4. QED
    BY <2>2, <2>3, LockTakenIsWork, ControllerAssumption DEF IInv, ControllerAssumption
<1>4. CASE \E k \in Keys : RunFinishes(k)
  <2>1. PICK k \in Keys : RunFinishes(k)
    BY <1>4
  <2>2. /\ run[k] = "in_progress" /\ run' = [run EXCEPT ![k] = "done"]
        /\ UNCHANGED <<lock, acked, closed, client, observed>> /\ run \in [Keys -> RunStates]
    BY <2>1 DEF RunFinishes, IInv, TypeOK
  <2>3. \A l \in Keys : run'[l] = "none" <=> run[l] = "none"
    BY <2>2
  <2>4. NeedsOf(k)' = NeedsOf(k) \ {"cancel"}
    BY <2>2 DEF NeedsOf, Lacks, Needed
  <2>5. \A l \in Keys \ {k} : NeedsOf(l)' = NeedsOf(l)
    BY <2>2 DEF NeedsOf, Lacks
  <2>6. \A l \in Keys : StageOf(l)' = StageOf(l) /\ ExcusedOf(l)' = ExcusedOf(l)
    BY <1>2, <2>2, <2>3
  <2>7. (\A l \in Keys \ {k} : Stays(l)) /\ Did(k)
    BY <2>4, <2>5, <2>6 DEF Stays, Did, Needed
  <2>8. QED
    BY <2>6, <2>7, CallIsWork
<1>5. CASE UNCHANGED vars
  <2>1. \A l \in Keys : Stays(l)
    BY <1>2, <1>5 DEF vars, controller, Stays, NeedsOf, Lacks
  <2>2. QED
    BY <2>1, AllStay
<1>6. QED
  BY <1>1, <1>3, <1>4, <1>5 DEF Next, World, Waiting

\* The controller client implements the run ledger: every run is started once,
\* on a session no other run has locked, is given up only over calls that
\* failed, and returned only when nothing is left to do for it.
THEOREM ClientImplements == Spec => ImplementsRunLedger
<1>1. Init => Ledger!Init
  <2>1. ASSUME Init, NEW k \in Keys
        PROVE  StageOf(k) = "new" /\ NeedsOf(k) = {} /\ ExcusedOf(k) = {}
    BY <2>1 DEF Init, StageOf, NeedsOf, ExcusedOf, Noted
  <2>2. QED
    BY <2>1 DEF Ledger!Init, Stage, Needs, Excused
<1>2. IInv /\ StartedInv /\ [Next]_vars => [Ledger!Next]_(Ledger!ledger)
  BY LedgerStep
<1>3. QED
  BY <1>1, <1>2, OnlyStartedRuns, PTL DEF Spec, ImplementsRunLedger, Ledger!Spec

=============================================================================
