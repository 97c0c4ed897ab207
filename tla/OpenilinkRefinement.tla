------------------------ MODULE OpenilinkRefinement ------------------------
(* The runtime implements the reply ledger: the stage of a message is read  *)
(* off its three store keys and the statement the process is at.            *)
EXTENDS OpenilinkRuntime

LedgerStage(m) ==
    CASE processed[m]                             -> "closed"
      [] ~processed[m] /\ delivery[m] = "sending" ->
            IF pc = "send" /\ log[idx] = m THEN "inflight" ELSE "tried"
      [] ~processed[m] /\ delivery[m] # "sending" ->
            IF outbox[m] = "none" THEN "new" ELSE "answered"

Stage == [m \in Messages |-> LedgerStage(m)]

Warned == {m \in Messages : <<"delivery_unknown", m>> \in events}

Ledger == INSTANCE ReplyLedger WITH stage <- Stage, copies <- received, warned <- Warned

\* Every step of the runtime, its crashes and restarts included, is a step of
\* the reply ledger or leaves it alone.
ImplementsLedger == Ledger!Spec

=============================================================================
