------------------------ MODULE ControllerRefinement ------------------------
(* The controller client implements the run ledger: what a run needs is read *)
(* off the controller, who looks after it off the locations of the clients.  *)
EXTENDS ControllerClient

Needed == {"cancel", "ack", "close", "release"}

\* Does run k need this call?
Lacks(k, call) ==
    \/ call = "cancel" /\ run[k] = "in_progress"
    \/ call = "ack" /\ k \notin acked
    \/ call = "close" /\ k \notin closed
    \/ call = "release" /\ lock[SessionOf[k]] = k

NeedsOf(k) == {call \in Needed : run[k] # "none" /\ Lacks(k, call)}

ExcusedOf(k) == {call \in Needed : Noted(k, {"start", "crash", call})}

StageOf(k) ==
    IF run[k] = "none" THEN "new"
    ELSE IF k \in returned THEN "returned"
    ELSE IF Unattended(k) THEN "left" ELSE "minded"

Stage == [k \in Keys |-> StageOf(k)]

Needs == [k \in Keys |-> NeedsOf(k)]

Excused == [k \in Keys |-> ExcusedOf(k)]

Ledger == INSTANCE RunLedger WITH stage <- Stage, needs <- Needs, excused <- Excused

\* Every step of a client, of a recovery and of the world is a step of the run
\* ledger or leaves it alone.
ImplementsRunLedger == Ledger!Spec

\* A run that was not started is on no list and was never acked or closed.
StartedInv ==
    /\ \A k \in acked \cup closed : run[k] # "none"
    /\ \A c \in Clients, k \in Keys :
          \/ k \in snap[c].todo
          \/ pc[c] \in {"r_cancel", "r_ack", "r_close"} /\ key[c] = k
          => run[k] # "none"

=============================================================================
