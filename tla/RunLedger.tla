----------------------------- MODULE RunLedger -----------------------------
(***************************************************************************)
(* What the controller client promises about each run, without processes,  *)
(* transports or recoveries: a run is started once, on a session that no   *)
(* other run has locked; it needs four calls (or what makes them needless: *)
(* it ends, a lease expires) and never needs one again that it has had; a  *)
(* client gives it up only over calls that failed themselves; and its      *)
(* result is returned only when nothing is left to do.                     *)
(***************************************************************************)
CONSTANTS
    Keys,
    SessionOf  \* the session each run is on

VARIABLES
    stage,   \* who looks after the run
    needs,   \* the calls the run still needs
    excused  \* the calls for it that failed

ledger == <<stage, needs, excused>>

Stages == {"new",       \* not started
           "minded",    \* a client is at it
           "left",      \* no client is at it
           "returned"}  \* its result was returned

NeededCalls == {"cancel", "ack", "close", "release"}

Init ==
    /\ stage = [k \in Keys |-> "new"]
    /\ needs = [k \in Keys |-> {}]
    /\ excused = [k \in Keys |-> {}]

Move(k, from, to) == stage[k] = from /\ stage' = [stage EXCEPT ![k] = to]

\* No other run has the lock of the session of run k.
Alone(k) ==
    \A l \in Keys \ {k} : SessionOf[l] = SessionOf[k] => "release" \notin needs[l]

Begins(k) == Alone(k) /\ needs' = [needs EXCEPT ![k] = NeededCalls]

Start(k) == Move(k, "new", "minded") /\ Begins(k) /\ UNCHANGED excused

\* The client does not learn that it started the run, or not that it locked the
\* session.
StartLost(k) ==
    /\ Move(k, "new", "left") \/ Move(k, "new", "minded")
    /\ Begins(k)
    /\ excused' = [excused EXCEPT ![k] = NeededCalls]

\* A call is done, by a client, a recovery, the run itself or the lease.
Does(k) ==
    /\ \E call \in NeededCalls : needs' = [needs EXCEPT ![k] = @ \ {call}]
    /\ UNCHANGED excused

\* A call fails, or the process dies and with it every call it had to make.
Fails(k) ==
    /\ \/ \E call \in NeededCalls : excused' = [excused EXCEPT ![k] = @ \cup {call}]
       \/ excused' = [excused EXCEPT ![k] = NeededCalls]
    /\ UNCHANGED needs

Work(k) == (Does(k) \/ Fails(k)) /\ UNCHANGED stage

GiveUp(k) ==
    /\ Move(k, "minded", "left")
    /\ Does(k) \/ Fails(k) \/ UNCHANGED <<needs, excused>>
    /\ needs'[k] \subseteq excused'[k]

\* The message came again.
Resume(k) == Move(k, "left", "minded") /\ UNCHANGED <<needs, excused>>

\* The lock is the last thing a client gives back.
Return(k) ==
    /\ Move(k, "minded", "returned")
    /\ needs[k] = {"release"}
    /\ needs' = [needs EXCEPT ![k] = {}]
    /\ UNCHANGED excused

Next ==
    \E k \in Keys :
        \/ Start(k) \/ StartLost(k) \/ Work(k) \/ GiveUp(k) \/ Resume(k)
        \/ Return(k)

Spec == Init /\ [][Next]_ledger

=============================================================================
