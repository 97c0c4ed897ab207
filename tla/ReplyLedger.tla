---------------------------- MODULE ReplyLedger ----------------------------
(***************************************************************************)
(* What the OpeniLink runtime promises about the reply to each message,    *)
(* without log, cursor, store keys or process: a reply is written once,    *)
(* leaves in attempts that each put at most one copy on the wire, an       *)
(* attempt whose outcome is not known is never followed by another before  *)
(* it was written off, and a message is closed, for good, only when there  *)
(* is nothing to say, the reply arrived, or the doubt was reported.        *)
(***************************************************************************)
EXTENDS Integers

CONSTANT Messages

VARIABLES
    stage,   \* how far the reply to each message is
    copies,  \* how many copies of it arrived
    warned   \* messages whose delivery was reported as unknown

ledger == <<stage, copies, warned>>

Stages == {"new",       \* no reply yet
           "answered",  \* a reply waits to be sent
           "inflight",  \* an attempt is on the wire
           "tried",     \* an attempt is over, its outcome not yet written down
           "closed"}

Init ==
    /\ stage = [m \in Messages |-> "new"]
    /\ copies = [m \in Messages |-> 0]
    /\ warned = {}

Move(m, from, to) ==
    stage[m] = from /\ stage' = [stage EXCEPT ![m] = to]

Answer(m) == Move(m, "new", "answered") /\ UNCHANGED <<copies, warned>>

Dispatch(m) == Move(m, "answered", "inflight") /\ UNCHANGED <<copies, warned>>

Arrive(m) ==
    /\ Move(m, "inflight", "tried")
    /\ copies' = [copies EXCEPT ![m] = @ + 1]
    /\ UNCHANGED warned

Miss(m) == Move(m, "inflight", "tried") /\ UNCHANGED <<copies, warned>>

\* The outcome (failed, or unknown) is written down: the reply waits again.
WriteOff(m) == Move(m, "tried", "answered") /\ UNCHANGED <<copies, warned>>

Warn(m) ==
    /\ stage[m] \in {"answered", "tried"}
    /\ warned' = warned \cup {m}
    /\ UNCHANGED <<stage, copies>>

Close(m) ==
    /\ \/ Move(m, "new", "closed")
       \/ /\ copies[m] > 0 \/ m \in warned
          /\ Move(m, "answered", "closed") \/ Move(m, "tried", "closed")
    /\ UNCHANGED <<copies, warned>>

Next ==
    \E m \in Messages :
        \/ Answer(m) \/ Dispatch(m) \/ Arrive(m) \/ Miss(m)
        \/ WriteOff(m) \/ Warn(m) \/ Close(m)

Spec == Init /\ [][Next]_ledger

=============================================================================
