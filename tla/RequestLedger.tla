--------------------------- MODULE RequestLedger ---------------------------
(***************************************************************************)
(* What the JSON-RPC transport promises its caller: requests are sent one  *)
(* at a time; each one ends once, with the answer of the server to this    *)
(* very request or with an exception, and an exception says nothing about  *)
(* whether the server did what was asked: it may take it up later, but not *)
(* after the next one, and not when it is gone.                            *)
(***************************************************************************)
EXTENDS Naturals

CONSTANT MaxRequests  \* bound: requests of one transport

VARIABLES
    fate,   \* of each request: unsent, open, answered or raised
    taken,  \* the requests the server took up
    up      \* the server is there

ledger == <<fate, taken, up>>

Requests == 1..MaxRequests

Init ==
    /\ fate = [n \in Requests |-> "unsent"]
    /\ taken = {}
    /\ up = TRUE

\* Request n, after every request before it has ended.
Open(n) ==
    /\ fate[n] = "unsent"
    /\ \A m \in 1..(n - 1) : fate[m] \in {"answered", "raised"}
    /\ fate' = [fate EXCEPT ![n] = "open"]
    /\ UNCHANGED <<taken, up>>

\* It could not be sent.
OpenFails(n) ==
    /\ fate[n] = "unsent"
    /\ \A m \in 1..(n - 1) : fate[m] \in {"answered", "raised"}
    /\ fate' = [fate EXCEPT ![n] = "raised"]
    /\ UNCHANGED <<taken, up>>

\* In the order of the requests, also those that raised.
Take(n) ==
    /\ up
    /\ fate[n] # "unsent"
    /\ \A m \in taken : m < n
    /\ taken' = taken \cup {n}
    /\ UNCHANGED <<fate, up>>

Answer(n) ==
    /\ fate[n] = "open" /\ n \in taken
    /\ fate' = [fate EXCEPT ![n] = "answered"]
    /\ UNCHANGED <<taken, up>>

Raise(n) ==
    /\ fate[n] = "open"
    /\ fate' = [fate EXCEPT ![n] = "raised"]
    /\ UNCHANGED <<taken, up>>

\* It exits, or the transport is closed; it does not come back.
GoesDown == up /\ up' = FALSE /\ UNCHANGED <<fate, taken>>

Next ==
    \/ \E n \in Requests :
          Open(n) \/ OpenFails(n) \/ Take(n) \/ Answer(n) \/ Raise(n)
    \/ GoesDown

Spec == Init /\ [][Next]_ledger

=============================================================================
