------------------------ MODULE MCControllerClient ------------------------
(* Small instances of ControllerClient. *)
EXTENDS ControllerRefinement

CONSTANTS c1, c2, k1, k2, s1

OneSession == [k \in Keys |-> s1]

Once == [k \in Keys |-> 1]

\* The first message comes again, after a crash or an error.
FirstTwice == [k \in Keys |-> IF k = k1 THEN 2 ELSE 1]

=============================================================================
