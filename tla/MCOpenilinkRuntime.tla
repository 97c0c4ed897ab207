------------------------ MODULE MCOpenilinkRuntime ------------------------
(* Small instance of OpenilinkRuntime and its refinement for TLC. *)
EXTENDS OpenilinkRefinement

CONSTANTS m1, m2

\* Messages are interchangeable: the log may as well begin with m1.  (A symmetry
\* set would do the same, but is unsound for liveness.)
InitFromFirst == Init /\ log[1] = m1

FairFromFirst ==
    /\ InitFromFirst
    /\ [][Next]_vars
    /\ WF_vars(Step)
    /\ SF_vars(FetchesSomething)

=============================================================================
