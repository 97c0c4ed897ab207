-------------------------- MODULE MCAliasConsole --------------------------
(* Small instances of AliasConsole: two processes share one store. *)
EXTENDS AliasConsole, TLC

CONSTANTS p1, p2, s1, s2, a1

\* Bound: a behaviour is about histories and refreshes, or about contexts and
\* artifact rows.  Both write to rows of their own, and meet in the row of the
\* alias, which /add, /bind and /remove change in either.
OneSubject ==
    \/ /\ \A s \in Sessions : Physical(s) = <<>>
       /\ \A p \in Processes : op[p] # "refresh"
    \/ /\ \A p \in Processes : context[p] = Absent
       /\ \A a \in Aliases : runRow[a] = Absent /\ files[a] = {}
       /\ \A p \in Processes : pc[p] = "idle" \/ op[p] \in {"refresh", "add"}

ConsoleSymmetry == Permutations(Processes) \cup Permutations(Sessions)

=============================================================================
