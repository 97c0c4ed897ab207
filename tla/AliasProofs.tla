---------------------------- MODULE AliasProofs ----------------------------
(* Proofs about the alias console, for any number of processes, aliases,   *)
(* sessions and lines.                                                     *)
EXTENDS AliasConsole, TLAPS

\* One of the sets of a variable's values.
Rows == {Absent} \cup [session : Sessions, offset : 0..(MaxLines + 1)]

\* What splitlines() makes of a history.
LEMMA PhysicalLines ==
    ASSUME TypeOK, NEW s \in Sessions
    PROVE  /\ Len(history[s]) \in Nat
           /\ Len(Physical(s)) \in 0..(MaxLines + 1)
           /\ Len(Physical(s)) = Len(history[s]) + (IF tail[s] = "none" THEN 0 ELSE 1)
           /\ \A i \in 1..Len(history[s]) : Physical(s)[i] = history[s][i]
           /\ tail[s] # "none" => Physical(s)[Len(history[s]) + 1] = tail[s]
<1>1. /\ MaxLines \in Nat /\ history[s] \in Seq(Lines)
      /\ Len(history[s]) <= IF tail[s] = "none" THEN MaxLines + 1 ELSE MaxLines
  BY ConsoleAssumption DEF ConsoleAssumption, TypeOK
<1> DEFINE lines == history[s]
<1>2. Len(lines) \in Nat
  BY <1>1
<1>3. CASE tail[s] = "none"
  <2>1. Physical(s) = lines \o <<>>
    BY <1>3 DEF Physical
  <2>2. Len(Physical(s)) = Len(lines) /\ \A i \in 1..Len(lines) : Physical(s)[i] = lines[i]
    BY <1>1, <2>1
  <2>3. Len(lines) <= MaxLines + 1
    BY <1>1, <1>3
  <2> HIDE DEF lines
  <2>4. Len(lines) \in 0..(MaxLines + 1)
    BY <1>1, <1>2, <2>3
  <2>5. QED
    BY <1>2, <1>3, <2>2, <2>4 DEF lines
<1>4. CASE tail[s] # "none"
  <2>1. Physical(s) = lines \o <<tail[s]>>
    BY <1>4 DEF Physical
  <2>2. /\ Len(Physical(s)) = Len(lines) + 1
        /\ \A i \in 1..Len(lines) : Physical(s)[i] = lines[i]
        /\ Physical(s)[Len(lines) + 1] = tail[s]
    BY <1>1, <2>1
  <2>3. Len(lines) <= MaxLines
    BY <1>1, <1>4
  <2> HIDE DEF lines
  <2>4. Len(lines) + 1 \in 0..(MaxLines + 1)
    BY <1>1, <1>2, <2>3
  <2>5. QED
    BY <1>2, <1>4, <2>2, <2>4 DEF lines
<1>5. QED
  BY <1>3, <1>4

\* A /refresh of o lines, all of them finished, goes on to the finished lines.
LEMMA NextLineIsStable ==
    ASSUME TypeOK, NEW s \in Sessions, NEW o \in Nat,
           o <= Len(Physical(s)), tail[s] # "torn"
    PROVE  /\ NextLine(s, o) \in 0..(MaxLines + 1)
           /\ o <= Finished[s] => NextLine(s, o) <= Finished[s]
           /\ o <= NextLine(s, o) /\ NextLine(s, o) <= Len(Physical(s))
<1>1. /\ Len(Physical(s)) \in 0..(MaxLines + 1) /\ MaxLines \in Nat
      /\ Len(history[s]) \in Nat
      /\ Len(Physical(s)) = Len(history[s]) + (IF tail[s] = "none" THEN 0 ELSE 1)
  BY PhysicalLines, ConsoleAssumption DEF ConsoleAssumption
<1>2. tail[s] \in Tails
  BY DEF TypeOK
<1> DEFINE n == Len(history[s])
           m == Len(Physical(s))
<1>3. /\ NextLine(s, o) = IF tail[s] \in {"cut", "rest"} /\ o < m THEN m - 1 ELSE m
      /\ Finished[s] = n + IF tail[s] \in {"text", "noise"} THEN 1 ELSE 0
  BY DEF NextLine, Unfinished, Finished
<1>4. /\ n \in Nat /\ m \in Nat /\ m <= MaxLines + 1 /\ o <= m
      /\ m = n + (IF tail[s] = "none" THEN 0 ELSE 1)
  <2>1. n \in Nat /\ m = n + (IF tail[s] = "none" THEN 0 ELSE 1) /\ o <= m
    BY <1>1
  <2>2. m \in 0..(MaxLines + 1) /\ MaxLines \in Nat
    BY <1>1
  <2> HIDE DEF n, m
  <2>3. m \in Nat /\ m <= MaxLines + 1
    BY <2>2
  <2>4. QED
    BY <2>1, <2>3
<1> DEFINE next == NextLine(s, o)
           finished == Finished[s]
<1> HIDE DEF n, m, next, finished
<1>5. /\ next \in Nat /\ next <= m /\ o <= next
      /\ o <= finished => next <= finished
  <2>1. CASE tail[s] = "none"
    BY <1>3, <1>4, <2>1 DEF next, finished
  <2>2. CASE tail[s] \in {"text", "noise"}
    BY <1>3, <1>4, <2>2 DEF next, finished
  <2>3. CASE tail[s] \in {"cut", "rest"}
    <3>1. next = (IF o < m THEN m - 1 ELSE m) /\ finished = n /\ m = n + 1
      BY <1>3, <1>4, <2>3 DEF next, finished
    <3>2. QED
      BY <1>4, <3>1
  <2>4. QED
    BY <1>2, <2>1, <2>2, <2>3 DEF Tails
<1>6. next \in 0..(MaxLines + 1)
  BY <1>1, <1>4, <1>5
<1>7. QED
  BY <1>5, <1>6 DEF next, finished, m

\* upsert_alias with a session that differs from the one it read, or for a new
\* alias: the offset is 0 and the lines count from here.
LEMMA UpsertRestarts ==
    ASSUME TypeOK, NEW p \in Processes, pc[p] = "upsert", UpsertAlias(p),
           NewSession(p) \/ row[al[p]] = Absent
    PROVE  /\ row' = [row EXCEPT ![al[p]] = [session |-> ses[p], offset |-> 0]]
           /\ shown' = [shown EXCEPT ![al[p]] = {}]
           /\ crossed' = crossed \ {al[p]}
           /\ cutShort' = cutShort \ {al[p]}
           /\ rewritten' = rewritten \ {al[p]}
           /\ raced' = raced \ {al[p]}
           /\ touched' = (touched \cup BusyWith(al[p])) \ {p}
  BY Zenon DEF UpsertAlias, Restarted

\* upsert_alias for an alias that is there, without a restart.
LEMMA UpsertKeeps ==
    ASSUME TypeOK, NEW p \in Processes, pc[p] = "upsert", UpsertAlias(p),
           ~NewSession(p), row[al[p]] # Absent
    PROVE  /\ row' = [row EXCEPT ![al[p]] =
                         [session |-> ses[p], offset |-> row[al[p]].offset]]
           /\ UNCHANGED <<shown, crossed, cutShort, rewritten, runRow, files>>
           /\ raced' = raced \/ raced' = raced \cup {al[p]}
           /\ Bound(al[p]) # ses[p] =>
                 touched' = (touched \cup BusyWith(al[p])) \ {p}
           /\ Bound(al[p]) # ses[p] /\ p \in touched =>
                 al[p] \in raced' /\ al[p] \in mixed'
           /\ Bound(al[p]) = ses[p] => touched' = touched \ {p}
  BY DEF UpsertAlias

\* What both have in common: only the row of the process's alias changes, and
\* only processes busy with that alias are touched.
LEMMA UpsertFrame ==
    ASSUME TypeOK, NEW p \in Processes, pc[p] = "upsert", UpsertAlias(p)
    PROVE  /\ al[p] \in Aliases /\ ses[p] \in Sessions
           /\ row' \in [Aliases -> Rows]
           /\ row'[al[p]] # Absent /\ row'[al[p]].session = ses[p]
           /\ shown' \in [Aliases -> SUBSET (1..(MaxLines + 1))]
           /\ \A b \in Aliases \ {al[p]} :
                 /\ row'[b] = row[b] /\ shown'[b] = shown[b]
                 /\ b \in raced <=> b \in raced'
                 /\ b \in crossed <=> b \in crossed'
                 /\ b \in cutShort <=> b \in cutShort'
                 /\ b \in rewritten <=> b \in rewritten'
           /\ p \notin touched'
           /\ \A q \in Processes \ {p} :
                 /\ q \in touched => q \in touched'
                 /\ q \in touched' => q \in touched \/ al[q] = al[p]
           /\ UNCHANGED <<context, dangling, history, tail, raised, setbacks>>
<1> USE ConsoleAssumption DEF ConsoleAssumption
<1>1. al[p] \in Aliases /\ ses[p] \in Sessions
  BY DEF TypeOK
<1>2. row \in [Aliases -> Rows] /\ shown \in [Aliases -> SUBSET (1..(MaxLines + 1))]
  BY DEF TypeOK, Rows
<1>3. UNCHANGED <<context, dangling, history, tail, raised, setbacks>>
  BY DEF UpsertAlias, disk
<1>4. CASE NewSession(p) \/ row[al[p]] = Absent
  <2>1. [session |-> ses[p], offset |-> 0] \in Rows
    BY <1>1 DEF Rows
  <2>2. Absent \notin [session : Sessions, offset : 0..(MaxLines + 1)]
    OBVIOUS
  <2>3. QED
    BY <1>1, <1>2, <1>3, <1>4, <2>1, <2>2, UpsertRestarts DEF BusyWith
<1>5. CASE ~NewSession(p) /\ row[al[p]] # Absent
  <2>1. row[al[p]] \in [session : Sessions, offset : 0..(MaxLines + 1)]
    BY <1>1, <1>2, <1>5 DEF Rows
  <2>2. [session |-> ses[p], offset |-> row[al[p]].offset] \in Rows
    BY <1>1, <2>1 DEF Rows
  <2>3. Absent \notin [session : Sessions, offset : 0..(MaxLines + 1)]
    OBVIOUS
  <2>4. QED
    BY <1>1, <1>2, <1>3, <1>5, <2>1, <2>2, <2>3, UpsertKeeps DEF BusyWith
<1>6. QED
  BY <1>4, <1>5

\* The artifact rows of the alias go with a new session.
LEMMA UpsertArtifacts ==
    ASSUME TypeOK, NEW p \in Processes, pc[p] = "upsert", UpsertAlias(p)
    PROVE  /\ runRow' \in [Aliases -> Sessions \cup {Absent}]
           /\ files' \in [Aliases -> SUBSET Sessions]
           /\ \A b \in Aliases \ {al[p]} :
                 /\ runRow'[b] = runRow[b] /\ files'[b] = files[b]
                 /\ b \in mixed <=> b \in mixed'
           /\ NewSession(p) => runRow'[al[p]] = Absent /\ files'[al[p]] = {}
           /\ ~NewSession(p) =>
                 /\ UNCHANGED <<runRow, files>>
                 /\ al[p] \in mixed => al[p] \in mixed'
                 /\ Bound(al[p]) # ses[p] /\ p \in touched => al[p] \in mixed'
<1>1. al[p] \in Aliases
  BY DEF TypeOK
<1>2. CASE NewSession(p)
  <2>1. /\ runRow' = [runRow EXCEPT ![al[p]] = Absent]
        /\ files' = [files EXCEPT ![al[p]] = {}]
        /\ mixed' = mixed \ {al[p]}
    BY <1>2, Zenon DEF UpsertAlias
  <2>2. runRow \in [Aliases -> Sessions \cup {Absent}] /\ files \in [Aliases -> SUBSET Sessions]
    BY DEF TypeOK
  <2>3. QED
    BY <1>1, <1>2, <2>1, <2>2
<1>3. CASE ~NewSession(p)
  <2>1. /\ UNCHANGED <<runRow, files>>
        /\ mixed' = IF Bound(al[p]) # ses[p] /\ p \in touched
                    THEN mixed \cup {al[p]} ELSE mixed
    BY <1>3 DEF UpsertAlias
  <2>2. /\ mixed \subseteq mixed'
        /\ \A b \in Aliases \ {al[p]} : b \in mixed <=> b \in mixed'
        /\ Bound(al[p]) # ses[p] /\ p \in touched => al[p] \in mixed'
    BY <2>1, Zenon
  <2>3. QED
    BY <1>1, <1>3, <2>1, <2>2 DEF TypeOK
<1>4. QED
  BY <1>2, <1>3

\* set_refresh_offset.
LEMMA SetOffsetFrame ==
    ASSUME TypeOK, NEW p \in Processes, SetOffset(p)
    PROVE  /\ al[p] \in Aliases /\ nxt[p] \in 0..(MaxLines + 1)
           /\ row' \in [Aliases -> Rows]
           /\ \A b \in Aliases \ {al[p]} : row'[b] = row[b]
           /\ row[al[p]] = Absent => row' = row
           /\ row[al[p]] # Absent =>
                 /\ row'[al[p]] # Absent
                 /\ row'[al[p]].session = row[al[p]].session
                 /\ row'[al[p]].offset = nxt[p]
<1> USE ConsoleAssumption DEF ConsoleAssumption
<1>1. al[p] \in Aliases /\ nxt[p] \in 0..(MaxLines + 1)
  BY DEF SetOffset, Goto, TypeOK
<1>2. row \in [Aliases -> Rows]
  BY DEF TypeOK, Rows
<1>3. CASE row[al[p]] = Absent
  BY <1>1, <1>2, <1>3 DEF SetOffset
<1>4. CASE row[al[p]] # Absent
  <2>1. row[al[p]] \in [session : Sessions, offset : 0..(MaxLines + 1)]
    BY <1>1, <1>2, <1>4 DEF Rows
  <2>2. row' = [row EXCEPT ![al[p]] = [row[al[p]] EXCEPT !.offset = nxt[p]]]
    BY <1>4 DEF SetOffset
  <2>3. [row[al[p]] EXCEPT !.offset = nxt[p]] \in Rows
    BY <1>1, <2>1 DEF Rows
  <2>4. /\ [row[al[p]] EXCEPT !.offset = nxt[p]].session = row[al[p]].session
        /\ [row[al[p]] EXCEPT !.offset = nxt[p]].offset = nxt[p]
        /\ [row[al[p]] EXCEPT !.offset = nxt[p]] \in
               [session : Sessions, offset : 0..(MaxLines + 1)]
    BY <1>1, <2>1
  <2>5. Absent \notin [session : Sessions, offset : 0..(MaxLines + 1)]
    OBVIOUS
  <2>6. QED
    BY <1>1, <1>2, <1>4, <2>2, <2>3, <2>4, <2>5
<1>5. QED
  BY <1>3, <1>4

\* Every step keeps every variable in its set.
LEMMA TypeStep ==
    IInv /\ [Next]_vars => TypeOK'
<1> SUFFICES ASSUME IInv, [Next]_vars
             PROVE  TypeOK'
  OBVIOUS
<1> USE ConsoleAssumption DEF ConsoleAssumption, IInv, TypeOK, Locations, Ops, Lines, Tails,
  Goto, Clear, Returns, Bound, Restarted, Statement, Unobserved, store, disk, locals,
  notes, observed
<1>1. ASSUME NEW p \in Processes, ProcessStep(p)
      PROVE  TypeOK'
  <2>1. CASE NamedCommand(p)
    BY <2>1 DEF NamedCommand, Command
  <2>2. CASE ActiveCommand(p)
    BY <2>2 DEF ActiveCommand, Command
  <2>3. CASE FindAlias(p)
    BY <2>3 DEF FindAlias
  <2>4. CASE UnknownAlias(p)
    BY <2>4 DEF UnknownAlias
  <2>5. CASE AddAlias(p)
    BY <2>5 DEF AddAlias, SelectExisting
  <2>6. CASE Bind(p)
    BY <2>6 DEF Bind, SelectExisting
  <2>7. CASE AddEnds(p)
    <3>1. pc[p] = "upsert" /\ UpsertAlias(p)
      BY <2>7 DEF AddEnds
    <3>2. /\ row' \in [Aliases -> Rows]
          /\ shown' \in [Aliases -> SUBSET (1..(MaxLines + 1))]
          /\ runRow' \in [Aliases -> Sessions \cup {Absent}]
          /\ files' \in [Aliases -> SUBSET Sessions]
          /\ UNCHANGED <<context, history, tail, raised, setbacks>>
      BY <3>1, UpsertFrame, UpsertArtifacts
    <3>3. QED
      BY <2>7, <3>2 DEF AddEnds, Rows
  <2>8. CASE BindEnds(p)
    <3>1. pc[p] = "upsert" /\ UpsertAlias(p)
      BY <2>8 DEF BindEnds
    <3>2. /\ row' \in [Aliases -> Rows]
          /\ shown' \in [Aliases -> SUBSET (1..(MaxLines + 1))]
          /\ runRow' \in [Aliases -> Sessions \cup {Absent}]
          /\ files' \in [Aliases -> SUBSET Sessions]
          /\ UNCHANGED <<context, history, tail, raised, setbacks>>
      BY <3>1, UpsertFrame, UpsertArtifacts
    <3>3. QED
      BY <2>8, <3>2 DEF BindEnds, Rows
  <2>9. CASE \E a \in Aliases : RemoveAlias(p, a)
    BY <2>9 DEF RemoveAlias
  <2>10. CASE UseAlias(p)
    BY <2>10 DEF UseAlias
  <2>11. CASE GetOffset(p)
    BY <2>11 DEF GetOffset
  <2>12. CASE ReadNewItems(p)
    <3>1. ses[p] \in Sessions /\ tail[ses[p]] # "torn" /\ off[p] <= Len(Physical(ses[p]))
      BY <2>12 DEF ReadNewItems, Decodable
    <3>2. off[p] \in 0..(MaxLines + 1) /\ off[p] \in Nat
      OBVIOUS
    <3>3. NextLine(ses[p], off[p]) \in 0..(MaxLines + 1)
      BY <3>1, <3>2, NextLineIsStable
    <3>4. {i \in (off[p] + 1)..NextLine(ses[p], off[p]) : Physical(ses[p])[i] = "text"}
             \in SUBSET (1..(MaxLines + 1))
      BY <3>2, <3>3
    <3>5. /\ nxt' \in [Processes -> 0..(MaxLines + 1)]
          /\ showing' \in [Processes -> SUBSET (1..(MaxLines + 1))]
          /\ off' \in [Processes -> 0..(MaxLines + 1)]
      BY <2>12, <3>3, <3>4 DEF ReadNewItems
    <3>6. QED
      BY <2>12, <3>1, <3>5 DEF ReadNewItems
  <2>13. CASE ReadTruncated(p)
    BY <2>13 DEF ReadTruncated
  <2>14. CASE ReadUnavailable(p)
    <3>1. ASSUME NEW from, Returns(p, from), UNCHANGED <<store, disk, notes>>
          PROVE  TypeOK'
      BY <3>1
    <3>2. QED
      BY <2>14, <3>1 DEF ReadUnavailable
  <2>15. CASE ReadRaises(p)
    BY <2>15 DEF ReadRaises
  <2>16. CASE SetOffset(p)
    <3>1. row' \in [Aliases -> Rows]
      BY <2>16, SetOffsetFrame
    <3>2. QED
      BY <2>16, <3>1 DEF SetOffset, Rows
  <2>17. CASE Reply(p)
    BY <2>17 DEF Reply
  <2>18. CASE RecordArtifactRun(p)
    BY <2>18 DEF RecordArtifactRun
  <2>19. CASE RecordArtifact(p)
    BY <2>19 DEF RecordArtifact
  <2>20. CASE DispatchEnds(p)
    <3>1. ASSUME NEW from, Returns(p, from), UNCHANGED <<store, disk, notes>>
          PROVE  TypeOK'
      BY <3>1
    <3>2. QED
      BY <2>20, <3>1 DEF DispatchEnds
  <2>21. CASE Crash(p)
    BY <2>21 DEF Crash
  <2>22. QED
    BY <1>1, <2>1, <2>2, <2>3, <2>4, <2>5, <2>6, <2>7, <2>8, <2>9, <2>10,
       <2>11, <2>12, <2>13, <2>14, <2>15, <2>16, <2>17, <2>18, <2>19, <2>20, <2>21
    DEF ProcessStep, Administer, Refresh, Bookkeeping
<1>2. ASSUME NEW s \in Sessions, App(s)
      PROVE  TypeOK'
  <2>1. CASE BeginRow(s)
    BY <2>1 DEF BeginRow
  <2>2. CASE GrowRow(s)
    BY <2>2 DEF GrowRow
  <2>3. CASE EndRow(s)
    BY <2>3 DEF EndRow
  <2>4. CASE SplitRow(s)
    BY <2>4 DEF SplitRow
  <2>5. CASE Rewrite(s)
    BY <2>5 DEF Rewrite
  <2>6. QED
    BY <1>2, <2>1, <2>2, <2>3, <2>4, <2>5 DEF App
<1>3. CASE UNCHANGED vars
  BY <1>3 DEF vars, store, disk, locals, observed, notes
<1>4. QED
  BY <1>1, <1>2, <1>3 DEF Next

\* What a process has read of its alias still stands, unless it was touched.
LEMMA CurrentStep ==
    IInv /\ [Next]_vars => SessionIsCurrent' /\ ExistingIsCurrent'
<1> SUFFICES ASSUME IInv, [Next]_vars
             PROVE  SessionIsCurrent' /\ ExistingIsCurrent'
  OBVIOUS
<1> USE ConsoleAssumption DEF ConsoleAssumption, IInv, TypeOK, SessionIsCurrent,
  ExistingIsCurrent, Goto, Clear, Returns, Bound, Statement, Unobserved, store, disk,
  locals, notes, observed
<1>1. ASSUME NEW p \in Processes, ProcessStep(p)
      PROVE  SessionIsCurrent' /\ ExistingIsCurrent'
  <2>1. CASE NamedCommand(p)
    BY <2>1 DEF NamedCommand, Command
  <2>2. CASE ActiveCommand(p)
    BY <2>2 DEF ActiveCommand, Command
  <2>3. CASE FindAlias(p)
    BY <2>3 DEF FindAlias
  <2>4. CASE UnknownAlias(p)
    BY <2>4 DEF UnknownAlias
  <2>5. CASE AddAlias(p)
    BY <2>5 DEF AddAlias, SelectExisting
  <2>6. CASE Bind(p)
    BY <2>6 DEF Bind, SelectExisting
  <2>7. CASE AddEnds(p)
    <3>1. pc[p] = "upsert" /\ UpsertAlias(p)
      BY <2>7 DEF AddEnds
    <3>2. ASSUME NEW q \in Processes \ touched', pc'[q] \notin {"idle", "find"}
          PROVE  /\ pc'[q] # "upsert" =>
                       row'[al'[q]] # Absent /\ row'[al'[q]].session = ses'[q]
                 /\ pc'[q] = "upsert" =>
                       old'[q] = IF row'[al'[q]] = Absent THEN Absent
                                 ELSE row'[al'[q]].session
      <4>1. CASE q = p
        BY <2>7, <3>1, <3>2, <4>1, UpsertFrame DEF AddEnds
      <4>2. CASE q # p /\ al[q] # al[p]
        <5>1. /\ pc'[q] = pc[q] /\ al'[q] = al[q] /\ ses'[q] = ses[q] /\ old'[q] = old[q]
              /\ al[q] \in Aliases
          BY <2>7, <3>2, <4>2 DEF AddEnds
        <5>2. q \notin touched /\ row'[al[q]] = row[al[q]]
          BY <3>1, <3>2, <4>2, <5>1, UpsertFrame
        <5>3. QED
          BY <3>2, <5>1, <5>2
      <4>3. CASE q # p /\ al[q] = al[p]
        <5>1. /\ pc'[q] = pc[q] /\ al'[q] = al[q] /\ ses'[q] = ses[q] /\ old'[q] = old[q]
              /\ q \in BusyWith(al[p])
          BY <2>7, <3>2, <4>3 DEF AddEnds, BusyWith
        <5>2. ~NewSession(p) /\ row[al[p]] # Absent
          BY <3>1, <3>2, <4>3, <5>1, UpsertRestarts
        <5>3. row[al[p]].session = ses[p] /\ q \notin touched
          BY <3>1, <3>2, <4>3, <5>1, <5>2, UpsertKeeps
        <5>4. row'[al[p]] # Absent /\ row'[al[p]].session = ses[p]
          BY <3>1, UpsertFrame
        <5>5. QED
          BY <3>2, <4>3, <5>1, <5>2, <5>3, <5>4
      <4>4. QED
        BY <4>1, <4>2, <4>3
    <3>3. QED
      BY <3>2
  <2>8. CASE BindEnds(p)
    <3>1. pc[p] = "upsert" /\ UpsertAlias(p)
      BY <2>8 DEF BindEnds
    <3>2. ASSUME NEW q \in Processes \ touched', pc'[q] \notin {"idle", "find"}
          PROVE  /\ pc'[q] # "upsert" =>
                       row'[al'[q]] # Absent /\ row'[al'[q]].session = ses'[q]
                 /\ pc'[q] = "upsert" =>
                       old'[q] = IF row'[al'[q]] = Absent THEN Absent
                                 ELSE row'[al'[q]].session
      <4>1. CASE q = p
        BY <2>8, <3>1, <3>2, <4>1, UpsertFrame DEF BindEnds
      <4>2. CASE q # p /\ al[q] # al[p]
        <5>1. /\ pc'[q] = pc[q] /\ al'[q] = al[q] /\ ses'[q] = ses[q] /\ old'[q] = old[q]
              /\ al[q] \in Aliases
          BY <2>8, <3>2, <4>2 DEF BindEnds
        <5>2. q \notin touched /\ row'[al[q]] = row[al[q]]
          BY <3>1, <3>2, <4>2, <5>1, UpsertFrame
        <5>3. QED
          BY <3>2, <5>1, <5>2
      <4>3. CASE q # p /\ al[q] = al[p]
        <5>1. /\ pc'[q] = pc[q] /\ al'[q] = al[q] /\ ses'[q] = ses[q] /\ old'[q] = old[q]
              /\ q \in BusyWith(al[p])
          BY <2>8, <3>2, <4>3 DEF BindEnds, BusyWith
        <5>2. ~NewSession(p) /\ row[al[p]] # Absent
          BY <3>1, <3>2, <4>3, <5>1, UpsertRestarts
        <5>3. row[al[p]].session = ses[p] /\ q \notin touched
          BY <3>1, <3>2, <4>3, <5>1, <5>2, UpsertKeeps
        <5>4. row'[al[p]] # Absent /\ row'[al[p]].session = ses[p]
          BY <3>1, UpsertFrame
        <5>5. QED
          BY <3>2, <4>3, <5>1, <5>2, <5>3, <5>4
      <4>4. QED
        BY <4>1, <4>2, <4>3
    <3>3. QED
      BY <3>2
  <2>9. CASE \E a \in Aliases : RemoveAlias(p, a)
    <3>1. PICK a \in Aliases : RemoveAlias(p, a)
      BY <2>9
    <3>2. \A q \in Processes \ touched' : q \notin touched /\ (pc[q] \in {"idle", "find"} \/ al[q] # a)
      BY <3>1 DEF RemoveAlias, BusyWith
    <3>3. UNCHANGED <<pc, al, ses, old>>
      BY <3>1 DEF RemoveAlias
    <3>4. \A b \in Aliases \ {a} : row'[b] = row[b]
      BY <3>1 DEF RemoveAlias
    <3>5. QED
      BY <3>2, <3>3, <3>4
  <2>10. CASE UseAlias(p)
    BY <2>10 DEF UseAlias
  <2>11. CASE GetOffset(p)
    BY <2>11 DEF GetOffset
  <2>12. CASE ReadNewItems(p)
    BY <2>12 DEF ReadNewItems
  <2>13. CASE ReadTruncated(p)
    BY <2>13 DEF ReadTruncated
  <2>14. CASE ReadUnavailable(p)
    <3>1. ASSUME NEW from, Returns(p, from), UNCHANGED <<store, disk, notes>>
          PROVE  SessionIsCurrent' /\ ExistingIsCurrent'
      BY <3>1
    <3>2. QED
      BY <2>14, <3>1 DEF ReadUnavailable
  <2>15. CASE ReadRaises(p)
    BY <2>15 DEF ReadRaises
  <2>16. CASE SetOffset(p)
    <3>1. UNCHANGED <<al, ses, old, touched>> /\ pc' = [pc EXCEPT ![p] = "reply"]
      BY <2>16 DEF SetOffset
    <3>2. pc[p] = "set"
      BY <2>16 DEF SetOffset
    <3>3. \A b \in Aliases :
             /\ row'[b] = Absent <=> row[b] = Absent
             /\ row[b] # Absent => row'[b].session = row[b].session
      BY <2>16, SetOffsetFrame
    <3>4. QED
      BY <3>1, <3>2, <3>3
  <2>17. CASE Reply(p)
    BY <2>17 DEF Reply
  <2>18. CASE RecordArtifactRun(p)
    BY <2>18 DEF RecordArtifactRun
  <2>19. CASE RecordArtifact(p)
    BY <2>19 DEF RecordArtifact
  <2>20. CASE DispatchEnds(p)
    <3>1. ASSUME NEW from, Returns(p, from), UNCHANGED <<store, disk, notes>>
          PROVE  SessionIsCurrent' /\ ExistingIsCurrent'
      BY <3>1
    <3>2. QED
      BY <2>20, <3>1 DEF DispatchEnds
  <2>21. CASE Crash(p)
    BY <2>21 DEF Crash
  <2>22. QED
    BY <1>1, <2>1, <2>2, <2>3, <2>4, <2>5, <2>6, <2>7, <2>8, <2>9, <2>10,
       <2>11, <2>12, <2>13, <2>14, <2>15, <2>16, <2>17, <2>18, <2>19, <2>20, <2>21
    DEF ProcessStep, Administer, Refresh, Bookkeeping
<1>2. ASSUME NEW s \in Sessions, App(s)
      PROVE  SessionIsCurrent' /\ ExistingIsCurrent'
  <2>1. CASE BeginRow(s)
    BY <2>1 DEF BeginRow
  <2>2. CASE GrowRow(s)
    BY <2>2 DEF GrowRow
  <2>3. CASE EndRow(s)
    BY <2>3 DEF EndRow
  <2>4. CASE SplitRow(s)
    BY <2>4 DEF SplitRow
  <2>5. CASE Rewrite(s)
    BY <2>5 DEF Rewrite
  <2>6. QED
    BY <1>2, <2>1, <2>2, <2>3, <2>4, <2>5 DEF App
<1>3. CASE UNCHANGED vars
  BY <1>3 DEF vars, store, disk, locals, observed, notes
<1>4. QED
  BY <1>1, <1>2, <1>3 DEF Next

\* Only /use and /bind store a context, and a removal takes its contexts along.
LEMMA ContextStep ==
    IInv /\ [Next]_vars => ContextExplained'
<1> SUFFICES ASSUME IInv, [Next]_vars
             PROVE  ContextExplained'
  OBVIOUS
<1> USE ConsoleAssumption DEF ConsoleAssumption, IInv, TypeOK, SessionIsCurrent,
  ContextExplained, Goto, Clear, Returns, Bound, Statement, Unobserved, store, disk,
  locals, notes, observed
<1>1. ASSUME NEW p \in Processes, ProcessStep(p)
      PROVE  ContextExplained'
  <2>1. CASE NamedCommand(p)
    BY <2>1 DEF NamedCommand, Command
  <2>2. CASE ActiveCommand(p)
    BY <2>2 DEF ActiveCommand, Command
  <2>3. CASE FindAlias(p)
    BY <2>3 DEF FindAlias
  <2>4. CASE UnknownAlias(p)
    BY <2>4 DEF UnknownAlias
  <2>5. CASE AddAlias(p)
    BY <2>5 DEF AddAlias, SelectExisting
  <2>6. CASE Bind(p)
    BY <2>6 DEF Bind, SelectExisting
  <2>7. CASE AddEnds(p)
    <3>1. pc[p] = "upsert" /\ UpsertAlias(p)
      BY <2>7 DEF AddEnds
    <3>2. QED
      BY <3>1, UpsertFrame
  <2>8. CASE BindEnds(p)
    <3>1. pc[p] = "upsert" /\ UpsertAlias(p)
      BY <2>8 DEF BindEnds
    <3>2. QED
      BY <3>1, UpsertFrame
  <2>9. CASE \E a \in Aliases : RemoveAlias(p, a)
    BY <2>9 DEF RemoveAlias
  <2>10. CASE UseAlias(p)
    BY <2>10 DEF UseAlias
  <2>11. CASE GetOffset(p)
    BY <2>11 DEF GetOffset
  <2>12. CASE ReadNewItems(p)
    BY <2>12 DEF ReadNewItems
  <2>13. CASE ReadTruncated(p)
    BY <2>13 DEF ReadTruncated
  <2>14. CASE ReadUnavailable(p)
    <3>1. ASSUME NEW from, Returns(p, from), UNCHANGED <<store, disk, notes>>
          PROVE  ContextExplained'
      BY <3>1
    <3>2. QED
      BY <2>14, <3>1 DEF ReadUnavailable
  <2>15. CASE ReadRaises(p)
    BY <2>15 DEF ReadRaises
  <2>16. CASE SetOffset(p)
    <3>1. UNCHANGED <<context, dangling>>
      BY <2>16 DEF SetOffset
    <3>2. \A b \in Aliases : row'[b] = Absent <=> row[b] = Absent
      BY <2>16, SetOffsetFrame
    <3>3. QED
      BY <3>1, <3>2
  <2>17. CASE Reply(p)
    BY <2>17 DEF Reply
  <2>18. CASE RecordArtifactRun(p)
    BY <2>18 DEF RecordArtifactRun
  <2>19. CASE RecordArtifact(p)
    BY <2>19 DEF RecordArtifact
  <2>20. CASE DispatchEnds(p)
    <3>1. ASSUME NEW from, Returns(p, from), UNCHANGED <<store, disk, notes>>
          PROVE  ContextExplained'
      BY <3>1
    <3>2. QED
      BY <2>20, <3>1 DEF DispatchEnds
  <2>21. CASE Crash(p)
    BY <2>21 DEF Crash
  <2>22. QED
    BY <1>1, <2>1, <2>2, <2>3, <2>4, <2>5, <2>6, <2>7, <2>8, <2>9, <2>10,
       <2>11, <2>12, <2>13, <2>14, <2>15, <2>16, <2>17, <2>18, <2>19, <2>20, <2>21
    DEF ProcessStep, Administer, Refresh, Bookkeeping
<1>2. ASSUME NEW s \in Sessions, App(s)
      PROVE  ContextExplained'
  <2>1. CASE BeginRow(s)
    BY <2>1 DEF BeginRow
  <2>2. CASE GrowRow(s)
    BY <2>2 DEF GrowRow
  <2>3. CASE EndRow(s)
    BY <2>3 DEF EndRow
  <2>4. CASE SplitRow(s)
    BY <2>4 DEF SplitRow
  <2>5. CASE Rewrite(s)
    BY <2>5 DEF Rewrite
  <2>6. QED
    BY <1>2, <2>1, <2>2, <2>3, <2>4, <2>5 DEF App
<1>3. CASE UNCHANGED vars
  BY <1>3 DEF vars, store, disk, locals, observed, notes
<1>4. QED
  BY <1>1, <1>2, <1>3 DEF Next

\* Artifact rows are written under the session the process has read, and are
\* deleted with the alias and with its session.
LEMMA ArtifactStep ==
    IInv /\ [Next]_vars => ArtifactsFollowAlias'
<1> SUFFICES ASSUME IInv, [Next]_vars
             PROVE  ArtifactsFollowAlias'
  OBVIOUS
<1> USE ConsoleAssumption DEF ConsoleAssumption, IInv, TypeOK, SessionIsCurrent,
  ExistingIsCurrent, ArtifactsFollowAlias, Goto, Clear, Returns, Bound, Statement,
  Unobserved, store, disk, locals, notes, observed
<1>1. ASSUME NEW p \in Processes, ProcessStep(p)
      PROVE  ArtifactsFollowAlias'
  <2>1. CASE NamedCommand(p)
    BY <2>1 DEF NamedCommand, Command
  <2>2. CASE ActiveCommand(p)
    BY <2>2 DEF ActiveCommand, Command
  <2>3. CASE FindAlias(p)
    BY <2>3 DEF FindAlias
  <2>4. CASE UnknownAlias(p)
    BY <2>4 DEF UnknownAlias
  <2>5. CASE AddAlias(p)
    BY <2>5 DEF AddAlias, SelectExisting
  <2>6. CASE Bind(p)
    BY <2>6 DEF Bind, SelectExisting
  <2>7. CASE AddEnds(p)
    <3>1. pc[p] = "upsert" /\ UpsertAlias(p)
      BY <2>7 DEF AddEnds
    <3>2. ASSUME NEW a \in Aliases \ mixed'
          PROVE  files'[a] \subseteq {Bound(a)'} /\ runRow'[a] \in {Bound(a)', Absent}
      <4>1. CASE a # al[p]
        <5>1. a \notin mixed /\ files'[a] = files[a] /\ runRow'[a] = runRow[a]
          BY <3>1, <3>2, <4>1, UpsertArtifacts
        <5>2. row'[a] = row[a]
          BY <3>1, <4>1, UpsertFrame
        <5>3. QED
          BY <5>1, <5>2
      <4>2. CASE a = al[p] /\ ~NewSession(p)
        <5>1. row'[a] # Absent /\ row'[a].session = ses[p] /\ ses[p] \in Sessions
          BY <3>1, <4>2, UpsertFrame
        <5>2. CASE row[a] = Absent
          <6>1. a \notin mixed
            BY <3>1, <3>2, <4>2, UpsertArtifacts
          <6>2. files[a] = {} /\ runRow[a] = Absent
            BY <5>2, <6>1
          <6>3. QED
            BY <3>1, <4>2, <6>2, UpsertArtifacts
        <5>3. CASE row[a] # Absent
          <6>1. row[a].session \in Sessions
            BY <5>3
          <6>2. row[a].session = ses[p]
            BY <3>1, <3>2, <4>2, <5>3, <6>1, UpsertArtifacts DEF NewSession
          <6>3. a \notin mixed
            BY <3>1, <3>2, <4>2, UpsertArtifacts
          <6>4. QED
            BY <3>1, <4>2, <5>1, <5>3, <6>2, <6>3, UpsertArtifacts
        <5>4. QED
          BY <5>2, <5>3
      <4>3. CASE a = al[p] /\ NewSession(p)
        BY <3>1, <4>3, UpsertArtifacts
      <4>4. QED
        BY <4>1, <4>2, <4>3
    <3>3. QED
      BY <3>2
  <2>8. CASE BindEnds(p)
    <3>1. pc[p] = "upsert" /\ UpsertAlias(p)
      BY <2>8 DEF BindEnds
    <3>2. ASSUME NEW a \in Aliases \ mixed'
          PROVE  files'[a] \subseteq {Bound(a)'} /\ runRow'[a] \in {Bound(a)', Absent}
      <4>1. CASE a # al[p]
        <5>1. a \notin mixed /\ files'[a] = files[a] /\ runRow'[a] = runRow[a]
          BY <3>1, <3>2, <4>1, UpsertArtifacts
        <5>2. row'[a] = row[a]
          BY <3>1, <4>1, UpsertFrame
        <5>3. QED
          BY <5>1, <5>2
      <4>2. CASE a = al[p] /\ ~NewSession(p)
        <5>1. row'[a] # Absent /\ row'[a].session = ses[p] /\ ses[p] \in Sessions
          BY <3>1, <4>2, UpsertFrame
        <5>2. CASE row[a] = Absent
          <6>1. a \notin mixed
            BY <3>1, <3>2, <4>2, UpsertArtifacts
          <6>2. files[a] = {} /\ runRow[a] = Absent
            BY <5>2, <6>1
          <6>3. QED
            BY <3>1, <4>2, <6>2, UpsertArtifacts
        <5>3. CASE row[a] # Absent
          <6>1. row[a].session \in Sessions
            BY <5>3
          <6>2. row[a].session = ses[p]
            BY <3>1, <3>2, <4>2, <5>3, <6>1, UpsertArtifacts DEF NewSession
          <6>3. a \notin mixed
            BY <3>1, <3>2, <4>2, UpsertArtifacts
          <6>4. QED
            BY <3>1, <4>2, <5>1, <5>3, <6>2, <6>3, UpsertArtifacts
        <5>4. QED
          BY <5>2, <5>3
      <4>3. CASE a = al[p] /\ NewSession(p)
        BY <3>1, <4>3, UpsertArtifacts
      <4>4. QED
        BY <4>1, <4>2, <4>3
    <3>3. QED
      BY <3>2
  <2>9. CASE \E a \in Aliases : RemoveAlias(p, a)
    BY <2>9 DEF RemoveAlias
  <2>10. CASE UseAlias(p)
    BY <2>10 DEF UseAlias
  <2>11. CASE GetOffset(p)
    BY <2>11 DEF GetOffset
  <2>12. CASE ReadNewItems(p)
    BY <2>12 DEF ReadNewItems
  <2>13. CASE ReadTruncated(p)
    BY <2>13 DEF ReadTruncated
  <2>14. CASE ReadUnavailable(p)
    <3>1. ASSUME NEW from, Returns(p, from), UNCHANGED <<store, disk, notes>>
          PROVE  ArtifactsFollowAlias'
      BY <3>1
    <3>2. QED
      BY <2>14, <3>1 DEF ReadUnavailable
  <2>15. CASE ReadRaises(p)
    BY <2>15 DEF ReadRaises
  <2>16. CASE SetOffset(p)
    <3>1. UNCHANGED <<runRow, files, mixed>>
      BY <2>16 DEF SetOffset
    <3>2. \A b \in Aliases :
             /\ row'[b] = Absent <=> row[b] = Absent
             /\ row[b] # Absent => row'[b].session = row[b].session
      BY <2>16, SetOffsetFrame
    <3>3. QED
      BY <3>1, <3>2
  <2>17. CASE Reply(p)
    BY <2>17 DEF Reply
  <2>18. CASE RecordArtifactRun(p)
    <3>1. UNCHANGED <<row, files>> /\ al[p] \in Aliases
      BY <2>18 DEF RecordArtifactRun
    <3>2. PICK s \in Sessions :
             /\ runRow' = [runRow EXCEPT ![al[p]] = s]
             /\ touched' = IF s # ses[p] THEN touched \cup {p} ELSE touched
      BY <2>18 DEF RecordArtifactRun
    <3>3. mixed \subseteq mixed' /\ (p \in touched' => al[p] \in mixed')
      BY <2>18 DEF RecordArtifactRun
    <3>4. p \notin touched' => row[al[p]] # Absent /\ row[al[p]].session = s
      BY <2>18, <3>2 DEF RecordArtifactRun
    <3>5. QED
      BY <3>1, <3>2, <3>3, <3>4
  <2>19. CASE RecordArtifact(p)
    <3>1. UNCHANGED <<row, runRow>> /\ al[p] \in Aliases
      BY <2>19 DEF RecordArtifact
    <3>2. files' = [files EXCEPT ![al[p]] = files[al[p]] \cup {ses[p]}]
      BY <2>19 DEF RecordArtifact
    <3>3. mixed \subseteq mixed' /\ (p \in touched => al[p] \in mixed')
      BY <2>19 DEF RecordArtifact
    <3>4. p \notin touched => row[al[p]] # Absent /\ row[al[p]].session = ses[p]
      BY <2>19 DEF RecordArtifact
    <3>5. QED
      BY <3>1, <3>2, <3>3, <3>4
  <2>20. CASE DispatchEnds(p)
    <3>1. ASSUME NEW from, Returns(p, from), UNCHANGED <<store, disk, notes>>
          PROVE  ArtifactsFollowAlias'
      BY <3>1
    <3>2. QED
      BY <2>20, <3>1 DEF DispatchEnds
  <2>21. CASE Crash(p)
    BY <2>21 DEF Crash
  <2>22. QED
    BY <1>1, <2>1, <2>2, <2>3, <2>4, <2>5, <2>6, <2>7, <2>8, <2>9, <2>10,
       <2>11, <2>12, <2>13, <2>14, <2>15, <2>16, <2>17, <2>18, <2>19, <2>20, <2>21
    DEF ProcessStep, Administer, Refresh, Bookkeeping
<1>2. ASSUME NEW s \in Sessions, App(s)
      PROVE  ArtifactsFollowAlias'
  <2>1. CASE BeginRow(s)
    BY <2>1 DEF BeginRow
  <2>2. CASE GrowRow(s)
    BY <2>2 DEF GrowRow
  <2>3. CASE EndRow(s)
    BY <2>3 DEF EndRow
  <2>4. CASE SplitRow(s)
    BY <2>4 DEF SplitRow
  <2>5. CASE Rewrite(s)
    BY <2>5 DEF Rewrite
  <2>6. QED
    BY <1>2, <2>1, <2>2, <2>3, <2>4, <2>5 DEF App
<1>3. CASE UNCHANGED vars
  BY <1>3 DEF vars, store, disk, locals, observed, notes
<1>4. QED
  BY <1>1, <1>2, <1>3 DEF Next

-----------------------------------------------------------------------------
(* Offsets and what was shown.                                             *)

CoverInv == StoredIsCovered /\ ReadIsCovered /\ NextIsCovered

\* All but process p keep what they know of a history.
OthersKeep(p) ==
    \A q \in Processes \ {p} :
        /\ pc'[q] = pc[q] /\ al'[q] = al[q] /\ ses'[q] = ses[q]
        /\ off'[q] = off[q] /\ nxt'[q] = nxt[q] /\ showing'[q] = showing[q]
        /\ q \in touched => q \in touched'

\* What is known of process q that is in a /refresh of a history.
ReaderIsCovered(q) ==
    q \notin touched /\ al[q] \notin Excused =>
        /\ pc[q] = "read" => Covered(ses[q], off[q], Seen[al[q]])
        /\ pc[q] = "set" => Covered(ses[q], nxt[q], Seen[al[q]] \cup showing[q])

\* The invariant, process by process.
LEMMA Readers ==
    ReadIsCovered /\ NextIsCovered <=> \A q \in Processes : ReaderIsCovered(q)
  BY Zenon DEF ReadIsCovered, NextIsCovered, ReaderIsCovered

\* The same after a step.
LEMMA ReadersNext ==
    ReadIsCovered' /\ NextIsCovered' <=> \A q \in Processes : ReaderIsCovered(q)'
  BY Zenon DEF ReadIsCovered, NextIsCovered, ReaderIsCovered

\* The histories stay, so does what is finished and what is a message in them.
LEMMA DiskKeeps ==
    ASSUME UNCHANGED <<history, tail>>
    PROVE  Finished' = Finished /\ Texts' = Texts
  BY DEF Finished, Texts, Physical

\* A step of p before its reply keeps what was seen of alias a.
LEMMA SeenKeeps ==
    ASSUME TypeOK, NEW p \in Processes, OthersKeep(p), pc[p] # "reply",
           NEW a \in Aliases, shown'[a] = shown[a],
           \A q \in Processes \ {p} : q \in touched' => q \in touched \/ al[q] # a
    PROVE  Seen[a] \subseteq Seen'[a]
<1> DEFINE Due == {q \in Processes \ touched : pc[q] = "reply" /\ al[q] = a}
           Soon == {q \in Processes \ touched' : pc'[q] = "reply" /\ al'[q] = a}
<1>1. Seen[a] = shown[a] \cup UNION {showing[q] : q \in Due}
  BY DEF Seen
<1>2. Seen'[a] = shown'[a] \cup UNION {showing'[q] : q \in Soon}
  BY DEF Seen
<1>3. \A q \in Due : q \in Soon /\ showing'[q] = showing[q]
  BY DEF OthersKeep
<1> HIDE DEF Due, Soon
<1>4. QED
  BY <1>1, <1>2, <1>3

\* A reader that did not move stays covered.
LEMMA OtherReader ==
    ASSUME IInv, NEW p \in Processes, OthersKeep(p), UNCHANGED <<history, tail>>,
           NEW q \in Processes, q # p,
           q \notin touched' => /\ al[q] \in Excused => al[q] \in Excused'
                                /\ Seen[al[q]] \subseteq Seen'[al[q]]
    PROVE  ReaderIsCovered(q)'
<1>1. ReaderIsCovered(q)
  BY Readers DEF IInv
<1>2. Finished' = Finished /\ Texts' = Texts
  BY DiskKeeps
<1>3. QED
  BY <1>1, <1>2 DEF ReaderIsCovered, Covered, OthersKeep

\* So does an offset that was not written.
LEMMA OtherOffset ==
    ASSUME IInv, UNCHANGED <<history, tail>>, NEW a \in Aliases,
           row[a] # Absent =>
              row'[a].session = row[a].session /\ row'[a].offset = row[a].offset,
           row'[a] # Absent => row[a] # Absent,
           a \in Excused => a \in Excused', Seen[a] \subseteq Seen'[a]
    PROVE  row'[a] # Absent /\ a \notin Excused' =>
              Covered(row[a].session, row[a].offset, Seen[a])'
<1>1. row[a] # Absent /\ a \notin Excused => Covered(row[a].session, row[a].offset, Seen[a])
  BY DEF IInv, StoredIsCovered
<1>2. Finished' = Finished /\ Texts' = Texts
  BY DiskKeeps
<1>3. QED
  BY <1>1, <1>2 DEF Covered

\* A step that neither writes an offset nor reads one nor replies.
LEMMA QuietStep ==
    ASSUME IInv, NEW p \in Processes, OthersKeep(p),
           UNCHANGED <<row, history, tail, shown, raced, cutShort, rewritten>>,
           \/ touched' = touched
           \/ touched' = touched \ {p}
           \/ touched' = touched \cup {p},
           pc[p] # "reply", pc'[p] \notin {"reply", "read", "set"}
    PROVE  CoverInv'
<1>1. TypeOK /\ Excused' = Excused
  BY DEF IInv, Excused
<1>2. \A a \in Aliases : Seen[a] \subseteq Seen'[a]
  BY <1>1, SeenKeeps
<1>3. StoredIsCovered'
  BY <1>1, <1>2, OtherOffset DEF StoredIsCovered
<1>4. ASSUME NEW q \in Processes
      PROVE  ReaderIsCovered(q)'
  <2>1. CASE q = p
    BY <2>1 DEF ReaderIsCovered
  <2>2. CASE q # p /\ al[q] \in Aliases
    BY <1>1, <1>2, <2>2, OtherReader
  <2>3. CASE q # p /\ al[q] \notin Aliases
    BY <1>1, <2>3 DEF TypeOK, OthersKeep, ReaderIsCovered
  <2>4. QED
    BY <2>1, <2>2, <2>3
<1>5. QED
  BY <1>3, <1>4, ReadersNext DEF CoverInv

\* upsert_alias: either it restarts the count, or the alias keeps its session,
\* or the process was touched, which excuses the alias.
LEMMA UpsertCovers ==
    ASSUME IInv, NEW p \in Processes, pc[p] = "upsert", UpsertAlias(p),
           OthersKeep(p), pc'[p] \notin {"reply", "read", "set"}
    PROVE  CoverInv'
<1> DEFINE a == al[p]
<1>1. TypeOK /\ UNCHANGED <<history, tail>> /\ a \in Aliases /\ ses[p] \in Sessions
  BY UpsertFrame DEF IInv
<1>2. /\ \A b \in Aliases \ {a} :
            row'[b] = row[b] /\ shown'[b] = shown[b] /\ (b \in Excused <=> b \in Excused')
      /\ \A q \in Processes : q \in touched' => q \in touched \/ al[q] = a
      /\ p \notin touched'
  BY <1>1, UpsertFrame DEF Excused
<1>3. \A b \in Aliases \ {a} : Seen[b] \subseteq Seen'[b]
  BY <1>1, <1>2, SeenKeeps
<1>4. CASE NewSession(p) \/ row[a] = Absent
  <2>1. /\ row' = [row EXCEPT ![a] = [session |-> ses[p], offset |-> 0]]
        /\ touched' = (touched \cup BusyWith(a)) \ {p}
    BY <1>1, <1>4, UpsertRestarts
  <2>2. row'[a].session = ses[p] /\ row'[a].offset = 0
    BY <1>1, <2>1 DEF TypeOK
  <2>3. Finished' = Finished /\ Finished[ses[p]] \in Nat
    BY <1>1, DiskKeeps DEF Finished, TypeOK
  <2>4. \A b \in Aliases : b = a => Covered(row[b].session, row[b].offset, Seen[b])'
    BY <2>2, <2>3 DEF Covered
  <2>5. StoredIsCovered'
    BY <1>1, <1>2, <1>3, <2>4, OtherOffset DEF StoredIsCovered
  <2>6. ASSUME NEW q \in Processes
        PROVE  ReaderIsCovered(q)'
    <3>1. CASE q = p \/ pc[q] \notin {"read", "set"}
      BY <3>1 DEF ReaderIsCovered, OthersKeep
    <3>2. CASE q # p /\ pc[q] \in {"read", "set"} /\ al[q] = a
      BY <2>1, <3>2 DEF ReaderIsCovered, BusyWith
    <3>3. CASE q # p /\ pc[q] \in {"read", "set"} /\ al[q] # a
      <4>1. al[q] \in Aliases \ {a}
        BY <1>1, <3>3 DEF TypeOK
      <4>2. QED
        BY <1>1, <1>2, <1>3, <3>3, <4>1, OtherReader
    <3>4. QED
      BY <3>1, <3>2, <3>3
  <2>7. QED
    BY <2>5, <2>6, ReadersNext DEF CoverInv
<1>5. CASE ~NewSession(p) /\ row[a] # Absent
  <2>1. /\ row' = [row EXCEPT ![a] = [session |-> ses[p], offset |-> row[a].offset]]
        /\ UNCHANGED <<shown, cutShort, rewritten>>
        /\ raced' = raced \/ raced' = raced \cup {a}
    BY <1>1, <1>5, UpsertKeeps
  <2>2. a \in Excused => a \in Excused'
    BY <2>1 DEF Excused
  <2>3. CASE Bound(a) = ses[p]
    <3>1. touched' = touched \ {p}
      BY <1>1, <1>5, <2>3, UpsertKeeps
    <3>2. row'[a].session = row[a].session /\ row'[a].offset = row[a].offset
      BY <1>1, <1>5, <2>1, <2>3 DEF Bound, TypeOK
    <3>3. Seen[a] \subseteq Seen'[a]
      BY <1>1, <2>1, <3>1, SeenKeeps
    <3>4. StoredIsCovered'
      BY <1>1, <1>2, <1>3, <1>5, <2>2, <3>2, <3>3, OtherOffset DEF StoredIsCovered
    <3>5. ASSUME NEW q \in Processes
          PROVE  ReaderIsCovered(q)'
      <4>1. CASE q = p \/ pc[q] \notin {"read", "set"}
        BY <4>1 DEF ReaderIsCovered, OthersKeep
      <4>2. CASE q # p /\ pc[q] \in {"read", "set"}
        <5>1. al[q] \in Aliases
          BY <1>1, <4>2 DEF TypeOK
        <5>2. QED
          BY <1>1, <1>2, <1>3, <2>2, <3>3, <4>2, <5>1, OtherReader
      <4>3. QED
        BY <4>1, <4>2
    <3>6. QED
      BY <3>4, <3>5, ReadersNext DEF CoverInv
  <2>4. CASE Bound(a) # ses[p]
    <3>1. p \in touched
      <4>1. row[a].session \in Sessions
        BY <1>1, <1>5 DEF TypeOK
      <4>2. QED
        BY <1>1, <1>5, <2>4, <4>1, ConsoleAssumption
        DEF IInv, ExistingIsCurrent, NewSession, Bound, ConsoleAssumption
    <3>2. a \in Excused' /\ touched' = (touched \cup BusyWith(a)) \ {p}
      BY <1>1, <1>5, <2>4, <3>1, UpsertKeeps DEF Excused
    <3>3. StoredIsCovered'
      BY <1>1, <1>2, <1>3, <3>2, OtherOffset DEF StoredIsCovered
    <3>4. ASSUME NEW q \in Processes
          PROVE  ReaderIsCovered(q)'
      <4>1. CASE q = p \/ pc[q] \notin {"read", "set"}
        BY <4>1 DEF ReaderIsCovered, OthersKeep
      <4>2. CASE q # p /\ pc[q] \in {"read", "set"} /\ al[q] = a
        BY <3>2, <4>2 DEF ReaderIsCovered, BusyWith
      <4>3. CASE q # p /\ pc[q] \in {"read", "set"} /\ al[q] # a
        <5>1. al[q] \in Aliases \ {a}
          BY <1>1, <4>3 DEF TypeOK
        <5>2. QED
          BY <1>1, <1>2, <1>3, <4>3, <5>1, OtherReader
      <4>4. QED
        BY <4>1, <4>2, <4>3
    <3>5. QED
      BY <3>3, <3>4, ReadersNext DEF CoverInv
  <2>5. QED
    BY <2>3, <2>4
<1>6. QED
  BY <1>4, <1>5

\* remove_alias touches everyone who works with the alias.
LEMMA RemoveCovers ==
    ASSUME IInv, NEW p \in Processes, NEW a \in Aliases, RemoveAlias(p, a)
    PROVE  CoverInv'
<1>1. /\ TypeOK /\ OthersKeep(p) /\ UNCHANGED <<history, tail, pc, al>> /\ pc[p] = "idle"
      /\ row' = [row EXCEPT ![a] = Absent]
      /\ shown' = [shown EXCEPT ![a] = {}]
      /\ touched' = touched \cup BusyWith(a)
      /\ \A b \in Aliases \ {a} : b \in Excused <=> b \in Excused'
  BY DEF IInv, RemoveAlias, Restarted, OthersKeep, Excused, disk, locals
<1>2. \A b \in Aliases \ {a} : row'[b] = row[b] /\ shown'[b] = shown[b]
  BY <1>1 DEF TypeOK
<1>3. \A b \in Aliases \ {a} : Seen[b] \subseteq Seen'[b]
  BY <1>1, <1>2, SeenKeeps DEF BusyWith
<1>4. row'[a] = Absent
  BY <1>1 DEF TypeOK
<1>5. StoredIsCovered'
  BY <1>1, <1>2, <1>3, <1>4, OtherOffset DEF StoredIsCovered
<1>6. ASSUME NEW q \in Processes
      PROVE  ReaderIsCovered(q)'
  <2>1. CASE pc[q] \notin {"read", "set"}
    BY <1>1, <2>1 DEF ReaderIsCovered
  <2>2. CASE pc[q] \in {"read", "set"} /\ al[q] = a
    BY <1>1, <2>2 DEF ReaderIsCovered, BusyWith
  <2>3. CASE pc[q] \in {"read", "set"} /\ al[q] # a
    <3>1. al[q] \in Aliases \ {a} /\ q # p
      BY <1>1, <2>3 DEF TypeOK
    <3>2. QED
      BY <1>1, <1>2, <1>3, <3>1, OtherReader
  <2>4. QED
    BY <2>1, <2>2, <2>3
<1>7. QED
  BY <1>5, <1>6, ReadersNext DEF CoverInv

\* An offset is read.
LEMMA GetOffsetCovers ==
    ASSUME IInv, NEW p \in Processes, GetOffset(p)
    PROVE  CoverInv'
<1>1. /\ TypeOK /\ OthersKeep(p) /\ pc[p] = "offset" /\ pc' = [pc EXCEPT ![p] = "read"]
      /\ off' = [off EXCEPT ![p] = IF row[al[p]] = Absent THEN 0 ELSE row[al[p]].offset]
      /\ UNCHANGED <<row, history, tail, shown, al, ses, nxt, touched>>
      /\ UNCHANGED <<raced, cutShort, rewritten>>
  BY DEF IInv, TypeOK, GetOffset, Goto, OthersKeep, store, disk, observed, notes
<1>2. UNCHANGED <<Excused, Finished, Texts>>
  BY <1>1, DiskKeeps DEF Excused
<1>3. \A a \in Aliases : Seen[a] \subseteq Seen'[a]
  BY <1>1, SeenKeeps
<1>4. StoredIsCovered'
  BY <1>1, <1>2, <1>3, OtherOffset DEF StoredIsCovered
<1>5. ASSUME NEW q \in Processes
      PROVE  ReaderIsCovered(q)'
  <2>1. CASE q # p /\ al[q] \in Aliases
    BY <1>1, <1>2, <1>3, <2>1, OtherReader
  <2>2. CASE q # p /\ al[q] \notin Aliases
    BY <1>1, <2>2 DEF TypeOK, ReaderIsCovered
  <2>3. CASE q = p
    <3>1. al[p] \in Aliases /\ ses[p] \in Sessions
      BY <1>1 DEF TypeOK
    <3>2. SUFFICES ASSUME p \notin touched, al[p] \notin Excused
                   PROVE  off'[p] <= Finished[ses[p]]
                          /\ Texts[ses[p]] \cap 1..off'[p] \subseteq Seen'[al[p]]
      BY <1>1, <1>2, <2>3 DEF TypeOK, ReaderIsCovered, Covered
    <3>3. row[al[p]] # Absent /\ row[al[p]].session = ses[p]
      BY <1>1, <3>1, <3>2, ConsoleAssumption
      DEF IInv, SessionIsCurrent, Bound, ConsoleAssumption
    <3>4. off'[p] = row[al[p]].offset
      BY <1>1, <3>3 DEF TypeOK
    <3>5. Covered(row[al[p]].session, row[al[p]].offset, Seen[al[p]])
      BY <3>1, <3>2, <3>3 DEF IInv, StoredIsCovered
    <3>6. QED
      BY <1>3, <3>1, <3>3, <3>4, <3>5 DEF Covered
  <2>4. QED
    BY <2>1, <2>2, <2>3
<1>6. QED
  BY <1>4, <1>5, ReadersNext DEF CoverInv

\* The lines after the offset are read.
LEMMA ReadCovers ==
    ASSUME IInv, NEW p \in Processes, ReadNewItems(p)
    PROVE  CoverInv'
<1> DEFINE next == NextLine(ses[p], off[p])
<1>1. /\ TypeOK /\ OthersKeep(p) /\ pc[p] = "read" /\ pc' = [pc EXCEPT ![p] = "set"]
      /\ nxt' = [nxt EXCEPT ![p] = next]
      /\ showing' = [showing EXCEPT ![p] =
             {i \in (off[p] + 1)..next : Physical(ses[p])[i] = "text"}]
      /\ UNCHANGED <<row, history, tail, shown, al, ses, touched>>
      /\ UNCHANGED <<raced, cutShort, rewritten>>
      /\ tail[ses[p]] # "torn" /\ off[p] <= Len(Physical(ses[p]))
  BY DEF IInv, TypeOK, ReadNewItems, Decodable, Goto, OthersKeep, store, disk, observed, notes
<1>2. UNCHANGED <<Excused, Finished, Texts>>
  BY <1>1, DiskKeeps DEF Excused
<1>3. \A a \in Aliases : Seen[a] \subseteq Seen'[a]
  BY <1>1, SeenKeeps
<1>4. StoredIsCovered'
  BY <1>1, <1>2, <1>3, OtherOffset DEF StoredIsCovered
<1>5. ASSUME NEW q \in Processes
      PROVE  ReaderIsCovered(q)'
  <2>1. CASE q # p /\ al[q] \in Aliases
    BY <1>1, <1>2, <1>3, <2>1, OtherReader
  <2>2. CASE q # p /\ al[q] \notin Aliases
    BY <1>1, <2>2 DEF TypeOK, OthersKeep, ReaderIsCovered
  <2>3. CASE q = p
    <3>1. al[p] \in Aliases /\ ses[p] \in Sessions /\ off[p] \in Nat
      BY <1>1, ConsoleAssumption DEF TypeOK, ConsoleAssumption
    <3>2. SUFFICES ASSUME p \notin touched, al[p] \notin Excused
                   PROVE  nxt'[p] <= Finished[ses[p]]
                          /\ Texts[ses[p]] \cap 1..nxt'[p]
                                \subseteq Seen'[al[p]] \cup showing'[p]
      BY <1>1, <1>2, <2>3 DEF TypeOK, ReaderIsCovered, Covered
    <3>3. off[p] <= Finished[ses[p]] /\ Texts[ses[p]] \cap 1..off[p] \subseteq Seen[al[p]]
      BY <1>1, <3>2 DEF IInv, ReadIsCovered, Covered
    <3>4. next \in Nat /\ next <= Finished[ses[p]]
      BY <1>1, <3>1, <3>3, NextLineIsStable, ConsoleAssumption DEF ConsoleAssumption
    <3>5. /\ nxt'[p] = next
          /\ showing'[p] = {i \in (off[p] + 1)..next : Physical(ses[p])[i] = "text"}
      BY <1>1 DEF TypeOK
    <3>6. Texts[ses[p]] = {i \in 1..Len(Physical(ses[p])) : Physical(ses[p])[i] = "text"}
      BY <3>1 DEF Texts
    <3> HIDE DEF next
    <3>7. ASSUME NEW i \in Texts[ses[p]] \cap 1..next
          PROVE  i \in Seen[al[p]] \cup showing'[p]
      BY <3>1, <3>3, <3>4, <3>5, <3>6
    <3>8. QED
      BY <1>3, <3>1, <3>4, <3>5, <3>7
  <2>4. QED
    BY <2>1, <2>2, <2>3
<1>6. QED
  BY <1>4, <1>5, ReadersNext DEF CoverInv

\* The lines of an untouched process are seen from now on.
LEMMA SetCovers ==
    ASSUME IInv, NEW p \in Processes, SetOffset(p)
    PROVE  CoverInv'
<1>1. /\ TypeOK /\ OthersKeep(p) /\ pc[p] = "set" /\ pc' = [pc EXCEPT ![p] = "reply"]
      /\ UNCHANGED <<history, tail, shown, al, ses, nxt, showing, touched>>
      /\ UNCHANGED <<cutShort, rewritten>>
      /\ IF row[al[p]] = Absent THEN raced' = raced
         ELSE raced' = IF p \in touched THEN raced \cup {al[p]} ELSE raced
  BY DEF IInv, TypeOK, SetOffset, Goto, OthersKeep, Unobserved, disk, locals
<1>2. /\ UNCHANGED <<Finished, Texts>> /\ Excused \subseteq Excused'
      /\ row[al[p]] # Absent /\ p \in touched => al[p] \in Excused'
  BY <1>1, DiskKeeps DEF Excused
<1>3. \A a \in Aliases : Seen[a] \subseteq Seen'[a]
  BY <1>1, SeenKeeps
<1>4. /\ al[p] \in Aliases /\ nxt[p] \in 0..(MaxLines + 1)
      /\ \A b \in Aliases \ {al[p]} : row'[b] = row[b]
      /\ row[al[p]] = Absent => row' = row
      /\ row[al[p]] # Absent =>
            /\ row'[al[p]] # Absent
            /\ row'[al[p]].session = row[al[p]].session
            /\ row'[al[p]].offset = nxt[p]
  BY <1>1, SetOffsetFrame
<1>5. ASSUME NEW a \in Aliases, row'[a] # Absent, a \notin Excused'
      PROVE  Covered(row[a].session, row[a].offset, Seen[a])'
  <2>1. CASE a # al[p]
    BY <1>1, <1>2, <1>3, <1>4, <1>5, <2>1, OtherOffset
  <2>2. CASE a = al[p]
    <3>1. row[a] # Absent /\ p \notin touched /\ a \notin Excused
      BY <1>2, <1>4, <1>5, <2>2
    <3>2. row[a].session = ses[p]
      BY <1>1, <2>2, <3>1 DEF IInv, SessionIsCurrent, Bound
    <3>3. nxt[p] <= Finished[ses[p]]
          /\ Texts[ses[p]] \cap 1..nxt[p] \subseteq Seen[a] \cup showing[p]
      BY <1>1, <2>2, <3>1 DEF IInv, NextIsCovered, Covered
    <3>4. showing[p] \subseteq Seen'[a]
      <4>1. p \in {q \in Processes \ touched' : pc'[q] = "reply" /\ al'[q] = a}
        BY <1>1, <2>2, <3>1 DEF TypeOK
      <4>2. showing[p] \in {showing'[r] : r \in
               {q \in Processes \ touched' : pc'[q] = "reply" /\ al'[q] = a}}
        BY <1>1, <4>1
      <4>3. Seen'[a] = shown'[a] \cup UNION {showing'[r] : r \in
               {q \in Processes \ touched' : pc'[q] = "reply" /\ al'[q] = a}}
        BY DEF Seen
      <4>4. QED
        BY <4>2, <4>3
    <3>5. QED
      BY <1>2, <1>3, <1>4, <2>2, <3>1, <3>2, <3>3, <3>4 DEF Covered
  <2>3. QED
    BY <2>1, <2>2
<1>6. ASSUME NEW q \in Processes
      PROVE  ReaderIsCovered(q)'
  <2>1. CASE q # p /\ al[q] \in Aliases
    BY <1>1, <1>2, <1>3, <2>1, OtherReader
  <2>2. CASE q = p \/ al[q] \notin Aliases
    BY <1>1, <2>2 DEF TypeOK, ReaderIsCovered
  <2>3. QED
    BY <2>1, <2>2
<1>7. QED
  BY <1>5, <1>6, ReadersNext DEF CoverInv, StoredIsCovered

\* What was on its way arrives.
LEMMA ReplyCovers ==
    ASSUME IInv, NEW p \in Processes, Reply(p)
    PROVE  CoverInv'
<1>1. /\ TypeOK /\ OthersKeep(p) /\ pc[p] = "reply" /\ pc' = [pc EXCEPT ![p] = "idle"]
      /\ touched' = touched \ {p}
      /\ shown' = IF p \in touched THEN shown
                  ELSE [shown EXCEPT ![al[p]] = @ \cup showing[p]]
      /\ UNCHANGED <<row, history, tail, raced, cutShort, rewritten>>
  BY DEF IInv, TypeOK, Reply, Returns, Goto, Clear, OthersKeep, store, disk
<1>2. UNCHANGED <<Excused, Finished, Texts>>
  BY <1>1, DiskKeeps DEF Excused
<1>3. ASSUME NEW a \in Aliases
      PROVE  Seen[a] \subseteq Seen'[a]
  <2> DEFINE Due == {q \in Processes \ touched : pc[q] = "reply" /\ al[q] = a}
             Soon == {q \in Processes \ touched' : pc'[q] = "reply" /\ al'[q] = a}
  <2>1. Seen[a] = shown[a] \cup UNION {showing[q] : q \in Due}
    BY DEF Seen
  <2>2. Seen'[a] = shown'[a] \cup UNION {showing'[q] : q \in Soon}
    BY DEF Seen
  <2>3. \A q \in Due \ {p} : q \in Soon /\ showing'[q] = showing[q]
    BY <1>1 DEF OthersKeep
  <2>4. shown[a] \subseteq shown'[a] /\ (p \in Due => showing[p] \subseteq shown'[a])
    BY <1>1 DEF TypeOK
  <2> HIDE DEF Due, Soon
  <2>5. QED
    BY <2>1, <2>2, <2>3, <2>4
<1>4. StoredIsCovered'
  BY <1>1, <1>2, <1>3, OtherOffset DEF StoredIsCovered
<1>5. ASSUME NEW q \in Processes
      PROVE  ReaderIsCovered(q)'
  <2>1. CASE q # p /\ al[q] \in Aliases
    BY <1>1, <1>2, <1>3, <2>1, OtherReader
  <2>2. CASE q = p
    BY <1>1, <2>2 DEF TypeOK, ReaderIsCovered
  <2>3. CASE q # p /\ al[q] \notin Aliases
    BY <1>1, <2>3 DEF TypeOK, OthersKeep, ReaderIsCovered
  <2>4. QED
    BY <2>1, <2>2, <2>3
<1>6. QED
  BY <1>4, <1>5, ReadersNext DEF CoverInv

\* A reply that never leaves excuses its alias.
LEMMA CrashCovers ==
    ASSUME IInv, NEW p \in Processes, Crash(p)
    PROVE  CoverInv'
<1>1. /\ TypeOK /\ OthersKeep(p) /\ pc' = [pc EXCEPT ![p] = "idle"]
      /\ touched' = touched \ {p}
      /\ cutShort' = IF pc[p] = "reply" /\ p \notin touched THEN cutShort \cup {al[p]}
                                                             ELSE cutShort
      /\ UNCHANGED <<row, history, tail, shown, raced, rewritten>>
  BY DEF IInv, TypeOK, Crash, Returns, Goto, Clear, OthersKeep, store, disk
<1>2. CASE pc[p] # "reply" \/ p \in touched
  <2>1. UNCHANGED <<Excused, Finished, Texts>>
    BY <1>1, <1>2, DiskKeeps DEF Excused
  <2>2. ASSUME NEW a \in Aliases
        PROVE  Seen[a] \subseteq Seen'[a]
    <3> DEFINE Due == {q \in Processes \ touched : pc[q] = "reply" /\ al[q] = a}
               Soon == {q \in Processes \ touched' : pc'[q] = "reply" /\ al'[q] = a}
    <3>1. Seen[a] = shown[a] \cup UNION {showing[q] : q \in Due}
      BY DEF Seen
    <3>2. Seen'[a] = shown'[a] \cup UNION {showing'[q] : q \in Soon}
      BY DEF Seen
    <3>3. \A q \in Due : q \in Soon /\ showing'[q] = showing[q]
      BY <1>1, <1>2 DEF OthersKeep
    <3> HIDE DEF Due, Soon
    <3>4. QED
      BY <1>1, <3>1, <3>2, <3>3
  <2>3. StoredIsCovered'
    BY <1>1, <2>1, <2>2, OtherOffset DEF StoredIsCovered
  <2>4. ASSUME NEW q \in Processes
        PROVE  ReaderIsCovered(q)'
    <3>1. CASE q # p /\ al[q] \in Aliases
      BY <1>1, <2>1, <2>2, <3>1, OtherReader
    <3>2. CASE q = p
      BY <1>1, <3>2 DEF TypeOK, ReaderIsCovered
    <3>3. CASE q # p /\ al[q] \notin Aliases
      BY <1>1, <3>3 DEF TypeOK, OthersKeep, ReaderIsCovered
    <3>4. QED
      BY <3>1, <3>2, <3>3
  <2>5. QED
    BY <2>3, <2>4, ReadersNext DEF CoverInv
<1>3. CASE pc[p] = "reply" /\ p \notin touched
  <2>1. /\ UNCHANGED <<Finished, Texts>> /\ Excused' = Excused \cup {al[p]}
    BY <1>1, <1>3, DiskKeeps DEF Excused
  <2>2. ASSUME NEW a \in Aliases \ {al[p]}
        PROVE  Seen[a] \subseteq Seen'[a]
    <3> DEFINE Due == {q \in Processes \ touched : pc[q] = "reply" /\ al[q] = a}
               Soon == {q \in Processes \ touched' : pc'[q] = "reply" /\ al'[q] = a}
    <3>1. Seen[a] = shown[a] \cup UNION {showing[q] : q \in Due}
      BY DEF Seen
    <3>2. Seen'[a] = shown'[a] \cup UNION {showing'[q] : q \in Soon}
      BY DEF Seen
    <3>3. \A q \in Due : q \in Soon /\ showing'[q] = showing[q]
      BY <1>1 DEF OthersKeep
    <3> HIDE DEF Due, Soon
    <3>4. QED
      BY <1>1, <3>1, <3>2, <3>3
  <2>3. StoredIsCovered'
    BY <1>1, <2>1, <2>2, OtherOffset DEF StoredIsCovered
  <2>4. ASSUME NEW q \in Processes
        PROVE  ReaderIsCovered(q)'
    <3>1. CASE q # p /\ al[q] \in Aliases \ {al[p]}
      BY <1>1, <2>1, <2>2, <3>1, OtherReader
    <3>2. CASE q = p
      BY <1>1, <3>2 DEF TypeOK, ReaderIsCovered
    <3>3. CASE q # p /\ al[q] \notin Aliases
      BY <1>1, <3>3 DEF TypeOK, OthersKeep, ReaderIsCovered
    <3>4. CASE q # p /\ al[q] = al[p]
      BY <1>1, <2>1, <3>4 DEF OthersKeep, ReaderIsCovered
    <3>5. QED
      BY <3>1, <3>2, <3>3, <3>4
  <2>5. QED
    BY <2>3, <2>4, ReadersNext DEF CoverInv
<1>4. QED
  BY <1>2, <1>3

\* What splitlines() makes of complete lines g and a last row t, and how many
\* of these are written to their end.
Delimited(g, t) == g \o (IF t = "none" THEN <<>> ELSE <<t>>)
Ended(g, t) == Len(g) + IF t \in {"text", "noise"} THEN 1 ELSE 0

\* Finished lines and messages do not go away when lines are added.
LEMMA LinesStay ==
    ASSUME NEW g \in Seq(Lines), NEW t \in Tails, NEW h \in Seq(Lines), NEW u \in Tails,
           \/ h = g /\ (t = u \/ t \notin {"text", "noise", "rest"})
           \/ t \in {"text", "noise"} /\ h = Append(g, t)
           \/ t \notin {"text", "noise"} /\ \E e \in Lines : h = Append(g, e)
    PROVE  /\ Ended(g, t) \in Nat /\ Ended(h, u) \in Nat /\ Ended(g, t) <= Ended(h, u)
           /\ Len(Delimited(g, t)) \in Nat /\ Len(Delimited(h, u)) \in Nat
           /\ \A i \in 1..Len(Delimited(h, u)) :
                 i <= Ended(g, t) =>
                    /\ i <= Len(Delimited(g, t))
                    /\ Delimited(h, u)[i] = Delimited(g, t)[i]
<1> DEFINE before == Delimited(g, t)
           after  == Delimited(h, u)
<1>1. /\ Len(before) = Len(g) + IF t = "none" THEN 0 ELSE 1
      /\ \A i \in 1..Len(g) : before[i] = g[i]
      /\ t # "none" => before[Len(g) + 1] = t
  BY DEF Delimited
<1>2. /\ Len(after) = Len(h) + IF u = "none" THEN 0 ELSE 1
      /\ \A i \in 1..Len(h) : after[i] = h[i]
      /\ u # "none" => after[Len(h) + 1] = u
  BY DEF Delimited
<1>3. Len(g) \in Nat /\ Len(h) \in Nat
  OBVIOUS
<1>4. /\ Ended(g, t) \in Nat /\ Ended(h, u) \in Nat
      /\ Len(before) \in Nat /\ Len(after) \in Nat
  BY <1>1, <1>2, <1>3 DEF Ended
<1>5. CASE h = g /\ (t = u \/ t \notin {"text", "noise", "rest"})
  <2> HIDE DEF before, after
  <2>1. Ended(g, t) <= Ended(h, u)
    BY <1>3, <1>5 DEF Ended
  <2>2. \A i \in 1..Len(after) : i <= Ended(g, t) => i <= Len(before) /\ after[i] = before[i]
    <3>1. CASE t = u
      BY <1>5, <3>1 DEF before, after, Ended, Delimited
    <3>2. CASE t \notin {"text", "noise", "rest"}
      BY <1>1, <1>2, <1>3, <1>5, <3>2 DEF Ended
    <3>3. QED
      BY <1>5, <3>1, <3>2
  <2>3. QED
    BY <1>1, <1>2, <1>3, <2>1, <2>2, <1>4 DEF before, after
<1>6. CASE ~(h = g /\ (t = u \/ t \notin {"text", "noise", "rest"}))
  <2>1. PICK e \in Lines : h = Append(g, e) /\ (t \in {"text", "noise"} => e = t)
    BY <1>6 DEF Lines
  <2>2. Len(h) = Len(g) + 1 /\ h[Len(g) + 1] = e /\ \A i \in 1..Len(g) : h[i] = g[i]
    BY <2>1
  <2> HIDE DEF before, after
  <2>3. Ended(g, t) <= Ended(h, u)
    BY <1>3, <2>1, <2>2 DEF Ended
  <2>4. \A i \in 1..Len(after) : i <= Ended(g, t) => i <= Len(before) /\ after[i] = before[i]
    BY <1>1, <1>2, <1>3, <2>1, <2>2 DEF Ended
  <2>5. QED
    BY <1>1, <1>2, <1>3, <2>3, <2>4, <1>4 DEF before, after
<1>7. QED
  BY <1>5, <1>6

\* So a row that is written keeps them.
LEMMA HistoryGrows ==
    ASSUME TypeOK, TypeOK', NEW r \in Sessions,
           BeginRow(r) \/ GrowRow(r) \/ EndRow(r) \/ SplitRow(r),
           NEW s \in Sessions
    PROVE  /\ Finished[s] \in Nat /\ Finished'[s] \in Nat /\ Finished[s] <= Finished'[s]
           /\ Texts'[s] \cap 1..Finished[s] \subseteq Texts[s]
<1> DEFINE g == history[s]
           t == tail[s]
           h == history'[s]
           u == tail'[s]
<1>1. g \in Seq(Lines) /\ t \in Tails /\ h \in Seq(Lines) /\ u \in Tails
  BY DEF TypeOK
<1>2. \/ h = g /\ (t = u \/ t \notin {"text", "noise", "rest"})
      \/ t \in {"text", "noise"} /\ h = Append(g, t)
      \/ t \notin {"text", "noise"} /\ \E e \in Lines : h = Append(g, e)
  BY DEF TypeOK, Lines, BeginRow, GrowRow, EndRow, SplitRow, Unfinished
<1>3. /\ Finished[s] = Ended(g, t) /\ Finished'[s] = Ended(h, u)
      /\ Texts[s] = {i \in 1..Len(Delimited(g, t)) : Delimited(g, t)[i] = "text"}
      /\ Texts'[s] = {i \in 1..Len(Delimited(h, u)) : Delimited(h, u)[i] = "text"}
  BY DEF Finished, Ended, Texts, Physical, Delimited
<1> HIDE DEF g, t, h, u
<1>4. /\ Ended(g, t) \in Nat /\ Ended(h, u) \in Nat /\ Ended(g, t) <= Ended(h, u)
      /\ Len(Delimited(g, t)) \in Nat /\ Len(Delimited(h, u)) \in Nat
      /\ \A i \in 1..Len(Delimited(h, u)) :
            i <= Ended(g, t) =>
               /\ i <= Len(Delimited(g, t))
               /\ Delimited(h, u)[i] = Delimited(g, t)[i]
  BY <1>1, <1>2, LinesStay
<1>5. QED
  BY <1>3, <1>4

\* The Codex App writes rows; a history that shrinks excuses its aliases.
LEMMA AppCovers ==
    ASSUME IInv, NEW s \in Sessions, App(s)
    PROVE  CoverInv'
<1>1. /\ TypeOK /\ TypeOK'
      /\ UNCHANGED <<row, pc, al, ses, off, nxt, showing, shown, touched, raced, cutShort>>
  <2>1. TypeOK'
    BY TypeStep DEF Next
  <2>2. QED
    BY <2>1
    DEF IInv, App, BeginRow, GrowRow, EndRow, SplitRow, Rewrite, store, locals, observed, notes
<1>2. Seen' = Seen
  BY <1>1 DEF Seen
<1>3. CASE BeginRow(s) \/ GrowRow(s) \/ EndRow(s) \/ SplitRow(s)
  <2>1. Excused' = Excused
    BY <1>1, <1>3 DEF Excused, BeginRow, GrowRow, EndRow, SplitRow, observed, notes
  <2>2. ASSUME NEW t \in Sessions, NEW n \in Nat, NEW seen, Covered(t, n, seen)
        PROVE  n <= Finished'[t] /\ Texts'[t] \cap 1..n \subseteq seen
    BY <1>1, <1>3, <2>2, HistoryGrows DEF Covered
  <2>3. StoredIsCovered'
    <3>1. ASSUME NEW a \in Aliases, row[a] # Absent, a \notin Excused
          PROVE  /\ row[a].offset <= Finished'[row[a].session]
                 /\ Texts'[row[a].session] \cap 1..row[a].offset \subseteq Seen[a]
      <4>1. row[a].session \in Sessions /\ row[a].offset \in Nat
        BY <1>1, <3>1, ConsoleAssumption DEF TypeOK, ConsoleAssumption
      <4>2. Covered(row[a].session, row[a].offset, Seen[a])
        BY <3>1 DEF IInv, StoredIsCovered
      <4>3. QED
        BY <2>2, <4>1, <4>2
    <3>2. QED
      BY <1>1, <1>2, <2>1, <3>1 DEF StoredIsCovered, Covered
  <2>4. ASSUME NEW q \in Processes
        PROVE  ReaderIsCovered(q)'
    <3>1. ReaderIsCovered(q)
      BY Readers DEF IInv
    <3>2. off[q] \in Nat /\ nxt[q] \in Nat /\ (pc[q] \in {"read", "set"} => ses[q] \in Sessions)
      <4>1. off[q] \in 0..(MaxLines + 1) /\ nxt[q] \in 0..(MaxLines + 1)
        BY <1>1 DEF TypeOK
      <4>2. pc[q] \in {"read", "set"} => ses[q] \in Sessions
        BY <1>1 DEF TypeOK
      <4>3. QED
        BY <4>1, <4>2, ConsoleAssumption DEF ConsoleAssumption
    <3>3. QED
      BY <1>1, <1>2, <2>1, <2>2, <3>1, <3>2 DEF ReaderIsCovered, Covered
  <2>5. QED
    BY <2>3, <2>4, ReadersNext DEF CoverInv
<1>4. CASE Rewrite(s)
  <2>1. /\ \A t \in Sessions \ {s} : history'[t] = history[t] /\ tail'[t] = tail[t]
        /\ rewritten' = rewritten \cup {a \in Aliases : Bound(a) = s}
    BY <1>1, <1>4 DEF Rewrite, TypeOK
  <2>2. \A t \in Sessions \ {s} : Finished'[t] = Finished[t] /\ Texts'[t] = Texts[t]
    BY <2>1 DEF Finished, Texts, Physical
  <2>3. Excused \subseteq Excused' /\ \A a \in Aliases : Bound(a) = s => a \in Excused'
    BY <1>1, <2>1 DEF Excused
  <2>4. StoredIsCovered'
    <3>1. ASSUME NEW a \in Aliases, row[a] # Absent, a \notin Excused'
          PROVE  /\ row[a].offset <= Finished'[row[a].session]
                 /\ Texts'[row[a].session] \cap 1..row[a].offset \subseteq Seen[a]
      <4>1. row[a].session \in Sessions \ {s}
        BY <1>1, <2>3, <3>1 DEF TypeOK, Bound
      <4>2. Covered(row[a].session, row[a].offset, Seen[a])
        BY <2>3, <3>1 DEF IInv, StoredIsCovered
      <4>3. QED
        BY <2>2, <4>1, <4>2 DEF Covered
    <3>2. QED
      BY <1>1, <1>2, <3>1 DEF StoredIsCovered, Covered
  <2>5. ASSUME NEW q \in Processes
        PROVE  ReaderIsCovered(q)'
    <3>1. ReaderIsCovered(q)
      BY Readers DEF IInv
    <3>2. SUFFICES ASSUME q \notin touched, al[q] \notin Excused', pc[q] \in {"read", "set"}
                   PROVE  ReaderIsCovered(q)'
      BY <1>1 DEF ReaderIsCovered
    <3>3. ses[q] \in Sessions /\ al[q] \in Aliases /\ Bound(al[q]) = ses[q]
      BY <1>1, <3>2 DEF TypeOK, IInv, SessionIsCurrent
    <3>4. ses[q] \in Sessions \ {s}
      BY <2>3, <3>2, <3>3
    <3>5. QED
      BY <1>1, <1>2, <2>2, <2>3, <3>1, <3>2, <3>4 DEF ReaderIsCovered, Covered
  <2>6. QED
    BY <2>4, <2>5, ReadersNext DEF CoverInv
<1>5. QED
  BY <1>3, <1>4 DEF App

\* What /refresh has stored, read or is about to store counts finished lines
\* only, and the messages among them are seen.
LEMMA CoverStep ==
    IInv /\ [Next]_vars => CoverInv'
<1> SUFFICES ASSUME IInv, [Next]_vars
             PROVE  CoverInv'
  OBVIOUS
<1> USE DEF Goto, Clear, Returns, Statement, Unobserved, store, disk, locals, notes, observed
<1>0. /\ TypeOK /\ pc \in [Processes -> Locations]
      /\ \A q \in Processes : pc[q] = "find" => op[q] \in {"refresh", "use", "dispatch"}
  BY DEF IInv, TypeOK
<1>1. ASSUME NEW p \in Processes, ProcessStep(p)
      PROVE  CoverInv'
  <2>1. CASE NamedCommand(p)
    <3>1. pc[p] # "reply" /\ pc'[p] \notin {"reply", "read", "set"}
      BY <2>1, <1>0 DEF NamedCommand, Command
    <3>2. /\ UNCHANGED <<row, history, tail, shown, raced, cutShort, rewritten>>
          /\ touched' = touched \/ touched' = touched \ {p}
      BY <2>1 DEF NamedCommand, Command
    <3>3. OthersKeep(p)
      BY <2>1, <3>2 DEF NamedCommand, Command, OthersKeep
    <3>4. QED
      BY <3>1, <3>2, <3>3, QuietStep
  <2>2. CASE ActiveCommand(p)
    <3>1. pc[p] # "reply" /\ pc'[p] \notin {"reply", "read", "set"}
      BY <2>2, <1>0 DEF ActiveCommand, Command
    <3>2. /\ UNCHANGED <<row, history, tail, shown, raced, cutShort, rewritten>>
          /\ touched' = touched \/ touched' = touched \ {p}
      BY <2>2 DEF ActiveCommand, Command
    <3>3. OthersKeep(p)
      BY <2>2, <3>2 DEF ActiveCommand, Command, OthersKeep
    <3>4. QED
      BY <3>1, <3>2, <3>3, QuietStep
  <2>3. CASE FindAlias(p)
    <3>1. pc[p] # "reply" /\ pc'[p] \notin {"reply", "read", "set"}
      BY <2>3, <1>0 DEF FindAlias
    <3>2. /\ UNCHANGED <<row, history, tail, shown, raced, cutShort, rewritten>>
          /\ touched' = touched \/ touched' = touched \ {p}
      BY <2>3 DEF FindAlias
    <3>3. OthersKeep(p)
      BY <2>3, <3>2 DEF FindAlias, OthersKeep
    <3>4. QED
      BY <3>1, <3>2, <3>3, QuietStep
  <2>4. CASE UnknownAlias(p)
    <3>1. pc[p] # "reply" /\ pc'[p] \notin {"reply", "read", "set"}
      BY <2>4, <1>0 DEF UnknownAlias
    <3>2. /\ UNCHANGED <<row, history, tail, shown, raced, cutShort, rewritten>>
          /\ touched' = touched \/ touched' = touched \ {p}
      BY <2>4 DEF UnknownAlias
    <3>3. OthersKeep(p)
      BY <2>4, <3>2 DEF UnknownAlias, OthersKeep
    <3>4. QED
      BY <3>1, <3>2, <3>3, QuietStep
  <2>5. CASE AddAlias(p)
    <3>1. pc[p] # "reply" /\ pc'[p] \notin {"reply", "read", "set"}
      BY <2>5, <1>0 DEF AddAlias, SelectExisting
    <3>2. /\ UNCHANGED <<row, history, tail, shown, raced, cutShort, rewritten>>
          /\ touched' = touched \/ touched' = touched \ {p}
      BY <2>5 DEF AddAlias, SelectExisting
    <3>3. OthersKeep(p)
      BY <2>5, <3>2 DEF AddAlias, SelectExisting, OthersKeep
    <3>4. QED
      BY <3>1, <3>2, <3>3, QuietStep
  <2>6. CASE Bind(p)
    <3>1. pc[p] # "reply" /\ pc'[p] \notin {"reply", "read", "set"}
      BY <2>6, <1>0 DEF Bind, SelectExisting
    <3>2. /\ UNCHANGED <<row, history, tail, shown, raced, cutShort, rewritten>>
          /\ touched' = touched \/ touched' = touched \ {p}
      BY <2>6 DEF Bind, SelectExisting
    <3>3. OthersKeep(p)
      BY <2>6, <3>2 DEF Bind, SelectExisting, OthersKeep
    <3>4. QED
      BY <3>1, <3>2, <3>3, QuietStep
  <2>7. CASE AddEnds(p)
    <3>1. pc[p] = "upsert" /\ UpsertAlias(p) /\ pc'[p] \in {"idle", "use"}
      BY <2>7, <1>0 DEF AddEnds
    <3>2. OthersKeep(p)
      BY <2>7, <1>0, <3>1, UpsertFrame DEF AddEnds, OthersKeep
    <3>3. QED
      BY <3>1, <3>2, UpsertCovers
  <2>8. CASE BindEnds(p)
    <3>1. pc[p] = "upsert" /\ UpsertAlias(p) /\ pc'[p] \in {"idle", "use"}
      BY <2>8, <1>0 DEF BindEnds
    <3>2. OthersKeep(p)
      BY <2>8, <1>0, <3>1, UpsertFrame DEF BindEnds, OthersKeep
    <3>3. QED
      BY <3>1, <3>2, UpsertCovers
  <2>9. CASE \E a \in Aliases : RemoveAlias(p, a)
    BY <2>9, RemoveCovers
  <2>10. CASE UseAlias(p)
    <3>1. pc[p] # "reply" /\ pc'[p] \notin {"reply", "read", "set"}
      BY <2>10, <1>0 DEF UseAlias
    <3>2. /\ UNCHANGED <<row, history, tail, shown, raced, cutShort, rewritten>>
          /\ touched' = touched \/ touched' = touched \ {p}
      BY <2>10 DEF UseAlias
    <3>3. OthersKeep(p)
      BY <2>10, <3>2 DEF UseAlias, OthersKeep
    <3>4. QED
      BY <3>1, <3>2, <3>3, QuietStep
  <2>11. CASE GetOffset(p)
    BY <2>11, GetOffsetCovers
  <2>12. CASE ReadNewItems(p)
    BY <2>12, ReadCovers
  <2>13. CASE ReadTruncated(p)
    <3>1. pc[p] # "reply" /\ pc'[p] \notin {"reply", "read", "set"}
      BY <2>13, <1>0 DEF ReadTruncated
    <3>2. /\ UNCHANGED <<row, history, tail, shown, raced, cutShort, rewritten>>
          /\ touched' = touched \/ touched' = touched \ {p}
      BY <2>13 DEF ReadTruncated
    <3>3. OthersKeep(p)
      BY <2>13, <3>2 DEF ReadTruncated, OthersKeep
    <3>4. QED
      BY <3>1, <3>2, <3>3, QuietStep
  <2>14. CASE ReadUnavailable(p)
    <3>1. ASSUME NEW from, from # "reply", Returns(p, from), UNCHANGED <<store, disk, notes>>
          PROVE  CoverInv'
      <4>1. pc[p] # "reply" /\ pc'[p] = "idle"
        BY <1>0, <3>1
      <4>2. /\ UNCHANGED <<row, history, tail, shown, raced, cutShort, rewritten>>
            /\ touched' = touched \ {p}
        BY <3>1
      <4>3. OthersKeep(p)
        BY <3>1, <4>2 DEF OthersKeep
      <4>4. QED
        BY <4>1, <4>2, <4>3, QuietStep
    <3>2. QED
      BY <2>14, <3>1 DEF ReadUnavailable
  <2>15. CASE ReadRaises(p)
    <3>1. pc[p] # "reply" /\ pc'[p] \notin {"reply", "read", "set"}
      BY <2>15, <1>0 DEF ReadRaises
    <3>2. /\ UNCHANGED <<row, history, tail, shown, raced, cutShort, rewritten>>
          /\ touched' = touched \/ touched' = touched \ {p}
      BY <2>15 DEF ReadRaises
    <3>3. OthersKeep(p)
      BY <2>15, <3>2 DEF ReadRaises, OthersKeep
    <3>4. QED
      BY <3>1, <3>2, <3>3, QuietStep
  <2>16. CASE SetOffset(p)
    BY <2>16, SetCovers
  <2>17. CASE Reply(p)
    BY <2>17, ReplyCovers
  <2>18. CASE RecordArtifactRun(p)
    <3>1. pc[p] # "reply" /\ pc'[p] \notin {"reply", "read", "set"}
      BY <2>18, <1>0 DEF RecordArtifactRun
    <3>2. /\ UNCHANGED <<row, history, tail, shown, raced, cutShort, rewritten>>
          /\ touched' = touched \/ touched' = touched \cup {p}
      BY <2>18 DEF RecordArtifactRun
    <3>3. OthersKeep(p)
      BY <2>18, <3>2 DEF RecordArtifactRun, OthersKeep
    <3>4. QED
      BY <3>1, <3>2, <3>3, QuietStep
  <2>19. CASE RecordArtifact(p)
    <3>1. pc[p] # "reply" /\ pc'[p] \notin {"reply", "read", "set"}
      BY <2>19, <1>0 DEF RecordArtifact
    <3>2. /\ UNCHANGED <<row, history, tail, shown, raced, cutShort, rewritten>>
          /\ touched' = touched \/ touched' = touched \ {p}
      BY <2>19 DEF RecordArtifact
    <3>3. OthersKeep(p)
      BY <2>19, <3>2 DEF RecordArtifact, OthersKeep
    <3>4. QED
      BY <3>1, <3>2, <3>3, QuietStep
  <2>20. CASE DispatchEnds(p)
    <3>1. ASSUME NEW from, from # "reply", Returns(p, from), UNCHANGED <<store, disk, notes>>
          PROVE  CoverInv'
      <4>1. pc[p] # "reply" /\ pc'[p] = "idle"
        BY <1>0, <3>1
      <4>2. /\ UNCHANGED <<row, history, tail, shown, raced, cutShort, rewritten>>
            /\ touched' = touched \ {p}
        BY <3>1
      <4>3. OthersKeep(p)
        BY <3>1, <4>2 DEF OthersKeep
      <4>4. QED
        BY <4>1, <4>2, <4>3, QuietStep
    <3>2. QED
      BY <2>20, <3>1 DEF DispatchEnds
  <2>21. CASE Crash(p)
    BY <2>21, CrashCovers
  <2>22. QED
    BY <1>1, <2>1, <2>2, <2>3, <2>4, <2>5, <2>6, <2>7, <2>8, <2>9, <2>10,
       <2>11, <2>12, <2>13, <2>14, <2>15, <2>16, <2>17, <2>18, <2>19, <2>20, <2>21
    DEF ProcessStep, Administer, Refresh, Bookkeeping
<1>2. ASSUME NEW s \in Sessions, App(s)
      PROVE  CoverInv'
  BY <1>2, AppCovers
<1>3. CASE UNCHANGED vars
  <2>1. UNCHANGED <<row, pc, al, ses, off, nxt, showing, shown, touched, raced, cutShort,
                    rewritten, history, tail>>
    BY <1>3 DEF vars
  <2>2. UNCHANGED <<Finished, Texts, Excused, Seen>>
    BY <2>1, DiskKeeps DEF Excused, Seen
  <2>3. QED
    BY <2>1, <2>2
    DEF IInv, CoverInv, StoredIsCovered, ReadIsCovered, NextIsCovered, Covered
<1>4. QED
  BY <1>1, <1>2, <1>3 DEF Next

-----------------------------------------------------------------------------
(* What was shown is not shown again.                                      *)

\* The stored offset; a row that is inserted has offset 0.
Count(a) == IF row[a] = Absent THEN 0 ELSE row[a].offset

\* What was shown under alias a, or is on its way, is counted, and each line of
\* it is in one reply.
OnceFor(a) ==
    /\ shown[a] \subseteq 1..Count(a)
    /\ \A q \in Processes :
          Shows(q, a) => showing[q] \subseteq 1..Count(a) /\ showing[q] \cap shown[a] = {}
    /\ \A q, r \in Processes :
          Shows(q, a) /\ Shows(r, a) /\ q # r => showing[q] \cap showing[r] = {}

OnceInv == \A a \in Aliases \ crossed : OnceFor(a)

\* The invariant, alias by alias.
LEMMA Once ==
    SeenIsCounted /\ RepeatExplained <=> OnceInv
<1>1. ASSUME NEW a \in Aliases
      PROVE  Seen[a] \subseteq 1..Count(a) <=>
                /\ shown[a] \subseteq 1..Count(a)
                /\ \A q \in Processes : Shows(q, a) => showing[q] \subseteq 1..Count(a)
  <2> DEFINE Due == {q \in Processes \ touched : pc[q] = "reply" /\ al[q] = a}
  <2>1. Seen[a] = shown[a] \cup UNION {showing[q] : q \in Due}
    BY DEF Seen
  <2>2. \A q \in Processes : q \in Due <=> Shows(q, a)
    BY DEF Shows
  <2>3. Due \subseteq Processes
    OBVIOUS
  <2> HIDE DEF Due
  <2>4. QED
    BY <2>1, <2>2, <2>3
<1>2. SeenIsCounted <=> \A a \in Aliases \ crossed : Seen[a] \subseteq 1..Count(a)
  BY DEF SeenIsCounted, Count
<1>3. QED
  BY <1>1, <1>2 DEF RepeatExplained, OnceInv, OnceFor

\* The same after a step.
LEMMA OnceNext ==
    OnceInv' => SeenIsCounted' /\ RepeatExplained'
<1>1. ASSUME NEW a \in Aliases
      PROVE  Seen'[a] \subseteq 1..Count(a)' <=>
                /\ shown'[a] \subseteq 1..Count(a)'
                /\ \A q \in Processes : Shows(q, a)' => showing'[q] \subseteq 1..Count(a)'
  <2> DEFINE Soon == {q \in Processes \ touched' : pc'[q] = "reply" /\ al'[q] = a}
  <2>1. Seen'[a] = shown'[a] \cup UNION {showing'[q] : q \in Soon}
    BY DEF Seen
  <2>2. \A q \in Processes : q \in Soon <=> Shows(q, a)'
    BY DEF Shows
  <2>3. Soon \subseteq Processes
    OBVIOUS
  <2> HIDE DEF Soon
  <2>4. QED
    BY <2>1, <2>2, <2>3
<1>2. SeenIsCounted' <=> \A a \in Aliases \ crossed' : Seen'[a] \subseteq 1..Count(a)'
  BY DEF SeenIsCounted, Count
<1>3. QED
  BY <1>1, <1>2 DEF RepeatExplained, OnceInv, OnceFor

\* A process changes no other one's locals.
LEMMA OthersStep ==
    ASSUME IInv, NEW p \in Processes, ProcessStep(p)
    PROVE  OthersKeep(p)
<1> USE DEF Goto, Clear, Returns, locals, observed, OthersKeep
<1>1. TypeOK
  BY DEF IInv
<1>2. CASE NamedCommand(p)
  BY <1>1, <1>2 DEF NamedCommand, Command
<1>3. CASE ActiveCommand(p)
  BY <1>1, <1>3 DEF ActiveCommand, Command
<1>4. CASE FindAlias(p)
  BY <1>1, <1>4 DEF FindAlias
<1>5. CASE UnknownAlias(p)
  BY <1>1, <1>5 DEF UnknownAlias
<1>6. CASE AddAlias(p)
  BY <1>1, <1>6 DEF AddAlias, SelectExisting
<1>7. CASE Bind(p)
  BY <1>1, <1>7 DEF Bind, SelectExisting
<1>8. CASE UseAlias(p)
  BY <1>1, <1>8 DEF UseAlias
<1>9. CASE AddEnds(p)
  BY <1>1, <1>9, UpsertFrame DEF AddEnds
<1>10. CASE BindEnds(p)
  BY <1>1, <1>10, UpsertFrame DEF BindEnds
<1>11. CASE \E a \in Aliases : RemoveAlias(p, a)
  BY <1>1, <1>11 DEF RemoveAlias
<1>12. CASE GetOffset(p)
  BY <1>1, <1>12 DEF GetOffset
<1>13. CASE ReadNewItems(p)
  BY <1>1, <1>13 DEF ReadNewItems
<1>14. CASE ReadTruncated(p)
  BY <1>1, <1>14 DEF ReadTruncated
<1>15. CASE ReadUnavailable(p)
  <2>1. ASSUME NEW from, Returns(p, from)
        PROVE  OthersKeep(p)
    BY <2>1
  <2>2. QED
    BY <1>15, <2>1 DEF ReadUnavailable
<1>16. CASE ReadRaises(p)
  BY <1>1, <1>16 DEF ReadRaises
<1>17. CASE SetOffset(p)
  BY <1>1, <1>17 DEF SetOffset
<1>18. CASE Reply(p)
  BY <1>1, <1>18 DEF Reply
<1>19. CASE RecordArtifactRun(p)
  BY <1>1, <1>19 DEF RecordArtifactRun
<1>20. CASE RecordArtifact(p)
  BY <1>1, <1>20 DEF RecordArtifact
<1>21. CASE DispatchEnds(p)
  <2>1. ASSUME NEW from, Returns(p, from)
        PROVE  OthersKeep(p)
    BY <2>1
  <2>2. QED
    BY <1>21, <2>1 DEF DispatchEnds
<1>22. CASE Crash(p)
  BY <1>1, <1>22 DEF Crash
<1>23. QED
  BY <1>2, <1>3, <1>4, <1>5, <1>6, <1>7, <1>8, <1>9, <1>10, <1>11, <1>12,
     <1>13, <1>14, <1>15, <1>16, <1>17, <1>18, <1>19, <1>20, <1>21, <1>22
  DEF ProcessStep, Administer, Refresh, Bookkeeping

\* Nothing new is shown or on its way, and the offset does not go back.
LEMMA OnceKeeps ==
    ASSUME IInv, NEW a \in Aliases \ crossed, shown'[a] = shown[a],
           1..Count(a) \subseteq 1..Count(a)',
           \A q \in Processes : Shows(q, a)' => Shows(q, a) /\ showing'[q] = showing[q]
    PROVE  OnceFor(a)'
<1>1. OnceFor(a)
  BY Once DEF IInv, OnceInv
<1>2. QED
  BY <1>1 DEF OnceFor

\* So it is for every alias when p brings no reply and no row is written.
LEMMA OnceQuiet ==
    ASSUME IInv, NEW p \in Processes, OthersKeep(p),
           UNCHANGED <<row, shown, crossed>>, pc'[p] # "reply"
    PROVE  OnceInv'
<1>1. \A a \in Aliases, q \in Processes : Shows(q, a)' => Shows(q, a) /\ showing'[q] = showing[q]
  BY DEF OthersKeep, Shows
<1>2. \A a \in Aliases : Count(a)' = Count(a)
  BY DEF Count
<1>3. QED
  BY <1>1, <1>2, OnceKeeps DEF OnceInv

\* The replies on their way under an alias that begins anew do not count.
LEMMA OnceRestarts ==
    ASSUME NEW a \in Aliases, shown'[a] = {}, \A q \in Processes : ~Shows(q, a)'
    PROVE  OnceFor(a)'
  BY DEF OnceFor

\* upsert_alias and remove_alias.
LEMMA OnceUpsert ==
    ASSUME IInv, NEW p \in Processes, pc[p] = "upsert", UpsertAlias(p),
           OthersKeep(p), pc'[p] # "reply", NEW a \in Aliases, a = al[p]
    PROVE  OnceInv'
<1>1. TypeOK
  BY DEF IInv
<1>2. \A b \in Aliases, q \in Processes : Shows(q, b)' => Shows(q, b) /\ showing'[q] = showing[q]
  BY DEF OthersKeep, Shows
<1>3. ASSUME NEW b \in Aliases \ {a}, b \notin crossed'
      PROVE  OnceFor(b)'
  <2>1. b \notin crossed /\ shown'[b] = shown[b] /\ Count(b)' = Count(b)
    BY <1>1, <1>3, UpsertFrame DEF Count
  <2>2. QED
    BY <1>2, <2>1, OnceKeeps
<1>4. CASE NewSession(p) \/ row[a] = Absent
  <2>1. shown' = [shown EXCEPT ![a] = {}] /\ touched' = (touched \cup BusyWith(a)) \ {p}
    BY <1>1, <1>4, UpsertRestarts
  <2>2. shown'[a] = {}
    BY <1>1, <2>1 DEF TypeOK
  <2>3. \A q \in Processes : ~Shows(q, a)'
    BY <2>1 DEF OthersKeep, Shows, BusyWith
  <2>4. QED
    BY <1>1, <1>3, <2>2, <2>3, OnceRestarts DEF OnceInv
<1>5. CASE ~NewSession(p) /\ row[a] # Absent
  <2>1. /\ row' = [row EXCEPT ![a] = [session |-> ses[p], offset |-> row[a].offset]]
        /\ UNCHANGED <<shown, crossed>>
    BY <1>1, <1>5, UpsertKeeps
  <2>2. row'[a] # Absent /\ row'[a].offset = row[a].offset
    BY <1>1, <2>1, UpsertFrame DEF TypeOK
  <2>3. Count(a)' = Count(a)
    BY <1>5, <2>2 DEF Count
  <2>4. a \notin crossed' => OnceFor(a)'
    BY <1>1, <1>2, <2>1, <2>3, OnceKeeps
  <2>5. QED
    BY <1>3, <2>4 DEF OnceInv
<1>6. QED
  BY <1>4, <1>5

LEMMA OnceRemove ==
    ASSUME IInv, NEW p \in Processes, NEW a \in Aliases, RemoveAlias(p, a), OthersKeep(p)
    PROVE  OnceInv'
<1>1. /\ TypeOK /\ pc' = pc /\ al' = al /\ showing' = showing
      /\ row' = [row EXCEPT ![a] = Absent]
      /\ shown' = [shown EXCEPT ![a] = {}]
      /\ crossed' = crossed \ {a}
      /\ touched' = touched \cup BusyWith(a)
  BY DEF IInv, RemoveAlias, Restarted, locals
<1>2. \A b \in Aliases, q \in Processes : Shows(q, b)' => Shows(q, b) /\ showing'[q] = showing[q]
  BY <1>1 DEF Shows
<1>3. ASSUME NEW b \in Aliases \ {a}, b \notin crossed'
      PROVE  OnceFor(b)'
  <2>1. b \notin crossed /\ shown'[b] = shown[b] /\ row'[b] = row[b]
    BY <1>1, <1>3 DEF TypeOK
  <2>2. Count(b)' = Count(b)
    BY <2>1 DEF Count
  <2>3. QED
    BY <1>2, <2>1, <2>2, OnceKeeps
<1>4. shown'[a] = {} /\ \A q \in Processes : ~Shows(q, a)'
  BY <1>1 DEF TypeOK, Shows, BusyWith
<1>5. QED
  BY <1>3, <1>4, OnceRestarts DEF OnceInv

\* set_refresh_offset: the lines that are shown next are beyond the old offset.
LEMMA OnceSet ==
    ASSUME IInv, NEW p \in Processes, SetOffset(p), OthersKeep(p),
           NEW a \in Aliases, a = al[p]
    PROVE  OnceInv'
<1>1. /\ TypeOK /\ pc[p] = "set"
      /\ UNCHANGED <<shown, al, showing, touched>>
  BY DEF IInv, TypeOK, SetOffset, Goto, Unobserved
<1>2. /\ \A b \in Aliases \ {a} : row'[b] = row[b]
      /\ row[a] = Absent => row' = row
      /\ row[a] # Absent => row'[a] # Absent /\ row'[a].offset = nxt[p]
  BY <1>1, SetOffsetFrame
<1>3. \A b \in Aliases \ {a}, q \in Processes : Shows(q, b)' => Shows(q, b)
  BY <1>1 DEF OthersKeep, Shows
<1>4. ASSUME NEW b \in Aliases \ {a}, b \notin crossed'
      PROVE  OnceFor(b)'
  <2>1. b \notin crossed
    BY <1>4 DEF SetOffset
  <2>2. Count(b)' = Count(b)
    BY <1>2 DEF Count
  <2>3. QED
    BY <1>1, <1>3, <2>1, <2>2, OnceKeeps
<1>5. ASSUME a \notin crossed'
      PROVE  OnceFor(a)'
  <2>1. CASE row[a] = Absent
    <3>1. crossed' = crossed /\ Count(a)' = Count(a)
      BY <1>2, <2>1 DEF SetOffset, Count
    <3>2. p \in touched
      BY <1>1, <2>1, ConsoleAssumption
      DEF IInv, TypeOK, SessionIsCurrent, Bound, ConsoleAssumption
    <3>3. \A q \in Processes : Shows(q, a)' => Shows(q, a)
      BY <1>1, <3>2 DEF OthersKeep, Shows
    <3>4. QED
      BY <1>1, <1>5, <3>1, <3>3, OnceKeeps
  <2>2. CASE row[a] # Absent
    <3>1. a \notin crossed /\ row[a].offset = off[p]
      BY <1>5, <2>2 DEF SetOffset
    <3>2. Count(a) = off[p] /\ Count(a)' = nxt[p]
      BY <1>2, <2>2, <3>1 DEF Count
    <3>3. /\ off[p] \in Nat /\ nxt[p] \in Nat /\ off[p] <= nxt[p]
          /\ showing[p] \subseteq (off[p] + 1)..nxt[p]
      BY <1>1, ConsoleAssumption DEF IInv, ShowingIsNew, TypeOK, ConsoleAssumption
    <3>4. OnceFor(a)
      BY <1>1, <3>1, Once DEF IInv, OnceInv
    <3>5. \A q \in Processes \ {p} : Shows(q, a)' => Shows(q, a)
      BY <1>1 DEF OthersKeep, Shows
    <3>6. showing[p] \cap 1..off[p] = {} /\ 1..off[p] \subseteq 1..nxt[p]
          /\ showing[p] \subseteq 1..nxt[p]
      BY <3>3
    <3>7. shown'[a] \subseteq 1..Count(a)'
      BY <1>1, <3>2, <3>4, <3>6 DEF OnceFor
    <3>8. ASSUME NEW q \in Processes, Shows(q, a)'
          PROVE  showing'[q] \subseteq 1..Count(a)' /\ showing'[q] \cap shown'[a] = {}
      BY <1>1, <3>2, <3>4, <3>5, <3>6, <3>8 DEF OnceFor
    <3>9. ASSUME NEW q \in Processes, NEW r \in Processes,
                 Shows(q, a)', Shows(r, a)', q # r
          PROVE  showing'[q] \cap showing'[r] = {}
      BY <1>1, <3>2, <3>4, <3>5, <3>6, <3>9 DEF OnceFor
    <3>10. QED
      BY <3>7, <3>8, <3>9 DEF OnceFor
  <2>3. QED
    BY <2>1, <2>2
<1>6. QED
  BY <1>4, <1>5 DEF OnceInv

\* A reply arrives.
LEMMA OnceReply ==
    ASSUME IInv, NEW p \in Processes, Reply(p), OthersKeep(p)
    PROVE  OnceInv'
<1>1. /\ TypeOK /\ pc[p] = "reply" /\ pc'[p] = "idle" /\ al[p] \in Aliases
      /\ UNCHANGED <<row, crossed>>
      /\ shown' = IF p \in touched THEN shown
                  ELSE [shown EXCEPT ![al[p]] = @ \cup showing[p]]
  BY DEF IInv, TypeOK, Reply, Returns, Goto, store
<1>2. \A a \in Aliases : Count(a)' = Count(a)
  BY <1>1 DEF Count
<1>3. \A a \in Aliases, q \in Processes :
         Shows(q, a)' => q # p /\ Shows(q, a) /\ showing'[q] = showing[q]
  BY <1>1 DEF OthersKeep, Shows
<1>4. ASSUME NEW a \in Aliases \ crossed'
      PROVE  OnceFor(a)'
  <2>1. OnceFor(a)
    BY <1>1, Once DEF IInv, OnceInv
  <2>2. CASE a # al[p] \/ p \in touched
    <3>1. shown'[a] = shown[a]
      BY <1>1, <2>2 DEF TypeOK
    <3>2. QED
      BY <1>1, <1>2, <1>3, <3>1, OnceKeeps
  <2>3. CASE a = al[p] /\ p \notin touched
    <3>1. shown'[a] = shown[a] \cup showing[p] /\ Shows(p, a)
      BY <1>1, <2>3 DEF TypeOK, Shows
    <3>2. QED
      BY <1>2, <1>3, <2>1, <3>1 DEF OnceFor
  <2>4. QED
    BY <2>2, <2>3
<1>5. QED
  BY <1>4 DEF OnceInv

\* The steps of a process.
LEMMA OnceProcess ==
    ASSUME IInv, NEW p \in Processes, ProcessStep(p)
    PROVE  OnceInv'
<1> USE DEF Goto, Clear, Returns, store, notes, observed
<1>1. TypeOK /\ OthersKeep(p)
  BY OthersStep DEF IInv
<1>2. pc \in [Processes -> Locations]
  BY <1>1 DEF TypeOK
<1>3. CASE NamedCommand(p) \/ ActiveCommand(p) \/ FindAlias(p) \/ UnknownAlias(p)
  <2>1. UNCHANGED <<row, shown, crossed>>
    BY <1>3 DEF NamedCommand, ActiveCommand, Command, FindAlias, UnknownAlias
  <2>2. pc'[p] # "reply"
    <3>1. pc[p] = "find" => op[p] \in DOMAIN Statement
      BY DEF IInv
    <3>2. QED
      BY <1>2, <1>3, <3>1
      DEF NamedCommand, ActiveCommand, Command, FindAlias, UnknownAlias, Statement
  <2>3. QED
    BY <1>1, <2>1, <2>2, OnceQuiet
<1>4. CASE AddAlias(p) \/ Bind(p) \/ UseAlias(p)
  <2>1. UNCHANGED <<row, shown, crossed>> /\ pc'[p] # "reply"
    BY <1>2, <1>4 DEF AddAlias, Bind, SelectExisting, UseAlias, Unobserved
  <2>2. QED
    BY <1>1, <2>1, OnceQuiet
<1>5. CASE AddEnds(p) \/ BindEnds(p)
  <2>1. pc[p] = "upsert" /\ UpsertAlias(p) /\ pc'[p] # "reply" /\ al[p] \in Aliases
    BY <1>1, <1>2, <1>5 DEF AddEnds, BindEnds, TypeOK
  <2>2. QED
    BY <1>1, <2>1, OnceUpsert
<1>6. CASE \E a \in Aliases : RemoveAlias(p, a)
  BY <1>1, <1>6, OnceRemove
<1>7. CASE GetOffset(p) \/ ReadNewItems(p) \/ ReadTruncated(p) \/ ReadUnavailable(p)
           \/ ReadRaises(p)
  <2>1. UNCHANGED <<row, shown, crossed>> /\ pc'[p] # "reply"
    BY <1>2, <1>7 DEF GetOffset, ReadNewItems, ReadTruncated, ReadUnavailable, ReadRaises
  <2>2. QED
    BY <1>1, <2>1, OnceQuiet
<1>8. CASE SetOffset(p)
  <2>1. al[p] \in Aliases
    BY <1>1, <1>8 DEF SetOffset, TypeOK
  <2>2. QED
    BY <1>1, <1>8, <2>1, OnceSet
<1>9. CASE Reply(p)
  BY <1>1, <1>9, OnceReply
<1>10. CASE Bookkeeping(p) \/ Crash(p)
  <2>1. UNCHANGED <<row, shown, crossed>> /\ pc'[p] # "reply"
    BY <1>2, <1>10 DEF Bookkeeping, RecordArtifactRun, RecordArtifact, DispatchEnds, Crash,
                       Unobserved
  <2>2. QED
    BY <1>1, <2>1, OnceQuiet
<1>11. QED
  BY <1>3, <1>4, <1>5, <1>6, <1>7, <1>8, <1>9, <1>10 DEF ProcessStep, Administer, Refresh

\* No step shows a message again, unless an offset was stored over another one.
LEMMA OnceStep ==
    IInv /\ [Next]_vars => SeenIsCounted' /\ RepeatExplained'
<1> SUFFICES ASSUME IInv, [Next]_vars
             PROVE  OnceInv'
  BY OnceNext
<1>1. ASSUME NEW s \in Sessions, App(s)
      PROVE  UNCHANGED <<row, shown, crossed, pc, al, showing, touched>>
  BY <1>1 DEF App, BeginRow, GrowRow, EndRow, SplitRow, Rewrite, store, locals, observed, notes
<1>2. ASSUME UNCHANGED <<row, shown, crossed, pc, al, showing, touched>>
      PROVE  OnceInv'
  <2>1. OnceInv
    BY Once DEF IInv
  <2>2. QED
    BY <1>2, <2>1 DEF OnceInv, OnceFor, Count, Shows
<1>3. CASE UNCHANGED vars
  BY <1>2, <1>3 DEF vars, store, locals, observed, notes
<1>4. QED
  BY <1>1, <1>2, <1>3, OnceProcess DEF Next

\* A /refresh shows what is beyond the offset it has read, and counts it.
LEMMA NewStep ==
    IInv /\ [Next]_vars => ShowingIsNew'
<1> SUFFICES ASSUME IInv, [Next]_vars, NEW q \in Processes, pc'[q] = "set"
             PROVE  off'[q] <= nxt'[q] /\ showing'[q] \subseteq (off'[q] + 1)..nxt'[q]
  BY DEF ShowingIsNew
<1> USE DEF Goto, Clear, Returns, store, locals, notes, observed
<1>1. TypeOK /\ pc \in [Processes -> Locations]
  BY DEF IInv, TypeOK
<1>2. pc[q] = "set" /\ off'[q] = off[q] /\ nxt'[q] = nxt[q] /\ showing'[q] = showing[q] =>
          off'[q] <= nxt'[q] /\ showing'[q] \subseteq (off'[q] + 1)..nxt'[q]
  BY DEF IInv, ShowingIsNew
<1>3. ASSUME NEW p \in Processes, ProcessStep(p)
      PROVE  off'[q] <= nxt'[q] /\ showing'[q] \subseteq (off'[q] + 1)..nxt'[q]
  <2>1. OthersKeep(p)
    BY <1>3, OthersStep
  <2>2. CASE p # q
    BY <1>2, <2>1, <2>2 DEF OthersKeep
  <2>3. CASE p = q
    <3>1. ReadNewItems(p)
      <4>1. ~NamedCommand(p) /\ ~ActiveCommand(p) /\ ~FindAlias(p) /\ ~UnknownAlias(p)
        <5>1. pc[p] = "find" => op[p] \in DOMAIN Statement
          BY DEF IInv
        <5>2. QED
          BY <1>1, <2>3, <5>1
          DEF NamedCommand, ActiveCommand, Command, FindAlias, UnknownAlias, Statement
      <4>2. ~AddAlias(p) /\ ~Bind(p) /\ ~UseAlias(p) /\ ~AddEnds(p) /\ ~BindEnds(p)
        BY <1>1, <2>3 DEF AddAlias, Bind, SelectExisting, UseAlias, AddEnds, BindEnds
      <4>3. ~\E a \in Aliases : RemoveAlias(p, a)
        BY <1>1, <2>3 DEF RemoveAlias
      <4>4. ~GetOffset(p) /\ ~ReadTruncated(p) /\ ~ReadUnavailable(p) /\ ~ReadRaises(p)
            /\ ~SetOffset(p) /\ ~Reply(p) /\ ~Crash(p)
        BY <1>1, <2>3 DEF GetOffset, ReadTruncated, ReadUnavailable, ReadRaises, SetOffset,
                          Reply, Crash
      <4>5. ~Bookkeeping(p)
        BY <1>1, <2>3 DEF Bookkeeping, RecordArtifactRun, RecordArtifact, DispatchEnds
      <4>6. QED
        BY <1>3, <4>1, <4>2, <4>3, <4>4, <4>5 DEF ProcessStep, Administer, Refresh
    <3> DEFINE next == NextLine(ses[q], off[q])
    <3>2. /\ off' = off /\ nxt' = [nxt EXCEPT ![q] = next]
          /\ showing' = [showing EXCEPT ![q] =
                 {i \in (off[q] + 1)..next : Physical(ses[q])[i] = "text"}]
          /\ off[q] <= Len(Physical(ses[q])) /\ tail[ses[q]] # "torn" /\ pc[q] = "read"
      BY <2>3, <3>1 DEF ReadNewItems, Decodable
    <3>3. off[q] <= next
      <4>1. ses[q] \in Sessions /\ off \in [Processes -> 0..(MaxLines + 1)]
        BY <1>1, <3>2 DEF TypeOK
      <4>2. off[q] \in Nat
        BY <4>1, ConsoleAssumption DEF ConsoleAssumption
      <4>3. QED
        BY <1>1, <3>2, <4>1, <4>2, NextLineIsStable
    <3>4. /\ off'[q] = off[q] /\ nxt'[q] = next
          /\ showing'[q] = {i \in (off[q] + 1)..next : Physical(ses[q])[i] = "text"}
      BY <1>1, <3>2 DEF TypeOK
    <3> HIDE DEF next
    <3>5. QED
      BY <3>3, <3>4
  <2>4. QED
    BY <2>2, <2>3
<1>4. ASSUME NEW s \in Sessions, App(s)
      PROVE  UNCHANGED <<pc, off, nxt, showing>>
  BY <1>4 DEF App, BeginRow, GrowRow, EndRow, SplitRow, Rewrite
<1>5. CASE UNCHANGED vars
  BY <1>2, <1>5 DEF vars
<1>6. QED
  BY <1>2, <1>3, <1>4, <1>5 DEF Next

-----------------------------------------------------------------------------
(* The invariant and what follows from it.                                 *)

\* Only /refresh, /use and a dispatch look an alias up.
LEMMA OpStep ==
    IInv /\ [Next]_vars =>
        \A q \in Processes : pc'[q] = "find" => op'[q] \in DOMAIN Statement
<1> SUFFICES ASSUME IInv, [Next]_vars, NEW q \in Processes, pc'[q] = "find"
             PROVE  op'[q] \in DOMAIN Statement
  OBVIOUS
<1> USE ConsoleAssumption DEF ConsoleAssumption, Goto, Clear, Returns, Statement,
  Unobserved, store, disk, locals, notes, observed
<1>1. /\ pc \in [Processes -> Locations] /\ op \in [Processes -> Ops]
      /\ pc[q] = "find" => op[q] \in DOMAIN Statement
      /\ \A p \in Processes : pc[p] = "find" => op[p] \in DOMAIN Statement
  BY DEF IInv, TypeOK
<1>2. ASSUME NEW p \in Processes, NamedCommand(p) \/ ActiveCommand(p)
      PROVE  op'[q] \in DOMAIN Statement
  BY <1>1, <1>2 DEF NamedCommand, ActiveCommand, Command
<1>3. ASSUME NEW p \in Processes, ProcessStep(p), ~NamedCommand(p), ~ActiveCommand(p)
      PROVE  pc[q] = "find" /\ op'[q] = op[q]
  <2>1. CASE AddAlias(p) \/ Bind(p)
    BY <1>1, <2>1 DEF AddAlias, Bind, SelectExisting
  <2>2. CASE AddEnds(p) \/ BindEnds(p) \/ UseAlias(p) \/ \E a \in Aliases : RemoveAlias(p, a)
    BY <1>1, <2>2 DEF AddEnds, BindEnds, UseAlias, RemoveAlias
  <2>3. CASE FindAlias(p) \/ UnknownAlias(p)
    BY <1>1, <2>3 DEF FindAlias, UnknownAlias
  <2>4. CASE Refresh(p)
    BY <1>1, <2>4 DEF Refresh, GetOffset, ReadNewItems, ReadTruncated, ReadUnavailable,
                      ReadRaises, SetOffset, Reply
  <2>5. CASE Bookkeeping(p) \/ Crash(p)
    BY <1>1, <2>5 DEF Bookkeeping, RecordArtifactRun, RecordArtifact, DispatchEnds, Crash
  <2>6. QED
    BY <1>3, <2>1, <2>2, <2>3, <2>4, <2>5 DEF ProcessStep, Administer
<1>4. ASSUME NEW s \in Sessions, App(s)
      PROVE  pc' = pc /\ op' = op
  BY <1>4 DEF App, BeginRow, GrowRow, EndRow, SplitRow, Rewrite
<1>5. CASE UNCHANGED vars
  BY <1>1, <1>5 DEF vars
<1>6. QED
  BY <1>1, <1>2, <1>3, <1>4, <1>5 DEF Next

\* Nothing is bound, running or shown at first.
LEMMA InvariantStarts ==
    Init => IInv
<1> SUFFICES ASSUME Init
             PROVE  IInv
  OBVIOUS
<1> USE ConsoleAssumption DEF ConsoleAssumption, Init
<1>1. TypeOK
  <2>1. /\ row \in [Aliases -> {Absent} \cup [session : Sessions, offset : 0..(MaxLines + 1)]]
        /\ runRow \in [Aliases -> Sessions \cup {Absent}]
        /\ files \in [Aliases -> SUBSET Sessions]
        /\ shown \in [Aliases -> SUBSET (1..(MaxLines + 1))]
    OBVIOUS
  <2>2. /\ history \in [Sessions -> Seq(Lines)]
        /\ \A s \in Sessions :
              Len(history[s]) <= IF tail[s] = "none" THEN MaxLines + 1 ELSE MaxLines
        /\ tail \in [Sessions -> Tails]
    BY DEF Tails
  <2>3. /\ context \in [Processes -> Aliases \cup {Absent}]
        /\ pc \in [Processes -> Locations]
        /\ op \in [Processes -> Ops]
        /\ al \in [Processes -> Aliases \cup {Absent}]
        /\ ses \in [Processes -> Sessions \cup {Absent}]
        /\ old \in [Processes -> Sessions \cup {Absent}]
        /\ off \in [Processes -> 0..(MaxLines + 1)]
        /\ nxt \in [Processes -> 0..(MaxLines + 1)]
        /\ showing \in [Processes -> SUBSET (1..(MaxLines + 1))]
    BY DEF Locations, Ops
  <2>4. raised \in BOOLEAN /\ setbacks \in 0..MaxSetbacks
    <3>1. raised \in BOOLEAN
      BY Zenon
    <3>2. setbacks = 0 /\ MaxSetbacks \in Nat
      BY Zenon
    <3> HIDE DEF Init
    <3>3. QED
      BY <3>1, <3>2
  <2>5. \A p \in Processes : pc[p] = "idle"
    OBVIOUS
  <2>6. QED
    BY <2>1, <2>2, <2>3, <2>4, <2>5 DEF TypeOK
<1>2. \A p \in Processes : pc[p] = "idle" /\ context[p] = Absent
  BY DEF Init
<1>3. \A a \in Aliases : row[a] = Absent /\ files[a] = {} /\ runRow[a] = Absent
  BY DEF Init
<1>4. SeenIsCounted /\ RepeatExplained
  <2>1. \A a \in Aliases : shown[a] = {}
    BY DEF Init
  <2>2. \A a \in Aliases, q \in Processes : ~Shows(q, a)
    BY <1>2 DEF Shows
  <2>3. QED
    BY <2>1, <2>2, Once DEF OnceInv, OnceFor
<1>5. QED
  BY <1>1, <1>2, <1>3, <1>4
  DEF IInv, SessionIsCurrent, ExistingIsCurrent, ContextExplained, ArtifactsFollowAlias,
      StoredIsCovered, ReadIsCovered, NextIsCovered, ShowingIsNew

\* The inductive invariant holds of every behaviour.
THEOREM ConsoleInvariant == Spec => []IInv
<1>1. Init => IInv
  BY InvariantStarts
<1>2. IInv /\ [Next]_vars => IInv'
  <2> SUFFICES ASSUME IInv, [Next]_vars
               PROVE  IInv'
    OBVIOUS
  <2>1. TypeOK' /\ SessionIsCurrent' /\ ExistingIsCurrent'
    BY TypeStep, CurrentStep
  <2>2. ContextExplained' /\ ArtifactsFollowAlias' /\ CoverInv'
    BY ContextStep, ArtifactStep, CoverStep
  <2>3. \A q \in Processes : pc'[q] = "find" => op'[q] \in DOMAIN Statement
    BY OpStep
  <2>4. SeenIsCounted' /\ ShowingIsNew' /\ RepeatExplained'
    BY OnceStep, NewStep
  <2>5. QED
    BY <2>1, <2>2, <2>3, <2>4 DEF IInv, CoverInv, Statement
<1>3. QED
  BY <1>1, <1>2, PTL DEF Spec

\* Every variable stays in its set.
THEOREM ConsoleTypes == Spec => []TypeOK
<1>1. IInv => TypeOK
  BY DEF IInv
<1>2. QED
  BY <1>1, ConsoleInvariant, PTL

\* The messages that /refresh moves the offset past without a reply that shows
\* them are those that splitlines() splits, unless one of the named accidents
\* happened to the alias.
THEOREM OffsetsAreExplained == Spec => []OffsetExplained
<1>1. IInv => OffsetExplained
  BY DEF IInv, StoredIsCovered, Covered, OffsetExplained, Unshown
<1>2. QED
  BY <1>1, ConsoleInvariant, PTL

\* /refresh shows no message twice under one binding of an alias, unless two of
\* them overlapped and one stored its offset over the other one's.
THEOREM RepeatsAreExplained == Spec => []RepeatExplained
<1>1. IInv => RepeatExplained
  BY DEF IInv
<1>2. QED
  BY <1>1, ConsoleInvariant, PTL

\* The active alias of a conversation exists, unless it was removed in the
\* middle of the command that made it active.
THEOREM ContextsAreExplained == Spec => []ContextExplained
<1>1. IInv => ContextExplained
  BY DEF IInv
<1>2. QED
  BY <1>1, ConsoleInvariant, PTL

\* Artifact rows follow the session of their alias, unless it changed while a
\* run or another /add was under way, or the controller named another session.
THEOREM ArtifactsFollow == Spec => []ArtifactsFollowAlias
<1>1. IInv => ArtifactsFollowAlias
  BY DEF IInv
<1>2. QED
  BY <1>1, ConsoleInvariant, PTL

\* Only set_refresh_offset and upsert_alias change the row of an alias.
LEMMA RowsStep ==
    IInv /\ [Next]_vars => \A a \in Aliases : RowStays(a)
<1> SUFFICES ASSUME IInv, [Next]_vars, NEW a \in Aliases,
                    row[a] # Absent, row'[a] # Absent, row[a] # row'[a]
             PROVE  RowStays(a)
  BY DEF RowStays
<1>1. TypeOK /\ row[a] \in [session : Sessions, offset : 0..(MaxLines + 1)]
  BY DEF IInv, TypeOK
<1>2. ASSUME NEW p \in Processes, SetOffset(p)
      PROVE  RowStays(a)
  <2>1. al[p] = a /\ row'[a].session = row[a].session
    BY <1>1, <1>2, SetOffsetFrame
  <2>2. pc[p] = "set" /\ pc'[p] # pc[p] /\ (p \in touched \/ ses[p] = row[a].session)
    BY <1>1, <1>2, <2>1 DEF SetOffset, Goto, IInv, TypeOK, SessionIsCurrent, Bound
  <2>3. QED
    BY <2>1, <2>2 DEF RowStays
<1>3. ASSUME NEW p \in Processes, pc[p] = "upsert", pc'[p] # pc[p], UpsertAlias(p)
      PROVE  RowStays(a)
  <2>1. al[p] = a
    BY <1>1, <1>3, UpsertFrame
  <2>2. CASE NewSession(p)
    <3>1. row'[a] = [session |-> ses[p], offset |-> 0]
      BY <1>1, <1>3, <2>1, <2>2, UpsertRestarts DEF TypeOK
    <3>2. CASE ses[p] = row[a].session
      BY <1>3, <2>1, <3>1, <3>2 DEF RowStays
    <3>3. CASE ses[p] # row[a].session
      BY <3>1, <3>3 DEF RowStays
    <3>4. QED
      BY <3>2, <3>3
  <2>3. CASE ~NewSession(p)
    <3>1. row'[a] = [session |-> ses[p], offset |-> row[a].offset]
      BY <1>1, <1>3, <2>1, <2>3, UpsertKeeps DEF TypeOK
    <3>2. ses[p] # row[a].session
      BY <1>1, <3>1
    <3>3. p \in touched
      BY <1>1, <1>3, <2>1, <2>3, <3>2, ConsoleAssumption
      DEF IInv, ExistingIsCurrent, NewSession, Bound, ConsoleAssumption
    <3>4. QED
      BY <1>3, <2>1, <3>3 DEF RowStays
  <2>4. QED
    BY <2>2, <2>3
<1>4. ASSUME NEW p \in Processes, RemoveAlias(p, a)
      PROVE  FALSE
  BY <1>1, <1>4 DEF RemoveAlias, TypeOK
<1>5. ASSUME NEW p \in Processes, NEW b \in Aliases \ {a}, RemoveAlias(p, b)
      PROVE  FALSE
  BY <1>1, <1>5 DEF RemoveAlias, TypeOK
<1>6. ASSUME NEW p \in Processes, ProcessStep(p)
      PROVE  RowStays(a)
  <2> USE DEF store
  <2>1. CASE row' = row
    BY <2>1
  <2>2. CASE AddEnds(p) \/ BindEnds(p)
    BY <1>1, <1>3, <2>2 DEF AddEnds, BindEnds, Goto, TypeOK
  <2>3. CASE \E b \in Aliases : RemoveAlias(p, b)
    BY <1>4, <1>5, <2>3
  <2>4. CASE AddAlias(p) \/ Bind(p) \/ UseAlias(p)
    BY <2>4 DEF AddAlias, Bind, SelectExisting, UseAlias
  <2>5. CASE NamedCommand(p) \/ ActiveCommand(p) \/ FindAlias(p) \/ UnknownAlias(p)
    BY <2>5 DEF NamedCommand, ActiveCommand, Command, FindAlias, UnknownAlias
  <2>6. CASE Refresh(p) /\ ~SetOffset(p)
    BY <2>6 DEF Refresh, GetOffset, ReadNewItems, ReadTruncated, ReadUnavailable,
                ReadRaises, Reply
  <2>7. CASE Bookkeeping(p) \/ Crash(p)
    BY <2>7 DEF Bookkeeping, RecordArtifactRun, RecordArtifact, DispatchEnds, Crash
  <2>8. QED
    BY <1>2, <1>6, <2>1, <2>2, <2>3, <2>4, <2>5, <2>6, <2>7 DEF ProcessStep, Administer
<1>7. ASSUME NEW s \in Sessions, App(s)
      PROVE  FALSE
  BY <1>7 DEF App, BeginRow, GrowRow, EndRow, SplitRow, Rewrite, store
<1>8. CASE UNCHANGED vars
  BY <1>8 DEF vars, store
<1>9. QED
  BY <1>6, <1>7, <1>8 DEF Next

\* The offset of an alias moves with its own session only, unless a process
\* that was overtaken writes it.
THEOREM OffsetsStay == Spec => OffsetStaysWithSession
<1>1. IInv /\ [Next]_vars => [\A a \in Aliases : RowStays(a)]_vars
  BY RowsStep
<1>2. QED
  BY <1>1, ConsoleInvariant, PTL DEF Spec, OffsetStaysWithSession

=============================================================================
