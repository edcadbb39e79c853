--------------------------- MODULE NodePoolProofs ---------------------------
(***************************************************************************)
(* What the pool's writers keep, for any nodes, probe slots and limits.    *)
(*                                                                         *)
(* Each writer changes its columns in one statement, but three facts span  *)
(* several of them: a ready row has a completed probe behind it; a batch   *)
(* runs only while nothing can be activated (the coordinator), on nodes    *)
(* that were not active when it was chosen; and what a sweep has just      *)
(* recorded as answering is still recorded so when it deletes.             *)
(***************************************************************************)
EXTENDS NodePool, TLAPS

\* Every ready row, and an absent row reads as a new one.
RowsInv ==
    /\ \A n \in Nodes : row[n].status = "ready" => row[n].verdict = "good"
    /\ \A n \in Nodes \ rows : row[n] = New

\* The coordinator is held while a node is being activated, and by a cycle's
\* rotation only at its two switches.
Rotating == maint \in {"switch", "reconnect"}
ActivationInv ==
    trying # NoNode => coord = "activate" \/ Rotating

\* A batch and its queue belong to the two probing passes and hold no active node.
BatchInv ==
    /\ queue # {} => maint \in {"quick", "walk"}
    /\ \A w \in Workers : worker[w] # "idle" => probing[w] \in Nodes
    /\ maint \in {"quick", "walk"} =>
         /\ active \notin queue
         /\ \A w \in Workers : worker[w] = "batch" => probing[w] # active

\* The sweep's answers are of TCP nodes and, once recorded, on their rows.
SweepInv ==
    /\ sweep \in {"idle", "rule", "record", "delete"}
    /\ alive \subseteq TCP
    /\ sweep = "delete" => \A n \in alive : row[n].missed = 0

IInv == TypeOK /\ RowsInv /\ ActivationInv /\ BatchInv /\ SweepInv

\* An UPDATE writes the new columns to stored rows and nothing else.
LEMMA UpdateWrites ==
    ASSUME NEW S, NEW changed, Update(S, changed), row \in [Nodes -> Columns],
           \A n \in Nodes : changed[n] \in Columns
    PROVE  /\ row' \in [Nodes -> Columns]
           /\ \A n \in Nodes : row'[n] = row[n] \/ (n \in rows /\ n \in S /\ row'[n] = changed[n])
  BY DEF Update

\* A marked row changes its status only.
LEMMA MarkedTyped ==
    ASSUME row \in [Nodes -> Columns], NEW s \in {"cooldown", "probing"}, NEW n \in Nodes
    PROVE  /\ Marked(s)[n] \in Columns
           /\ Marked(s)[n].status = s /\ Marked(s)[n].missed = row[n].missed
  BY DEF Marked, Columns

\* What an UPDATE to the columns of changed leaves of the rows.
RowsWritten(changed) ==
    /\ row' \in [Nodes -> Columns]
    /\ \A n \in Nodes : row'[n] = row[n] \/ (n \in rows /\ row'[n] = changed[n])

\* An expired cooldown is ready again only on a good verdict.
LEMMA RestoredColumns ==
    ASSUME NEW r \in Columns, NEW s, s = [r EXCEPT !.status = Restored(r)]
    PROVE  s \in Columns /\ (s.status = "ready" => s.verdict = "good") /\ s.missed = r.missed
<1> DEFINE status == Restored(r)
<1>1. status \in {"discovered", "ready", "unavailable"} /\ (status = "ready" => r.verdict = "good")
  BY DEF Restored
<1>2. s = [r EXCEPT !.status = status]
  OBVIOUS
<1> HIDE DEF status
<1> QED
  BY <1>1, <1>2 DEF Columns

\* Counters stop at their limit.
LEMMA CountStays == \A k \in Nat \ {0} : \A i \in 0..k : Min(i + 1, k) \in 0..k
  BY DEF Min

\* A refused handshake leaves the row unavailable.
LEMMA RefusedColumns ==
    ASSUME NEW r \in Columns, NEW s, s = [r EXCEPT !.status = "unavailable", !.refused = Min(@ + 1, UDPFailures)]
    PROVE  s \in Columns /\ s.status = "unavailable" /\ s.missed = r.missed
<1> DEFINE j == Min(r.refused + 1, UDPFailures)
<1>1. j \in 0..UDPFailures
  BY CountStays, PoolAssumption DEF Columns
<1>2. s = [r EXCEPT !.status = "unavailable", !.refused = j]
  OBVIOUS
<1> HIDE DEF j
<1> QED
  BY <1>1, <1>2 DEF Columns

\* A probe's result: ready goes with a good verdict.
LEMMA ResultColumns ==
    ASSUME NEW r \in Columns, NEW up \in BOOLEAN, NEW s,
           s = IF up THEN [r EXCEPT !.status = "ready", !.verdict = "good", !.refused = 0]
               ELSE [r EXCEPT !.status = "unavailable", !.verdict = "bad",
                              !.refused = Min(@ + 1, UDPFailures)]
    PROVE  s \in Columns /\ (s.status = "ready" => s.verdict = "good") /\ s.missed = r.missed
<1> DEFINE status == IF up THEN "ready" ELSE "unavailable"
           verdict == IF up THEN "good" ELSE "bad"
           q == [r EXCEPT !.status = status, !.verdict = verdict]
           j == IF up THEN 0 ELSE Min(r.refused + 1, UDPFailures)
<1>1. j \in 0..UDPFailures
  BY CountStays, PoolAssumption DEF Columns
<1>2. q \in Columns /\ (q.status = "ready" => q.verdict = "good") /\ q.missed = r.missed
  BY DEF Columns
<1>3. s = [q EXCEPT !.refused = j]
  BY DEF Columns
<1> HIDE DEF j, q
<1> QED
  BY <1>1, <1>2, <1>3 DEF Columns

\* A sweep makes a row ready only on a good verdict, and clears what it saw answer.
LEMMA SweepColumns ==
    ASSUME NEW r \in Columns, NEW n, r.status = "ready" => r.verdict = "good"
    PROVE  /\ Recorded(r, n) \in Columns
           /\ Recorded(r, n).status = "ready" => Recorded(r, n).verdict = "good"
           /\ n \in alive => Recorded(r, n).missed = 0
<1> DEFINE i == IF n \in alive THEN 0 ELSE Min(r.missed + 1, TCPFailures)
           status == IF n \in alive
                     THEN IF r.status = "unavailable" /\ r.verdict = "good" THEN "ready" ELSE r.status
                     ELSE IF r.status = "ready" /\ n # keep THEN "unavailable" ELSE r.status
<1>1. i \in 0..TCPFailures /\ (n \in alive => i = 0)
  BY CountStays, PoolAssumption DEF Columns
<1>2. /\ status \in {"discovered", "probing", "ready", "unavailable", "cooldown"}
      /\ status = "ready" => r.verdict = "good"
  BY DEF Columns
<1>3. Recorded(r, n) = [r EXCEPT !.missed = i, !.status = status]
  BY DEF Recorded, Columns
<1> HIDE DEF i, status
<1> QED
  BY <1>1, <1>2, <1>3 DEF Columns

\* A provider's list leaves the probe's columns alone.
LEMMA ListedColumns ==
    ASSUME NEW r \in Columns, NEW s, s = [r EXCEPT !.listed = "yes", !.age = 0]
    PROVE  s \in Columns /\ s.status = r.status /\ s.verdict = r.verdict /\ s.missed = r.missed
<1> DEFINE q == [r EXCEPT !.listed = "yes"]
<1>1. q \in Columns /\ q.status = r.status /\ q.verdict = r.verdict /\ q.missed = r.missed
  BY DEF Columns
<1>2. s = [q EXCEPT !.age = 0]
  OBVIOUS
<1> HIDE DEF q
<1> QED
  BY <1>1, <1>2 DEF Columns

USE PoolAssumption DEF IInv, TypeOK, RowsInv, ActivationInv, Rotating, BatchInv, SweepInv,
    Blamers, New, gateway, blames, probes, cycle, sweeps

\* The empty pool satisfies the invariant.
LEMMA Start == Init => IInv
  BY DEF Init, Columns

\* Activations and blames keep the invariant.
LEMMA ActivationKeeps ==
    ASSUME IInv,
           \/ \E n \in Nodes, by \in {"operator", "policy"} : Activate(n, by)
           \/ ActivationUp \/ ActivationFailsLocally \/ ActivationRefused \/ TunnelDown \/ Blame
           \/ \E b \in Blamers : BlacklistInsert(b) \/ BlacklistMark(b)
    PROVE  IInv'
<1>1. CASE \E n \in Nodes, by \in {"operator", "policy"} : Activate(n, by)
  BY <1>1 DEF Activate
<1>2. CASE ActivationUp
  BY <1>2 DEF ActivationUp, EndActivation
<1>3. CASE ActivationFailsLocally
  BY <1>3 DEF ActivationFailsLocally, EndActivation
<1>4. CASE ActivationRefused
  <2> DEFINE refused == [n \in Nodes |-> [row[n] EXCEPT !.status = "unavailable",
                                                      !.refused = Min(@ + 1, UDPFailures)]]
  <2>1. ASSUME NEW n \in Nodes
        PROVE  refused[n] \in Columns /\ refused[n].status = "unavailable"
               /\ refused[n].missed = row[n].missed
    BY RefusedColumns
  <2>2. Update({trying}, refused)
    BY <1>4 DEF ActivationRefused
  <2> HIDE DEF refused
  <2>3. /\ row' \in [Nodes -> Columns]
        /\ \A n \in Nodes : row'[n] = row[n] \/ (n \in rows /\ row'[n] = refused[n])
    BY <2>1, <2>2, UpdateWrites
  <2> QED
    <3>1. RowsInv' /\ (sweep = "delete" => \A n \in alive : row'[n].missed = 0)
      BY <1>4, <2>1, <2>3 DEF ActivationRefused
    <3>2. /\ blaming' \in [Blamers -> {"idle", "insert", "mark"}]
          /\ blamed' \in [Blamers -> Nodes \cup {NoNode}]
      <4>1. trying \in Nodes \cup {NoNode} /\ "switch" \in Blamers
        OBVIOUS
      <4>2. CASE chosenBy = "policy"
        <5>1. /\ blaming' = [blaming EXCEPT !["switch"] = "insert"]
              /\ blamed' = [blamed EXCEPT !["switch"] = trying]
          BY <1>4, <4>2 DEF ActivationRefused
        <5>2. /\ blaming \in [Blamers -> {"idle", "insert", "mark"}]
              /\ blamed \in [Blamers -> Nodes \cup {NoNode}]
          OBVIOUS
        <5> QED
          BY ONLY <4>1, <5>1, <5>2
      <4>3. CASE chosenBy # "policy"
        BY <1>4, <4>3 DEF ActivationRefused
      <4> QED
        BY <4>2, <4>3
    <3> QED
      BY <1>4, <2>3, <3>1, <3>2 DEF ActivationRefused, EndActivation
<1>5. CASE TunnelDown
  BY <1>5 DEF TunnelDown
<1>6. CASE Blame
  BY <1>6 DEF Blame
<1>7. CASE \E b \in Blamers : BlacklistInsert(b)
  <2> PICK b \in Blamers : BlacklistInsert(b)
    BY <1>7
  <2>1. /\ black' \in [Nodes -> {"none", "active", "expired"}]
        /\ blaming' \in [Blamers -> {"idle", "insert", "mark"}]
    BY DEF BlacklistInsert
  <2> QED
    BY <2>1 DEF BlacklistInsert
<1>8. CASE \E b \in Blamers : BlacklistMark(b)
  <2> PICK b \in Blamers : BlacklistMark(b)
    BY <1>8
  <2>1. /\ row' \in [Nodes -> Columns]
        /\ \A n \in Nodes : row'[n] = row[n] \/ (n \in rows /\ row'[n] = Marked("cooldown")[n])
    BY MarkedTyped, UpdateWrites DEF BlacklistMark
  <2> QED
    BY <2>1, MarkedTyped DEF BlacklistMark
<1> QED
  BY <1>1, <1>2, <1>3, <1>4, <1>5, <1>6, <1>7, <1>8

\* So do probes: a result makes a row ready together with its verdict.
LEMMA ProbeKeeps ==
    ASSUME IInv,
           \/ \E w \in Workers, n \in Nodes : ManualProbe(w, n) \/ BatchProbe(w, n)
           \/ \E w \in Workers, up \in BOOLEAN : ProbeEnd(w, up)
    PROVE  IInv'
<1>1. CASE \E w \in Workers, n \in Nodes : ManualProbe(w, n)
  <2> PICK w \in Workers, n \in Nodes : ManualProbe(w, n)
    BY <1>1
  <2>1. RowsWritten(Marked("probing"))
    BY MarkedTyped, UpdateWrites DEF ManualProbe, Probe, RowsWritten
  <2> QED
    BY <2>1, MarkedTyped DEF ManualProbe, Probe, RowsWritten
<1>2. CASE \E w \in Workers, n \in Nodes : BatchProbe(w, n)
  <2> PICK w \in Workers, n \in Nodes : BatchProbe(w, n)
    BY <1>2
  <2>1. CASE n \in rows
    <3>1. RowsWritten(Marked("probing"))
      BY <2>1, MarkedTyped, UpdateWrites DEF BatchProbe, Probe, RowsWritten
    <3>2. /\ worker' = [worker EXCEPT ![w] = "batch"] /\ probing' = [probing EXCEPT ![w] = n]
          /\ n \in queue /\ queue' = queue \ {n} /\ maint \in {"quick", "walk"}
          /\ UNCHANGED <<rows, black, coord, gateway, blames, maint, expired, offer, tested,
                         available, sweeps>>
      BY <2>1 DEF BatchProbe, Probe
    <3>3. RowsInv' /\ SweepInv'
      BY <3>1, <3>2, MarkedTyped DEF RowsWritten
    <3>4. TypeOK' /\ ActivationInv' /\ BatchInv'
      BY <3>1, <3>2 DEF RowsWritten
    <3> QED
      BY <3>3, <3>4
  <2>2. CASE n \notin rows
    BY <2>2 DEF BatchProbe
  <2> QED
    BY <2>1, <2>2
<1>3. CASE \E w \in Workers, up \in BOOLEAN : ProbeEnd(w, up)
  <2> PICK w \in Workers, up \in BOOLEAN : ProbeEnd(w, up)
    BY <1>3
  <2> DEFINE result == [m \in Nodes |->
        IF up THEN [row[m] EXCEPT !.status = "ready", !.verdict = "good", !.refused = 0]
              ELSE [row[m] EXCEPT !.status = "unavailable", !.verdict = "bad",
                                  !.refused = Min(@ + 1, UDPFailures)]]
  <2>1. ASSUME NEW n \in Nodes
        PROVE  /\ result[n] \in Columns /\ result[n].missed = row[n].missed
               /\ result[n].status = "ready" => result[n].verdict = "good"
    <3>1. row[n] \in Columns /\ up \in BOOLEAN
      OBVIOUS
    <3> QED
      BY ONLY <3>1, ResultColumns, n \in Nodes
  <2>2. Update({probing[w]}, result)
    BY DEF ProbeEnd, UpdateProbeResult
  <2> HIDE DEF result
  <2>3. /\ row' \in [Nodes -> Columns]
        /\ \A n \in Nodes : row'[n] = row[n] \/ (n \in rows /\ row'[n] = result[n])
    BY <2>1, <2>2, UpdateWrites
  <2> QED
    BY <2>1, <2>3 DEF ProbeEnd
<1> QED
  BY <1>1, <1>2, <1>3

\* So does the maintenance cycle: no activation is under way when it chooses its
\* batches, and none begins before they end.
LEMMA CycleKeeps == ASSUME IInv, CycleBegin \/ Maintain PROVE IInv'
<1> USE DEF CycleStep, BatchOver, Rotated
<1>1. CASE CycleBegin
  BY <1>1 DEF CycleBegin
<1>2. CASE ReadExpired("expire", "restore", "fetch") \/ ReadExpired("expire2", "restore2", "upsert")
  BY <1>2 DEF ReadExpired
<1>3. CASE RestoreExpired("restore", "forget") \/ RestoreExpired("restore2", "forget2")
  <2> DEFINE restored == [n \in Nodes |-> [row[n] EXCEPT !.status = Restored(row[n])]]
  <2>1. ASSUME NEW n \in Nodes
        PROVE  /\ restored[n] \in Columns /\ restored[n].missed = row[n].missed
               /\ restored[n].status = "ready" => restored[n].verdict = "good"
    BY RestoredColumns
  <2>2. Update(expired, restored)
    BY <1>3 DEF RestoreExpired
  <2> HIDE DEF restored
  <2>3. RowsWritten(restored)
    BY <2>1, <2>2, UpdateWrites DEF RowsWritten
  <2> QED
    BY <1>3, <2>1, <2>3 DEF RestoreExpired, RowsWritten
<1>4. CASE DeleteExpired("forget", "fetch") \/ DeleteExpired("forget2", "upsert")
  BY <1>4 DEF DeleteExpired
<1>5. CASE Fetch
  BY <1>5 DEF Fetch
<1>6. CASE Upsert
  <2>1. ASSUME NEW n \in Nodes
        PROVE  /\ row'[n] \in Columns /\ row'[n].missed = row[n].missed
               /\ row'[n].status = row[n].status /\ row'[n].verdict = row[n].verdict
    <3>1. row'[n] = row[n] \/ row'[n] = [row[n] EXCEPT !.listed = "yes", !.age = 0]
      BY <1>6 DEF Upsert
    <3> QED
      BY <3>1, ListedColumns
  <2>2. row' \in [Nodes -> Columns]
    BY <1>6, <2>1 DEF Upsert
  <2>3. rows' \subseteq Nodes /\ \A n \in Nodes \ rows' : row'[n] = New
    BY <1>6 DEF Upsert
  <2> QED
    <3>1. RowsInv' /\ (sweep = "delete" => \A n \in alive : row'[n].missed = 0)
      BY <2>1, <2>3
    <3> QED
      BY <1>6, <2>2, <2>3, <3>1 DEF Upsert
<1>7. CASE MarkProviderSnapshot
  BY <1>7, SMTT(30) DEF MarkProviderSnapshot, Update, Columns
<1>8. CASE PurgeStaleNodes
  BY <1>8, SMTT(30) DEF PurgeStaleNodes, Delete, Columns
<1>9. CASE PickQuick
  BY <1>9 DEF PickQuick, Candidates
<1>10. CASE SkipQuick
  BY <1>10 DEF SkipQuick
<1>11. CASE QuickOver
  BY <1>11 DEF QuickOver
<1>12. CASE SwitchOver
  BY <1>12 DEF SwitchOver
<1>13. CASE PickRest
  BY <1>13 DEF PickRest, ProbeSlice, Eligible, Candidates
<1>14. CASE WalkOver
  BY <1>14 DEF WalkOver
<1>15. CASE ReconnectOver
  BY <1>15 DEF ReconnectOver
<1>16. CASE CycleEnd
  BY <1>16 DEF CycleEnd
<1> QED
  BY <1>1, <1>2, <1>3, <1>4, <1>5, <1>6, <1>7, <1>8, <1>9, <1>10, <1>11, <1>12, <1>13,
     <1>14, <1>15, <1>16 DEF Maintain

\* So does the liveness sweep: it makes a row ready only when its last probe
\* succeeded.
LEMMA SweepKeeps == ASSUME IInv, Sweep PROVE IInv'
<1> USE DEF SweepStep
<1>1. CASE DialAll
  BY <1>1 DEF DialAll
<1>2. CASE Rule
  BY <1>2 DEF Rule
<1>3. CASE RecordLiveness
  <2> DEFINE seen == [n \in Nodes |-> Recorded(row[n], n)]
  <2>1. ASSUME NEW n \in Nodes
        PROVE  /\ seen[n] \in Columns
               /\ seen[n].status = "ready" => seen[n].verdict = "good"
               /\ n \in alive => seen[n].missed = 0
    BY SweepColumns
  <2>2. Update(alive \cup dead, seen)
    BY <1>3 DEF RecordLiveness
  <2> HIDE DEF seen
  <2>3. /\ row' \in [Nodes -> Columns]
        /\ \A n \in Nodes : row'[n] = row[n] \/ (n \in rows /\ row'[n] = seen[n])
    BY <2>1, <2>2, UpdateWrites
  <2>4. \A n \in alive : row'[n].missed = 0
    BY <2>1, <2>2 DEF Update
  <2> QED
    BY <1>3, <2>1, <2>3, <2>4 DEF RecordLiveness
<1>4. CASE DeleteDeadNodes
  BY <1>4, SMTT(30) DEF DeleteDeadNodes, Delete, Columns
<1> QED
  BY <1>1, <1>2, <1>3, <1>4 DEF Sweep

\* So do the passing of time and a restart.
LEMMA TimeKeeps ==
    ASSUME IInv, (\E n \in Nodes : CooldownExpires(n) \/ GrowOld(n)) \/ Restart PROVE IInv'
<1>1. CASE \E n \in Nodes : CooldownExpires(n)
  BY <1>1 DEF CooldownExpires
<1>2. CASE \E n \in Nodes : GrowOld(n)
  BY <1>2, SMTT(30) DEF GrowOld, Update, Columns
<1>3. CASE Restart
  BY <1>3 DEF Restart
<1> QED
  BY <1>1, <1>2, <1>3

\* Every step of the specification keeps the invariant.
LEMMA Step == IInv /\ [Next]_vars => IInv'
<1> SUFFICES ASSUME IInv, [Next]_vars PROVE IInv'
  OBVIOUS
<1>1. CASE Run
  BY <1>1, ActivationKeeps, ProbeKeeps, CycleKeeps, SweepKeeps, TimeKeeps DEF Run
<1>2. CASE Restart
  BY <1>2, TimeKeeps
<1>3. CASE UNCHANGED vars
  BY <1>3 DEF vars
<1> QED
  BY <1>1, <1>2, <1>3 DEF Next

\* Hence it always holds.
LEMMA Invariance == Spec => []IInv
<1>1. Init => IInv
  BY Start
<1>2. IInv /\ [Next]_vars => IInv'
  BY Step
<1> QED
  BY <1>1, <1>2, PTL DEF Spec

\* Every variable keeps its type, and a batch runs only inside a cycle that holds
\* the coordinator.
THEOREM TypeCorrect == Spec => []TypeOK
<1>1. IInv => TypeOK
  BY DEF IInv
<1> QED
  BY <1>1, Invariance, PTL

\* Selection offers only nodes whose last completed probe succeeded: no
\* interleaving of probes, sweeps, refused activations, blames, expiring
\* cooldowns and restarts makes a row ready otherwise.
THEOREM ReadyMeansProbed == Spec => []ReadyEarned
<1>1. IInv => ReadyEarned
  BY DEF ReadyEarned
<1> QED
  BY <1>1, Invariance, PTL

\* No maintenance batch dials the node that carries the traffic or is being
\* brought up, however many probes run at a time.
THEOREM BatchSpares == Spec => []BatchSparesActive
<1>1. IInv => BatchSparesActive
  BY DEF BatchSparesActive
<1> QED
  BY <1>1, Invariance, PTL

\* A sweep deletes no node that has just answered it: what RecordLiveness wrote
\* still stands when DeleteDeadNodes reads it, whatever probes, activations and
\* the provider's list did in between.
THEOREM SweepSpares == Spec => SweepSparesAnswering
<1>1. IInv /\ [Next]_vars => [sweep = "delete" /\ sweep' = "idle" => rows \ rows' \subseteq rows \ alive]_vars
  <2> SUFFICES ASSUME IInv, Next, sweep = "delete", sweep' = "idle"
               PROVE  rows \ rows' \subseteq rows \ alive
    BY DEF vars
  <2>1. CASE DeleteDeadNodes
    BY <2>1 DEF DeleteDeadNodes, Delete, Dead
  <2>2. CASE Restart
    BY <2>2 DEF Restart
  <2>3. CASE Run /\ ~DeleteDeadNodes
    BY <2>3 DEF Run, Activate, ActivationUp, ActivationFailsLocally, ActivationRefused,
       TunnelDown, Blame, BlacklistInsert, BlacklistMark, ManualProbe, BatchProbe, ProbeEnd,
       CycleBegin, Maintain, CycleStep, CycleEnd, ReadExpired, RestoreExpired, DeleteExpired,
       Fetch, Upsert, MarkProviderSnapshot, PurgeStaleNodes, PickQuick, SkipQuick, QuickOver,
       SwitchOver, PickRest, WalkOver, ReconnectOver, Sweep, DialAll, Rule, RecordLiveness,
       SweepStep, CooldownExpires, GrowOld
  <2> QED
    BY <2>1, <2>2, <2>3 DEF Next
<1> QED
  BY <1>1, Invariance, PTL DEF Spec, SweepSparesAnswering
=============================================================================
