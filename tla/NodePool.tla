------------------------------ MODULE NodePool ------------------------------
(***************************************************************************)
(* The stored pool of exit nodes (store/repo_ext.go) and everything that   *)
(* writes it: discovery (services/discovery.go), the maintenance cycle     *)
(* (services/maintenance.go), OpenVPN probes (services/probe.go), the      *)
(* liveness sweep (services/liveness.go), and activations and health       *)
(* failures that blame a node (services/gateway.go, autoswitch.go,         *)
(* health.go).                                                             *)
(*                                                                         *)
(* Each step is one SQL statement or transaction: the writers share        *)
(* nothing else.  Maintenance and activations exclude each other through   *)
(* the coordinator; manual probes, sweeps and health checks take no part   *)
(* in it.                                                                  *)
(***************************************************************************)
EXTENDS Naturals, FiniteSets

CONSTANTS Nodes, NoNode,
          TCP,           \* the nodes with a TCP endpoint, which sweeps dial
          Protected,     \* favorites and the fixed node
          Workers,       \* probes running at a time (the semaphore's slots)
          ProbeBudget,   \* probeBudget
          TCPFailures, UDPFailures   \* deleteAfterFailures, udpDeleteAfterFailures

ASSUME PoolAssumption ==
    /\ NoNode \notin Nodes
    /\ TCP \subseteq Nodes /\ Protected \subseteq Nodes
    /\ ProbeBudget \in Nat \ {0}
    /\ TCPFailures \in Nat \ {0} /\ UDPFailures \in Nat \ {0}

VARIABLES
    rows,      \* the ids in proxy_nodes
    row,       \* their columns; an absent row reads as a new one
    black,     \* node_blacklist: "none", "active" or "expired"
    coord,     \* the coordinator: "free", "maintenance" or "activate"
    active,    \* the gateway's active node
    trying, chosenBy,   \* the node being activated, and by whom
    blaming,   \* per blamer: "idle", or which statement of Blacklist is next
    blamed,    \* and the node
    worker,    \* per probe slot: "idle", "batch" or "manual"
    probing,   \* and the node it dials
    maint,     \* where the maintenance cycle stands
    expired, offer, queue, tested, available,   \* its locals
    sweep,     \* where the liveness sweep stands
    alive, dead, keep   \* its locals

gateway == <<active, trying, chosenBy>>
blames  == <<blaming, blamed>>
probes  == <<worker, probing>>
cycle   == <<maint, expired, offer, queue, tested, available>>
sweeps  == <<sweep, alive, dead, keep>>
vars    == <<rows, row, black, coord, gateway, blames, probes, cycle, sweeps>>

\* An activation loop and a health or exit handler may be in Blacklist at once.
Blamers == {"switch", "monitor"}

\* The columns of a row inserted by discovery.  verdict stands for the order of
\* last_probed_at and last_success_at, age for last_seen_at (under a day, under
\* three, under a week, older).
New == [status |-> "discovered", verdict |-> "never", missed |-> 0, refused |-> 0, listed |-> "yes", age |-> 0]

\* UPDATE proxy_nodes SET ... WHERE id IN S; changed has the new columns.
Update(S, changed) ==
    row' = [n \in Nodes |-> IF n \in S \cap rows THEN changed[n] ELSE row[n]]

Marked(status) == [n \in Nodes |-> [row[n] EXCEPT !.status = status]]

\* DELETE FROM proxy_nodes WHERE id IN S
Delete(S) ==
    /\ rows' = rows \ S
    /\ row' = [n \in Nodes |-> IF n \in S THEN New ELSE row[n]]

Min(a, b) == IF a < b THEN a ELSE b

Init ==
    /\ rows = {} /\ row = [n \in Nodes |-> New] /\ black = [n \in Nodes |-> "none"]
    /\ coord = "free"
    /\ active = NoNode /\ trying = NoNode /\ chosenBy = "none"
    /\ blaming = [b \in Blamers |-> "idle"] /\ blamed = [b \in Blamers |-> NoNode]
    /\ worker = [w \in Workers |-> "idle"] /\ probing = [w \in Workers |-> NoNode]
    /\ maint = "idle" /\ expired = {} /\ offer = {} /\ queue = {} /\ tested = {}
    /\ available = {}
    /\ sweep = "idle" /\ alive = {} /\ dead = {} /\ keep = NoNode

-----------------------------------------------------------------------------
(* Activations, as this pool sees them.                                    *)

\* Operators (and fixed mode) activate any stored node, the policy a ready one;
\* the previous tunnel is gone before the new one dials.  Inside a maintenance
\* cycle only the cycle activates: by policy, or at its end the fixed node.
Activate(n, by) ==
    /\ trying = NoNode /\ n \in rows
    /\ \/ coord = "free" /\ coord' = "activate"
       \/ maint \in {"switch", "reconnect"} /\ (by = "policy" \/ maint = "reconnect")
          /\ active = NoNode /\ UNCHANGED coord
    /\ by = "policy" => row[n].status = "ready" /\ blaming["switch"] = "idle"
    /\ trying' = n /\ chosenBy' = by /\ active' = NoNode
    /\ UNCHANGED <<rows, row, black, blames, probes, cycle, sweeps>>

EndActivation ==
    /\ trying' = NoNode /\ chosenBy' = "none"
    /\ coord' = IF coord = "activate" THEN "free" ELSE coord

ActivationUp ==
    /\ trying # NoNode
    /\ active' = trying
    /\ EndActivation
    /\ UNCHANGED <<rows, row, black, blames, probes, cycle, sweeps>>

\* A local failure (device, routing, database) says nothing about the node.
ActivationFailsLocally ==
    /\ trying # NoNode
    /\ EndActivation
    /\ UNCHANGED <<rows, row, black, active, blames, probes, cycle, sweeps>>

\* The node refused the handshake: MarkUnavailable, and the policy's rotation
\* goes on to Blacklist.
ActivationRefused ==
    /\ trying # NoNode
    /\ Update({trying}, [n \in Nodes |-> [row[n] EXCEPT !.status = "unavailable",
                                                         !.refused = Min(@ + 1, UDPFailures)]])
    /\ IF chosenBy = "policy"
       THEN /\ blaming' = [blaming EXCEPT !["switch"] = "insert"]
            /\ blamed' = [blamed EXCEPT !["switch"] = trying]
       ELSE UNCHANGED blames
    /\ EndActivation
    /\ UNCHANGED <<rows, black, active, probes, cycle, sweeps>>

TunnelDown ==
    /\ active # NoNode /\ active' = NoNode
    /\ UNCHANGED <<rows, row, black, coord, trying, chosenBy, blames, probes, cycle, sweeps>>

\* A failed health check, or an exit within minStableUptime, blames the node
\* that was active when it was noticed.
Blame ==
    /\ active # NoNode /\ blaming["monitor"] = "idle"
    /\ blaming' = [blaming EXCEPT !["monitor"] = "insert"]
    /\ blamed' = [blamed EXCEPT !["monitor"] = active]
    /\ UNCHANGED <<rows, row, black, coord, gateway, probes, cycle, sweeps>>

\* Blacklist: two statements.
BlacklistInsert(b) ==
    /\ blaming[b] = "insert"
    /\ black' = [black EXCEPT ![blamed[b]] = "active"]
    /\ blaming' = [blaming EXCEPT ![b] = "mark"]
    /\ UNCHANGED <<rows, row, coord, gateway, blamed, probes, cycle, sweeps>>

BlacklistMark(b) ==
    /\ blaming[b] = "mark"
    /\ Update({blamed[b]}, Marked("cooldown"))
    /\ blaming' = [blaming EXCEPT ![b] = "idle"]
    /\ blamed' = [blamed EXCEPT ![b] = NoNode]
    /\ UNCHANGED <<rows, black, coord, gateway, probes, cycle, sweeps>>

-----------------------------------------------------------------------------
(* ProbeService.Probe: MarkProbing, the dial, UpdateProbeResult.           *)

Probe(w, n, kind) ==
    /\ worker[w] = "idle"
    /\ worker' = [worker EXCEPT ![w] = kind]
    /\ probing' = [probing EXCEPT ![w] = n]
    /\ Update({n}, Marked("probing"))

\* A single probe asked for by hand takes no coordinator.
ManualProbe(w, n) ==
    /\ n \in rows /\ Probe(w, n, "manual")
    /\ UNCHANGED <<rows, black, coord, gateway, blames, cycle, sweeps>>

\* A batch takes its next node; one whose row is gone fails at GetTarget.
BatchProbe(w, n) ==
    /\ maint \in {"quick", "walk"} /\ n \in queue
    /\ queue' = queue \ {n}
    /\ IF n \in rows THEN Probe(w, n, "batch") ELSE UNCHANGED <<row, probes>>
    /\ UNCHANGED <<rows, black, coord, gateway, blames, maint, expired, offer, tested,
                   available, sweeps>>

UpdateProbeResult(n, up) ==
    Update({n}, [m \in Nodes |->
        IF up THEN [row[m] EXCEPT !.status = "ready", !.verdict = "good", !.refused = 0]
              ELSE [row[m] EXCEPT !.status = "unavailable", !.verdict = "bad",
                                  !.refused = Min(@ + 1, UDPFailures)]])

ProbeEnd(w, up) ==
    /\ worker[w] # "idle"
    /\ UpdateProbeResult(probing[w], up)
    /\ available' = IF up /\ worker[w] = "batch" THEN available \cup {probing[w]} ELSE available
    /\ worker' = [worker EXCEPT ![w] = "idle"]
    /\ probing' = [probing EXCEPT ![w] = NoNode]
    /\ UNCHANGED <<rows, black, coord, gateway, blames, maint, expired, offer, queue, tested,
                   sweeps>>

-----------------------------------------------------------------------------
(* MaintenanceService.run, under the coordinator.                          *)

CycleBegin ==
    /\ maint = "idle" /\ coord = "free"
    /\ coord' = "maintenance" /\ maint' = "expire"
    /\ UNCHANGED <<rows, row, black, gateway, blames, probes, expired, offer, queue, tested,
                   available, sweeps>>

CycleStep(from, to) ==
    /\ maint = from /\ maint' = to
    /\ UNCHANGED <<coord, gateway, blames, probes, sweeps>>

\* (fault) an expired cooldown restores any node that was ever probed as ready
RestoredAsReady(r) ==
    CASE r.verdict = "never" -> "discovered"
      [] OTHER               -> "ready"

\* restoreStatusFromProbe
Restored(r) ==
    CASE r.verdict = "never" -> "discovered"
      [] r.verdict = "good"  -> "ready"
      [] OTHER               -> "unavailable"

\* (fault) only the discovery pass, which needs the provider, looks for them
ReadExpiredOnFetch(from, to, past) ==
    /\ expired' = IF from = "expire" THEN {} ELSE {n \in Nodes : black[n] = "expired"}
    /\ CycleStep(from, IF expired' = {} THEN past ELSE to)
    /\ UNCHANGED <<rows, row, black, offer, queue, tested, available>>

\* ClearExpiredBlacklist, and again at the start of ActiveBlacklistIDs: read the
\* expired entries, restore those nodes, delete the entries.
ReadExpired(from, to, past) ==
    /\ expired' = {n \in Nodes : black[n] = "expired"}
    /\ CycleStep(from, IF expired' = {} THEN past ELSE to)
    /\ UNCHANGED <<rows, row, black, offer, queue, tested, available>>

RestoreExpired(from, to) ==
    /\ Update(expired, [n \in Nodes |-> [row[n] EXCEPT !.status = Restored(row[n])]])
    /\ CycleStep(from, to)
    /\ UNCHANGED <<rows, black, expired, offer, queue, tested, available>>

DeleteExpired(from, to) ==
    /\ black' = [n \in Nodes |-> IF n \in expired THEN "none" ELSE black[n]]
    /\ expired' = {}
    /\ CycleStep(from, to)
    /\ UNCHANGED <<rows, row, offer, queue, tested, available>>

\* The provider answers with some of its nodes, or the fetch fails and the cycle
\* goes on without the purge.
Fetch ==
    /\ \/ \E ids \in SUBSET Nodes : offer' = ids /\ CycleStep("fetch", "expire2")
       \/ CycleStep("fetch", "pick") /\ UNCHANGED offer
    /\ UNCHANGED <<rows, row, black, expired, queue, tested, available>>

\* UpsertDiscovered of the offered nodes that are not in cooldown.
Upsert ==
    /\ LET kept == {n \in offer : black[n] # "active"}
       IN /\ rows' = rows \cup kept
          /\ row' = [n \in Nodes |->
                       IF n \in kept THEN [row[n] EXCEPT !.listed = "yes", !.age = 0] ELSE row[n]]
    /\ CycleStep("upsert", "snapshot")
    /\ UNCHANGED <<black, expired, offer, queue, tested, available>>

MarkProviderSnapshot ==
    /\ Update(Nodes \ offer, [n \in Nodes |-> [row[n] EXCEPT !.listed = "no"]])
    /\ offer' = {}
    /\ CycleStep("snapshot", "purge")
    /\ UNCHANGED <<rows, black, expired, queue, tested, available>>

Blacklisted == {n \in Nodes : black[n] # "none"}

PurgeStaleNodes ==
    /\ Delete({n \in rows : row[n].listed = "no" /\ row[n].age = 3} \ (Protected \cup Blacklisted))
    /\ CycleStep("purge", "pick")
    /\ UNCHANGED <<black, expired, offer, queue, tested, available>>

\* candidateNodes
Candidates(includeUnavailable) ==
    {n \in rows : row[n].missed = 0 /\
        row[n].status \in {"discovered", "ready"}
                          \cup IF includeUnavailable THEN {"unavailable"} ELSE {}}

\* Without an exit, a few candidates the policy allows are probed first.
PickQuick ==
    /\ active = NoNode
    /\ \E few \in SUBSET Candidates(FALSE) \ {{}} :
        queue' = few /\ tested' = few
    /\ available' = {}
    /\ CycleStep("pick", "quick")
    /\ UNCHANGED <<rows, row, black, expired, offer>>

SkipQuick ==
    /\ CycleStep("pick", "rest")
    /\ UNCHANGED <<rows, row, black, expired, offer, queue, tested, available>>

\* (fault) the batch returns once its last probe has been started
BatchOverEarly == queue = {}

BatchOver == queue = {} /\ \A w \in Workers : worker[w] # "batch"

QuickOver ==
    /\ BatchOver
    /\ CycleStep("quick", IF available # {} THEN "switch" ELSE "rest")
    /\ available' = {}
    /\ UNCHANGED <<rows, row, black, expired, offer, queue, tested>>

\* The rotation is over when it neither dials nor blames.
Rotated == trying = NoNode /\ blaming["switch"] = "idle"

SwitchOver ==
    /\ Rotated
    /\ CycleStep("switch", IF active # NoNode THEN "end" ELSE "rest")
    /\ UNCHANGED <<rows, row, black, expired, offer, queue, tested, available>>

\* (faults) the active node is not set aside; nodes probed before go first
EligibleWithActive == Candidates(TRUE) \ tested
SliceNewestFirst(S) ==
    {Q \in SUBSET S :
        /\ Cardinality(Q) = Min(ProbeBudget, Cardinality(S))
        /\ \A n \in Q, m \in S \ Q : row[n].verdict # "never" \/ row[m].verdict = "never"}

Eligible == Candidates(TRUE) \ (tested \cup {active})

\* probeSlice: at most a budget of them, those never probed first.
ProbeSlice(S) ==
    {Q \in SUBSET S :
        /\ Cardinality(Q) = Min(ProbeBudget, Cardinality(S))
        /\ \A n \in Q, m \in S \ Q : row[n].verdict = "never" \/ row[m].verdict # "never"}

PickRest ==
    /\ queue' \in ProbeSlice(Eligible)
    /\ tested' = {}
    /\ CycleStep("rest", "walk")
    /\ UNCHANGED <<rows, row, black, expired, offer, available>>

WalkOver ==
    /\ BatchOver
    /\ CycleStep("walk", "reconnect")
    /\ available' = {}
    /\ UNCHANGED <<rows, row, black, expired, offer, queue, tested>>

ReconnectOver ==
    /\ Rotated
    /\ CycleStep("reconnect", "end")
    /\ UNCHANGED <<rows, row, black, expired, offer, queue, tested, available>>

CycleEnd ==
    /\ maint = "end" /\ maint' = "idle"
    /\ coord' = "free" /\ tested' = {}
    /\ UNCHANGED <<rows, row, black, gateway, blames, probes, expired, offer, queue,
                   available, sweeps>>

Maintain ==
    \/ ReadExpired("expire", "restore", "fetch")
    \/ RestoreExpired("restore", "forget") \/ DeleteExpired("forget", "fetch")
    \/ Fetch
    \/ ReadExpired("expire2", "restore2", "upsert")
    \/ RestoreExpired("restore2", "forget2") \/ DeleteExpired("forget2", "upsert")
    \/ Upsert \/ MarkProviderSnapshot \/ PurgeStaleNodes
    \/ PickQuick \/ SkipQuick \/ QuickOver \/ SwitchOver
    \/ PickRest \/ WalkOver \/ ReconnectOver \/ CycleEnd

-----------------------------------------------------------------------------
(* LivenessService.Sweep, under its own mutex.                             *)

SweepStep(from, to) ==
    /\ sweep = from /\ sweep' = to
    /\ UNCHANGED <<black, coord, gateway, blames, probes, cycle>>

\* dialAll over the TCP targets.
DialAll ==
    /\ \E up \in SUBSET (rows \cap TCP) : alive' = up /\ dead' = (rows \cap TCP) \ up
    /\ SweepStep("idle", "rule")
    /\ UNCHANGED <<rows, row, keep>>

\* rule pins the node that is active now.
Rule ==
    /\ keep' = active
    /\ SweepStep("rule", "record")
    /\ UNCHANGED <<rows, row, alive, dead>>

\* One transaction.
Recorded(r, n) ==
    IF n \in alive
    THEN [r EXCEPT !.missed = 0,
                   !.status = IF @ = "unavailable" /\ r.verdict = "good" THEN "ready" ELSE @]
    ELSE [r EXCEPT !.missed = Min(@ + 1, TCPFailures),
                   !.status = IF @ = "ready" /\ n # keep THEN "unavailable" ELSE @]

RecordLiveness ==
    /\ Update(alive \cup dead, [n \in Nodes |-> Recorded(row[n], n)])
    /\ SweepStep("record", "delete")
    /\ dead' = {}
    /\ UNCHANGED <<rows, alive, keep>>

\* (fault) refused handshakes count against nodes that answer sweeps
DeadByEither(n) ==
    \/ n \in TCP /\ row[n].missed >= TCPFailures /\ row[n].age >= 1
    \/ row[n].refused >= UDPFailures /\ row[n].age >= 2

\* DeadNodeRule: both signals.
Dead(n) ==
    \/ n \in TCP /\ row[n].missed >= TCPFailures /\ row[n].age >= 1
    \/ n \notin TCP /\ row[n].refused >= UDPFailures /\ row[n].age >= 2

DeleteDeadNodes ==
    /\ Delete({n \in rows : Dead(n)} \ ({keep} \cup Protected \cup Blacklisted))
    /\ SweepStep("delete", "idle")
    /\ keep' = NoNode /\ alive' = {}
    /\ UNCHANGED dead

Sweep == DialAll \/ Rule \/ RecordLiveness \/ DeleteDeadNodes

-----------------------------------------------------------------------------
(* Time and crashes.                                                       *)

\* A cooldown lasts minutes, the statements of Blacklist are next to each other.
CooldownExpires(n) ==
    /\ black[n] = "active" /\ \A b \in Blamers : blamed[b] # n
    /\ black' = [black EXCEPT ![n] = "expired"]
    /\ UNCHANGED <<rows, row, coord, gateway, blames, probes, cycle, sweeps>>

\* A sweep compares ages with the thresholds rule computed.
GrowOld(n) ==
    /\ n \in rows /\ row[n].age < 3 /\ sweep \notin {"record", "delete"}
    /\ Update({n}, [m \in Nodes |-> [row[m] EXCEPT !.age = @ + 1]])
    /\ UNCHANGED <<rows, black, coord, gateway, blames, probes, cycle, sweeps>>

\* The daemon dies and starts again: what is stored is what it finds.
Restart ==
    /\ coord' = "free"
    /\ active' = NoNode /\ trying' = NoNode /\ chosenBy' = "none"
    /\ blaming' = [b \in Blamers |-> "idle"] /\ blamed' = [b \in Blamers |-> NoNode]
    /\ worker' = [w \in Workers |-> "idle"] /\ probing' = [w \in Workers |-> NoNode]
    /\ maint' = "idle" /\ expired' = {} /\ offer' = {} /\ queue' = {} /\ tested' = {}
    /\ available' = {}
    /\ sweep' = "idle" /\ alive' = {} /\ dead' = {} /\ keep' = NoNode
    /\ UNCHANGED <<rows, row, black>>

-----------------------------------------------------------------------------
Run ==
    \/ \E n \in Nodes, by \in {"operator", "policy"} : Activate(n, by)
    \/ ActivationUp \/ ActivationFailsLocally \/ ActivationRefused \/ TunnelDown \/ Blame
    \/ \E b \in Blamers : BlacklistInsert(b) \/ BlacklistMark(b)
    \/ \E w \in Workers, n \in Nodes : ManualProbe(w, n) \/ BatchProbe(w, n)
    \/ \E w \in Workers, up \in BOOLEAN : ProbeEnd(w, up)
    \/ CycleBegin \/ Maintain \/ Sweep
    \/ \E n \in Nodes : CooldownExpires(n) \/ GrowOld(n)

Next == Run \/ Restart

Spec == Init /\ [][Next]_vars

\* What the goroutines guarantee while the daemon stays up: probes time out,
\* Blacklist and an activation end, the maintenance monitor runs cycle after
\* cycle and a cycle goes on.  Its start competes with activations for the
\* coordinator, so it is strongly fair.  Sweeps, callers and time owe nothing.
Fairness ==
    /\ SF_vars(CycleBegin) /\ SF_vars(Maintain)
    /\ WF_vars(ActivationUp \/ ActivationFailsLocally \/ ActivationRefused)
    /\ \A b \in Blamers : WF_vars(BlacklistInsert(b) \/ BlacklistMark(b))
    /\ \A w \in Workers :
        /\ WF_vars(\E up \in BOOLEAN : ProbeEnd(w, up))
        /\ SF_vars(\E n \in Nodes : BatchProbe(w, n))

-----------------------------------------------------------------------------
(* Properties.                                                             *)

Columns ==
    [status : {"discovered", "probing", "ready", "unavailable", "cooldown"},
     verdict : {"never", "good", "bad"},
     missed : 0..TCPFailures, refused : 0..UDPFailures, listed : {"yes", "no"}, age : 0..3]

\* The type invariant; a batch runs only inside a maintenance cycle.
TypeOK ==
    /\ rows \subseteq Nodes
    /\ row \in [Nodes -> Columns]
    /\ black \in [Nodes -> {"none", "active", "expired"}]
    /\ coord \in {"free", "maintenance", "activate"}
    /\ active \in Nodes \cup {NoNode} /\ trying \in Nodes \cup {NoNode}
    /\ chosenBy \in {"none", "operator", "policy"}
    /\ blaming \in [Blamers -> {"idle", "insert", "mark"}]
    /\ blamed \in [Blamers -> Nodes \cup {NoNode}]
    /\ worker \in [Workers -> {"idle", "batch", "manual"}]
    /\ probing \in [Workers -> Nodes \cup {NoNode}]
    /\ expired \subseteq Nodes /\ offer \subseteq Nodes /\ queue \subseteq Nodes
    /\ tested \subseteq Nodes /\ available \subseteq Nodes
    /\ alive \subseteq Nodes /\ dead \subseteq Nodes /\ keep \in Nodes \cup {NoNode}
    /\ coord = "maintenance" <=> maint # "idle"
    /\ \A w \in Workers : worker[w] = "batch" => maint \in {"quick", "walk"}

\* A node offered to selection has completed its last probe, whichever of the
\* writers - probes, sweeps, expiring cooldowns - made it ready.
ReadyEarned == \A n \in rows : row[n].status = "ready" => row[n].verdict = "good"

\* A maintenance batch never dials the node that carries the traffic or is being
\* brought up: a second OpenVPN to the same server would unseat it.
BatchSparesActive ==
    \A w \in Workers : worker[w] = "batch" => probing[w] \notin {active, trying}

\* Cycle after cycle that gets to its walk (one whose quick pass finds an exit
\* ends before it), however small the budget, every reachable node that was
\* never probed is probed, unless it goes, is dialled in vain, or is activated.
NewNodesProbed ==
    []<>(maint = "walk") =>
        \A n \in Nodes :
            n \in rows /\ row[n].status = "discovered" ~>
                n \notin rows \/ row[n].status # "discovered" \/ row[n].missed > 0
                    \/ active = n

\* An expired cooldown is lifted by some cycle, whether or not the provider ever
\* answers again.
CooldownLifted == \A n \in Nodes : black[n] = "expired" ~> black[n] # "expired"

\* A sweep never deletes a node that has just answered it, however long the
\* provider has not listed it and however often it refused the handshake.
SweepSparesAnswering ==
    [][sweep = "delete" /\ sweep' = "idle" => rows \ rows' \subseteq rows \ alive]_vars

\* The node carrying traffic keeps its row.
ActiveRowKept == active # NoNode => active \in rows

\* A node in cooldown has the blacklist entry whose expiry will end it.
CooldownBacked == \A n \in rows : row[n].status = "cooldown" => black[n] # "none"
=============================================================================
