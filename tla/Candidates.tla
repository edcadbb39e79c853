------------------------------ MODULE Candidates ------------------------------
(***************************************************************************)
(* Which node is tried next: the filters and orders of services/pool.go,   *)
(* as a rotation (autoswitch.go) and the first probing pass of maintenance *)
(* use them, while probes and the operator change nodes and settings.      *)
(*                                                                         *)
(* Two abstractions.  Figures are integers, and the smart score an exact   *)
(* one in units common to one list; the code computes it in float64, where *)
(* rounding may make a tie, which ids break, of scores that differ, or     *)
(* order equal ones.  And a list holds every node of its kind: the LIMIT   *)
(* 1000 of a rotation's list and the 5000 of a cycle's are left out, so    *)
(* that of a larger pool the nodes beyond are not among those compared.    *)
(***************************************************************************)
EXTENDS Integers, Sequences, FiniteSets, FiniteSetsExt

CONSTANTS Profiles,    \* what a node may be: records, see NodeFields
          Nodes,       \* node ids, ordered as the code orders them: naturals
          MaxAttempts, \* candidates one rotation tries
          QuickLimit,  \* InitialConnectTestLimit
          MaxEdits     \* bound on probes and settings saved meanwhile

Modes   == {"auto", "speed_first", "smart", "residential_first", "picked"}
IPTypes == {"residential", "mobile", "hosting", "unknown"}
\* latency: measured by a probe, 0 if none; ping, speed, score, sessions: the
\* provider's figures, 0 if not given.
NodeFields == [ip : IPTypes, latency : Nat, ping : Nat, speed : Nat, score : Nat, sessions : Nat]

ASSUME CandidatesAssumption ==
    /\ Profiles \subseteq NodeFields /\ Nodes \subseteq Nat /\ IsFiniteSet(Nodes)
    /\ MaxAttempts \in Nat \ {0} /\ QuickLimit \in Nat /\ MaxEdits \in Nat

VARIABLES
    nodes,     \* the stored nodes
    status,    \* of each: discovered, ready or unavailable
    settings,  \* mode, IP type policy, and the ids of the modes fixed, country
               \* and favorites
    rotation,  \* at, the list read, the ids excluded, the nodes chosen, attempts;
               \* smart: history, whether they were chosen in that mode
    edits

candidatesVars == <<nodes, status, settings, rotation, edits>>

AtRest == [at |-> "rest", list |-> {}, excluded |-> {}, chosen |-> {}, attempts |-> 0,
           smart |-> FALSE]

CandidatesInit ==
    /\ nodes \in [Nodes -> Profiles]
    /\ status \in [Nodes -> {"discovered", "ready"}]
    /\ settings \in [mode : Modes, ipType : {"all", "residential", "hosting"},
                     picked : {Nodes, Nodes \ {0}}]
    /\ settings.mode # "picked" => settings.picked = Nodes
    /\ rotation = AtRest /\ edits = 0

-----------------------------------------------------------------------------
(* pool.go                                                                 *)

\* ListNodes and candidateNodes
With(states) == {[id |-> n, of |-> nodes[n]] : n \in {n \in Nodes : status[n] \in states}}

Residential(x) == x.of.ip \in {"residential", "mobile"}

\* ApplyFilters
Permitted(list, s, unknownToo) ==
    {x \in list :
        /\ x.id \in s.picked
        /\ CASE s.ipType = "residential" -> Residential(x) \/ (unknownToo /\ x.of.ip = "unknown")
             [] s.ipType = "hosting" -> x.of.ip = "hosting" \/ (unknownToo /\ x.of.ip = "unknown")
             [] s.ipType = "all" -> TRUE}

Unknown == 999999
OrUnknown(ms) == IF ms > 0 THEN ms ELSE Unknown

\* (fault) a node nobody has measured is the nearest
EffLatencyZero(x) == x.of.latency

EffLatency(x) == OrUnknown(x.of.latency)

EffPing(x) == OrUnknown(x.of.ping)

EffSpeed(x) == IF x.of.speed > 0 THEN x.of.speed ELSE -1

ResidentialRank(x) == IF Residential(x) THEN 0 ELSE 1

\* smartLatency
SmartLatency(x, sourceLatency) ==
    IF x.of.latency = 0 /\ sourceLatency THEN EffPing(x) ELSE EffLatency(x)

\* normalize: where v lies in values, as a fraction.
Normalize(v, values) ==
    IF Cardinality(values) = 1 THEN [num |-> 1, den |-> 2]
    ELSE [num |-> v - Min(values), den |-> Max(values) - Min(values)]

Rest(f) == [f EXCEPT !.num = f.den - @]

\* The score of x among list, 40 : 40 : 20, in units that depend on list only.
SmartScore(x, list, sourceLatency) ==
    LET l == Rest(Normalize(SmartLatency(x, sourceLatency),
                            {SmartLatency(y, sourceLatency) : y \in list}))
        s == Normalize(EffSpeed(x), {EffSpeed(y) : y \in list})
        n == Rest(Normalize(x.of.sessions, {y.of.sessions : y \in list}))
    IN 4 * l.num * s.den * n.den + 4 * s.num * l.den * n.den + 2 * n.num * l.den * s.den

\* The order rows are listed in, which the stable sorts keep among equals.
Listed(x) == <<EffLatency(x), -x.of.score, x.id>>

\* lessFor and sortSmartCandidates: the earlier key comes first.
SortKey(x, list, s) ==
    CASE s.mode = "smart" -> <<-SmartScore(x, list, FALSE), x.id>>
      [] s.mode = "speed_first" ->
            <<-EffSpeed(x), EffLatency(x), -x.of.score, ResidentialRank(x)>> \o Listed(x)
      [] s.mode = "residential_first" ->
            <<ResidentialRank(x), EffLatency(x), -x.of.score, -x.of.speed>> \o Listed(x)
      [] OTHER -> <<EffLatency(x), -x.of.score, -x.of.speed, ResidentialRank(x)>> \o Listed(x)

\* probeLess and sortSmartCandidates, for the first probing pass.
ProbeKey(x, list, s) ==
    CASE s.mode = "smart" -> <<-SmartScore(x, list, TRUE), x.id>>
      [] s.mode = "speed_first" ->
            <<-x.of.speed, EffPing(x), -x.of.score, x.of.sessions>> \o Listed(x)
      [] OTHER -> <<EffPing(x), -x.of.score, -x.of.speed, x.of.sessions>> \o Listed(x)

Earlier(a, b) ==
    \E i \in DOMAIN a : a[i] < b[i] /\ \A j \in 1..i - 1 : a[j] = b[j]

\* The first n of list in the order of key.
First(n, list, key) ==
    {x \in list : Cardinality({y \in list : Earlier(key[y], key[x])}) < n}

-----------------------------------------------------------------------------
(* A rotation: switchExcluding, selectExcluding; and maintenance's first   *)
(* pass.                                                                   *)

Keep == UNCHANGED <<nodes, status, settings, edits>>
Chosen == {x.id : x \in rotation.chosen}

\* The node active until now is excluded from the start.
Rotate0(active) ==
    /\ rotation.at = "rest"
    /\ rotation' = [AtRest EXCEPT !.at = "list", !.excluded = active]
    /\ Keep

\* ListNodes without its LIMIT.
ListReady ==
    /\ rotation.at = "list"
    /\ rotation' = [rotation EXCEPT !.at = "select", !.list = With({"ready"}), !.chosen = {}]
    /\ Keep

SelectExcluding ==
    /\ rotation.at = "select"
    /\ LET list == {x \in Permitted(rotation.list, settings, FALSE) : x.id \notin rotation.excluded}
       IN rotation' = IF list = {} THEN AtRest
                      ELSE [rotation EXCEPT !.at = "activate", !.list = list,
                               !.chosen = First(1, list, [x \in list |-> SortKey(x, list, settings)])]
    /\ Keep

\* The node refuses and cools down, or something of ours fails and it does not.
ActivationFails ==
    /\ rotation.at = "activate"
    /\ \E refused \in BOOLEAN :
         status' = [n \in Nodes |-> IF refused /\ n \in Chosen THEN "unavailable" ELSE status[n]]
    /\ rotation' = IF rotation.attempts + 1 = MaxAttempts THEN AtRest
                   ELSE [rotation EXCEPT !.at = "list", !.attempts = @ + 1,
                            !.excluded = @ \cup Chosen]
    /\ UNCHANGED <<nodes, settings, edits>>

\* It succeeds, or a conflict is handed back.
ActivationEnds ==
    /\ rotation.at = "activate" /\ rotation' = AtRest
    /\ Keep

\* Nobody is connected: the most promising of the discovered and the ready.
PickFast ==
    /\ rotation.at = "rest"
    /\ LET list == Permitted(With({"discovered", "ready"}), settings, TRUE)
       IN rotation' = [AtRest EXCEPT !.at = "probe", !.list = list,
                          !.smart = (settings.mode = "smart"),
                          !.chosen = First(QuickLimit, list, [x \in list |-> ProbeKey(x, list, settings)])]
    /\ Keep

\* A node that is probed is ready, with the latency measured, or is not.
Probed ==
    /\ rotation.at = "probe" /\ rotation' = AtRest
    /\ \E up \in SUBSET Chosen :
         status' = [n \in Nodes |-> IF n \in up THEN "ready"
                                    ELSE IF n \in Chosen THEN "unavailable" ELSE status[n]]
    /\ UNCHANGED <<nodes, settings, edits>>

\* Another writer, between two reads of the rotation.
Measured(n) ==
    /\ edits < MaxEdits /\ edits' = edits + 1
    /\ \E p \in Profiles :
         /\ [p EXCEPT !.latency = 0] = [nodes[n] EXCEPT !.latency = 0]
         /\ nodes' = [nodes EXCEPT ![n] = p]
    /\ status' = [status EXCEPT ![n] = "ready"]
    /\ UNCHANGED <<settings, rotation>>

SaveSettings ==
    /\ edits < MaxEdits /\ edits' = edits + 1
    /\ \E m \in Modes : settings' = [settings EXCEPT !.mode = m, !.picked = Nodes]
    /\ UNCHANGED <<nodes, status, rotation>>

CandidatesNext ==
    \/ \E active \in {{}} \cup {{n} : n \in Nodes} : Rotate0(active)
    \/ ListReady \/ SelectExcluding \/ ActivationFails \/ ActivationEnds
    \/ PickFast \/ Probed
    \/ \E n \in Nodes : Measured(n)
    \/ SaveSettings

CandidatesSpec == CandidatesInit /\ [][CandidatesNext]_candidatesVars

-----------------------------------------------------------------------------
(* Properties.                                                             *)

CandidatesTypeOK ==
    /\ nodes \in [Nodes -> Profiles] /\ status \in [Nodes -> {"discovered", "ready", "unavailable"}]
    /\ settings.mode \in Modes /\ edits \in 0..MaxEdits
    /\ rotation.at \in {"rest", "list", "select", "activate", "probe"}
    /\ rotation.chosen \subseteq rotation.list /\ rotation.excluded \subseteq Nodes
    /\ rotation.attempts \in 0..MaxAttempts

\* y is at least as good as x in all a mode may weigh, and nearer or faster;
\* what nobody knows is the worst there is.
Dominates(y, x, away(_)) ==
    /\ away(y) <= away(x) /\ EffSpeed(y) >= EffSpeed(x)
    /\ y.of.score >= x.of.score /\ y.of.sessions <= x.of.sessions
    /\ ResidentialRank(y) <= ResidentialRank(x)
    /\ away(y) < away(x) \/ EffSpeed(y) > EffSpeed(x)

\* SortCandidates, probeLess and the smart order: in whatever mode and among
\* whatever integer figures, missing ones included, the node a rotation tries next and
\* the nodes the first pass probes are none that another one left aside beats
\* throughout; and a rotation tries no node twice, nor the one it came from.
UndominatedChosen ==
    LET left == rotation.list \ rotation.chosen IN
    /\ rotation.at = "activate" =>
         /\ Chosen \cap rotation.excluded = {}
         /\ ~\E x \in rotation.chosen, y \in left :
                Dominates(y, x, LAMBDA z : IF z.of.latency = 0 THEN Unknown ELSE z.of.latency)
    /\ rotation.at = "probe" =>
         ~\E x \in rotation.chosen, y \in left :
            Dominates(y, x, LAMBDA z : IF rotation.smart THEN SmartLatency(z, TRUE) ELSE EffPing(z))
=============================================================================
