------------------------------- MODULE MCAccess -------------------------------
(***************************************************************************)
(* One instance of each module about who gets in and by which node traffic *)
(* leaves.  They share no state: part, chosen once, says which of them     *)
(* acts, and the rest keeps its initial values.                            *)
(***************************************************************************)
EXTENDS AdminSettings, ProxyAuth, AttemptLimiter, ProxyListener, Candidates

VARIABLE part

Node(ip, latency, ping, speed, score, load) ==
    [ip |-> ip, latency |-> latency, ping |-> ping,
     speed |-> speed, score |-> score, sessions |-> load]

\* Near and far, measured or not, advertised or not, residential or not.
Catalogue == <<Node("hosting", 1, 1, 1, 0, 1), Node("mobile", 0, 2, 3, 1, 0),
               Node("unknown", 1, 1, 0, 1, 2), Node("hosting", 0, 1, 1, 0, 1)>>
SomeProfiles == {Catalogue[i] : i \in DOMAIN Catalogue}

\* Three of the catalogue, in its order.
ThreeNodes ==
    \E f \in [Nodes -> DOMAIN Catalogue] :
        /\ \A m, n \in Nodes : m < n => f[m] < f[n]
        /\ nodes = [n \in Nodes |-> Catalogue[f[n]]]

First3 == nodes = [n \in Nodes |-> Catalogue[n + 1]]
AllReady == status = [n \in Nodes |-> "ready"]
SomePolicies ==
    settings.ipType \in {"all"} \cup (CASE settings.mode = "smart" -> {"residential"}
                                       [] settings.mode = "picked" -> {"hosting"}
                                       [] OTHER -> {})
AutoMode == settings.mode = "auto" /\ settings.ipType = "all"

Init ==
    /\ part \in {"start", "serve", "fault", "auth", "login", "listener", "candidates"}
    /\ AdminInit
    /\ part # "start" => admin = Admin(1, 1, 1) /\ bootstrap = None
    /\ part \notin {"serve", "fault"} => mayRestart
    /\ AuthInit /\ (part # "auth" => stored = Unset)
    /\ LimiterInit
    /\ ListenerInit /\ (part # "listener" => ~authOn /\ ~external)
    /\ CandidatesInit
    /\ IF part = "candidates"
       THEN ThreeNodes /\ SomePolicies /\ \A n \in Nodes : n > 0 => status[n] = "ready"
       ELSE First3 /\ AllReady /\ AutoMode

\* Requests and connections are alike, so that a new one may take the lowest
\* free number.
RequestsInTurn ==
    \A r, s \in Requests :
        r < s /\ jobs[r].at = "idle" /\ jobs[s].at = "idle" => jobs'[s].at = "idle"

\* Sessions do nothing to each other: one at a time shows what each can be.
OneSession == Cardinality(sessions') <= 1

ConnsInTurn ==
    \A c, d \in Conns :
        c < d /\ conn[c].at = "none" /\ conn[d].at = "none" => conn'[d].at = "none"

\* A new user name only ends the sessions once more, and the exposure has nothing to
\* do with sessions: the second part leaves both to the third.
PasswordOnly ==
    \A r \in Requests : jobs'[r].at # "idle" => jobs'[r].prev # None /\ ~jobs'[r].cfg.ext

\* First starts beside one command, with a crash and no login; two calls of
\* anything while nothing fails; one request that may fail.
AdminPart ==
    /\ part \in {"start", "serve", "fault"}
    /\ AdminNext
    /\ part = "start" => calls' <= 1 /\ \A l \in Logins : logins'[l] = None
    /\ part = "serve" => faults' = 0 /\ RequestsInTurn /\ OneSession /\ PasswordOnly
    /\ part = "fault" => calls' <= 1
    /\ UNCHANGED <<part, authVars, limiterVars, listenerVars, candidatesVars>>

AuthPart ==
    /\ part = "auth" /\ AuthNext
    /\ UNCHANGED <<part, adminVars, limiterVars, listenerVars, candidatesVars>>

LoginPart ==
    /\ part = "login" /\ LimiterNext
    /\ UNCHANGED <<part, adminVars, authVars, listenerVars, candidatesVars>>

ListenerPart ==
    /\ part = "listener" /\ ListenerNext /\ ConnsInTurn
    /\ UNCHANGED <<part, adminVars, authVars, limiterVars, candidatesVars>>

CandidatesPart ==
    /\ part = "candidates" /\ CandidatesNext
    /\ UNCHANGED <<part, adminVars, authVars, limiterVars, listenerVars>>

Next == AdminPart \/ AuthPart \/ LoginPart \/ ListenerPart \/ CandidatesPart

Spec ==
    /\ Init /\ [][Next]_<<part, adminVars, authVars, limiterVars, listenerVars, candidatesVars>>
    /\ ListenerFairness

\* Every variable of the five modules keeps its type.
AccessTypeOK ==
    AdminTypeOK /\ AuthTypeOK /\ LimiterTypeOK /\ ListenerTypeOK /\ CandidatesTypeOK
=============================================================================
