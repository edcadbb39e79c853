----------------------------- MODULE PolicyRoutes -----------------------------
(***************************************************************************)
(* The policy route and rule of the exit (netx/routing.go), as its callers *)
(* run it: Gateway.Start cleans up, an activation sets up once its tunnel  *)
(* is connected, and DisconnectOnly and the exit handler clean up without  *)
(* a lock, beside it.  Every `ip` and `sysctl` command is a step of its    *)
(* own and may fail; other programs use the same routing table, and the    *)
(* process may die anywhere and lose what it remembered of rp_filter.      *)
(*                                                                         *)
(* One device carries the exit (Ours), one is another program's (Theirs),  *)
(* and one is the name releases before the private prefix used (Legacy).   *)
(***************************************************************************)
EXTENDS Naturals, FiniteSets

CONSTANTS Cleaners,       \* calls of Cleanup by DisconnectOnly and exit handlers
          Main, Installer, \* Start and the activations; `free-proxy install`
          SetupRetries, StrictRPF,
          ForeignRoutes,  \* routes another program keeps in our table
          MaxFaults       \* bound on the commands that fail by themselves

Threads == Cleaners \cup {Main, Installer}
Ours    == "fpx0"
Theirs  == "eth0"
Legacy  == "tun0"

Routes == [dst : {"default", "net"}, dev : {Ours, Theirs, Legacy}, table : {"ours", "legacy"}]
Rules  == [oif : {Ours, Legacy}, table : {"ours", "legacy"}]

OurRoute  == [dst |-> "default", dev |-> Ours, table |-> "ours"]
OurRule   == [oif |-> Ours, table |-> "ours"]
OldRoutes == {[dst |-> "net", dev |-> d, table |-> "legacy"] : d \in {Legacy, Theirs}}
OldRules  == {[oif |-> Legacy, table |-> "legacy"], [oif |-> Legacy, table |-> "ours"]}

ASSUME RoutesAssumption ==
    /\ Main # Installer /\ {Main, Installer} \cap Cleaners = {}
    /\ SetupRetries \in Nat \ {0} /\ StrictRPF \in BOOLEAN /\ MaxFaults \in Nat
    /\ ForeignRoutes \subseteq [dst : {"default", "net"}, dev : {Theirs}, table : {"ours"}]

VARIABLES
    links,     \* the devices that exist
    routes, rules,
    rpFilter,  \* of our device
    saved,     \* rpFilterOriginal of our device, lost with the process
    thread,    \* per thread: where it is and its locals
    faults

routesVars == <<links, routes, rules, rpFilter, saved, thread, faults>>

\* back: where Cleanup returns to, or the installer's table; listed: what a
\* listing showed; tables: those the installer has left; try: the attempt.
\* History: clean, no command of this Cleanup failed; alone, no other
\* thread of ours has changed the kernel since it was called.
Resting(p) == [at |-> p, back |-> p, listed |-> {}, tables |-> {}, try |-> 1,
               clean |-> TRUE, alone |-> TRUE]

RoutesInit ==
    /\ links \in {{}, {Legacy}}
    /\ routes \in {OldRoutes, OldRoutes \cup {OurRoute}}
    /\ rules \in {OldRules, OldRules \cup {OurRule}}
    /\ rpFilter = "orig" /\ saved = "none"
    /\ thread = [t \in Threads |-> Resting(IF t = Main THEN "boot" ELSE "idle")]
    /\ faults = 0

TableOf(r) == r.table
Owns(d) == d = Ours
InTable(t) == {r \in routes : r.table = t}
At(t, p) == thread[t].at = p

\* A command that runs, and one that fails though it need not.
Runs  == UNCHANGED faults
Fails == faults < MaxFaults /\ faults' = faults + 1

Go(t, new)   == thread' = [thread EXCEPT ![t] = new]
Continue(t, p) == Go(t, [thread[t] EXCEPT !.at = p])
\* The same, seen by every thread at work: the kernel changed under it.
Alter(t, new) ==
    thread' = [u \in Threads |-> IF u = t THEN new
                                 ELSE [thread[u] EXCEPT !.alone = FALSE]]
AlterTo(t, p) == Alter(t, [thread[t] EXCEPT !.at = p])

Called(t, p) == [Resting("rules") EXCEPT !.back = p, !.try = thread[t].try]

-----------------------------------------------------------------------------
(* PolicyRouter.Cleanup.                                                   *)

ShowRules(t) ==
    /\ At(t, "rules")
    /\ \/ Runs /\ Continue(t, IF OurRule \in rules THEN "delrule" ELSE "routes")
       \/ Fails /\ Go(t, [thread[t] EXCEPT !.at = "routes", !.clean = FALSE])
    /\ UNCHANGED <<links, routes, rules, rpFilter, saved>>

DelRule(t) ==
    /\ At(t, "delrule")
    /\ \/ Runs /\ rules' = rules \ {OurRule} /\ AlterTo(t, "routes")
       \/ Fails /\ Go(t, [thread[t] EXCEPT !.at = "routes", !.clean = FALSE]) /\ UNCHANGED rules
    /\ UNCHANGED <<links, routes, rpFilter, saved>>

\* A listing that fails counts as an empty one, as one of no table does.
ShowRoutes(t) ==
    /\ At(t, "routes")
    /\ \/ Runs /\ Go(t, [thread[t] EXCEPT !.at = "clear", !.listed = InTable("ours")])
       \/ Fails /\ Go(t, [thread[t] EXCEPT !.at = "clear", !.listed = {}, !.clean = FALSE])
    /\ UNCHANGED <<links, routes, rules, rpFilter, saved>>

\* (fault) flush whatever the table holds
DoomedAll(listed) == InTable("ours")
\* Flush the table when nothing foreign was listed, else only our own routes.
Doomed(listed) ==
    IF \A r \in listed : Owns(r.dev) THEN InTable("ours")
                                     ELSE {r \in listed : Owns(r.dev)}

Clear(t) ==
    /\ At(t, "clear")
    /\ \/ /\ Runs /\ routes' = routes \ Doomed(thread[t].listed)
          /\ AlterTo(t, "restore")
       \/ /\ Fails /\ Go(t, [thread[t] EXCEPT !.at = "restore", !.clean = FALSE])
          /\ UNCHANGED routes
    /\ UNCHANGED <<links, rules, rpFilter, saved>>

\* Range over rpFilterOriginal, then replace it: two accesses without a lock.
Restore(t) ==
    /\ At(t, "restore")
    /\ \/ Runs /\ rpFilter' = IF saved # "none" /\ Ours \in links THEN saved ELSE rpFilter
       \/ saved # "none" /\ Fails /\ UNCHANGED rpFilter
    /\ Continue(t, "reset")
    /\ UNCHANGED <<links, routes, rules, saved>>

Reset(t) ==
    /\ At(t, "reset")
    /\ saved' = "none"
    /\ Continue(t, thread[t].back)
    /\ UNCHANGED <<links, routes, rules, rpFilter, faults>>

Cleanup(t) ==
    \/ ShowRules(t)
    \/ DelRule(t)
    \/ ShowRoutes(t)
    \/ Clear(t)
    \/ Restore(t)
    \/ Reset(t)

CallCleanup(t) ==
    /\ t \in Cleaners /\ thread[t].at \in {"idle", "done"} /\ ~At(Main, "boot")
    /\ Go(t, Called(t, "done"))
    /\ UNCHANGED <<links, routes, rules, rpFilter, saved, faults>>

-----------------------------------------------------------------------------
(* Gateway.Start, then PolicyRouter.Setup for one activation after another. *)

Start ==
    /\ At(Main, "boot")
    /\ Go(Main, Called(Main, "idle"))
    /\ UNCHANGED <<links, routes, rules, rpFilter, saved, faults>>

WithoutOurs(set) == {r \in set : r.dev # Ours}

\* Connect: the outgoing tunnel's device goes, with its routes, and a new one comes.
Connect ==
    /\ thread[Main].at \in {"idle", "up"}
    /\ links' = links \cup {Ours} /\ rpFilter' = "orig"
    /\ routes' = WithoutOurs(routes)
    /\ Go(Main, [Resting("rules") EXCEPT !.back = "addroute"])
    /\ UNCHANGED <<rules, saved, faults>>

\* (fault) no Cleanup after a failed attempt
AttemptFailsUncleaned(from) == Continue(Main, from)

\* setupOnce failed: Setup cleans up and tries again, after its own Cleanup
\* when it was the rule that failed.
AttemptFails(from) == Go(Main, Called(Main, from))

AddRoute ==
    /\ At(Main, "addroute")
    /\ LET taken == \E r \in InTable("ours") : r.dst = "default"
       IN \/ /\ Ours \in links /\ ~taken /\ Runs
             /\ routes' = routes \cup {OurRoute} /\ AlterTo(Main, "addrule")
          \/ /\ IF Ours \notin links \/ taken THEN Runs ELSE Fails
             /\ AttemptFails("retry") /\ UNCHANGED routes
    /\ UNCHANGED <<links, rules, rpFilter, saved>>

\* (fault) the exit status of `ip rule add` is not looked at
AddRuleUnchecked ==
    /\ At(Main, "addrule")
    /\ \/ Runs /\ rules' = rules \cup {OurRule} /\ AlterTo(Main, "read")
       \/ Fails /\ Continue(Main, "read") /\ UNCHANGED rules
    /\ UNCHANGED <<links, routes, rpFilter, saved>>

AddRule ==
    /\ At(Main, "addrule")
    /\ \/ /\ OurRule \notin rules /\ Runs
          /\ rules' = rules \cup {OurRule} /\ AlterTo(Main, "read")
       \/ /\ IF OurRule \in rules THEN Runs ELSE Fails
          /\ AttemptFails("recover") /\ UNCHANGED rules
    /\ UNCHANGED <<links, routes, rpFilter, saved>>

Recover ==
    /\ At(Main, "recover")
    /\ AttemptFails("retry")
    /\ UNCHANGED <<links, routes, rules, rpFilter, saved, faults>>

ReadFilter ==
    /\ At(Main, "read")
    /\ \/ Ours \in links /\ Runs /\ saved' = rpFilter
       \/ (IF Ours \in links THEN Fails ELSE Runs) /\ UNCHANGED saved
    /\ Continue(Main, "write")
    /\ UNCHANGED <<links, routes, rules, rpFilter>>

WriteFilter ==
    /\ At(Main, "write")
    /\ \/ Ours \in links /\ Runs /\ rpFilter' = "loose" /\ Continue(Main, "up")
       \/ /\ IF Ours \in links THEN Fails ELSE Runs
          /\ IF StrictRPF THEN AttemptFails("retry") ELSE Continue(Main, "up")
          /\ UNCHANGED rpFilter
    /\ UNCHANGED <<links, routes, rules, saved>>

\* (fault) one attempt too many
RetryOneMore ==
    /\ At(Main, "retry")
    /\ IF thread[Main].try <= SetupRetries
       THEN Go(Main, [Called(Main, "addroute") EXCEPT !.try = @ + 1])
       ELSE Continue(Main, "failed")
    /\ UNCHANGED <<links, routes, rules, rpFilter, saved, faults>>

Retry ==
    /\ At(Main, "retry")
    /\ IF thread[Main].try < SetupRetries
       THEN Go(Main, [Called(Main, "addroute") EXCEPT !.try = @ + 1])
       ELSE Continue(Main, "failed")
    /\ UNCHANGED <<links, routes, rules, rpFilter, saved, faults>>

\* The activation reports the error and takes its tunnel down.
GiveUpTunnel ==
    /\ At(Main, "failed")
    /\ links' = links \ {Ours} /\ routes' = WithoutOurs(routes)
    /\ Go(Main, Resting("idle"))
    /\ UNCHANGED <<rules, rpFilter, saved, faults>>

Setup == AddRoute \/ AddRule \/ Recover \/ ReadFilter \/ WriteFilter \/ Retry

-----------------------------------------------------------------------------
(* CleanupOrphanedRules, for the device name of earlier releases.          *)

Look ==
    /\ At(Installer, "idle")
    /\ IF Legacy \in links THEN UNCHANGED thread ELSE Continue(Installer, "orphans")
    /\ UNCHANGED <<links, routes, rules, rpFilter, saved, faults>>

OrphanTables == {r.table : r \in {q \in rules : q.oif = Legacy}}

ShowOrphans ==
    /\ At(Installer, "orphans")
    /\ \/ Runs /\ Go(Installer, [thread[Installer] EXCEPT !.at = "next", !.tables = OrphanTables])
       \/ Fails /\ Go(Installer, Resting("idle"))
    /\ UNCHANGED <<links, routes, rules, rpFilter, saved>>

\* Each table once: the rule, then, if that went, what the table holds.
DelOrphan ==
    /\ At(Installer, "next")
    /\ \/ thread[Installer].tables = {} /\ Go(Installer, Resting("idle")) /\ UNCHANGED <<rules, faults>>
       \/ \E t \in thread[Installer].tables :
            LET rest == [thread[Installer] EXCEPT !.tables = @ \ {t}]
            IN \/ /\ Runs /\ rules' = rules \ {[oif |-> Legacy, table |-> t]}
                  /\ Go(Installer, [rest EXCEPT !.at = "list", !.back = t])
               \/ Fails /\ Go(Installer, rest) /\ UNCHANGED rules
    /\ UNCHANGED <<links, routes, rpFilter, saved>>

ShowOrphanRoutes ==
    /\ At(Installer, "list")
    /\ \/ Runs /\ Go(Installer, [thread[Installer] EXCEPT !.at = "unroute", !.listed = InTable(thread[Installer].back)])
       \/ Fails /\ Continue(Installer, "next")
    /\ UNCHANGED <<links, routes, rules, rpFilter, saved>>

DelOrphanRoute ==
    /\ At(Installer, "unroute")
    /\ \/ /\ \A r \in thread[Installer].listed : r.dev # Legacy
          /\ Go(Installer, [thread[Installer] EXCEPT !.at = "next", !.listed = {}])
          /\ UNCHANGED <<routes, faults>>
       \/ \E r \in thread[Installer].listed :
            /\ r.dev = Legacy
            /\ Go(Installer, [thread[Installer] EXCEPT !.listed = @ \ {r}])
            /\ (Runs /\ routes' = routes \ {r}) \/ (Fails /\ UNCHANGED routes)
    /\ UNCHANGED <<links, rules, rpFilter, saved>>

CleanupOrphanedRules ==
    \/ Look
    \/ ShowOrphans
    \/ DelOrphan
    \/ ShowOrphanRoutes
    \/ DelOrphanRoute

-----------------------------------------------------------------------------
(* The host: other programs, tunnels that end, and the process dying.      *)

ForeignAdds ==
    /\ \E r \in ForeignRoutes :
         /\ \A q \in InTable("ours") : q.dst # r.dst
         /\ routes' = routes \cup {r}
    /\ UNCHANGED <<links, rules, rpFilter, saved, thread, faults>>

ForeignRemoves ==
    /\ \E r \in ForeignRoutes \cap routes : routes' = routes \ {r}
    /\ UNCHANGED <<links, rules, rpFilter, saved, thread, faults>>

\* The kernel drops the routes of a device that goes; rules stay.
DeviceGone ==
    /\ \E d \in links : links' = links \ {d} /\ routes' = {r \in routes : r.dev # d}
    /\ UNCHANGED <<rules, rpFilter, saved, thread, faults>>

ProcessDies ==
    /\ ~At(Main, "boot")
    /\ saved' = "none"
    /\ thread' = [t \in Threads |-> IF t = Installer THEN thread[t]
                                    ELSE Resting(IF t = Main THEN "boot" ELSE "idle")]
    /\ UNCHANGED <<links, routes, rules, rpFilter, faults>>

ServiceSteps ==
    \/ Start
    \/ Connect
    \/ Setup
    \/ GiveUpTunnel
    \/ \E t \in Cleaners \cup {Main} : Cleanup(t) \/ CallCleanup(t)
    \/ ProcessDies

HostSteps ==
    \/ ForeignAdds
    \/ ForeignRemoves
    \/ DeviceGone

RoutesNext == ServiceSteps \/ CleanupOrphanedRules \/ HostSteps

RoutesSpec == RoutesInit /\ [][RoutesNext]_routesVars

-----------------------------------------------------------------------------
(* Properties.                                                             *)

Positions ==
    {"boot", "idle", "done", "rules", "delrule", "routes", "clear", "restore", "reset",
     "addroute", "addrule", "recover", "read", "write", "retry", "up", "failed",
     "orphans", "next", "list", "unroute"}

\* Every variable keeps its type (PolicyRouter and the kernel tables it edits).
RoutesTypeOK ==
    /\ links \subseteq {Ours, Legacy} /\ routes \subseteq Routes /\ rules \subseteq Rules
    /\ rpFilter \in {"orig", "loose"} /\ saved \in {"none", "orig", "loose"}
    /\ \A t \in Threads : thread[t].at \in Positions /\ thread[t].try \in 1..SetupRetries
    /\ faults \in 0..MaxFaults

Stepped(t) == thread'[t].at # thread[t].at \/ thread'[t].listed # thread[t].listed

\* PolicyRouter.Cleanup and CleanupOrphanedRules: a route of another program
\* that the call's own listing showed survives the call.
SeenForeignKept ==
    [][\A t \in Threads : \A r \in ForeignRoutes \cup OldRoutes :
         Stepped(t) /\ r \in thread[t].listed /\ r.dev = Theirs /\ r \in routes
         => r \in routes']_routesVars

\* Cleanup, wherever it is called from and whatever a crash left behind: when
\* none of its commands failed and no other thread worked on the tables, it
\* leaves no rule and no route of ours.
CleanupComplete ==
    \A t \in Cleaners \cup {Main} :
        /\ thread[t].at \in {"done", "addroute", "retry", "failed"}
        /\ thread[t].clean /\ thread[t].alone
        => OurRule \notin rules /\ OurRoute \notin routes

\* Setup's success means both: unless another thread cleaned up meanwhile or
\* the device has gone, an exit that is up has its route and its rule.
SetupWhole ==
    At(Main, "up") /\ thread[Main].alone /\ Ours \in links
    => OurRule \in rules /\ OurRoute \in routes
=============================================================================
