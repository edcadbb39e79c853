--------------------------- MODULE GatewayTunnel ---------------------------
(***************************************************************************)
(* The exit gateway: GatewayService (services/gateway.go), the operation   *)
(* Coordinator it runs under (services/operations.go), the tunnel.Manager  *)
(* (tunnel/openvpn.go) and the supervised OpenVPN processes it owns        *)
(* (tunnel/process.go), at the grain of their locks.                       *)
(*                                                                         *)
(* An actor is a goroutine.  Threads are the callers: HTTP requests, jobs, *)
(* monitors.  Every OpenVPN process p also has its reaper goroutine        *)
(* Managed.watch, which is actor p: it waits for the process, then runs    *)
(* the unexpected-exit handler, which may call back into the gateway.      *)
(* pc[t] is where the goroutine is inside this code: "idle" outside it,    *)
(* "waiting" in cmd.Wait, "report" in the recovery callback.               *)
(*                                                                         *)
(* Each step is the code between two points at which another goroutine can *)
(* be seen: a lock, a database statement, an `ip` command, a process.      *)
(*                                                                         *)
(* Left out: what the status reports (errors, latencies, the exit address  *)
(* and activeSince) and the time the tunnel lasted, which the callback     *)
(* hands to recovery.                                                      *)
(***************************************************************************)
EXTENDS Naturals, FiniteSets

CONSTANTS Threads,   \* caller goroutines
          Procs,     \* identities for OpenVPN processes, reused once forgotten
          Nodes,     \* exit nodes
          NoActor, NoProc, NoNode

ASSUME GatewayAssumption ==
    /\ Threads \cap Procs = {}
    /\ NoActor \notin Threads \cup Procs
    /\ NoProc \notin Procs
    /\ NoNode \notin Nodes

VARIABLES
    service,     \* "up" while the daemon runs, "down" after a crash or stop
    coord,       \* holder of Coordinator.sem
    outer,       \* the caller whose enclosing Run (maintenance, switch-node, probe) holds it
    opMu,        \* holder of GatewayService.opMu
    tmu,         \* holder of Manager.mu
    pc, target,             \* per actor: position, node argument of Activate
    failedNode,  \* nodeID of handleUnexpectedExit, per reaper
    life,        \* per process: "none", "up" with the device, "exited", "done" (reaped,
                 \* Managed.done closed), "orphan" (outlives its daemon)
    nodeOf,      \* the node a process dials (history: Managed does not record it)
    intentional, handled,   \* processes whose Managed.intentional, onExit is set
    config,      \* processes whose .ovpn file and output pipe still exist; NoProc stands for
                 \* .ovpn files that earlier lives of the daemon have left
    launching,   \* process started by Connect and not yet installed
    active, activeNode,     \* Manager.active, Manager.activeNodeID
    routes,      \* the policy route and rule: "up" or "down"
    dbSwitch, memSwitch,  \* the master switch in the database and in memory
    skipped      \* history: what the Disconnect under opMu left, "switch", "routes", failing to act

locks   == <<coord, outer, opMu, tmu>>
frames  == <<target, failedNode>>
procs   == <<life, nodeOf, intentional, handled>>
files   == <<config, launching>>
tunnel  == <<active, activeNode>>
switch  == <<dbSwitch, memSwitch>>
vars    == <<service, locks, pc, frames, procs, files, tunnel, routes, switch, skipped>>

Actors == Threads \cup Procs

\* Where an actor stands when it is outside the gateway's code but may call it:
\* a caller goroutine between calls, a reaper inside the recovery callback.
Home(t) == IF t \in Threads THEN "idle" ELSE "report"
Ready(t) == service = "up" /\ pc[t] = Home(t)

At(t, here) == pc[t] = here
Goto(t, there) == pc' = [pc EXCEPT ![t] = there]

\* Processes that hold the tunnel device, and those not yet reaped.
Live   == {p \in Procs : life[p] \in {"up", "orphan"}}
Unreaped == {p \in Procs : life[p] \in {"up", "exited"}}

Init ==
    /\ service = "up" /\ coord = NoActor /\ outer = NoActor
    /\ opMu = NoActor /\ tmu = NoActor
    /\ pc = [t \in Actors |-> "idle"]
    /\ target = [t \in Actors |-> NoNode]
    /\ failedNode = [p \in Procs |-> NoNode]
    /\ life = [p \in Procs |-> "none"]
    /\ nodeOf = [p \in Procs |-> NoNode]
    /\ intentional = {} /\ handled = {} /\ config = {}
    /\ launching = NoProc /\ active = NoProc /\ activeNode = NoNode
    /\ routes = "down"
    /\ dbSwitch = "on" /\ memSwitch = "on" /\ skipped = {}

-----------------------------------------------------------------------------
(* Coordinator: Begin with wait = false, a context token for nested calls. *)

\* An enclosing operation takes the coordinator for itself (Run).
BeginOuter(t) ==
    /\ Ready(t) /\ coord = NoActor
    /\ coord' = t /\ outer' = t
    /\ UNCHANGED <<service, opMu, tmu, pc, frames, procs, files, tunnel, routes, switch, skipped>>

EndOuter(t) ==
    /\ Ready(t) /\ coord = t
    /\ coord' = NoActor /\ outer' = NoActor
    /\ UNCHANGED <<service, opMu, tmu, pc, frames, procs, files, tunnel, routes, switch, skipped>>

\* (fault) the try-acquire is skipped
AdmittedAlways(t) == TRUE

\* A nested call keeps the enclosing hold, a free semaphore is taken; a held
\* one is ErrOperationConflict, which changes nothing.
Admitted(t) == coord \in {t, NoActor}

CallActivate(t, n) ==
    /\ Ready(t) /\ Admitted(t)
    /\ coord' = t
    /\ target' = [target EXCEPT ![t] = n]
    /\ Goto(t, "lock")
    /\ UNCHANGED <<service, outer, opMu, tmu, failedNode,
                   procs, files, tunnel, routes, switch, skipped>>

\* (fault) a nested release frees the caller's hold
ReturnReleasing(t) ==
    /\ opMu' = NoActor /\ coord' = NoActor
    /\ target' = [target EXCEPT ![t] = NoNode]
    /\ Goto(t, Home(t))

\* Both deferred releases: opMu, then the coordinator unless it is the caller's.
Return(t) ==
    /\ opMu' = NoActor
    /\ coord' = outer
    /\ target' = [target EXCEPT ![t] = NoNode]
    /\ Goto(t, Home(t))

-----------------------------------------------------------------------------
(* Manager.disconnectLocked and Managed.Stop, used from four places: take  *)
(* Manager.mu, mark the process intentional and signal it, then wait until *)
(* it is reaped, release its pipe and file, and drop the reference.        *)

StopBegin(t, from, to) ==
    /\ At(t, from) /\ tmu = NoActor
    /\ tmu' = t
    /\ intentional' = intentional \cup ({active} \ {NoProc})
    /\ Goto(t, to)
    /\ UNCHANGED <<service, coord, outer, opMu, frames, life, nodeOf, handled, files,
                   tunnel, routes, switch, skipped>>

\* (fault) Stop signals and does not wait
StoppedUnawaited == TRUE

\* Stop's wait on done is over.
Stopped == active # NoProc => life[active] = "done"

\* A process is forgotten once neither its reaper nor the Manager refers to it;
\* its identity can then stand for a new one.
Forget(S) ==
    /\ life' = [p \in Procs |-> IF p \in S THEN "none" ELSE life[p]]
    /\ nodeOf' = [p \in Procs |-> IF p \in S THEN NoNode ELSE nodeOf[p]]
    /\ intentional' = intentional \ S /\ handled' = handled \ S
Forgotten(p) == life[p] = "none" /\ pc[p] = "idle"
ActiveForgotten == {p \in Procs : p = active /\ pc[p] = "idle"}

\* (fault) the reference goes without Stop's release
DropUnreleased ==
    /\ Forget(ActiveForgotten)
    /\ active' = NoProc /\ activeNode' = NoNode /\ UNCHANGED config

DropActive ==
    /\ Forget(ActiveForgotten)
    /\ config' = config \ ({active} \ {NoProc})
    /\ active' = NoProc /\ activeNode' = NoNode

\* owner: Connect goes on holding Manager.mu, Disconnect releases it.
StopEnd(t, from, to, owner) ==
    /\ At(t, from) /\ Stopped
    /\ DropActive
    /\ tmu' = owner
    /\ Goto(t, to)
    /\ UNCHANGED <<service, coord, outer, opMu, frames, launching, routes, switch, skipped>>

-----------------------------------------------------------------------------
(* GatewayService.activate, under the coordinator and opMu.                *)

\* (fault) Disconnect does not wait for opMu
LockOpBarging(t, from, to) ==
    /\ At(t, from) /\ (from = "dlock" \/ opMu = NoActor)
    /\ opMu' = t
    /\ Goto(t, to)
    /\ UNCHANGED <<service, coord, outer, tmu, frames, procs, files, tunnel, routes, switch, skipped>>

LockOp(t, from, to) ==
    /\ At(t, from) /\ opMu = NoActor
    /\ opMu' = t
    /\ Goto(t, to)
    /\ UNCHANGED <<service, coord, outer, tmu, frames, procs, files, tunnel, routes, switch, skipped>>

\* A step of activate that either goes on or returns an error.
Pass(t, from, to) ==
    /\ At(t, from) /\ Goto(t, to)
    /\ UNCHANGED <<service, locks, frames, procs, files, tunnel, routes, switch, skipped>>
Fail(t, from) ==
    /\ At(t, from) /\ Return(t)
    /\ UNCHANGED <<service, outer, tmu, failedNode, procs, files, tunnel, routes, switch, skipped>>

\* GetTarget and Get: the node may be gone, the database may fail.
LookupFails(t) == Fail(t, "enable")

\* Its error is discarded: the write may fail.
SwitchOnDB(t) ==
    /\ At(t, "enable") /\ Goto(t, "enableMem")
    /\ dbSwitch' \in {dbSwitch, "on"}
    /\ UNCHANGED <<service, locks, frames, procs, files, tunnel, routes, memSwitch, skipped>>

SwitchOnMem(t) ==
    /\ At(t, "enableMem") /\ Goto(t, "validate")
    /\ memSwitch' = "on"
    /\ UNCHANGED <<service, locks, frames, procs, files, tunnel, routes, dbSwitch, skipped>>

\* ValidateAllowed reads the settings again: a switch turned off meanwhile is
\* ErrDisabled; the policy may reject the node.
Validate(t) == (dbSwitch = "on" /\ Pass(t, "validate", "drop")) \/ Fail(t, "validate")

\* (fault) the device is not checked
CheckDeviceTrusting(t) == Pass(t, "device", "connect")

\* EnsureDeviceAvailable: refused while any process still holds the device.  Its
\* scan of /proc is taken to see them all.
CheckDevice(t) == (Live = {} /\ Pass(t, "device", "connect")) \/ Fail(t, "device")

\* Connect's Runner.Start came back ready: the process runs and its reaper waits.
StartReady(t) ==
    /\ At(t, "start")
    /\ \E p \in Procs :
        /\ Forgotten(p)
        /\ life' = [life EXCEPT ![p] = "up"]
        /\ nodeOf' = [nodeOf EXCEPT ![p] = target[t]]
        /\ config' = config \cup {p}
        /\ launching' = p
        /\ pc' = [pc EXCEPT ![t] = "install", ![p] = "waiting"]
    /\ UNCHANGED <<service, locks, frames, intentional, handled, tunnel, routes, switch, skipped>>

\* It failed, timed out or was cancelled: the process is gone, the file
\* removed, Manager.mu released, the node marked unavailable.
StartRefused(t) ==
    /\ At(t, "start") /\ Return(t)
    /\ tmu' = NoActor
    /\ UNCHANGED <<service, outer, failedNode, procs, files, tunnel, routes, switch, skipped>>

\* SetExitHandler on the new process, then the references, then unlock.
Install(t) ==
    /\ At(t, "install")
    /\ handled' = handled \cup {launching}
    /\ active' = launching /\ activeNode' = target[t]
    /\ launching' = NoProc
    /\ tmu' = NoActor
    /\ Goto(t, "route")
    /\ UNCHANGED <<service, coord, outer, opMu, frames, life, nodeOf, intentional,
                   config, routes, switch, skipped>>

\* PolicyRouter.Setup: the activation is done, or there is an exit to undo; the
\* last failed attempt cleans up after itself, if it can.
SetupRoutes(t) ==
    /\ At(t, "route")
    /\ \/ routes' = "up" /\ Return(t)
       \/ routes' \in {"up", "down"} /\ Goto(t, "undo") /\ UNCHANGED <<coord, opMu, target>>
    /\ UNCHANGED <<service, outer, tmu, failedNode, procs, files, tunnel, switch, skipped>>

\* (fault) an early return without the unlock
UndoEndHolding(t) ==
    /\ At(t, "undoing") /\ Stopped
    /\ DropActive /\ Return(t)
    /\ UNCHANGED <<service, outer, tmu, failedNode, launching, routes, switch, skipped>>

\* The Disconnect after a routing failure ends, and activate with it.
UndoEnd(t) ==
    /\ At(t, "undoing") /\ Stopped
    /\ DropActive /\ Return(t)
    /\ tmu' = NoActor
    /\ UNCHANGED <<service, outer, failedNode, launching, routes, switch, skipped>>

ActivateStep(t) ==
    \/ LockOp(t, "lock", "enable")
    \/ LookupFails(t) \/ SwitchOnDB(t) \/ SwitchOnMem(t) \/ Validate(t)
    \/ StopBegin(t, "drop", "dropping") \/ StopEnd(t, "dropping", "device", NoActor)
    \/ CheckDevice(t)
    \/ StopBegin(t, "connect", "connecting") \/ StopEnd(t, "connecting", "start", t)
    \/ StartReady(t) \/ StartRefused(t) \/ Install(t)
    \/ SetupRoutes(t)
    \/ StopBegin(t, "undo", "undoing") \/ UndoEnd(t)

-----------------------------------------------------------------------------
(* Disconnect takes opMu and turns the switch off; DisconnectOnly takes no *)
(* lock.  Both run disconnectOnly: routes first, then the tunnel.          *)

CallDisconnect(t) ==
    /\ Ready(t) /\ Goto(t, "dlock")
    /\ UNCHANGED <<service, locks, frames, procs, files, tunnel, routes, switch, skipped>>

CallDisconnectOnly(t) ==
    /\ Ready(t) /\ Goto(t, "id")
    /\ UNCHANGED <<service, locks, frames, procs, files, tunnel, routes, switch, skipped>>

\* What a Disconnect under opMu tries in vain and leaves behind.
Leave(t, there, what) ==
    skipped' = IF there /\ opMu = t THEN skipped \cup {what} ELSE skipped

\* The error of the write is discarded, and Disconnect goes on.
SwitchOffDB(t) ==
    /\ At(t, "disable") /\ Goto(t, "disableMem")
    /\ \/ dbSwitch' = "off" /\ UNCHANGED skipped
       \/ UNCHANGED dbSwitch /\ Leave(t, dbSwitch = "on", "switch")
    /\ UNCHANGED <<service, locks, frames, procs, files, tunnel, routes, memSwitch>>

SwitchOffMem(t) ==
    /\ At(t, "disableMem") /\ Goto(t, "id")
    /\ memSwitch' = "off"
    /\ UNCHANGED <<service, locks, frames, procs, files, tunnel, routes, dbSwitch, skipped>>

\* ActiveNodeID, read for the log line only, still waits for Manager.mu.
ReadActive(t) == tmu = NoActor /\ Pass(t, "id", "clean")

\* PolicyRouter.Cleanup: none, some or all of its commands may fail (the caller's
\* context may be done), and nobody looks.
CleanRoutes(t, from, to) ==
    /\ At(t, from) /\ Goto(t, to)
    /\ \/ routes' = "down" /\ UNCHANGED skipped
       \/ UNCHANGED routes /\ Leave(t, routes = "up", "routes")
    /\ UNCHANGED <<service, locks, frames, procs, files, tunnel, switch>>

\* Disconnect's deferred unlock comes with the return.
ClearExit(t) ==
    /\ At(t, "clear") /\ Goto(t, Home(t))
    /\ IF opMu = t THEN opMu' = NoActor /\ skipped' = {} ELSE UNCHANGED <<opMu, skipped>>
    /\ UNCHANGED <<service, coord, outer, tmu, frames, procs, files, tunnel, routes, switch>>

DisconnectStep(t) ==
    \/ LockOp(t, "dlock", "disable") \/ SwitchOffDB(t) \/ SwitchOffMem(t)
    \/ ReadActive(t) \/ CleanRoutes(t, "clean", "down")
    \/ StopBegin(t, "down", "downing") \/ StopEnd(t, "downing", "clear", NoActor)
    \/ ClearExit(t)

-----------------------------------------------------------------------------
(* Managed.watch and GatewayService.handleUnexpectedExit, actor p.         *)

\* A process exits on its own, or because Stop signalled it.
Exit(p) ==
    /\ life[p] = "up"
    /\ life' = [life EXCEPT ![p] = "exited"]
    /\ UNCHANGED <<service, locks, pc, frames, nodeOf, intentional, handled, files,
                   tunnel, routes, switch, skipped>>

\* cmd.Wait returns and done is closed: from here Running is false.
Reap(p) ==
    /\ At(p, "waiting") /\ life[p] = "exited"
    /\ life' = [life EXCEPT ![p] = "done"]
    /\ Goto(p, "decide")
    /\ UNCHANGED <<service, locks, frames, nodeOf, intentional, handled, files,
                   tunnel, routes, switch, skipped>>

\* The goroutine ends; the process is forgotten unless still referred to.
EndReaper(p) ==
    Goto(p, "idle") /\ Forget({p} \ {active, launching})

\* intentional and onExit, read together under Managed.mu.
Decide(p) ==
    /\ At(p, "decide")
    /\ IF p \in handled \ intentional
       THEN Goto(p, "hid") /\ UNCHANGED procs
       ELSE EndReaper(p)
    /\ UNCHANGED <<service, locks, frames, files, tunnel, routes, switch, skipped>>

\* nodeID := ActiveNodeID(): the node that is active now.
ReadFailed(p) ==
    /\ At(p, "hid") /\ tmu = NoActor
    /\ IF activeNode = NoNode
       THEN EndReaper(p) /\ UNCHANGED failedNode
       ELSE /\ failedNode' = [failedNode EXCEPT ![p] = activeNode]
            /\ Goto(p, "hclean")
            /\ UNCHANGED procs
    /\ UNCHANGED <<service, locks, target, files, tunnel, routes, switch, skipped>>

\* (fault) Running is read from a flag that is not in step with done
ForgetFlagged(p) ==
    /\ At(p, "hforget") /\ tmu = NoActor
    /\ IF active # NoProc /\ life[active] = "exited"
       THEN DropActive
       ELSE UNCHANGED <<procs, config, tunnel>>
    /\ Goto(p, "report")
    /\ UNCHANGED <<service, locks, frames, launching, routes, switch, skipped>>

\* ClearExitedProcess: drops the active reference only if that process is reaped.
ClearExitedProcess(p) ==
    /\ At(p, "hforget") /\ tmu = NoActor
    /\ IF active # NoProc /\ life[active] = "done"
       THEN DropActive
       ELSE UNCHANGED <<procs, config, tunnel>>
    /\ Goto(p, "report")
    /\ UNCHANGED <<service, locks, frames, launching, routes, switch, skipped>>

\* The recovery callback returns.
EndWatch(p) ==
    /\ At(p, "report") /\ EndReaper(p)
    /\ failedNode' = [failedNode EXCEPT ![p] = NoNode]
    /\ UNCHANGED <<service, locks, target, files, tunnel, routes, switch, skipped>>

WatchStep(p) ==
    \/ Reap(p) \/ Decide(p) \/ ReadFailed(p) \/ CleanRoutes(p, "hclean", "hforget")
    \/ ClearExitedProcess(p)

-----------------------------------------------------------------------------
(* The life of the daemon itself.                                          *)

\* What lies in ConfigsDir after a crash: every file there was, and that of a
\* Connect about to start its process, if it was written already.  Nothing ever
\* sweeps the directory.
FilesLeft ==
    IF config # {} THEN {{NoProc}}
    ELSE {{}} \cup {{NoProc} : t \in {u \in Actors : At(u, "start")}}

\* The daemon dies: goroutines, locks and memory are gone; the database, the
\* policy routes, the .ovpn files and the OpenVPN processes (their own process
\* groups) stay.
Crash ==
    /\ service = "up" /\ service' = "down"
    /\ coord' = NoActor /\ outer' = NoActor /\ opMu' = NoActor /\ tmu' = NoActor
    /\ pc' = [t \in Actors |-> "idle"]
    /\ target' = [t \in Actors |-> NoNode]
    /\ failedNode' = [p \in Procs |-> NoNode]
    /\ life' = [p \in Procs |-> IF p \in Live THEN "orphan" ELSE "none"]
    /\ nodeOf' = [p \in Procs |-> NoNode]
    /\ intentional' = {} /\ handled' = {}
    /\ config' \in FilesLeft /\ launching' = NoProc /\ active' = NoProc /\ activeNode' = NoNode
    /\ memSwitch' = "on" /\ skipped' = {}
    /\ UNCHANGED <<routes, dbSwitch>>

\* NewGatewayService and Start: stale processes are interrupted (they may take
\* longer than the half second Start gives them), stale routes are removed, if
\* the commands succeed.
Restart ==
    /\ service = "down" /\ service' = "up"
    /\ routes' \in {routes, "down"}
    /\ UNCHANGED <<locks, pc, frames, procs, files, tunnel, switch, skipped>>

OrphanExit(p) ==
    /\ life[p] = "orphan"
    /\ life' = [life EXCEPT ![p] = "none"]
    /\ UNCHANGED <<service, locks, pc, frames, nodeOf, intentional, handled, files,
                   tunnel, routes, switch, skipped>>

-----------------------------------------------------------------------------
\* What runs once called, and what the callers decide.
Internal(t) == ActivateStep(t) \/ DisconnectStep(t)

Call(t) ==
    \/ t \in Threads /\ (BeginOuter(t) \/ EndOuter(t) \/ CallDisconnect(t))
    \/ \E n \in Nodes : CallActivate(t, n)
    \/ CallDisconnectOnly(t)

Environment ==
    \/ \E p \in Procs : Exit(p) \/ OrphanExit(p)
    \/ Crash \/ Restart

Next ==
    \/ \E t \in Actors : Internal(t) \/ Call(t)
    \/ \E p \in Procs : WatchStep(p) \/ EndWatch(p)
    \/ Environment

Spec == Init /\ [][Next]_vars

\* Strong fairness of a goroutine in the code: it is scheduled, and at a mutex
\* that is free again and again it gets its turn (starvation mode hands a Go
\* mutex to the first waiter).  A signalled process dies (SIGKILL after 8 s).
\* Nothing makes a caller call, a tunnel die or the daemon stop.
Fairness ==
    /\ \A t \in Actors : SF_vars(Internal(t))
    /\ \A p \in Procs : SF_vars(WatchStep(p)) /\ WF_vars(p \in intentional /\ Exit(p))

FairSpec == Spec /\ Fairness

-----------------------------------------------------------------------------
(* Properties.                                                             *)

Activating == {"lock", "enable", "enableMem", "validate", "drop", "dropping", "device",
               "connect", "connecting", "start", "install", "route", "undo", "undoing"}
Disconnecting == {"id", "clean", "down", "downing", "clear"}
Handling == {"waiting", "decide", "hid", "hclean", "hforget", "report"}

\* The type invariant; an enclosing hold belongs to a caller.
TypeOK ==
    /\ service \in {"up", "down"}
    /\ coord \in Actors \cup {NoActor} /\ outer \in Threads \cup {NoActor}
    /\ opMu \in Actors \cup {NoActor} /\ tmu \in Actors \cup {NoActor}
    /\ pc \in [Actors -> {"idle", "dlock", "disable", "disableMem"}
                          \cup Activating \cup Disconnecting \cup Handling]
    /\ target \in [Actors -> Nodes \cup {NoNode}]
    /\ failedNode \in [Procs -> Nodes \cup {NoNode}]
    /\ life \in [Procs -> {"none", "up", "exited", "done", "orphan"}]
    /\ nodeOf \in [Procs -> Nodes \cup {NoNode}]
    /\ intentional \subseteq Procs /\ handled \subseteq Procs
    /\ config \subseteq Procs \cup {NoProc}
    /\ launching \in Procs \cup {NoProc} /\ active \in Procs \cup {NoProc}
    /\ activeNode \in Nodes \cup {NoNode}
    /\ routes \in {"up", "down"}
    /\ dbSwitch \in {"on", "off"} /\ memSwitch \in {"on", "off"}
    /\ skipped \subseteq {"switch", "routes"}
    /\ outer # NoActor => coord = outer

\* At most one OpenVPN process runs on the tunnel device, whatever activations,
\* teardowns, exits and crashes of the daemon interleave (Connect's lock over
\* Start, Stop's wait for the reaper, EnsureDeviceAvailable after a crash).
OneTunnel == \A p, q \in Live : p = q

\* A process that has not been reaped, and every .ovpn file and output pipe that
\* this life of the daemon has yet to release, belongs to the active process or the
\* one Connect is installing: no path drops a reference without Stop's wait and
\* release (disconnectLocked, ClearExitedProcess).  Files of earlier lives stay.
NothingLeaks == Unreaped \cup (config \ {NoProc}) \subseteq {active, launching}

\* activate runs only in the goroutine that holds the coordinator, on its own
\* or nested in maintenance or switch-node: two never overlap.
ActivationExclusive == \A t \in Actors : pc[t] \in Activating => coord = t

\* When Disconnect returns, the switch in memory is off and no tunnel and no process
\* is left, whatever was being activated when it was called; the stored switch is
\* still on, or a policy route left, only if its own write or clean-up failed.
DisconnectLeavesNothing ==
    \A t \in Threads : pc[t] = "clear" /\ opMu = t =>
        /\ memSwitch = "off" /\ active = NoProc /\ Unreaped = {}
        /\ dbSwitch = "off" \/ "switch" \in skipped
        /\ routes = "down" \/ "routes" \in skipped

\* The gateway keeps its contract: one holder of opMu at a time changes the exit,
\* through all that the other goroutines, exits and crashes do meanwhile; what is
\* active or carries traffic is what that holder dialled (activate, Disconnect).
PhaseOf(here) ==
    CASE here \in {"enable", "enableMem", "validate"} -> "entered"
      [] here \in {"drop", "dropping", "device", "connect", "connecting"} -> "checked"
      [] here \in {"start", "install"} -> "dialling"
      [] here \in {"route", "undo", "undoing"} -> "up"
      [] OTHER -> "disconnecting"
OpPhase  == IF opMu = NoActor THEN "free" ELSE PhaseOf(pc[opMu])
OpTarget == IF OpPhase \in {"free", "disconnecting"} THEN NoNode ELSE target[opMu]
Carrying == {nodeOf[p] : p \in Live}
Contract ==
    INSTANCE ExitGateway WITH
        switch <- dbSwitch, holder <- opMu, phase <- OpPhase, target <- OpTarget,
        active <- activeNode, carrying <- Carrying
ContractKept == Contract!Spec

\* Every call into the gateway returns: the coordinator, opMu, Manager.mu and
\* the wait for a reaper never wait for each other in a circle.
CallsReturn == \A t \in Threads : pc[t] # "idle" ~> pc[t] = "idle"

\* A dead tunnel whose reaper has begun the handler stops being the active one.
DeadExitCleared == \A p \in Procs : pc[p] = "hid" /\ active = p ~> active # p

\* The node handed to recovery is the one whose tunnel died (comment of
\* handleUnexpectedExit).
BlamesTheDeadNode ==
    \A p \in Procs : pc[p] = "report" => failedNode[p] = nodeOf[p]
=============================================================================
