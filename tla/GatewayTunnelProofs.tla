------------------------ MODULE GatewayTunnelProofs ------------------------
(***************************************************************************)
(* GatewayTunnel for any sets of goroutines, processes and nodes: its type *)
(* invariant, and the ownership of locks, processes and files that makes   *)
(* one tunnel per device and a complete Disconnect.                        *)
(***************************************************************************)
EXTENDS GatewayTunnel, TLAPS

\* The positions of an actor that holds opMu inside activate or Disconnect, and of
\* one that holds Manager.mu.
OpLocked == (Activating \ {"lock"}) \cup {"disable", "disableMem"}
TunLocked == {"dropping", "connecting", "start", "install", "undoing", "downing"}

\* Which positions hold which lock.
LockDiscipline ==
    \A t \in Actors :
        /\ pc[t] \in Activating => coord = t
        /\ pc[t] \in OpLocked => opMu = t
        /\ opMu = t => pc[t] \in OpLocked \cup Disconnecting
        /\ pc[t] \in TunLocked => tmu = t

\* A process is being installed only inside Connect, which has checked the
\* device and dropped the previous tunnel.
InstallWindow ==
    /\ launching # NoProc => tmu \in Actors /\ pc[tmu] = "install"
    /\ \A t \in Actors :
        /\ pc[t] \in {"device", "connect", "connecting", "start", "install"} => active = NoProc
        /\ pc[t] \in {"connect", "connecting", "start"} => Live = {}
        /\ pc[t] = "install" => launching # NoProc /\ nodeOf[launching] = target[t]

\* What the Manager refers to was started by this daemon, and no orphan is left
\* beside it.
References ==
    /\ \A p \in {active, launching} \ {NoProc} : life[p] \in {"up", "exited", "done"}
    /\ {active, launching} # {NoProc} => \A p \in Procs : life[p] # "orphan"

\* The node reported as active is the node the active process dials.
ActiveNodeMatches ==
    activeNode = IF active = NoProc THEN NoNode ELSE nodeOf[active]

\* Disconnect, from the moment it has tried to write the switch.
DisconnectProgress ==
    \A t \in Actors : opMu = t =>
        /\ pc[t] \in Disconnecting => memSwitch = "off"
        /\ pc[t] \in Disconnecting \cup {"disableMem"} => dbSwitch = "off" \/ "switch" \in skipped
        /\ pc[t] \in {"down", "downing", "clear"} => routes = "down" \/ "routes" \in skipped
        /\ pc[t] = "clear" => active = NoProc

\* The inductive invariant.
IInv ==
    /\ TypeOK /\ LockDiscipline /\ InstallWindow /\ References
    /\ OneTunnel /\ NothingLeaks /\ ActiveNodeMatches
    /\ DisconnectProgress

USE GatewayAssumption DEF Actors, At, Goto, Home, Ready,
    locks, frames, procs, files, tunnel, switch,
    Activating, Disconnecting, Handling, OpLocked, TunLocked,
    Live, Unreaped, Forget, ActiveForgotten

\* The steps of activate keep the invariant.
LEMMA ActivateKeeps ==
    ASSUME IInv, NEW t \in Actors, ActivateStep(t) PROVE IInv'
<1> USE DEF IInv, TypeOK, LockDiscipline, InstallWindow, References, OneTunnel, NothingLeaks,
        ActiveNodeMatches, DisconnectProgress
<1>1. CASE LockOp(t, "lock", "enable")
  BY <1>1 DEF LockOp
<1>2. CASE LookupFails(t)
  BY <1>2 DEF LookupFails, Fail, Return
<1>3. CASE SwitchOnDB(t)
  BY <1>3 DEF SwitchOnDB
<1>4. CASE SwitchOnMem(t)
  BY <1>4 DEF SwitchOnMem
<1>5. CASE Validate(t)
  <2>1. CASE dbSwitch = "on" /\ Pass(t, "validate", "drop")
    BY <2>1 DEF Pass
  <2>2. CASE Fail(t, "validate")
    BY <2>2 DEF Fail, Return
  <2> QED
    BY <1>5, <2>1, <2>2 DEF Validate
<1>6. CASE StopBegin(t, "drop", "dropping")
  BY <1>6 DEF StopBegin
<1>7. CASE StopEnd(t, "dropping", "device", NoActor)
  BY <1>7 DEF StopEnd, Stopped, DropActive
<1>8. CASE CheckDevice(t)
  <2>1. CASE Live = {} /\ Pass(t, "device", "connect")
    BY <2>1 DEF Pass
  <2>2. CASE Fail(t, "device")
    BY <2>2 DEF Fail, Return
  <2> QED
    BY <1>8, <2>1, <2>2 DEF CheckDevice
<1>9. CASE StopBegin(t, "connect", "connecting")
  BY <1>9 DEF StopBegin
<1>10. CASE StopEnd(t, "connecting", "start", t)
  BY <1>10 DEF StopEnd, Stopped, DropActive
<1>11. CASE StartReady(t)
  BY <1>11 DEF StartReady, Forgotten
<1>12. CASE StartRefused(t)
  BY <1>12 DEF StartRefused, Return
<1>13. CASE Install(t)
  BY <1>13 DEF Install
<1>14. CASE SetupRoutes(t)
  BY <1>14 DEF SetupRoutes, Return
<1>16. CASE StopBegin(t, "undo", "undoing")
  BY <1>16 DEF StopBegin
<1>17. CASE UndoEnd(t)
  BY <1>17 DEF UndoEnd, Stopped, DropActive, Return
<1> QED
  BY <1>1, <1>2, <1>3, <1>4, <1>5, <1>6, <1>7, <1>8, <1>9, <1>10, <1>11, <1>12, <1>13, <1>14, <1>16, <1>17 DEF ActivateStep

\* So do those of Disconnect and DisconnectOnly,
LEMMA DisconnectKeeps ==
    ASSUME IInv, NEW t \in Actors, DisconnectStep(t) PROVE IInv'
<1> USE DEF IInv, TypeOK, LockDiscipline, InstallWindow, References, OneTunnel, NothingLeaks,
        ActiveNodeMatches, DisconnectProgress
<1>1. CASE LockOp(t, "dlock", "disable")
  BY <1>1 DEF LockOp
<1>2. CASE SwitchOffDB(t)
  <2>0. skipped' \subseteq {"switch", "routes"}
    <3>1. skipped' = skipped \/ skipped' = skipped \cup {"switch"}
      BY <1>2 DEF SwitchOffDB, Leave
    <3>2. skipped \subseteq {"switch", "routes"}
      OBVIOUS
    <3> QED
      BY ONLY <3>1, <3>2
  <2>1. TypeOK'
    BY <1>2, <2>0 DEF SwitchOffDB, Leave
  <2>2. LockDiscipline'
    BY <1>2 DEF SwitchOffDB, Leave
  <2>3. InstallWindow' /\ References'
    BY <1>2 DEF SwitchOffDB, Leave
  <2>4. OneTunnel' /\ NothingLeaks' /\ ActiveNodeMatches'
    BY <1>2 DEF SwitchOffDB, Leave
  <2>5. DisconnectProgress'
    BY <1>2 DEF SwitchOffDB, Leave
  <2> QED
    BY <2>1, <2>2, <2>3, <2>4, <2>5
<1>3. CASE SwitchOffMem(t)
  BY <1>3 DEF SwitchOffMem
<1>4. CASE ReadActive(t)
  BY <1>4 DEF ReadActive, Pass
<1>5. CASE CleanRoutes(t, "clean", "down")
  <2>0. skipped' \subseteq {"switch", "routes"}
    <3>1. skipped' = skipped \/ skipped' = skipped \cup {"routes"}
      BY <1>5 DEF CleanRoutes, Leave
    <3>2. skipped \subseteq {"switch", "routes"}
      OBVIOUS
    <3> QED
      BY ONLY <3>1, <3>2
  <2>1. TypeOK'
    BY <1>5, <2>0 DEF CleanRoutes, Leave
  <2>2. LockDiscipline'
    BY <1>5 DEF CleanRoutes, Leave
  <2>3. InstallWindow' /\ References'
    BY <1>5 DEF CleanRoutes, Leave
  <2>4. OneTunnel' /\ NothingLeaks' /\ ActiveNodeMatches'
    BY <1>5 DEF CleanRoutes, Leave
  <2>5. DisconnectProgress'
    BY <1>5 DEF CleanRoutes, Leave
  <2> QED
    BY <2>1, <2>2, <2>3, <2>4, <2>5
<1>6. CASE StopBegin(t, "down", "downing")
  BY <1>6 DEF StopBegin
<1>7. CASE StopEnd(t, "downing", "clear", NoActor)
  BY <1>7 DEF StopEnd, Stopped, DropActive
<1>8. CASE ClearExit(t)
  <2>0. skipped' \subseteq {"switch", "routes"}
    BY <1>8 DEF ClearExit
  <2>1. TypeOK'
    BY <1>8, <2>0 DEF ClearExit
  <2>2. LockDiscipline'
    BY <1>8 DEF ClearExit
  <2>3. InstallWindow' /\ References'
    BY <1>8 DEF ClearExit
  <2>4. OneTunnel' /\ NothingLeaks' /\ ActiveNodeMatches'
    BY <1>8 DEF ClearExit
  <2>5. DisconnectProgress'
    BY <1>8 DEF ClearExit
  <2> QED
    BY <2>1, <2>2, <2>3, <2>4, <2>5
<1> QED
  BY <1>1, <1>2, <1>3, <1>4, <1>5, <1>6, <1>7, <1>8 DEF DisconnectStep

\* the callers,
LEMMA CallKeeps ==
    ASSUME IInv, NEW t \in Actors, Call(t) PROVE IInv'
<1> USE DEF IInv, TypeOK, LockDiscipline, InstallWindow, References, OneTunnel, NothingLeaks,
        ActiveNodeMatches, DisconnectProgress
<1>1. CASE t \in Threads /\ BeginOuter(t)
  BY <1>1 DEF BeginOuter
<1>2. CASE t \in Threads /\ EndOuter(t)
  BY <1>2 DEF EndOuter
<1>3. CASE t \in Threads /\ CallDisconnect(t)
  BY <1>3 DEF CallDisconnect
<1>4. ASSUME NEW n \in Nodes, CallActivate(t, n) PROVE IInv'
  BY <1>4 DEF CallActivate, Admitted
<1>5. CASE CallDisconnectOnly(t)
  BY <1>5 DEF CallDisconnectOnly
<1> QED
  BY <1>1, <1>2, <1>3, <1>4, <1>5 DEF Call

\* the reapers with the unexpected-exit handler,
LEMMA WatchKeeps ==
    ASSUME IInv, NEW p \in Procs, WatchStep(p) \/ EndWatch(p) PROVE IInv'
<1> USE DEF IInv, TypeOK, LockDiscipline, InstallWindow, References, OneTunnel, NothingLeaks,
        ActiveNodeMatches, DisconnectProgress
<1>1. CASE Reap(p)
  BY <1>1 DEF Reap
<1>2. CASE Decide(p)
  BY <1>2 DEF Decide, EndReaper
<1>3. CASE ReadFailed(p)
  BY <1>3 DEF ReadFailed, EndReaper
<1>4. CASE CleanRoutes(p, "hclean", "hforget")
  <2>0. skipped' \subseteq {"switch", "routes"}
    BY <1>4 DEF CleanRoutes, Leave
  <2>1. TypeOK'
    BY <1>4, <2>0 DEF CleanRoutes, Leave
  <2>2. LockDiscipline'
    BY <1>4 DEF CleanRoutes, Leave
  <2>3. InstallWindow' /\ References'
    BY <1>4 DEF CleanRoutes, Leave
  <2>4. OneTunnel' /\ NothingLeaks' /\ ActiveNodeMatches'
    BY <1>4 DEF CleanRoutes, Leave
  <2>5. DisconnectProgress'
    BY <1>4 DEF CleanRoutes, Leave
  <2> QED
    BY <2>1, <2>2, <2>3, <2>4, <2>5
<1>6. CASE ClearExitedProcess(p)
  BY <1>6 DEF ClearExitedProcess, DropActive
<1>7. CASE EndWatch(p)
  <2>1. /\ pc' = [pc EXCEPT ![p] = "idle"] /\ pc[p] = "report" /\ p \notin Threads
        /\ failedNode' = [failedNode EXCEPT ![p] = NoNode]
        /\ UNCHANGED <<service, locks, target, files, tunnel, routes, switch, skipped>>
    BY <1>7 DEF EndWatch, EndReaper
  <2>2. LET gone == {p} \ {active, launching}
        IN  /\ life' = [q \in Procs |-> IF q \in gone THEN "none" ELSE life[q]]
            /\ nodeOf' = [q \in Procs |-> IF q \in gone THEN NoNode ELSE nodeOf[q]]
            /\ intentional' = intentional \ gone /\ handled' = handled \ gone
    BY <1>7 DEF EndWatch, EndReaper
  <2>3. TypeOK'
    BY <2>1, <2>2
  <2>4. LockDiscipline' /\ DisconnectProgress'
    BY <2>1, <2>2
  <2>5. InstallWindow' /\ References'
    BY <2>1, <2>2
  <2>6. OneTunnel' /\ NothingLeaks' /\ ActiveNodeMatches'
    BY <2>1, <2>2
  <2> QED
    BY <2>3, <2>4, <2>5, <2>6
<1> QED
  BY <1>1, <1>2, <1>3, <1>4, <1>6, <1>7 DEF WatchStep

\* and exits, crashes and restarts.
LEMMA EnvironmentKeeps ==
    ASSUME IInv, Environment PROVE IInv'
<1> USE DEF IInv, TypeOK, LockDiscipline, InstallWindow, References, OneTunnel, NothingLeaks,
        ActiveNodeMatches, DisconnectProgress
<1>1. ASSUME NEW p \in Procs, Exit(p) PROVE IInv'
  BY <1>1 DEF Exit
<1>2. ASSUME NEW p \in Procs, OrphanExit(p) PROVE IInv'
  BY <1>2 DEF OrphanExit
<1>3. CASE Crash
  BY <1>3 DEF Crash, FilesLeft
<1>4. CASE Restart
  BY <1>4 DEF Restart
<1> QED
  BY <1>1, <1>2, <1>3, <1>4 DEF Environment

\* The daemon as it starts satisfies the invariant,
LEMMA Start == Init => IInv
BY DEF Init, IInv, TypeOK, LockDiscipline, InstallWindow, References, OneTunnel,
    NothingLeaks, ActiveNodeMatches, DisconnectProgress

\* and every step keeps it.
LEMMA Step == IInv /\ [Next]_vars => IInv'
<1> SUFFICES ASSUME IInv, [Next]_vars PROVE IInv'
  OBVIOUS
<1>1. ASSUME NEW t \in Actors, Internal(t) \/ Call(t) PROVE IInv'
  BY <1>1, ActivateKeeps, DisconnectKeeps, CallKeeps DEF Internal
<1>2. ASSUME NEW p \in Procs, WatchStep(p) \/ EndWatch(p) PROVE IInv'
  BY <1>2, WatchKeeps
<1>3. CASE Environment
  BY <1>3, EnvironmentKeeps
<1>4. CASE UNCHANGED vars
  BY <1>4 DEF vars, IInv, TypeOK, LockDiscipline, InstallWindow, References, OneTunnel,
     NothingLeaks, ActiveNodeMatches, DisconnectProgress
<1> QED
  BY <1>1, <1>2, <1>3, <1>4 DEF Next

\* The invariant holds in every behaviour of the gateway.
THEOREM Invariance == Spec => []IInv
BY Start, Step, PTL DEF Spec

\* Every variable keeps its type, and an enclosing hold is its caller's.
THEOREM TypeCorrect == Spec => []TypeOK
BY Invariance, PTL DEF IInv

\* However calls, exits and crashes interleave, at most one OpenVPN process runs
\* on the tunnel device.
THEOREM TunnelExclusive == Spec => []OneTunnel
BY Invariance, PTL DEF IInv

\* While the daemon lives no process is left running without a reference to stop it
\* by, and no .ovpn file or output pipe of this life outlives the reference.
THEOREM Owned == Spec => []NothingLeaks
BY Invariance, PTL DEF IInv

\* Two goroutines are never inside activate together.
THEOREM ActivationSerial == Spec => []ActivationExclusive
<1>1. IInv => ActivationExclusive
  BY DEF IInv, LockDiscipline, ActivationExclusive
<1> QED
  BY <1>1, Invariance, PTL

\* A Disconnect that returns has left no tunnel or process up and the switch in memory
\* off, and the stored switch or a route only if its own write or clean-up failed.
THEOREM DisconnectComplete == Spec => []DisconnectLeavesNothing
<1>1. IInv => DisconnectLeavesNothing
  BY DEF IInv, TypeOK, DisconnectProgress, InstallWindow, LockDiscipline, NothingLeaks,
     DisconnectLeavesNothing
<1> QED
  BY <1>1, Invariance, PTL

\* The node reported as active is the one the active process dials.
THEOREM ActiveNodeCorrect == Spec => []ActiveNodeMatches
BY Invariance, PTL DEF IInv

-----------------------------------------------------------------------------
(* The gateway implements ExitGateway.                                     *)

\* Who is inside activate has a node to dial, and nobody knows an orphan's node.
Named ==
    /\ \A t \in Actors : pc[t] \in Activating => target[t] \in Nodes
    /\ \A p \in Procs : life[p] = "orphan" => nodeOf[p] = NoNode

LEMMA NamedKept == IInv /\ Named /\ [Next]_vars => Named'
<1> SUFFICES ASSUME TypeOK, Named, [Next]_vars PROVE Named'
  BY DEF IInv
<1> USE DEF TypeOK, Named
<1>1. ASSUME NEW t \in Actors, ActivateStep(t) PROVE Named'
  <2>1. CASE LockOp(t, "lock", "enable") \/ LookupFails(t) \/ SwitchOnDB(t) \/ SwitchOnMem(t) \/ Validate(t)
    BY <2>1 DEF LockOp, LookupFails, SwitchOnDB, SwitchOnMem, Validate, Pass, Fail, Return
  <2>2. CASE StopBegin(t, "drop", "dropping") \/ StopBegin(t, "connect", "connecting") \/ StopBegin(t, "undo", "undoing")
    BY <2>2 DEF StopBegin
  <2>3. CASE StopEnd(t, "dropping", "device", NoActor) \/ StopEnd(t, "connecting", "start", t)
    BY <2>3 DEF StopEnd, DropActive
  <2>4. CASE CheckDevice(t) \/ StartRefused(t)
    BY <2>4 DEF CheckDevice, StartRefused, Pass, Fail, Return
  <2>5. CASE StartReady(t)
    BY <2>5 DEF StartReady
  <2>6. CASE Install(t) \/ SetupRoutes(t)
    BY <2>6 DEF Install, SetupRoutes, Return
  <2>7. CASE UndoEnd(t)
    BY <2>7 DEF UndoEnd, DropActive, Return
  <2> QED
    BY <1>1, <2>1, <2>2, <2>3, <2>4, <2>5, <2>6, <2>7 DEF ActivateStep
<1>2. ASSUME NEW t \in Actors, DisconnectStep(t) PROVE Named'
  <2>1. CASE LockOp(t, "dlock", "disable") \/ SwitchOffDB(t) \/ SwitchOffMem(t) \/ ReadActive(t)
    BY <2>1 DEF LockOp, SwitchOffDB, SwitchOffMem, ReadActive, Pass
  <2>2. CASE CleanRoutes(t, "clean", "down") \/ StopBegin(t, "down", "downing") \/ ClearExit(t)
    BY <2>2 DEF CleanRoutes, StopBegin, ClearExit
  <2>3. CASE StopEnd(t, "downing", "clear", NoActor)
    BY <2>3 DEF StopEnd, DropActive
  <2> QED
    BY <1>2, <2>1, <2>2, <2>3 DEF DisconnectStep
<1>3. ASSUME NEW t \in Actors, Call(t) PROVE Named'
  BY <1>3 DEF Call, BeginOuter, EndOuter, CallDisconnect, CallActivate, CallDisconnectOnly
<1>4. ASSUME NEW p \in Procs, WatchStep(p) \/ EndWatch(p) PROVE Named'
  <2>1. CASE Reap(p) \/ Decide(p) \/ ReadFailed(p)
    BY <2>1 DEF Reap, Decide, ReadFailed, EndReaper
  <2>2. CASE CleanRoutes(p, "hclean", "hforget")
    BY <2>2 DEF CleanRoutes
  <2>3. CASE ClearExitedProcess(p) \/ EndWatch(p)
    BY <2>3 DEF ClearExitedProcess, EndWatch, DropActive, EndReaper
  <2> QED
    BY <1>4, <2>1, <2>2, <2>3 DEF WatchStep
<1>5. CASE Environment
  BY <1>5 DEF Environment, Exit, OrphanExit, Crash, Restart
<1>6. CASE UNCHANGED vars
  BY <1>6 DEF vars
<1> QED
  BY <1>1, <1>2, <1>3, <1>4, <1>5, <1>6 DEF Next, Internal

\* What a step must leave alone for nobody to see it.
Unseen == UNCHANGED <<dbSwitch, opMu, OpPhase, OpTarget, activeNode, Carrying>>

Refined == Contract!Next \/ UNCHANGED Contract!vars

LEMMA UnseenRefines == Unseen => Refined
  BY DEF Unseen, Refined, Contract!vars

\* The phase is the position of the one that holds opMu, which others leave alone.
LEMMA Bystander ==
    ASSUME IInv, UNCHANGED <<opMu, target>>, NEW t \in Actors, opMu # t,
           \A u \in Actors \ {t} : pc'[u] = pc[u]
    PROVE  OpPhase' = OpPhase /\ OpTarget' = OpTarget
<1>1. opMu = NoActor \/ opMu \in Actors \ {t}
  BY DEF IInv, TypeOK
<1> QED
  BY <1>1 DEF OpPhase, OpTarget, PhaseOf

\* A holder that goes on within a phase.
LEMMA Onward ==
    ASSUME IInv, NEW t \in Actors, opMu = t, UNCHANGED <<opMu, target>>,
           PhaseOf(pc'[t]) = PhaseOf(pc[t])
    PROVE  OpPhase' = OpPhase /\ OpTarget' = OpTarget
BY DEF OpPhase, OpTarget

\* Dropping the reference of a process that is reaped takes the exit down.
LEMMA Dropped ==
    ASSUME IInv, Stopped, DropActive, launching = NoProc
    PROVE  \/ activeNode' = NoNode /\ Carrying' = Carrying \cap {NoNode}
           \/ UNCHANGED <<activeNode, Carrying>>
<1> USE DEF IInv, TypeOK, DropActive
<1>1. CASE active = NoProc
  <2>1. life' = life /\ nodeOf' = nodeOf
    BY <1>1
  <2>2. UNCHANGED Carrying
    BY ONLY <2>1 DEF Carrying, Live
  <2>3. activeNode = NoNode /\ activeNode' = NoNode
    BY <1>1 DEF ActiveNodeMatches
  <2> QED
    BY <2>2, <2>3
<1>2. CASE active # NoProc
  <2>1. life[active] = "done"
    BY <1>2 DEF Stopped
  <2>2. Live = {}
    BY <1>2, <2>1 DEF NothingLeaks, References
  <2>3. Live' = {}
    BY <2>2
  <2> QED
    BY <2>2, <2>3 DEF Carrying
<1> QED
  BY <1>1, <1>2

\* The end of a tear-down that holds Manager.mu and does not dial.
LEMMA TornDown ==
    ASSUME IInv, Stopped, DropActive, launching = NoProc, UNCHANGED <<dbSwitch, opMu>>,
           OpPhase # "dialling", OpPhase' = OpPhase, OpTarget' = OpTarget
    PROVE  Refined
<1>1. CASE UNCHANGED <<activeNode, Carrying>>
  BY <1>1, UnseenRefines DEF Unseen
<1>2. CASE activeNode' = NoNode /\ Carrying' = Carrying \cap {NoNode}
  BY <1>2 DEF Refined, Contract!Next, Contract!TearDown, Contract!Down, Contract!Still
<1> QED
  BY <1>1, <1>2, Dropped

\* Who dials holds Manager.mu.
LEMMA DialHolds == ASSUME IInv, OpPhase = "dialling" PROVE tmu = opMu
  BY DEF IInv, TypeOK, LockDiscipline, OpPhase, PhaseOf

\* The steps of activate: the lock enters, Validate checks, the second tear-down
\* begins the dial, Install brings the exit up.
LEMMA ActivateRefines ==
    ASSUME IInv, Named, NEW t \in Actors, ActivateStep(t) PROVE Refined
<1> USE DEF IInv, TypeOK
<1>1. CASE LockOp(t, "lock", "enable")
  <2>1. opMu = NoActor /\ opMu' = t /\ target[t] \in Nodes /\ pc'[t] = "enable"
        /\ UNCHANGED <<dbSwitch, activeNode, life, nodeOf, target>>
    BY <1>1 DEF LockOp, Named
  <2>2. OpPhase = "free" /\ OpPhase' = "entered" /\ OpTarget' = target[t]
    BY <2>1 DEF OpPhase, OpTarget, PhaseOf
  <2> QED
    BY <2>1, <2>2 DEF Refined, Contract!Next, Contract!Enter, Carrying
<1>2. ASSUME pc[t] \in OpLocked PROVE opMu = t /\ t # NoActor
  BY <1>2 DEF LockDiscipline
<1>3. ASSUME pc[t] \in Activating \ {"lock", "start", "install"}, Return(t),
             UNCHANGED <<dbSwitch, activeNode, Carrying>>
      PROVE  Refined
  <2>1. OpPhase' = "free" /\ OpTarget' = NoNode /\ opMu' = NoActor
    BY <1>3 DEF Return, OpPhase, OpTarget
  <2>2. OpPhase \in {"entered", "checked", "up"}
    BY <1>2, <1>3 DEF OpPhase, PhaseOf
  <2> QED
    BY <1>3, <2>1, <2>2 DEF Refined, Contract!Next, Contract!Return, Contract!Free
<1>4. CASE \/ LookupFails(t) \/ Fail(t, "validate") \/ Fail(t, "device")
           \/ SetupRoutes(t) /\ Return(t)
  <2>1. pc[t] \in Activating \ {"lock", "start", "install"} /\ Return(t)
        /\ UNCHANGED <<dbSwitch, activeNode, life, nodeOf>>
    BY <1>4 DEF LookupFails, Fail, SetupRoutes
  <2> QED
    BY <1>3, <2>1 DEF Carrying
<1>5. CASE SwitchOnDB(t)
  <2>1. opMu = t /\ UNCHANGED <<opMu, target, activeNode, Carrying>> /\ dbSwitch' \in {"on", "off"}
        /\ PhaseOf(pc'[t]) = PhaseOf(pc[t])
    BY <1>2, <1>5 DEF SwitchOnDB, PhaseOf, Carrying
  <2> QED
    BY <2>1, Onward DEF Refined, Contract!Next, Contract!SetSwitch, Contract!Still
<1>6. CASE \/ SwitchOnMem(t) \/ Pass(t, "device", "connect")
           \/ SetupRoutes(t) /\ ~Return(t)
           \/ StopBegin(t, "drop", "dropping") \/ StopBegin(t, "connect", "connecting")
           \/ StopBegin(t, "undo", "undoing")
  <2>1. opMu = t /\ UNCHANGED <<dbSwitch, opMu, target, activeNode, Carrying>>
        /\ PhaseOf(pc'[t]) = PhaseOf(pc[t])
    BY <1>2, <1>6 DEF SwitchOnMem, Pass, SetupRoutes, StopBegin, PhaseOf, Carrying
  <2> QED
    BY <2>1, Onward, UnseenRefines DEF Unseen
<1>7. CASE dbSwitch = "on" /\ Pass(t, "validate", "drop")
  <2>1. opMu = t /\ UNCHANGED <<dbSwitch, opMu, target, activeNode, Carrying>>
        /\ pc[t] = "validate" /\ pc'[t] = "drop"
    BY <1>2, <1>7 DEF Pass, Carrying
  <2>2. OpPhase = "entered" /\ OpPhase' = "checked" /\ OpTarget' = OpTarget
    BY <1>2, <2>1 DEF OpPhase, OpTarget, PhaseOf
  <2> QED
    BY <1>7, <2>1, <2>2 DEF Refined, Contract!Next, Contract!Check
<1>8. CASE StopEnd(t, "dropping", "device", NoActor)
  <2>1. opMu = t /\ PhaseOf(pc'[t]) = PhaseOf(pc[t]) /\ UNCHANGED <<dbSwitch, opMu, target>>
        /\ Stopped /\ DropActive
    BY <1>2, <1>8 DEF StopEnd, PhaseOf
  <2>2. OpPhase = "checked"
    BY <1>2, <1>8 DEF StopEnd, OpPhase, PhaseOf
  <2>3. launching = NoProc
    BY <1>8 DEF StopEnd, InstallWindow, LockDiscipline
  <2> QED
    BY <2>1, <2>2, <2>3, Onward, TornDown
<1>9. CASE StopEnd(t, "connecting", "start", t)
  <2>1. active = NoProc /\ Live = {} /\ activeNode' = NoNode
    BY <1>9 DEF StopEnd, InstallWindow, DropActive
  <2>2. Live' = {}
    BY <1>9, <2>1 DEF StopEnd, DropActive
  <2>3. Carrying' = {}
    BY <2>2 DEF Carrying
  <2>4. OpPhase = "checked" /\ OpPhase' = "dialling" /\ OpTarget' = OpTarget
        /\ UNCHANGED <<dbSwitch, opMu>>
    BY <1>2, <1>9 DEF StopEnd, OpPhase, OpTarget, PhaseOf
  <2> QED
    BY <2>1, <2>3, <2>4 DEF Refined, Contract!Next, Contract!BeginDial
<1>10. CASE StartReady(t)
  <2> PICK p \in Procs :
        /\ Forgotten(p)
        /\ life' = [life EXCEPT ![p] = "up"] /\ nodeOf' = [nodeOf EXCEPT ![p] = target[t]]
        /\ pc' = [pc EXCEPT ![t] = "install", ![p] = "waiting"]
    BY <1>10 DEF StartReady
  <2>1. opMu = t /\ pc[t] = "start" /\ p # t /\ pc'[t] = "install" /\ Live = {}
        /\ UNCHANGED <<dbSwitch, opMu, target, activeNode>>
    BY <1>2, <1>10 DEF StartReady, Forgotten, InstallWindow
  <2>2. Live' = {p} /\ nodeOf'[p] = target[t]
    BY <2>1
  <2>3. Carrying = {} /\ Carrying' = {target[t]}
    BY <2>1, <2>2 DEF Carrying
  <2>4. OpPhase = "dialling" /\ OpTarget = target[t]
    BY <1>2, <2>1 DEF OpPhase, OpTarget, PhaseOf
  <2>5. OpPhase' = OpPhase /\ OpTarget' = OpTarget
    BY <2>1, Onward DEF PhaseOf
  <2> QED
    BY <2>1, <2>3, <2>4, <2>5 DEF Refined, Contract!Next, Contract!TunnelStarts, Contract!Still
<1>11. CASE StartRefused(t)
  <2>1. pc[t] = "start" /\ Live = {} /\ Return(t) /\ UNCHANGED <<dbSwitch, activeNode, life, nodeOf>>
    BY <1>11 DEF StartRefused, InstallWindow
  <2>2. OpPhase = "dialling" /\ Carrying = {} /\ Carrying' = Carrying
    BY <1>2, <2>1 DEF OpPhase, PhaseOf, Carrying
  <2>3. OpPhase' = "free" /\ OpTarget' = NoNode /\ opMu' = NoActor
    BY <2>1 DEF Return, OpPhase, OpTarget
  <2> QED
    BY <2>1, <2>2, <2>3 DEF Refined, Contract!Next, Contract!Return, Contract!Free
<1>12. CASE Install(t)
  <2>1. opMu = t /\ pc[t] = "install" /\ pc'[t] = "route" /\ activeNode' = target[t]
        /\ UNCHANGED <<dbSwitch, opMu, target, life, nodeOf>>
    BY <1>2, <1>12 DEF Install
  <2>2. OpPhase = "dialling" /\ OpPhase' = "up" /\ OpTarget = target[t] /\ OpTarget' = OpTarget
    BY <1>2, <2>1 DEF OpPhase, OpTarget, PhaseOf
  <2> QED
    BY <2>1, <2>2 DEF Refined, Contract!Next, Contract!Up, Carrying
<1>13. CASE UndoEnd(t)
  <2>1. pc[t] = "undoing" /\ Stopped /\ DropActive /\ Return(t) /\ dbSwitch' = dbSwitch
    BY <1>13 DEF UndoEnd
  <2>2. OpPhase = "up" /\ launching = NoProc
    BY <1>2, <2>1 DEF OpPhase, PhaseOf, InstallWindow, LockDiscipline
  <2>3. OpPhase' = "free" /\ OpTarget' = NoNode /\ opMu' = NoActor
    BY <2>1 DEF Return, OpPhase, OpTarget
  <2>4. \/ activeNode' = NoNode /\ Carrying' = Carrying \cap {NoNode}
        \/ UNCHANGED <<activeNode, Carrying>>
    BY <2>1, <2>2, Dropped
  <2> QED
    BY <2>1, <2>2, <2>3, <2>4
    DEF Refined, Contract!Next, Contract!Return, Contract!Free, Contract!Down
<1>14. CASE Validate(t) \/ CheckDevice(t)
  BY <1>4, <1>6, <1>7, <1>14 DEF Validate, CheckDevice
<1> QED
  BY <1>1, <1>4, <1>5, <1>6, <1>8, <1>9, <1>10, <1>11, <1>12, <1>13, <1>14 DEF ActivateStep

\* Those of Disconnect and DisconnectOnly.
LEMMA DisconnectRefines ==
    ASSUME IInv, Named, NEW t \in Actors, DisconnectStep(t) PROVE Refined
<1> USE DEF IInv, TypeOK
<1>1. CASE LockOp(t, "dlock", "disable")
  <2>1. opMu = NoActor /\ opMu' = t /\ pc'[t] = "disable"
        /\ UNCHANGED <<dbSwitch, activeNode, life, nodeOf>>
    BY <1>1 DEF LockOp
  <2>2. OpPhase = "free" /\ OpPhase' = "disconnecting" /\ OpTarget' = NoNode
    BY <2>1 DEF OpPhase, OpTarget, PhaseOf
  <2> QED
    BY <2>1, <2>2 DEF Refined, Contract!Next, Contract!Enter, Carrying
<1>2. CASE SwitchOffDB(t)
  <2>1. opMu = t /\ UNCHANGED <<opMu, target, activeNode, Carrying>> /\ dbSwitch' \in {"on", "off"}
        /\ PhaseOf(pc'[t]) = PhaseOf(pc[t])
    BY <1>2 DEF SwitchOffDB, LockDiscipline, PhaseOf, Carrying
  <2> QED
    BY <2>1, Onward DEF Refined, Contract!Next, Contract!SetSwitch, Contract!Still
<1>3. CASE \/ SwitchOffMem(t) \/ ReadActive(t) \/ CleanRoutes(t, "clean", "down")
           \/ StopBegin(t, "down", "downing")
  <2>1. /\ UNCHANGED <<dbSwitch, opMu, target, activeNode, Carrying>>
        /\ PhaseOf(pc'[t]) = PhaseOf(pc[t])
        /\ \A u \in Actors \ {t} : pc'[u] = pc[u]
    BY <1>3 DEF SwitchOffMem, ReadActive, Pass, CleanRoutes, StopBegin, PhaseOf, Carrying
  <2> QED
    BY <2>1, Onward, Bystander, UnseenRefines DEF Unseen
<1>4. CASE StopEnd(t, "downing", "clear", NoActor)
  <2>1. /\ UNCHANGED <<dbSwitch, opMu, target>> /\ Stopped /\ DropActive
        /\ PhaseOf(pc'[t]) = PhaseOf(pc[t]) /\ pc[t] = "downing"
        /\ \A u \in Actors \ {t} : pc'[u] = pc[u]
    BY <1>4 DEF StopEnd, PhaseOf
  <2>2. tmu = t /\ launching = NoProc
    BY <2>1 DEF LockDiscipline, InstallWindow
  <2>3. OpPhase # "dialling"
    BY <2>1, <2>2, DialHolds DEF OpPhase, PhaseOf
  <2> QED
    BY <2>1, <2>2, <2>3, Onward, Bystander, TornDown
<1>5. CASE ClearExit(t)
  <2>1. /\ UNCHANGED <<dbSwitch, target, activeNode, Carrying>> /\ pc[t] = "clear"
        /\ opMu' = IF opMu = t THEN NoActor ELSE opMu
        /\ \A u \in Actors \ {t} : pc'[u] = pc[u]
    BY <1>5 DEF ClearExit, Carrying
  <2>2. CASE opMu # t
    BY <2>1, <2>2, Bystander, UnseenRefines DEF Unseen
  <2>3. CASE opMu = t
    <3>1. OpPhase = "disconnecting" /\ OpPhase' = "free" /\ OpTarget' = NoNode /\ opMu' = NoActor
      BY <2>1, <2>3 DEF OpPhase, OpTarget, PhaseOf
    <3>2. active = NoProc /\ launching = NoProc
      BY <2>1, <2>3 DEF DisconnectProgress, InstallWindow, LockDiscipline
    <3>3. activeNode = NoNode
      BY <3>2 DEF ActiveNodeMatches
    <3>4. \A p \in Live : nodeOf[p] = NoNode
      BY <3>2 DEF NothingLeaks, Named
    <3>5. Carrying \cap {NoNode} = Carrying
      BY <3>4 DEF Carrying
    <3> QED
      BY <2>1, <3>1, <3>3, <3>5
      DEF Refined, Contract!Next, Contract!EndDisconnect, Contract!Down, Contract!Free
  <2> QED
    BY <2>2, <2>3
<1> QED
  BY <1>1, <1>2, <1>3, <1>4, <1>5 DEF DisconnectStep

\* A call is not inside yet.
LEMMA CallRefines ==
    ASSUME IInv, NEW t \in Actors, Call(t) PROVE Refined
<1> USE DEF IInv, TypeOK
<1>1. opMu # t
  BY DEF Call, BeginOuter, EndOuter, CallDisconnect, CallActivate, CallDisconnectOnly, LockDiscipline
<1>2. /\ UNCHANGED <<dbSwitch, opMu, activeNode, life, nodeOf>>
      /\ \A u \in Actors \ {t} : pc'[u] = pc[u] /\ target'[u] = target[u]
  BY DEF Call, BeginOuter, EndOuter, CallDisconnect, CallActivate, CallDisconnectOnly
<1>3. opMu = NoActor \/ opMu \in Actors \ {t}
  BY <1>1
<1>4. OpPhase' = OpPhase /\ OpTarget' = OpTarget
  BY <1>2, <1>3 DEF OpPhase, OpTarget, PhaseOf
<1>5. UNCHANGED Carrying
  BY ONLY <1>2 DEF Carrying, Live
<1> QED
  BY <1>2, <1>4, <1>5, UnseenRefines DEF Unseen

\* A reaper clears the exit only when it is dead; that its process goes is all a
\* user of the gateway sees of it otherwise.
LEMMA WatchRefines ==
    ASSUME IInv, Named, NEW p \in Procs, WatchStep(p) \/ EndWatch(p) PROVE Refined
<1> USE DEF IInv, TypeOK
<1>1. /\ opMu # p /\ UNCHANGED <<dbSwitch, opMu, target>>
      /\ \A u \in Actors \ {p} : pc'[u] = pc[u]
  BY DEF WatchStep, Reap, Decide, ReadFailed, CleanRoutes, ClearExitedProcess, EndWatch,
     EndReaper, LockDiscipline
<1>2. OpPhase' = OpPhase /\ OpTarget' = OpTarget
  BY <1>1, Bystander
<1>3. ASSUME UNCHANGED activeNode, Live' \in {Live, Live \ {p}}, \A q \in Live' : nodeOf'[q] = nodeOf[q]
      PROVE  Refined
  <2>1. CASE Live' = Live
    <3>1. UNCHANGED Carrying
      BY ONLY <1>3, <2>1 DEF Carrying
    <3> QED
      BY <1>1, <1>2, <1>3, <3>1, UnseenRefines DEF Unseen
  <2>2. CASE Live' # Live
    <3>1. Live' = {}
      BY <1>3, <2>2 DEF OneTunnel
    <3>2. Carrying' = {}
      BY <3>1 DEF Carrying
    <3> QED
      BY <1>1, <1>2, <1>3, <3>2 DEF Refined, Contract!Next, Contract!TunnelDies, Contract!Still
  <2> QED
    BY <2>1, <2>2
<1>4. CASE Reap(p) \/ CleanRoutes(p, "hclean", "hforget")
  BY <1>3, <1>4 DEF Reap, CleanRoutes
<1>5. CASE Decide(p) \/ ReadFailed(p) \/ EndWatch(p)
  BY <1>3, <1>5 DEF Decide, ReadFailed, EndWatch, EndReaper
<1>6. CASE ClearExitedProcess(p)
  <2>1. CASE UNCHANGED <<procs, config, tunnel>>
    BY <1>3, <2>1
  <2>2. CASE active # NoProc /\ life[active] = "done" /\ DropActive
    <3>1. tmu = NoActor
      BY <1>6 DEF ClearExitedProcess
    <3>2. launching = NoProc
      BY <3>1 DEF InstallWindow
    <3>3. OpPhase # "dialling"
      BY <3>1, DialHolds DEF OpPhase
    <3> QED
      BY <1>1, <1>2, <2>2, <3>2, <3>3, TornDown DEF Stopped
  <2> QED
    BY <1>6, <2>1, <2>2 DEF ClearExitedProcess
<1> QED
  BY <1>4, <1>5, <1>6 DEF WatchStep

\* A tunnel dies; the daemon dies, and what it leaves running is nobody's.
LEMMA EnvironmentRefines ==
    ASSUME IInv, Named, Environment PROVE Refined
<1> USE DEF IInv, TypeOK
<1>1. ASSUME NEW p \in Procs, Exit(p) \/ OrphanExit(p) PROVE Refined
  <2>1. /\ UNCHANGED <<dbSwitch, opMu, activeNode, pc, target>>
        /\ Live = {p} /\ Live' = {}
    BY <1>1 DEF Exit, OrphanExit, OneTunnel
  <2>2. OpPhase' = OpPhase /\ OpTarget' = OpTarget /\ Carrying' = {}
    BY <2>1 DEF OpPhase, OpTarget, Carrying
  <2> QED
    BY <2>1, <2>2 DEF Refined, Contract!Next, Contract!TunnelDies, Contract!Still
<1>2. CASE Crash
  <2>1. OpPhase' = "free" /\ OpTarget' = NoNode /\ opMu' = NoActor
        /\ activeNode' = NoNode /\ dbSwitch' = dbSwitch
    BY <1>2 DEF Crash, OpPhase, OpTarget
  <2>2. Live' = Live /\ \A p \in Live : nodeOf'[p] = NoNode
    BY <1>2 DEF Crash
  <2>3. Carrying' = IF Carrying = {} THEN {} ELSE {NoNode}
    <3>1. CASE Live = {}
      BY ONLY <2>2, <3>1 DEF Carrying
    <3>2. CASE Live # {}
      <4> PICK p \in Live : nodeOf'[p] = NoNode
        BY <2>2, <3>2
      <4>1. Carrying # {} /\ Carrying' = {NoNode}
        BY ONLY <2>2, p \in Live DEF Carrying
      <4> QED
        BY <4>1
    <3> QED
      BY <3>1, <3>2
  <2> QED
    BY <2>1, <2>3 DEF Refined, Contract!Next, Contract!Crash, Contract!Free
<1>3. CASE Restart
  <2>1. UNCHANGED <<dbSwitch, opMu, activeNode, pc, target, life, nodeOf>>
    BY <1>3 DEF Restart
  <2> QED
    BY <2>1, UnseenRefines DEF Unseen, OpPhase, OpTarget, Carrying
<1> QED
  BY <1>1, <1>2, <1>3 DEF Environment

LEMMA StepRefines == IInv /\ Named /\ [Next]_vars => [Contract!Next]_(Contract!vars)
<1> SUFFICES ASSUME IInv, Named, [Next]_vars PROVE Refined
  BY DEF Refined
<1>1. CASE UNCHANGED vars
  BY <1>1, UnseenRefines DEF vars, Unseen, OpPhase, OpTarget, Carrying
<1> QED
  BY <1>1, ActivateRefines, DisconnectRefines, CallRefines, WatchRefines, EnvironmentRefines
  DEF Next, Internal

\* The gateway, with its locks, processes, reapers, crashes and restarts,
\* implements what it promises its users: one activation or Disconnect at a time
\* changes the exit, and what is active or carries traffic is what that one dialled.
THEOREM Implements == Spec => ContractKept
<1>1. Init => Named /\ Contract!Init
  BY DEF Init, Named, Contract!Init, OpPhase, OpTarget, Carrying
<1> QED
  BY <1>1, NamedKept, StepRefines, Invariance, PTL DEF Spec, ContractKept, Contract!Spec
=============================================================================
