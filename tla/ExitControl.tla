----------------------------- MODULE ExitControl -----------------------------
(***************************************************************************)
(* Who decides which exit is up: the operator's settings, Disconnect and   *)
(* node switches (services/settings.go), rotation and recovery             *)
(* (services/autoswitch.go, health.go) and the end of a maintenance cycle  *)
(* (services/maintenance.go), calling the gateway concurrently.            *)
(*                                                                         *)
(* The gateway is seen from its callers: an activation holds the           *)
(* coordinator and opMu, replaces the exit and dials; Disconnect takes     *)
(* opMu; DisconnectOnly waits for nothing but a dial in progress.  Module  *)
(* GatewayTunnel has what is inside.                                       *)
(*                                                                         *)
(* Each step is one database access or one call into the gateway.  Writes  *)
(* may fail, with the error returned or discarded as in the code; the      *)
(* reads of a rotation and of the monitors are taken to succeed.           *)
(***************************************************************************)
EXTENDS Naturals, FiniteSets

CONSTANTS Nodes, NoNode,
          Operators,   \* request handlers and jobs
          Handlers,    \* exit handlers, one per tunnel that died
          Health, Maint, NoActor,   \* the two monitors
          Tries        \* activations per rotation

Actors == Operators \cup Handlers \cup {Health, Maint}

ASSUME ControlAssumption ==
    /\ NoNode \notin Nodes /\ NoActor \notin Actors
    /\ Health # Maint /\ {Health, Maint} \cap (Operators \cup Handlers) = {}
    /\ Operators \cap Handlers = {}
    /\ Tries \in Nat \ {0}

VARIABLES
    settings,  \* the stored switch and policy
    ready,     \* the nodes with status ready
    active, dead,   \* the active node; whether its process has died unnoticed
    coord, outer,   \* who holds the coordinator; who holds it around its calls
    op,        \* who holds opMu
    pc, frame, \* per actor: its position and its locals
    wish,      \* history: the last the operator asked of the switch that was stored
    pinned     \* history: the node a finished SwitchNodeJob pinned, until the next change

exit  == <<active, dead>>
locks == <<coord, outer, op>>
asked == <<wish, pinned>>
vars  == <<settings, ready, exit, locks, pc, frame, asked>>

\* The policy is reduced to the nodes it permits.
Policies ==
    [enabled : {"on", "off"}, mode : {"auto"}, nodes : SUBSET Nodes \ {{}}]
    \cup [enabled : {"on", "off"}, mode : {"fixed"}, nodes : {{n} : n \in Nodes}]

FixedOn(n) == [enabled |-> "on", mode |-> "fixed", nodes |-> {n}]

Unset == [enabled |-> "off", mode |-> "auto", nodes |-> {}]

\* target is the node being activated (or blamed), rotating whether a rotation
\* chose it, after what follows, snap the settings a caller decides by.
Fresh == [target |-> NoNode, excluded |-> {}, tries |-> 0, rotating |-> FALSE,
          after |-> "idle", snap |-> Unset]

Init ==
    /\ settings \in Policies /\ ready = Nodes /\ active = NoNode /\ dead = FALSE
    /\ coord = NoActor /\ outer = NoActor /\ op = NoActor
    /\ pc = [a \in Actors |-> "idle"] /\ frame = [a \in Actors |-> Fresh]
    /\ wish = settings.enabled /\ pinned = NoNode

At(a, here) == pc[a] = here
Permitted(n) == n \in settings.nodes

\* Going on with other locals.  Outside any call there are none.
Goto(a, there, locals) ==
    /\ pc' = [pc EXCEPT ![a] = there]
    /\ frame' = [frame EXCEPT ![a] = IF there = "idle" THEN Fresh ELSE locals]
Move(a, there) == Goto(a, there, frame[a])

-----------------------------------------------------------------------------
(* AutoSwitchService.switchExcluding.                                      *)

\* (fault) one activation too many
ResultOneMore(a, r) ==
    LET f == frame[a]
        next == [f EXCEPT !.excluded = @ \cup {f.target}, !.tries = @ + 1]
    IN IF f.rotating /\ r \in {"refused", "error"} /\ next.tries <= Tries
       THEN Goto(a, "select", next)
       ELSE Move(a, f.after)

\* What an activation's result means to its caller.  A rotation excludes a node
\* that failed and goes on, up to Tries times; a success or a conflict ends it.
Result(a, r) ==
    LET f == frame[a]
        next == [f EXCEPT !.excluded = @ \cup {f.target}, !.tries = @ + 1]
    IN IF f.rotating /\ r \in {"refused", "error"} /\ next.tries < Tries
       THEN Goto(a, "select", next)
       ELSE Move(a, f.after)

\* The settings at the start: off ends it, fixed mode activates the fixed node.
Rotate(a) ==
    /\ At(a, "rotate")
    /\ CASE settings.enabled = "off" -> Move(a, frame[a].after)
         [] settings.enabled = "on" /\ settings.mode = "fixed" ->
              \E n \in settings.nodes : Goto(a, "begin", [frame[a] EXCEPT !.target = n])
         [] OTHER -> Move(a, "exclude")
    /\ UNCHANGED <<settings, ready, exit, locks, asked>>

ExcludeActive(a) ==
    /\ At(a, "exclude")
    /\ Goto(a, "select", [frame[a] EXCEPT !.excluded = @ \cup ({active} \ {NoNode}),
                                          !.tries = 0, !.rotating = TRUE])
    /\ UNCHANGED <<settings, ready, exit, locks, asked>>

\* selectExcluding: a ready node the settings of now permit, or none.
Select(a) ==
    /\ At(a, "select")
    /\ LET candidates == (ready \cap settings.nodes) \ frame[a].excluded
       IN \/ \E n \in candidates : Goto(a, "begin", [frame[a] EXCEPT !.target = n])
          \/ candidates = {} /\ Move(a, "giveup")
    /\ UNCHANGED <<settings, ready, exit, locks, asked>>

\* DisconnectOnly: it waits for Connect's lock and for no other.
Teardown(a, from) ==
    /\ At(a, from) /\ \A b \in Actors : ~At(b, "dial")
    /\ active' = NoNode /\ dead' = FALSE
    /\ UNCHANGED <<settings, ready, locks, asked>>

GiveUp(a) == Teardown(a, "giveup") /\ Move(a, frame[a].after)

-----------------------------------------------------------------------------
(* GatewayService.Activate.                                                *)

\* The coordinator is taken, kept if already held around this call, or busy.
Begin(a) ==
    /\ At(a, "begin")
    /\ IF coord \in {a, NoActor}
       THEN coord' = a /\ Move(a, "lock")
       ELSE UNCHANGED coord /\ Result(a, "conflict")
    /\ UNCHANGED <<settings, ready, exit, outer, op, asked>>

LockOp(a, from, to) ==
    /\ At(a, from) /\ op = NoActor /\ op' = a
    /\ Move(a, to)
    /\ UNCHANGED <<settings, ready, exit, coord, outer, asked>>

End(a, r) ==
    /\ op' = NoActor /\ coord' = outer
    /\ Result(a, r)

\* The node may be gone; otherwise an activation turns the switch on, or fails to
\* without noticing.
Enable(a) ==
    /\ At(a, "enable")
    /\ settings' \in {settings, [settings EXCEPT !.enabled = "on"]}
    /\ Move(a, "validate")
    /\ UNCHANGED <<ready, exit, locks, asked>>

FailLocally(a) ==
    /\ pc[a] \in {"enable", "validate", "dial"} /\ End(a, "error")
    /\ UNCHANGED <<settings, ready, exit, outer, asked>>

\* (fault) the policy is not looked at again
ValidateTrusting(a) ==
    /\ At(a, "validate") /\ Move(a, "drop")
    /\ UNCHANGED <<settings, ready, exit, locks, asked>>

\* ValidateAllowed reads the settings of now; FailLocally is its refusal.
Validate(a) ==
    /\ At(a, "validate")
    /\ settings.enabled = "on" /\ Permitted(frame[a].target)
    /\ Move(a, "drop")
    /\ UNCHANGED <<settings, ready, exit, locks, asked>>

\* (fault) the current exit stays until the new one is up
DropLater(a) ==
    /\ At(a, "drop") /\ Move(a, "dial")
    /\ pinned' = IF frame[a].after = "unpin" /\ settings = FixedOn(frame[a].target)
                 THEN frame[a].target ELSE pinned
    /\ UNCHANGED <<settings, ready, exit, locks, wish>>

\* The current exit goes; a node switch has pinned its choice from here on,
\* unless another request has changed the settings since.
Drop(a) ==
    /\ At(a, "drop")
    /\ active' = NoNode /\ dead' = FALSE
    /\ pinned' = IF frame[a].after = "unpin" /\ settings = FixedOn(frame[a].target)
                 THEN frame[a].target ELSE pinned
    /\ Move(a, "dial")
    /\ UNCHANGED <<settings, ready, locks, wish>>

DialUp(a) ==
    /\ At(a, "dial") /\ active' = frame[a].target
    /\ End(a, "up")
    /\ UNCHANGED <<settings, ready, dead, outer, asked>>

\* MarkUnavailable, and the rotation's Blacklist.
DialRefused(a) ==
    /\ At(a, "dial") /\ ready' = ready \ {frame[a].target}
    /\ End(a, "refused")
    /\ UNCHANGED <<settings, exit, outer, asked>>

Activate(a) ==
    \/ Begin(a) \/ LockOp(a, "lock", "enable")
    \/ Enable(a) \/ FailLocally(a) \/ Validate(a) \/ Drop(a)
    \/ DialUp(a) \/ DialRefused(a)

-----------------------------------------------------------------------------
(* What operators ask for.                                                 *)

\* Disconnect.
CallDisconnect(a) ==
    /\ At(a, "idle") /\ Move(a, "dlock")
    /\ UNCHANGED <<settings, ready, exit, locks, asked>>

\* The write may fail: the exit goes down all the same, and nothing has been asked of
\* the switch.
SwitchOff(a) ==
    /\ At(a, "off") /\ Move(a, "down")
    /\ \/ /\ settings' = [settings EXCEPT !.enabled = "off"]
          /\ wish' = "off" /\ pinned' = NoNode
       \/ UNCHANGED <<settings, asked>>
    /\ UNCHANGED <<ready, exit, locks>>

\* Teardown under opMu, which goes with the return.
TakeDown(a) ==
    /\ At(a, "down") /\ Move(a, "idle")
    /\ active' = NoNode /\ dead' = FALSE /\ op' = NoActor
    /\ UNCHANGED <<settings, ready, coord, outer, asked>>

\* SettingsService.Update: write, read back, reconcile the exit.
CallUpdate(a, s) ==
    /\ At(a, "idle") /\ Move(a, "reread")
    /\ settings' = s
    /\ wish' = s.enabled /\ pinned' = NoNode
    /\ UNCHANGED <<ready, exit, locks>>

\* A failed read ends Update with the exit as it was.
Reread(a) ==
    /\ At(a, "reread")
    /\ \/ Goto(a, IF settings.enabled = "off" THEN "udown" ELSE "enforce",
               [frame[a] EXCEPT !.snap = settings])
       \/ Move(a, "idle")
    /\ UNCHANGED <<settings, ready, exit, locks, asked>>

UpdateDown(a) == Teardown(a, "udown") /\ Move(a, "idle")

\* enforceActiveNode, by the settings read back.
Enforce(a) ==
    /\ At(a, "enforce")
    /\ Move(a, IF active = NoNode \/ active \in frame[a].snap.nodes THEN "recheck" ELSE "edown")
    /\ UNCHANGED <<settings, ready, exit, locks, asked>>

EnforceDown(a) ==
    /\ Teardown(a, "edown")
    /\ IF frame[a].snap.mode = "fixed"
       THEN Move(a, "recheck")
       ELSE Goto(a, "rotate", [frame[a] EXCEPT !.after = "recheck"])

\* Without an exit, the fixed node or a rotation; maintenance ends the same way.
Reconnect(a, from, after) ==
    /\ At(a, from)
    /\ LET s == frame[a].snap
           f == [Fresh EXCEPT !.after = after]
       IN IF active # NoNode \/ s.enabled = "off" THEN Move(a, after)
          ELSE IF s.mode = "fixed"
               THEN \E n \in s.nodes : Goto(a, "begin", [f EXCEPT !.target = n])
               ELSE Goto(a, "rotate", f)
    /\ UNCHANGED <<settings, ready, exit, locks, asked>>

\* SwitchNodeJob, inside the coordinator from start to end; a busy one refuses.
CallSwitchNode(a, n) ==
    /\ At(a, "idle") /\ coord = NoActor
    /\ coord' = a /\ outer' = a
    /\ Goto(a, "pin", [Fresh EXCEPT !.target = n, !.after = "unpin"])
    /\ UNCHANGED <<settings, ready, exit, op, asked>>

\* The node may be gone and the write may fail.
Pin(a) ==
    /\ At(a, "pin")
    /\ \/ /\ Move(a, "begin")
          /\ settings' = FixedOn(frame[a].target)
          /\ wish' = "on" /\ pinned' = NoNode
       \/ Move(a, "unpin") /\ UNCHANGED <<settings, asked>>
    /\ UNCHANGED <<ready, exit, locks>>

\* The end of an operation that held the coordinator around its calls.
Release(a, from) ==
    /\ At(a, from) /\ Move(a, "idle")
    /\ coord' = NoActor /\ outer' = NoActor
    /\ UNCHANGED <<settings, ready, exit, op, asked>>

CallRotate(a) ==
    /\ At(a, "idle") /\ Move(a, "rotate")
    /\ UNCHANGED <<settings, ready, exit, locks, asked>>

-----------------------------------------------------------------------------
(* What happens by itself.                                                 *)

\* (fault) the monitor only ever rotates away from an active node
HealthTickActive ==
    /\ At(Health, "idle") /\ active # NoNode
    /\ Goto(Health, "blame", [Fresh EXCEPT !.target = active])
    /\ UNCHANGED <<settings, ready, exit, locks, asked>>

\* HealthMonitor.Run: without an exit it recovers, a failed check blames the
\* node that is active now.
HealthTick ==
    /\ At(Health, "idle")
    /\ IF active = NoNode
       THEN Move(Health, "rotate")
       ELSE Goto(Health, "blame", [Fresh EXCEPT !.target = active])
    /\ UNCHANGED <<settings, ready, exit, locks, asked>>

\* Check: fixed mode retries the same node, otherwise it goes into cooldown.
HealthBlame ==
    /\ At(Health, "blame")
    /\ CASE settings.enabled = "off" -> Move(Health, "idle") /\ UNCHANGED ready
         [] settings.enabled = "on" /\ settings.mode = "fixed" ->
              Move(Health, "begin") /\ UNCHANGED ready
         [] OTHER -> Goto(Health, "rotate", Fresh) /\ ready' = ready \ {frame[Health].target}
    /\ UNCHANGED <<settings, exit, locks, asked>>

\* The tunnel dies; its reaper clears it and calls HandleUnexpectedExit.
TunnelDies(h) ==
    /\ active # NoNode /\ ~dead /\ At(h, "idle")
    /\ dead' = TRUE
    /\ Goto(h, "clear", [Fresh EXCEPT !.target = active])
    /\ UNCHANGED <<settings, ready, active, locks, asked>>

ClearExited(h) ==
    /\ At(h, "clear") /\ \A b \in Actors : ~At(b, "dial")
    /\ active' = IF dead THEN NoNode ELSE active
    /\ dead' = FALSE
    /\ Move(h, "exited")
    /\ UNCHANGED <<settings, ready, locks, asked>>

\* The settings, the cooldown of a node that dropped early, then the backoff.
HandleUnexpectedExit(h) ==
    /\ At(h, "exited")
    /\ IF settings.enabled = "off"
       THEN Move(h, "idle") /\ UNCHANGED ready
       ELSE /\ Goto(h, "rotate", [Fresh EXCEPT !.excluded = {frame[h].target}])
            /\ ready' \in {ready, ready \ {frame[h].target}}
    /\ UNCHANGED <<settings, exit, locks, asked>>

\* A maintenance cycle decides by the settings it read before its probes.
MaintBegin ==
    /\ At(Maint, "idle") /\ coord = NoActor
    /\ coord' = Maint /\ outer' = Maint
    /\ Goto(Maint, "probed", [Fresh EXCEPT !.snap = settings])
    /\ UNCHANGED <<settings, ready, exit, op, asked>>

\* A probe finds a node usable again.
Probed(n) ==
    /\ n \notin ready /\ ready' = ready \cup {n}
    /\ UNCHANGED <<settings, exit, locks, pc, frame, asked>>

-----------------------------------------------------------------------------
Step(a) ==
    \/ Rotate(a) \/ ExcludeActive(a) \/ Select(a) \/ GiveUp(a)
    \/ Activate(a)
    \/ LockOp(a, "dlock", "off") \/ SwitchOff(a) \/ TakeDown(a)
    \/ Reread(a) \/ UpdateDown(a) \/ Enforce(a) \/ EnforceDown(a)
    \/ Reconnect(a, "recheck", "idle")
    \/ Pin(a) \/ Release(a, "unpin")
    \/ Reconnect(a, "probed", "cycled") \/ Release(a, "cycled")

Ask(a) ==
    \/ CallDisconnect(a) \/ CallRotate(a)
    \/ \E s \in Policies : CallUpdate(a, s)
    \/ \E n \in Nodes : CallSwitchNode(a, n)

Next ==
    \/ \E a \in Actors : Step(a)
    \/ \E a \in Operators : Ask(a)
    \/ HealthTick \/ HealthBlame \/ MaintBegin
    \/ \E h \in Handlers : TunnelDies(h) \/ ClearExited(h) \/ HandleUnexpectedExit(h)
    \/ \E n \in Nodes : Probed(n)

Spec == Init /\ [][Next]_vars

\* A goroutine goes on; the health monitor ticks; what dies is handled.
Goes(a) ==
    \/ Step(a)
    \/ a = Health /\ (HealthTick \/ HealthBlame)
    \/ a \in Handlers /\ (ClearExited(a) \/ HandleUnexpectedExit(a))

\* They are scheduled and get their turn at the locks; probes go on; a local
\* fault does not last and, dialled again and again, some node answers.
Fairness ==
    /\ \A a \in Actors : SF_vars(Goes(a))
    /\ SF_vars(\E a \in Actors : Enable(a)) /\ SF_vars(\E a \in Actors : Validate(a))
    /\ SF_vars(\E a \in Actors : DialUp(a))
    /\ \A n \in Nodes : WF_vars(Probed(n))

-----------------------------------------------------------------------------
(* Properties.                                                             *)

Activating == {"lock", "enable", "validate", "drop", "dial"}

Positions ==
    {"idle", "rotate", "exclude", "select", "giveup", "begin", "dlock", "off", "down", "reread",
     "udown", "enforce", "edown", "recheck", "pin", "unpin", "blame", "clear", "exited",
     "probed", "cycled"} \cup Activating

Frames ==
    [target : Nodes \cup {NoNode}, excluded : SUBSET Nodes, tries : 0..(Tries - 1),
     rotating : BOOLEAN, after : {"idle", "recheck", "unpin", "cycled"},
     snap : Policies \cup {Unset}]

\* The type invariant; opMu is held exactly by an activation past its lock or a
\* Disconnect.
TypeOK ==
    /\ settings \in Policies /\ ready \subseteq Nodes
    /\ active \in Nodes \cup {NoNode} /\ dead \in BOOLEAN
    /\ coord \in Actors \cup {NoActor} /\ outer \in Actors \cup {NoActor}
    /\ op \in Actors \cup {NoActor}
    /\ pc \in [Actors -> Positions] /\ frame \in [Actors -> Frames]
    /\ \A a \in Actors : op = a <=> pc[a] \in {"enable", "validate", "drop", "dial", "off", "down"}
    /\ wish \in {"on", "off"} /\ pinned \in Nodes \cup {NoNode}

\* A node an operator has switched to is not replaced: until the operator asks
\* for something else no rotation, health check, exit handler or maintenance
\* cycle, however long ago it made its choice, brings up another one.
PinKept == pinned # NoNode => active \in {pinned, NoNode}

\* What the callers take the gateway for is what it promises (ExitGateway), with
\* settings written, nodes blamed and the exit taken down beside an activation.
OpPhase ==
    IF op = NoActor THEN "free"
    ELSE CASE pc[op] \in {"enable", "validate"} -> "entered"
           [] pc[op] = "drop" -> "checked"
           [] pc[op] = "dial" -> "dialling"
           [] OTHER -> "disconnecting"
OpTarget == IF OpPhase \in {"free", "disconnecting"} THEN NoNode ELSE frame[op].target
Carrying == {active} \ IF dead THEN {active} ELSE {NoNode}
Contract ==
    INSTANCE ExitGateway WITH
        switch <- settings.enabled, holder <- op, phase <- OpPhase,
        target <- OpTarget, carrying <- Carrying
ContractKept == Contract!Spec

\* Once switched off by the operator, the connection stays off until the
\* operator turns it on.
OffStaysOff == wish = "off" => settings.enabled = "off"

\* While the connection stays on, an exit comes up again and again, whichever
\* policy chooses it and even after a rotation gave up.
ExitRestored == <>[](settings.enabled = "on") => []<>(active # NoNode)
=============================================================================
