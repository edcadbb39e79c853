---------------------------- MODULE ExitGateway ----------------------------
(***************************************************************************)
(* What the gateway promises whoever uses it.  One goroutine at a time     *)
(* changes the exit.  It goes through with an activation only if it found  *)
(* the switch on while it was inside, takes the old exit down before it    *)
(* dials, dials one node, and nobody takes anything down while it does.    *)
(* The exit is that node until it is taken down; it may die at any moment, *)
(* and what carries traffic is the exit, the node being dialled, or what   *)
(* an earlier life of the daemon has left.  A Disconnect ends with nothing *)
(* of ours up.                                                             *)
(*                                                                         *)
(* GatewayTunnel is the gateway itself; ExitControl is its callers, who    *)
(* see it as these steps.                                                  *)
(***************************************************************************)
CONSTANTS Actors, Nodes,
          NoActor, NoNode   \* nobody; no exit, or a node nobody remembers

VARIABLES
    switch,            \* "on" or "off", as stored
    holder, phase,     \* who changes the exit and how far: "free", "entered", "checked",
                       \* "dialling", "up", "disconnecting"
    target,            \* the node it activates
    active,            \* the exit as the daemon knows it
    carrying           \* the nodes whose tunnel process holds the device

vars == <<switch, holder, phase, target, active, carrying>>

Free  == holder' = NoActor /\ phase' = "free" /\ target' = NoNode
Still == UNCHANGED <<holder, phase, target>>
Down  == active' = NoNode /\ carrying' = carrying \cap {NoNode}

Init ==
    /\ switch \in {"on", "off"} /\ active = NoNode /\ carrying = {}
    /\ holder = NoActor /\ phase = "free" /\ target = NoNode

\* The switch is anybody's.
SetSwitch == switch' \in {"on", "off"} /\ Still /\ UNCHANGED <<active, carrying>>

Enter ==
    /\ holder = NoActor /\ holder' \in Actors
    /\ \/ phase' = "entered" /\ target' \in Nodes
       \/ phase' = "disconnecting" /\ target' = NoNode
    /\ UNCHANGED <<switch, active, carrying>>

Check ==
    /\ phase = "entered" /\ switch = "on" /\ phase' = "checked"
    /\ UNCHANGED <<switch, holder, target, active, carrying>>

BeginDial ==
    /\ phase = "checked" /\ phase' = "dialling"
    /\ active' = NoNode /\ carrying' = {}
    /\ UNCHANGED <<switch, holder, target>>

TunnelStarts ==
    /\ phase = "dialling" /\ carrying = {} /\ carrying' = {target}
    /\ Still /\ UNCHANGED <<switch, active>>

\* It may have started just now, or died already.
Up ==
    /\ phase = "dialling" /\ active' = target /\ carrying' \in {carrying, {target}}
    /\ Free \/ (phase' = "up" /\ UNCHANGED <<holder, target>>)
    /\ UNCHANGED switch

\* A dial that is given up leaves no tunnel; an exit that cannot be routed goes.
Return ==
    /\ phase \in {"entered", "checked", "up"} \/ (phase = "dialling" /\ carrying = {})
    /\ Free
    /\ UNCHANGED <<active, carrying>> \/ (phase = "up" /\ Down)
    /\ UNCHANGED switch

TearDown == phase # "dialling" /\ Down /\ Still /\ UNCHANGED switch

EndDisconnect == phase = "disconnecting" /\ Down /\ Free /\ UNCHANGED switch

TunnelDies == carrying' = {} /\ Still /\ UNCHANGED <<switch, active>>

\* The daemon dies; what carries traffic goes on and is nobody's.
Crash ==
    /\ Free /\ active' = NoNode
    /\ carrying' = IF carrying = {} THEN {} ELSE {NoNode}
    /\ UNCHANGED switch

Next ==
    \/ SetSwitch \/ Enter \/ Check \/ BeginDial \/ TunnelStarts \/ Up \/ Return
    \/ TearDown \/ EndDisconnect \/ TunnelDies \/ Crash

Spec == Init /\ [][Next]_vars
=============================================================================
