-------------------------------- MODULE MCHost --------------------------------
(***************************************************************************)
(* One instance of each module about the host.  They share no state: part, *)
(* chosen once, says which of them acts, and the rest keeps its initial    *)
(* values.                                                                 *)
(***************************************************************************)
EXTENDS PolicyRoutes, TunnelDevices, SelfUpdate

VARIABLE part

Default == {[dst |-> "default", dev |-> Theirs, table |-> "ours"]}
WrongBuild == {[v |-> 2, upload |-> 1]}
Newest2 == {2}

Init ==
    /\ part \in {"routes", "orphans", "devices", "update"}
    /\ RoutesInit /\ DevicesInit /\ UpdateInit
    /\ part # "orphans" => links = {}
    /\ part \notin {"routes", "orphans"} => routes = OldRoutes /\ rules = OldRules
    /\ part # "devices" => active = 0 /\ present = {}
    /\ part # "update" => disk.v = 1

RoutesPart ==
    /\ \/ part = "routes" /\ ServiceSteps
       \/ part = "orphans" /\ CleanupOrphanedRules
       \/ part \in {"routes", "orphans"} /\ HostSteps
    /\ UNCHANGED <<part, devicesVars, updateVars>>

DevicesPart ==
    /\ part = "devices" /\ DevicesNext
    /\ UNCHANGED <<part, routesVars, updateVars>>

UpdatePart ==
    /\ part = "update" /\ UpdateNext
    /\ UNCHANGED <<part, routesVars, devicesVars>>

Next == RoutesPart \/ DevicesPart \/ UpdatePart

Spec == Init /\ [][Next]_<<part, routesVars, devicesVars, updateVars>> /\ UpdateFairness

\* Every variable of the three modules keeps its type.
HostTypeOK == RoutesTypeOK /\ DevicesTypeOK /\ UpdateTypeOK
=============================================================================
