---------------------------- MODULE TunnelDevices ----------------------------
(***************************************************************************)
(* Which tunnel device name is whose: the active device made available     *)
(* before a dial and leftovers reclaimed at the start (netx/device.go),    *)
(* the names probes are given (netx/tun.go) and the range they come from   *)
(* (config.go), on a host where a second instance runs tunnels named from  *)
(* the same prefix and a tunnel that dies may leave its device behind.     *)
(*                                                                         *)
(* A device is the number after our prefix; Outside stands for a name that *)
(* is not of that form.  A tunnel process names its device on its command  *)
(* line from its start and opens it later.                                 *)
(***************************************************************************)
EXTENDS Naturals, FiniteSets

CONSTANTS Probers,               \* concurrent probes
          RangeStart, RangeEnd,  \* the indices probes use
          MaxOthers,             \* bound on the other instance's tunnels
          NoDevice

Pool    == 0..RangeEnd
Outside == RangeEnd + 1
Names   == Pool \cup {Outside}

ASSUME DevicesAssumption ==
    /\ RangeStart \in Nat \ {0} /\ RangeEnd \in Nat /\ RangeStart <= RangeEnd
    /\ MaxOthers \in Nat
    /\ NoDevice \notin Names

VARIABLES
    active,    \* TunnelInterface
    present,   \* the devices that exist
    tunnels,   \* the running tunnel processes
    service,   \* where Start or the activation is
    held, listed, \* its scan of /proc, its listing of devices
    atScan,    \* history: the processes whose command line the scan could read
    allocated, \* the allocator's bookkeeping
    prober     \* per probe: where it is and the device it was given

devicesVars ==
    <<active, present, tunnels, service, held, listed, atScan, allocated, prober>>

Tunnel(d, by, open) == [dev |-> d, by |-> by, open |-> open]
Owners == {"exit", "probe", "other"}

HasPrefix(d) == d # Outside
Users(d) == {t \in tunnels : t.dev = d}
OpenAt(d) == \E t \in tunnels : t.dev = d /\ t.open

\* finalizeNaming: the probes' range yields to the active device.
FirstProbe == IF active \in RangeStart..RangeEnd THEN active + 1 ELSE RangeStart

DevicesInit ==
    /\ active \in Names /\ FirstProbe <= RangeEnd
    /\ present \in SUBSET Names
    /\ tunnels = {} /\ service = "boot" /\ held = {} /\ listed = {} /\ atScan = {}
    /\ allocated = {}
    /\ prober = [p \in Probers |-> [at |-> "idle", dev |-> NoDevice]]

host  == <<present, tunnels>>
scans == <<held, listed, atScan>>
pools == <<allocated, prober>>

\* The scan has been used.
Looked(there) == service' = there /\ held' = {} /\ listed' = {} /\ atScan' = {}

-----------------------------------------------------------------------------
(* What our own code does to devices.                                      *)

\* (fault) only the processes that run our own binary are looked at
HeldNamesOurs(read) == {t.dev : t \in {u \in read : u.by # "other"}}

\* devicesHeldByLiveTunnels: every --dev on a command line it could read.  A process
\* it cannot read is skipped; without /proc it reads none, and reports no error.
HeldNames(read) == {t.dev : t \in read}

\* RemoveDevice: only a name of our pool; the command may fail.
RemoveDevice(d) ==
    \/ HasPrefix(d) /\ d \in present /\ present' = present \ {d}
    \/ UNCHANGED present

\* Start: our own stale processes are taken to have ended, then ReclaimStaleDevices
\* scans the processes, lists the devices, and removes those not held.
ReclaimScan ==
    /\ service = "boot"
    /\ tunnels' = {t \in tunnels : t.by = "other"}
    /\ \E read \in SUBSET tunnels' : held' = HeldNames(read) /\ atScan' = read
    /\ service' = "list"
    /\ UNCHANGED <<active, present, listed, pools>>

StaleDevices ==
    /\ service = "list"
    /\ listed' = {d \in present : HasPrefix(d)}
    /\ service' = "reclaim"
    /\ UNCHANGED <<active, host, held, atScan, pools>>

Reclaim ==
    /\ service = "reclaim"
    /\ \/ listed = {} /\ Looked("ready") /\ UNCHANGED present
       \/ \E d \in listed :
            /\ listed' = listed \ {d} /\ UNCHANGED <<service, held, atScan>>
            /\ IF d \in held THEN UNCHANGED present ELSE RemoveDevice(d)
    /\ UNCHANGED <<active, tunnels, pools>>

\* An activation lets its own tunnel go, then EnsureDeviceAvailable: absent is
\* fine; held by a process, outside our prefix or not removable is an error.
EnsureDeviceAvailable ==
    /\ service = "ready"
    /\ tunnels' = {t \in tunnels : t.by # "exit"}
    /\ \/ UNCHANGED present
       \/ Tunnel(active, "exit", TRUE) \in tunnels /\ present' = present \ {active}
    /\ service' = IF active \in present' THEN "held" ELSE "dial"
    /\ UNCHANGED <<active, scans, pools>>

ScanActive ==
    /\ service = "held"
    /\ \E read \in SUBSET tunnels :
         IF active \in HeldNames(read) \/ ~HasPrefix(active)
         THEN Looked("ready")
         ELSE service' = "remove" /\ held' = HeldNames(read) /\ atScan' = read /\ UNCHANGED listed
    /\ UNCHANGED <<active, host, pools>>

RemoveActive ==
    /\ service = "remove"
    /\ RemoveDevice(active)
    /\ Looked(IF active \in present' THEN "ready" ELSE "dial")
    /\ UNCHANGED <<active, tunnels, pools>>

DialExit ==
    /\ service = "dial"
    /\ tunnels' = tunnels \cup {Tunnel(active, "exit", FALSE)}
    /\ service' = "ready"
    /\ UNCHANGED <<active, present, scans, pools>>

\* Free in our own bookkeeping and absent from the host.
Free == {d \in FirstProbe..RangeEnd : d \notin allocated /\ d \notin present}

\* Allocate: the lowest free index, or an error.
Allocate(p) ==
    /\ prober[p].at = "idle" /\ service \notin {"boot", "list", "reclaim"}
    /\ \E d \in Free :
         /\ \A e \in Free : d <= e
         /\ allocated' = allocated \cup {d}
         /\ prober' = [prober EXCEPT ![p] = [at |-> "given", dev |-> d]]
    /\ UNCHANGED <<active, host, service, scans>>

Probe(p) ==
    /\ prober[p].at = "given"
    /\ tunnels' = tunnels \cup {Tunnel(prober[p].dev, "probe", FALSE)}
    /\ prober' = [prober EXCEPT ![p].at = "probing"]
    /\ UNCHANGED <<active, present, service, scans, allocated>>

\* The probe has stopped its process; the deferred release.
Release(p) ==
    /\ prober[p].at = "probing" /\ Tunnel(prober[p].dev, "probe", TRUE) \notin tunnels
    /\ Tunnel(prober[p].dev, "probe", FALSE) \notin tunnels
    /\ allocated' = allocated \ {prober[p].dev}
    /\ prober' = [prober EXCEPT ![p] = [@ EXCEPT !.at = "released"]]
    /\ UNCHANGED <<active, host, service, scans>>

\* (fault) without the Once, a second call frees whoever has the index by then
ReleaseAgainFrees(p) ==
    /\ prober[p].at = "released"
    /\ allocated' = allocated \ {prober[p].dev}
    /\ prober' = [prober EXCEPT ![p] = [at |-> "idle", dev |-> NoDevice]]
    /\ UNCHANGED <<active, host, service, scans>>

\* A stale second call of the release function does nothing.
ReleaseAgain(p) ==
    /\ prober[p].at = "released"
    /\ prober' = [prober EXCEPT ![p] = [at |-> "idle", dev |-> NoDevice]]
    /\ UNCHANGED <<active, host, service, scans, allocated>>

-----------------------------------------------------------------------------
(* The host: processes open their devices and end; another instance.       *)

\* Opening a device another process has open fails, and the process ends.
Open ==
    /\ \E t \in tunnels :
         /\ ~t.open
         /\ IF OpenAt(t.dev)
            THEN tunnels' = tunnels \ {t} /\ UNCHANGED present
            ELSE /\ tunnels' = (tunnels \ {t}) \cup {[t EXCEPT !.open = TRUE]}
                 /\ present' = present \cup {t.dev}
    /\ UNCHANGED <<active, service, scans, pools>>

\* A process ends, and its device goes or stays behind.
TunnelEnds ==
    /\ \E t \in tunnels :
         /\ tunnels' = tunnels \ {t}
         /\ \/ UNCHANGED present
            \/ t.open /\ present' = present \ {t.dev}
    /\ UNCHANGED <<active, service, scans, pools>>

OtherStarts ==
    /\ \E d \in Pool :
         /\ d \notin present /\ Users(d) = {}
         /\ Cardinality({t \in tunnels : t.by = "other"}) < MaxOthers
         /\ tunnels' = tunnels \cup {Tunnel(d, "other", FALSE)}
    /\ UNCHANGED <<active, present, service, scans, pools>>

InstanceDies ==
    /\ service # "boot"
    /\ service' = "boot" /\ allocated' = {}
    /\ prober' = [p \in Probers |-> [at |-> "idle", dev |-> NoDevice]]
    /\ held' = {} /\ listed' = {} /\ atScan' = {}
    /\ UNCHANGED <<active, host>>

DevicesNext ==
    \/ ReclaimScan
    \/ StaleDevices
    \/ Reclaim
    \/ EnsureDeviceAvailable
    \/ ScanActive
    \/ RemoveActive
    \/ DialExit
    \/ \E p \in Probers : Allocate(p) \/ Probe(p) \/ Release(p) \/ ReleaseAgain(p)
    \/ Open
    \/ TunnelEnds
    \/ OtherStarts
    \/ InstanceDies

DevicesSpec == DevicesInit /\ [][DevicesNext]_devicesVars

-----------------------------------------------------------------------------
(* Properties.                                                             *)

\* Every variable keeps its type (devices, processes, TunAllocator).
DevicesTypeOK ==
    /\ active \in Names /\ present \subseteq Names
    /\ \A t \in tunnels : t.dev \in Names /\ t.by \in Owners /\ t.open \in BOOLEAN
    /\ service \in {"boot", "list", "reclaim", "ready", "held", "remove", "dial"}
    /\ held \subseteq Names /\ listed \subseteq Pool
    /\ allocated \subseteq RangeStart..RangeEnd
    /\ \A p \in Probers : /\ prober[p].at \in {"idle", "given", "probing", "released"}
                          /\ prober[p].dev \in Names \cup {NoDevice}

\* ReclaimStaleDevices and EnsureDeviceAvailable never delete a device outside
\* our prefix, nor one whose tunnel, ours or another instance's, still runs and was
\* seen by the scan they decide by.  The device of a tunnel the scan could not read,
\* or that started after it, they do delete.
RunningTunnelSpared ==
    [][\A d \in present \ present' :
         service \in {"reclaim", "remove"} /\ tunnels' = tunnels
         => HasPrefix(d) /\ ~\E t \in atScan \cap tunnels : t.dev = d]_devicesVars

\* TunAllocator with finalizeNaming: two probes at work never have the same
\* device, whatever stale releases are called, and never the exit's.
ProbesApart ==
    \A p, q \in Probers :
        /\ prober[p].at \in {"given", "probing"}
        => /\ prober[p].dev # active
           /\ p # q /\ prober[q].at \in {"given", "probing"} => prober[p].dev # prober[q].dev
=============================================================================
