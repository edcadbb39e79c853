# free-proxy: specifications, model checks and proofs

free-proxy is a daemon that keeps one OpenVPN tunnel to a public exit node up, offers it to
clients as a SOCKS5/HTTP proxy, and looks after a pool of candidate nodes: it discovers,
probes, selects, blames and deletes them, by operators' requests and by itself. What is hard in
it is concurrency. Requests, jobs, four monitors and the goroutine that reaps each OpenVPN
process all call the same gateway and write the same rows, each under a different subset of four
locks, and the daemon can stop between any two statements.

Around that core lie parts with hazards of their own: the kernel's routing tables and tunnel
devices, which other programs use too; the management credentials, saved statement by statement by
requests and commands; the proxy's authentication and its connection slots; self-update.

The modules here specify these parts at the grain of the code's own steps (a lock, an SQL
statement, an external command), TLC checks them on small instances, and TLAPS proves every
invariant and action property of the passing runs for every instance.

## Inventory

Paths are under `src/internal/`. "Hard" names what a test would hardly reach; `PROJECT.json`
lists each hazard at its line with the properties that cover it.

| component | state | operations | talks to | hard | what makes it correct |
|---|---|---|---|---|---|
| gateway `services/gateway.go` | active exit, switch in memory; `opMu` | Activate, Disconnect, DisconnectOnly, handleUnexpectedExit, Recover | coordinator, tunnel manager, router, node store | DisconnectOnly and the exit handler take no lock; activation in many steps that fail one by one; errors of the tear-down are discarded | one tunnel at a time; Disconnect leaves nothing but what its own failed commands left; calls return |
| coordinator `services/operations.go` | a semaphore, the operation's name | Begin, Run, nested by context | gateway, settings, maintenance, probes | a nested call must not release its caller's hold | activations exclude each other |
| tunnel manager `tunnel/openvpn.go`, `process.go` | active process and node id; per process: done channel, intentional flag, callback, file | Connect, Disconnect, Stop, watch, ClearExitedProcess | OpenVPN | the reaper races Stop; crash leaves the child running and its file on disk | every process, file and pipe of a living daemon has an owner; a dead exit is cleared |
| rotation `services/autoswitch.go` | backoff streak | Switch, HandleUnexpectedExit | node store, gateway | chooses now, activates later | never overrides the operator |
| settings `services/settings.go` | stored switch and policy | Update, SwitchNodeJob, enforceActiveNode | gateway, rotation | writes, re-reads and reconciles beside running activations | a pin holds, off stays off |
| health `services/health.go` | -- | Check, Recover, the monitor | gateway, rotation | blames a node seen earlier | an exit comes back |
| node store `store/repo*.go` | rows, blacklist, counters | upsert, snapshot, purge, blacklist, results, liveness | everything below | several statements per operation, no common lock | a status means what selection takes it to mean |
| discovery, maintenance `services/discovery.go`, `maintenance.go` | a cycle's locals | the cycle | provider, store, probes, rotation | minutes between a read and its use | every node is probed in the end; cooldowns end |
| probes `services/probe.go` | slots, devices | Probe, ProbeMany | tunnel, store | manual probes beside a batch | never dial the node in use |
| liveness `services/liveness.go` | -- | Sweep | store, gateway | two transactions and a pin read before | never delete what answers or carries traffic |
| policy routing `netx/routing.go` | routes and rules in the kernel, saved rp_filter | Setup, Cleanup, orphan cleanup | `ip`, `sysctl` | every command can fail; another program shares the table; Cleanup takes no lock | listed foreign routes stay; success means route and rule |
| devices `netx/device.go`, `tun.go` | allocated indices | EnsureDeviceAvailable, ReclaimStaleDevices, Allocate, release | kernel | stale devices, a second instance, a scan that misses a process, double release | a device has one user; that of a running tunnel the scan read is spared |
| proxy listener `proxy/` | connection slots | accept, handshake, relay | tunnel, proxy credentials | slots on every way out; settings change under a connection | the cap holds, slots come back, traffic is authenticated |
| proxy credentials `security/proxyauth.go` | settings read, table of verdicts, gate | Required, Authenticate, verify | store | single flight beside eviction and rotation | bounded, and never a stale verdict |
| login limiter `security/attempts.go` | windows per client | Allow, Reset | -- | table at its limit | bounded, and no client gets more by filling it |
| management credentials `security/security.go`, `store/app_settings.go` | two rows, the daemon's copy, sessions, files of old releases | first start, migration, handlers, commands | store, files | several statements per save, by several processes | the readable password is the hashed one; old sessions end |
| self-update `updater/`, `platform/selfupdate.go` | cached check, install flag | Status, Install, handoff | GitHub, file system, service manager | a check that fails answers from the cache; every step fails alone | only a verified, newer, running binary is installed |
| jobs `services/jobs.go` | job rows | Submit, Initialize, retention | store | crash in the middle, writes that fail | every unfinished job has a goroutine |
| candidate order `services/pool.go` | none | filter, sort, smart score | rotation, maintenance | missing values, four keys, normalisation | nothing chosen is worse throughout than what is left |
| API, command line, configuration, logging, parsing, diagnostics, platform, frontend | -- | forward, format, show | -- | -- | -- |

How they interact: the API and the monitors call rotation, settings and maintenance; those call
the gateway, which calls the tunnel manager and the router; the manager's reaper calls back into
the gateway, which calls rotation. All of them read and write the node store and the settings row
without a transaction around the whole.

## Modules

**GatewayTunnel** (`gateway.go`, `operations.go`, `openvpn.go`, `process.go`). Actors are caller
goroutines and, per process, its reaper; `pc` is the position in the code between two points at
which another goroutine can be seen. `coord`/`outer`, `opMu`, `tmu` are the coordinator (and the
operation that holds it around its calls), `GatewayService.opMu` and `Manager.mu`; `life`,
`config`, `intentional`, `handled`, `launching` are the processes and what was allocated for them;
`active`/`activeNode`, `routes` and the two copies of the switch are the gateway's state.
Activate goes lock, enable, enableMem, validate, drop, device, connect, start, install, route (or
undo); Disconnect, DisconnectOnly and the exit handler likewise. What can fail fails: the write of
the switch, on as off, and the router's commands, whose errors activate,
Disconnect and DisconnectOnly discard (`gateway.go:101, 154, 166`), leaving the switch on or the routes up; `skipped` is
history, of a Disconnect whose own attempt failed. Processes exit whenever they
like; the daemon crashes between any two steps and leaves its OpenVPN running and, since nothing sweeps
their directory, the configuration files of its tunnels (`NoProc` in `config`), and restarts.
Abstracted: text, latency, exit IP; a lookup failure is merged with taking the lock; a process
that still dials at a crash is not left behind; Stop marks and signals in one step; how long a
tunnel lasted is not kept, as no step here depends on it; the device check, whose scan, prefix and
removal can each fail, is one refusal (TunnelDevices has its steps).

**NodePool** (`repo_ext.go`, `discovery.go`, `maintenance.go`, `probe.go`, `liveness.go`, and what
`gateway.go`, `autoswitch.go`, `health.go` write). One step per SQL statement or transaction.
`rows`/`row` is the table with the columns decisions read: status, `verdict` (the order of
`last_probed_at` and `last_success_at`), missed sweeps, refused handshakes (both capped at their
limits), listed by the provider, age in the four classes the thresholds 24 h, 72 h and 7 d make. `black` is the
blacklist entry. `maint` walks through the cycle, `sweep` through the sweep, `worker` are the
probe slots, `blaming` the two statements of Blacklist. Abstracted: aliases, IP enrichment,
latency; a probe's result is written together with the release of its slot; one rotation blames at
a time; favorites and the fixed node are a constant set; a refresh asked for by hand is a cycle;
probes asked for through the API are "manual" ones.

**ExitControl** (`settings.go`, `autoswitch.go`, `health.go`, the end of a maintenance cycle).
The gateway is seen from its callers, in seven steps. `settings` is the stored row, a policy being
the set of nodes it permits; `frame` are a caller's locals, with the settings it read at its
start. `wish` and `pinned` record what an operator asked for last. Writes of the
settings row and the read that follows one may fail, and the caller goes on as in the code: an activation goes on
to its validation, which looks at the switch again, a Disconnect takes the exit down with the switch still on, an update that cannot read back leaves the exit,
a pin that cannot be written ends the job. Abstracted: order among candidates, the copy of the switch in memory, fixed mode without a node, ToggleFavorite;
MarkUnavailable and Blacklist are one removal from `ready`.

**ExitGateway** is what the gateway promises its callers, over the switch, who is inside and how
far, the exit and the nodes whose tunnel holds the device: one goroutine at a time, in only while
the switch is on, the old exit down before a dial, no tear-down during it, the dialled node the
exit afterwards. GatewayTunnel implements it (`Contract == INSTANCE ExitGateway WITH holder <- opMu,
phase <- OpPhase, ...`: who holds opMu and at which position of activate), and so does ExitControl,
whose seven steps are what its callers see: the two descriptions of one activation are held
together by this contract, which both runs check and both proof modules prove, instead of by
reading. `ready` of ExitControl is the set of NodePool rows with that status. The modules below
share no state with these or with each other; where they touch the core it is by an
event (an activation connects, a probe wants a device) that they take at any moment.

**PolicyRoutes** (`routing.go`, `commands.go`). Threads are Start and the activations (`Main`), the
calls of Cleanup by DisconnectOnly and exit handlers (`Cleaners`), and the installer. Each `ip` or
`sysctl` command is a step that runs, does what the kernel would, or fails; `listed` is what a
listing showed, `saved` the map rpFilterOriginal, lost with the process. Other programs add and
remove routes, devices go and take their routes with them. `clean` and `alone` are history: no
command failed, no other thread of ours changed the kernel. Abstracted: one table of ours and one
of an earlier release, three device names.

**TunnelDevices** (`device.go`, `tun.go`, `config.go` finalizeNaming). A device is the number after
the prefix. A tunnel process names its device from its start and opens it later; it may leave the
device behind. The scan of /proc, the listing and each removal are steps, and the scan sees any subset of the
running processes, since an unreadable directory or process counts as nobody there; a second instance starts
and ends tunnels named from the same prefix. Allocate picks the lowest number that is free in the
allocator and absent from the host; a release function may be called again, late.

**SelfUpdate** (`updater.go`, `release.go`, `platform/selfupdate.go`, `jobs.go`, `retention.go`).
`work[j].at` is the position of job j in Install, its other fields the locals (target, expected
digest, what was downloaded). A build is version and upload, and its digest the upload it was made
of, so that an altered or short download is a build 0 no digest matches. Releases are published,
uploaded again (binary, then digest) and withdrawn at any moment. `handoff` is the transient
unit or the detached script; the service dies at any point and starts with what is on disk. The rows
of jobs are written or, when that fails, not. `checked`/`target` is the cached check.

**VerifiedInstall** is what self-update promises, over the installed and the running binary and
the set of builds a digest has vouched for. `Promise == INSTANCE VerifiedInstall WITH installed <-
disk` in SelfUpdate; Rename is its Replace, the death or handoff of the service its Stop.

**AdminSettings** (`security.go`, `app_settings.go`, the credential handlers, `admin-config`,
`install`, `credentials`). The daemon, a command-line process and concurrent requests each run
through their statements (`jobs[a].at`), with what they read in `jobs[a]`. A password is the number of
its hash; 0 is one nobody knows any more, and `Edited` one no hash was made from, which a file of an
earlier release may hold beside a hash that does not verify it: loadOrCreate stores both unread
(`security.go:256-265`). `mayRestart` is AllowProcessRestart, without which neither a new path nor a
system update restarts the daemon. A request may rename the user, which ends the sessions (`prev` is None). `memory` is the daemon's copy, `sessions` what logins were
verified against. Rows keep one field of each kind the code treats differently. Crashes and
failing statements are steps. `lost` (an update overwritten in memory), `carried` (a password
brought into memory by a request that did not set it, but found it in the database), `torn` and `started` are history.

**ProxyAuth** (`proxyauth.go`, deriveScrypt). Per connection: asked for credentials, refused, or
in `verify`, queueing for the gate, deriving, landing. `entries` is the table by password and hash;
`Kept` is what evictLocked may leave. Time is "fresh or expired".

**AttemptLimiter** (`attempts.go`, Login). Windows with counts and ages in ticks. `allowed` is history: for
each client and each age, how many attempts it has been let through no longer ago than that.

**ProxyListener** (`internal/proxy`). A connection from accept through the exposure check, slot,
first byte, SOCKS5 or HTTP handshake, dial and reply to the relay with its two goroutines. What a client sends is
a choice; settings change, and a read of them fails, in between.

**Candidates** (`pool.go`, as `autoswitch.go` and `maintenance.go` use it). Filters and sort keys
as operators, the smart score as an integer in units common to one list, and the rotation and the
first probing pass that use them while nodes are measured and settings saved. Abstracted: float64
(`pool.go:112-149`), in which rounding can tie scores that differ; the LIMITs of the lists (1000 and
5000), beyond which nodes are not compared; the hosts a sweep could not reach, which the first pass
leaves out.

**MCHost** and **MCAccess** put these side by side, one run for each group: `part`, chosen in the initial
state, says which module acts, so that the graph is the sum and not the product.

Definitions marked *(fault)* are not part of the specifications: they are the plausible mistakes
that show each property can fail.

## Runs

| run | instance | checks | shows |
|---|---|---|---|
| GatewayTunnel_safety | 2 callers, 2 processes, 1 node | TypeOK, OneTunnel, NothingLeaks, ActivationExclusive, DisconnectLeavesNothing, ContractKept | no interleaving of calls, exits, failures and crashes leaves two tunnels, or a process or file of the living daemon nobody owns; a Disconnect leaves up only what its own failed commands left; it implements ExitGateway |
| GatewayTunnel_liveness | 2 callers, 1 process | CallsReturn, DeadExitCleared | no deadlock or starvation among the three locks and the reaper |
| GatewayTunnel_blame | 1 caller, 2 processes, 2 nodes | *BlamesTheDeadNode* is violated | the exit handler asks for the node after the fact |
| NodePool_safety | 1 node, 2 slots, limits of 1 | TypeOK, ReadyEarned, BatchSparesActive, SweepSparesAnswering | what ready means, what a batch dials and a sweep deletes |
| NodePool_progress | 2 nodes, 1 slot, budget 1 | NewNodesProbed, CooldownLifted | the walk reaches every new node; an outage of the provider keeps no cooldown |
| NodePool_pin | 1 node | *ActiveRowKept* is violated | the sweep deletes the row of a node activated since its pin |
| NodePool_unbacked | 1 node | *CooldownBacked* is violated | clearing an expired cooldown takes a renewed one with it |
| ExitControl_safety | 2 nodes, 1 operator, 1 handler, 2 tries | TypeOK, PinKept, ContractKept | a node switched to is not replaced by an older choice; the gateway that choices are made about implements ExitGateway |
| ExitControl_liveness | the monitors and a handler, 2 nodes | ExitRestored | an exit comes back, whatever policy and after any empty rotation |
| ExitControl_off | 1 operator | *OffStaysOff* is violated | an activation chosen earlier turns the switch on again |
| Host | 1 cleaner beside Main, or 1 installer, 2 faults; 2 probes, 2 devices; 2 jobs, 2 versions with 2 uploads | HostTypeOK, SeenForeignKept, CleanupComplete, SetupWhole, RunningTunnelSpared, ProbesApart, InstallAlone, JobsSettled, VerifiedOnly, HandoffCompletes | what our commands remove from the host and leave on it; whose device is whose, as far as the scan could read; that self-update implements VerifiedInstall, ends cleanly, and the service comes up with what was installed |
| Access | 2 requests, 1 login, a command, 3 passwords, 1 fault; 2 clients, 2 secrets; 3 login keys, limit 3; 2 connections, 1 slot; 3 of 4 node profiles | AccessTypeOK, PasswordReadable, StaleSessionRaced, MigrationKept, SingleFlight, VerdictTrue, CacheBounded, LimitHolds, NothingLeaks, RelayAuthenticated, RelayEnds, UndominatedChosen | what saves, first starts and crashes leave of the credentials; what a verdict and a connection may be; that no node is passed over for a worse one |

**Bounds.** Two callers and a reaper are enough for every pair of lock holders to meet and a third
to wait; two processes for a successor to be installed while its predecessor is reaped. Properties
of NodePool are about one row, whose writers all act in the run; two nodes and a budget of one
make nodes compete for the walk. Tries is 2 (the code's 3) so that with two nodes a rotation both
goes on and gives up. `scenario` in MCNodePool and `running` in MCExitControl fix at the start
which part of the environment acts, one initial state for each, to keep the graphs small: "status"
lets rows not age, "deletion" has no blames; two of the automatic actors act beside the operator at a time,
and an update that switches the connection off leaves the policy as it is and comes beside maintenance only (beside an
exit handler it is Disconnect that switches off).
In Host one cleaner beside Main is a pair of threads that race over every command, and two faults
let a command and its retry fail; the installer runs beside other programs but not beside the daemon ("orphans"): the entries it
lists and deletes one by one name the old device, which the daemon never adds. Two versions give an older build to go back to and a build that does
not run; only the second version is re-uploaded and withdrawn. Two jobs race for the flag.
In Access the parts "start" (first starts and migrations beside one command, with a crash), "serve"
(two calls, no fault) and "fault" (one request, one fault) divide AdminSettings, because sessions, crashes
and two saves together multiply and no property needs all three at once; AllowProcessRestart is
false in some runs of the last two, and in "serve" requests keep the user name and the exposure (`PasswordOnly`), which "fault" changes; requests and connections take the lowest free number and
one session is kept at a time, which loses nothing as they do not affect each other. Three login
keys fight for a table of two. Three nodes out of four profiles, in the order of the catalogue, give every mode a
dominated node and ties; nodes have ids, whose order breaks ties. No part has two processes start for the first
time on a file of an earlier release that holds no password: there, for a moment, the command's save
leaves a row without a hash, which UpdateSystemConfig may read and keep, so AdminTypeOK lets `memory` be
any configuration. Access says CHECK_DEADLOCK FALSE
because AdminSettings and Candidates stop when their bounds on calls and edits are used up; the
programs they model do not stop there.
The proofs need none of these restrictions; those of HostTypeOK and AccessTypeOK are about the
runs' own specifications, with constants of any size. GatewayTunnel_safety has a single node, so that
there ContractKept tells an exit from none, and not one exit from another; in the theorem nodes are many.

**Fairness.** A goroutine inside the code keeps going: its steps are strongly fair, since Go's
mutexes hand the lock to a starved waiter and every wait in Stop ends with SIGKILL after eight
seconds. A process told to stop exits. In NodePool the monitors' tickers make the cycle start
again, and its start is strongly fair: it competes with activations for the coordinator, and
returns with a conflict and retries, so this assumes the intervals do not resonate with
activations. Probes end by their timeout. NewNodesProbed holds for runs that get to the walk again
and again: a cycle whose quick pass finds an exit ends without it (`maintenance.go:115-119`). In ExitControl a
local fault does not last for ever and, dialled for ever, some node answers; without that no
exit could come back. Callers, sweeps, the provider and time owe nothing. In SelfUpdate the handoff runs and the service
manager starts a stopped service (UpdateFairness); jobs, GitHub and crashes owe nothing. In
ProxyListener an idle deadline expires, the copying goroutines run, and a peer that is written to
reads or is found dead by TCP, since a write has no deadline (ListenerFairness); that is per
connection, and clients owe the handshake nothing.

**What the violations are.** Each contradicts a sentence of the source quoted in `PROJECT.json`.

One sentence more is contradicted, and has no run of its own: `routing.go:18-22` and `166-168` say that
entries at a device not ours are left untouched, but a failed `ip route show` counts as a table
with nothing foreign in it, which Cleanup flushes (`routing.go:181-184, 227-229`). PolicyRoutes has this step; SeenForeignKept states
what remains of the promise, that no route a listing has shown is taken.

Nor does the comment at `handlers.go:404-405`, that after a system update services restart shortly, hold
where AllowProcessRestart is false: then a password a command has set comes into the daemon's memory while
sessions of the old one live on (`carried` in StaleSessionRaced). And after the migration of a file that was edited by
hand the `credentials` command shows a password which the hash beside it does not verify (`Recoverable` in
PasswordReadable).

Other things seen while modelling that no comment promises against are listed as hazards: a crash
during a probe leaves the status `probing` until a manual probe; a probe that ends after a blame
overwrites the cooldown; a sweep restores a node whose activation was refused since its last
probe; after a restart the switch in memory is on whatever the database says; DisconnectOnly can
stop a tunnel that has just come up, and routes can stay up without one; a Disconnect whose switch write or
Cleanup fails reports success; the configuration file of a tunnel outlives the daemon that dies;
a Cleanup and a Setup at once undo each other by halves; a policy saved during a dial is not applied to its result;
credentials are read, changed and written back
whole, so of two concurrent saves the later reverts the earlier, and StaleSessionRaced sets such
runs aside; a login verified before a change of password and entered after it stays; the migration
writes two rows in two statements although the comment at `security.go:164` speaks of one
transaction, and a crash between them loses the second (MigrationKept excepts it), while a second start that
read the empty row earlier can write over what the first has migrated, after that one has completed (MigrationKept ends
there); an external client admitted while authentication was on is served without it once it is off (RelayAuthenticated
excepts it); a one-way
transfer longer than the idle time is cut; one unknown latency, counted as 999999 ms, makes the differences
of all others negligible in the smart score.

## Proofs

TLAPS checks these for every value of the constants, from the assumptions the modules name: the
sentinels are not members, the sets of actors do not overlap, limits are positive, and, where a
cardinality or an order is about it, the set is finite (the nodes of Candidates, the clients of
AttemptLimiter's table by its limit). `AuthAssumption` also has the table no smaller than
the connections, as 512 entries are to 256 connections in the source.

Every theorem has one shape: an inductive invariant, stated as named parts, that Init implies and
every action preserves, with a lemma per action where the step is long. What follows is what
each invariant adds to the property and why the property needs it.

**GatewayTunnelProofs.** TypeCorrect, TunnelExclusive, Owned, ActivationSerial,
DisconnectComplete, ActiveNodeCorrect, Implements. OneTunnel is not inductive: a process starts at "start",
and that no other holds the device there follows from the device check and the tear-down some
steps before, as long as Manager.mu is held. `IInv` adds which positions hold which lock
(LockDiscipline), what Connect knows of the device at each of its positions (InstallWindow), that
what the Manager refers to is a child of this daemon with no orphan beside it (References), and
what Disconnect has done so far, or has tried and failed to (DisconnectProgress). Owned is about the processes and files of the
life under way, not the files an earlier one left; DisconnectComplete excepts the switch and the routes where this Disconnect's own attempt failed. Implements maps each action to a step of
ExitGateway or a stutter, by the phase of the goroutine in opMu: it needs IInv (a dial begins on an empty
device, because InstallWindow says so), ActiveNodeMatches, and `Named`: who is inside activate has a node,
an orphan's is forgotten.

**ExitControlProofs.** TypeCorrect, PinHolds, Implements. While a node is pinned it is all the policy permits
(PinInv); an actor between its validation and its dial has that node as its target, because both
lie under opMu and the switch itself passed through it when it pinned. TargetInv says that whoever
activates or blames has a node. Implements needs in addition that there is no exit, alive or dead, while
one is dialled (DialInv): everything that takes an exit away or puts one in place passes opMu.

**NodePoolProofs.** TypeCorrect, ReadyMeansProbed, BatchSpares, SweepSpares. A batch spares the
active node because the coordinator is held by the cycle, so nothing is being activated when the
batch is chosen and nothing becomes active before it ends: ActivationInv and BatchInv. A sweep
spares what answered because, once recorded, `missed` stays 0 on those rows until it deletes, no
other statement counting it up: SweepInv. ReadyEarned needs absent rows to read as new ones.

**SelfUpdateProofs.** Implements (SelfUpdate implements VerifiedInstall), InstallsAlone and NoJobForgotten. What makes the step
Rename a Replace was established steps before, by a release that may be gone since: `WorkOK` says what
an install knows at each position (from "download" on its digest is one that has been published,
from "run" on what it downloaded was made of it, from "sum" on the version is newer than the build that runs), and
holds because `vouched` only grows, `running` changes only when every job's work ends (DeadInv), and
a listed release's digest is vouched for (ListedVouched). `AloneInv` ties the flag to the one
job inside and a file to the positions that have one. The refinement then maps every step to
Publish, Replace, Stop, Start or a stutter. JobsSettled is inductive given the types.

**HostProofs.** Of PolicyRoutes: RoutesTypeCorrect, CleanupTotal, SetupTotal, ForeignSpared. The
invariant (RoutesIInv) says for each thread how far its call has come: past its deletion of the rule a
Cleanup knows our rule to be gone, past its listing that a route of ours has been listed, past its
deletion that none is left (Cleaned); a Setup that its route is there, then its rule (SetUp). Both
are conditional on `alone`, which a Cleanup's deletions and a Setup's additions take from every
other thread, so that a step of one withdraws a claim it could break (ThreadStep); a device that goes,
the installer and other programs add neither our rule nor our route, and only a device that goes
takes the route, with `Ours` from `links`. ForeignSpared needs no more than
that a listing belongs to its thread. Of TunnelDevices: DevicesTypeCorrect, DevicesApart,
ReclaimSpares. The allocator's set holds the device of every probe at work, and what it gives is in
the range that yields to the active device (AllocInv); `held` names the devices of the processes at
the scan, and the exit's is removed only when it was none of them (ScanInv). ReclaimSpares is therefore about the tunnels the scan read. HostTypesCorrect puts
these two invariants and SelfUpdate's side by side for the specification of the run Host.

**LoginProofs.** Of AdminSettings:
- PasswordsReadable. RInv: it holds of every configuration a
  handler, a command or a start carries between its statements. Of the file to be migrated it need not: what that
  pairs unverified (hash 1 with `Edited`) is allowed word for word, as PasswordReadable says.
- SessionsFresh. SInv says what a handler under way knows of the password the daemon held when it
  began (RequestOK): the one that changes credentials compares with that, the one that changes
  access carries it along, and UpdateSystemConfig compares with what it found in the database. So where
  the daemon's password changes, either that handler goes on to Clear, or the process is to restart, or another's
  update has been overwritten (`lost`), or the password was somebody else's and the process may not
  restart (`carried`). The last two are excepted in the property: nothing ends the old sessions there. And while no daemon is up nobody is logged in.
- MigrationLosesNothing. MInv speaks of the time before the first start completes: only the two starting
  processes have touched the rows, and each goes on to remove the file only once it has read or
  written its password (StartOK), the exposure being saved with it unless somebody is, or has
  ended, between the two rows (Both).

Of AttemptLimiter, LimitKept. LInv counts what was let through by the window it falls in (Counted): while a
window is open, the attempts younger than it are those it counted, and those before it at most
Limit - 1, because the attempt that opened the one before is as old as that window and so out of
reach. A window is purged only once it has elapsed (Dropped), so that a full table takes nothing away from
Counted; `Table` bounds it, RoomForOne being that a purge of a full table makes room or refuses.

**ProxyProofs.** Of ProxyAuth: TypeCorrect, OneDerivation, AnswersTrue, TableBounded. That one connection derives
needs that its entry is in flight and not evicted, and that the entry in flight has one deriver
(FlightInv); that a verdict is true, that an entry which has landed says what its key says
(VerdictInv); that the table is bounded, that each entry in flight belongs to another connection
than the one that now wants a place, so that eviction always finds room (BoundInv with FlightInv);
GateInv counts the gate. Of ProxyListener: SlotsReturned, TrafficAuthenticated. Slots equal the cardinality of the
connections that hold one, step by step, and what each position knows of the authentication that
was asked for and given (Good).

**CandidatesProofs.** BestChosen, for every finite set of nodes and whatever integer figures. The argument is about
the order: a node that dominates another has the earlier sort key in every mode (SortKeys,
ProbeKeys; of the smart score, that Normalize and Rest are monotone on one list and that a product grows
with its factors), keys of one length are ordered transitively, so what precedes the better node
precedes the worse one too, and a choice of the first n is closed (FirstIsClosed). The invariant CInv
carries Unbeaten from the choice to the activation, while nodes are measured and settings saved. That a
finite set of integers has extremes is proved by a smallest set that has none (WFMin on the
strict subsets), since induction theorems that take a predicate are out of reach. AccessTypesCorrect
puts the invariants of the five models side by side for the specification of the run Access; of a rotation it shows that it
gives up before MaxAttempts nodes have been tried (CTypes).

Only model-checked: the liveness properties (CallsReturn, DeadExitCleared, NewNodesProbed,
CooldownLifted, ExitRestored, HandoffCompletes, RelayEnds), which are beyond the prover, as is
ENABLED. The runs that expect a violation have nothing to prove.

## What is left

- Rotation's reconnectBackoff, a bounded doubling of a delay, and times as text: RFC3339Nano strings of
  one second may compare the wrong way round, and no decision depends on less than minutes.

## Not modelled

Parsing and formatting of text (provider lists, OpenVPN's log, HTTP), the console, interactive
commands, one-time set-up of the host, diagnostics, measurements of latency and lookups of IP
information, logging, configuration and generated queries: they keep no state another component's
decisions depend on, or are one pass of text or external commands; where a model needs their
outcome it is a choice among what they may return. Sessions' expiry by age is a removal at any
moment. Opening and closing the listening socket, aliases and favorites change nothing the
properties tell apart.
