---------------------------- MODULE AdminSettings ----------------------------
(***************************************************************************)
(* The management credentials: their two database rows, the copy the       *)
(* daemon keeps in memory, the sessions, and the files an earlier release  *)
(* left (security/security.go, store/app_settings.go, the credential       *)
(* handlers of api/handlers.go, the admin-config, install and credentials  *)
(* commands).  The daemon's requests and a command-line process work on    *)
(* the rows at the same time, one statement at a time.                     *)
(*                                                                         *)
(* A password is the number of the hash made from it: every HashPassword   *)
(* draws a new salt.  Of each row the fields are the ones the code treats  *)
(* differently: path stands for the listener fields, ext for the rest of   *)
(* the exposure flags and ports; of the user name only that a request      *)
(* changes it is kept.                                                     *)
(***************************************************************************)
EXTENDS Naturals

CONSTANTS Requests, Logins,  \* concurrent requests of each kind
          Daemon, Cli,       \* the two processes
          MaxHashes,         \* bound on HashPassword
          MaxFaults,         \* bound on crashes and failed statements
          MaxCalls,          \* bound on commands and requests
          None

Hashes == 0..MaxHashes  \* 0: one that is nobody's any more
Edited == MaxHashes + 1 \* a password no hash was made from: a file may hold it
                        \* beside a hash that does not verify it
Paths  == {1, 2}
Actors == Requests \cup {Daemon, Cli}
Configs == [hash : Hashes \cup {None}, plain : Hashes \cup {None, Edited},
            path : Paths, ext : BOOLEAN]

ASSUME AdminAssumption ==
    /\ MaxHashes \in Nat \ {0} /\ MaxFaults \in Nat /\ MaxCalls \in Nat
    /\ None \notin Hashes \cup {Edited} \cup Configs
    /\ Daemon # Cli /\ {Daemon, Cli} \cap Requests = {}

VARIABLES
    admin, proxyRow,    \* admin_settings and proxy_settings
    marker,             \* legacy_env_imported
    legacy, bootstrap,  \* web-config.json; the initial password's file or variable
    mayRestart,         \* Cfg.AllowProcessRestart, from the environment
    memory,             \* AdminConfigStore.config of the daemon
    sessions,           \* SessionManager: the hash each was verified against
    logins,             \* the hash a login has verified against
    jobs,               \* per actor: the handler, command or start under way
    restart,            \* an exit or systemctl restart is under way
    salt,               \* HashPassword: the last one made
    calls, faults,      \* commands run and requests made, faults met
    lost, carried,      \* history: an update overwritten in memory; a password
                        \* brought into it that somebody else had stored
    torn, started       \* history: a half migration, a start that has completed

files == <<marker, legacy, bootstrap, mayRestart>>
live  == <<memory, sessions, logins, restart>>
past  == <<lost, carried, torn, started>>
adminVars == <<admin, proxyRow, files, live, jobs, salt, calls, faults, past>>

Admin(h, p, path) == [hash |-> h, plain |-> p, path |-> path]
Config(row, ext) == [hash |-> row.hash, plain |-> row.plain, path |-> row.path, ext |-> ext]
Row(cfg) == Admin(cfg.hash, cfg.plain, cfg.path)
NoRow == Admin(None, None, 1)

\* cfg: what is to be saved; proxy: the proxy row read; prev: the hash it is
\* compared with, None if the user name changes; seen: the daemon's memory at the
\* handler's start.
Idle == [at |-> "idle", kind |-> "none", cfg |-> Config(NoRow, FALSE),
         proxy |-> [hash |-> None, ext |-> FALSE], prev |-> None, seen |-> None]

\* The file has a hash, a password or both, which nobody has compared.
LegacyFiles ==
    {f \in [hash : {None, 1}, plain : {None, 1, Edited}, path : {2}, ext : {TRUE}] :
        f.hash = None => f.plain # Edited}

\* Nothing, a file alone, or what such starts have made of it.
AdminInit ==
    /\ mayRestart \in BOOLEAN
    /\ \/ /\ admin = NoRow /\ marker = FALSE /\ bootstrap = None
          /\ legacy \in {None} \cup LegacyFiles
       \/ /\ admin \in {Admin(1, p, 1) : p \in {None, 1, Edited}} /\ marker = TRUE
          /\ legacy = None /\ bootstrap \in {None, 0, 1}
    /\ proxyRow = [hash |-> None, ext |-> FALSE]
    /\ memory = None /\ sessions = {} /\ logins = [l \in Logins |-> None]
    /\ jobs = [a \in Actors |-> Idle]
    /\ restart = FALSE /\ salt = 1 /\ calls = 0 /\ faults = 0
    /\ lost = FALSE /\ carried = FALSE /\ torn = FALSE /\ started = FALSE

At(a, there) == jobs[a].at = there
Becomes(a, job) == jobs' = [jobs EXCEPT ![a] = job]
Then(a, there) == Becomes(a, [jobs[a] EXCEPT !.at = there])
Ends(a) == Becomes(a, Idle)
NoFault == UNCHANGED <<calls, faults>>

-----------------------------------------------------------------------------
(* A start: openAppStore, then NewAdminConfigStore.                        *)

StartProcess(a) ==
    /\ At(a, "idle")
    /\ \/ a = Daemon /\ memory = None /\ UNCHANGED calls
       \/ a = Cli /\ calls < MaxCalls /\ calls' = calls + 1
    /\ Becomes(a, [Idle EXCEPT !.at = IF marker THEN "admin" ELSE "import", !.kind = "start"])
    /\ UNCHANGED <<admin, proxyRow, files, live, salt, faults, past>>

\* InitializeFromLegacyEnv: one transaction, whose last statement fails if the
\* marker has been inserted since it was looked for.
Import(a) ==
    /\ At(a, "import")
    /\ IF marker
       THEN Ends(a) /\ UNCHANGED <<proxyRow, marker>>
       ELSE /\ Then(a, "admin")
            /\ marker' = TRUE
            /\ \E h \in {None, 0} : proxyRow' = [proxyRow EXCEPT !.hash = h]
    /\ UNCHANGED <<admin, legacy, bootstrap, mayRestart, live, salt, past>> /\ NoFault

\* Get is two queries.
GetAdmin(a) ==
    /\ At(a, "admin")
    /\ Becomes(a, [jobs[a] EXCEPT !.at = "proxy", !.cfg = Config(admin, FALSE)])
    /\ UNCHANGED <<admin, proxyRow, files, live, salt, past>> /\ NoFault

GetProxy(a) ==
    /\ At(a, "proxy")
    /\ Becomes(a, [jobs[a] EXCEPT !.at = "file", !.proxy = proxyRow, !.cfg.ext = proxyRow.ext])
    /\ UNCHANGED <<admin, proxyRow, files, live, salt, past>> /\ NoFault

\* What the file says, unverified; a password without a hash is hashed.
FromFile(f) ==
    Config(Admin(IF f.hash = None THEN f.plain ELSE f.hash, f.plain, f.path), f.ext)

\* (fault) the file's exposure is left behind
ExposedAsBefore(row, f) == row

\* The part of the file that goes into the proxy row.
Exposed(row, f) == [row EXCEPT !.ext = f.ext]

\* readLegacyAdmin: used only while the database holds no password.
ReadFile(a) ==
    /\ At(a, "file")
    /\ IF jobs[a].cfg.hash = None /\ legacy # None
       THEN Becomes(a, [jobs[a] EXCEPT !.at = "saveAdmin", !.cfg = FromFile(legacy),
                                       !.proxy = Exposed(@, legacy)])
       ELSE Then(a, "create")
    /\ UNCHANGED <<admin, proxyRow, files, live, salt, past>> /\ NoFault

SaveAdmin(a) ==
    /\ At(a, "saveAdmin")
    /\ admin' = Row(jobs[a].cfg) /\ Then(a, "saveProxy")
    /\ UNCHANGED <<proxyRow, files, live, salt, past>> /\ NoFault

SaveProxy(a) ==
    /\ At(a, "saveProxy")
    /\ proxyRow' = jobs[a].proxy /\ Then(a, "create")
    /\ UNCHANGED <<admin, files, live, salt, past>> /\ NoFault

\* First-install credentials, unless there is a password by now.
Create(a) ==
    /\ At(a, "create")
    /\ IF jobs[a].cfg.hash # None
       THEN Then(a, "recover") /\ UNCHANGED <<admin, salt>>
       ELSE /\ salt < MaxHashes /\ salt' = salt + 1
            /\ admin' = Admin(salt', salt', 1)
            /\ Becomes(a, [jobs[a] EXCEPT !.at = "unlink",
                                          !.cfg = Config(admin', jobs[a].cfg.ext)])
    /\ UNCHANGED <<proxyRow, files, live, past>> /\ NoFault

\* (fault) adopted without being verified
RecoversUnverified(cfg) == cfg.plain = None /\ bootstrap # None

\* The password kept elsewhere is adopted if it verifies.
Recovers(cfg) == cfg.plain = None /\ bootstrap # None /\ bootstrap = cfg.hash

Recover(a) ==
    /\ At(a, "recover")
    /\ IF Recovers(jobs[a].cfg)
       THEN Becomes(a, [jobs[a] EXCEPT !.at = "adopt", !.cfg.plain = bootstrap])
       ELSE Then(a, "unlink")
    /\ UNCHANGED <<admin, proxyRow, files, live, salt, past>> /\ NoFault

Adopt(a) ==
    /\ At(a, "adopt")
    /\ admin' = Row(jobs[a].cfg) /\ Then(a, "unlink")
    /\ UNCHANGED <<proxyRow, files, live, salt, past>> /\ NoFault

\* The files are removed, either of which may fail; the process is up.
Unlink(a) ==
    /\ At(a, "unlink")
    /\ legacy' \in {None, legacy} /\ bootstrap' \in {None, bootstrap}
    /\ started' = TRUE
    /\ IF a = Daemon THEN memory' = jobs[a].cfg /\ Ends(a)
                     ELSE UNCHANGED memory /\ Then(a, "command")
    /\ UNCHANGED <<admin, proxyRow, marker, mayRestart, sessions, logins, restart, salt>>
    /\ UNCHANGED <<lost, carried, torn>> /\ NoFault

-----------------------------------------------------------------------------
(* Saving a configuration: AdminConfigStore.Update.                        *)

\* a begins to save cfg; every column of the admin row is in it, so of Update's
\* own Get only the proxy row matters.
Saving(a, kind, cfg, prev) ==
    [Idle EXCEPT !.at = "get", !.kind = kind, !.cfg = cfg, !.prev = prev, !.seen = memory]

UpdateGet(a) ==
    /\ At(a, "get")
    /\ Becomes(a, [jobs[a] EXCEPT !.at = "updateAdmin",
                                  !.proxy = [proxyRow EXCEPT !.ext = jobs[a].cfg.ext]])
    /\ UNCHANGED <<admin, proxyRow, files, live, salt, past>> /\ NoFault

UpdateAdmin(a) ==
    /\ At(a, "updateAdmin")
    /\ admin' = Row(jobs[a].cfg) /\ Then(a, "updateProxy")
    /\ UNCHANGED <<proxyRow, files, live, salt, past>> /\ NoFault

UpdateProxy(a) ==
    /\ At(a, "updateProxy")
    /\ proxyRow' = jobs[a].proxy /\ Then(a, "setConfig")
    /\ UNCHANGED <<admin, files, live, salt, past>> /\ NoFault

\* The daemon's own copy.
SetConfig(r) ==
    /\ At(r, "setConfig")
    /\ memory' = jobs[r].cfg /\ lost' = (lost \/ memory # jobs[r].seen)
    /\ carried' = (carried \/ (jobs[r].cfg.hash = jobs[r].prev /\ jobs[r].prev # jobs[r].seen.hash))
    /\ IF jobs[r].kind = "access" THEN Ends(r) ELSE Then(r, "clear")
    /\ UNCHANGED <<admin, proxyRow, files, sessions, logins, restart, salt, torn, started>> /\ NoFault

\* A command has its own copy, and install restarts the service.
CommandSaved ==
    /\ At(Cli, "setConfig") /\ Ends(Cli)
    /\ restart' = (restart \/ (memory # None /\ jobs[Cli].kind = "install"))
    /\ UNCHANGED <<admin, proxyRow, files, memory, sessions, logins, salt, past>> /\ NoFault

-----------------------------------------------------------------------------
(* The daemon's handlers, behind the session check, and the commands.      *)

Authorized(r) ==
    /\ At(r, "idle") /\ memory # None /\ sessions # {}
    /\ calls < MaxCalls /\ calls' = calls + 1 /\ UNCHANGED faults

\* cfg with a new password, if one is given.
WithPassword(cfg, new) ==
    IF new THEN [cfg EXCEPT !.hash = salt + 1, !.plain = salt + 1] ELSE cfg

Draws(new) == salt' = (IF new THEN salt + 1 ELSE salt) /\ salt' <= MaxHashes

UpdateCredentials(r) ==
    /\ Authorized(r)
    /\ \E new, renamed \in BOOLEAN, path \in Paths :
         /\ Draws(new)
         /\ Becomes(r, Saving(r, "credentials", [WithPassword(memory, new) EXCEPT !.path = path],
                              IF renamed THEN None ELSE memory.hash))
    /\ UNCHANGED <<admin, proxyRow, files, live, past>>

\* SetExternalAccess
UpdateAccess(r) ==
    /\ Authorized(r)
    /\ \E ext \in BOOLEAN :
         Becomes(r, Saving(r, "access", [memory EXCEPT !.ext = ext], memory.hash))
    /\ UNCHANGED <<admin, proxyRow, files, live, salt, past>>

\* UpdateSystemConfig compares with the database, not with the memory.
UpdateSystemConfig(r) ==
    /\ Authorized(r)
    /\ Becomes(r, [Saving(r, "system", Config(admin, FALSE), admin.hash) EXCEPT !.at = "system"])
    /\ UNCHANGED <<admin, proxyRow, files, live, salt, past>>

\* The second query of Get, the new hashes, and the validation.
SystemPrepare(r) ==
    /\ At(r, "system")
    /\ \E new, renamed, newProxy, ext \in BOOLEAN, path \in Paths :
         LET hash == IF newProxy THEN 0 ELSE proxyRow.hash IN
         /\ Draws(new)
         /\ IF ext /\ hash = None
            THEN Ends(r)
            ELSE Becomes(r, [jobs[r] EXCEPT
                                !.at = "updateAll", !.prev = IF renamed THEN None ELSE @,
                                !.cfg = [WithPassword(@, new) EXCEPT !.path = path, !.ext = ext],
                                !.proxy = [hash |-> hash, ext |-> ext]])
    /\ UNCHANGED <<admin, proxyRow, files, live, past>> /\ NoFault

\* UpdateAll, one transaction; Update follows.
UpdateAll(r) ==
    /\ At(r, "updateAll")
    /\ admin' = Row(jobs[r].cfg) /\ proxyRow' = jobs[r].proxy
    /\ Then(r, "get")
    /\ UNCHANGED <<files, live, salt, past>> /\ NoFault

\* (fault) only a new path or port ends the sessions
ReauthOnPath(job) == job.cfg.path # job.seen.path

\* The sessions go if the user name changes, or the password is another one than
\* the handler found.
Reauth(job) == job.cfg.hash # job.prev

\* A system update restarts the process, and so does a new path or port, where the
\* environment allows it.
Restarts(job) == mayRestart /\ (job.kind = "system" \/ job.cfg.path # job.seen.path)

Clear(r) ==
    /\ At(r, "clear")
    /\ sessions' = IF Reauth(jobs[r]) THEN {} ELSE sessions
    /\ restart' = (restart \/ Restarts(jobs[r]))
    /\ Ends(r)
    /\ UNCHANGED <<admin, proxyRow, files, memory, logins, salt, past>> /\ NoFault

\* credentials prints; admin-config takes what it is given; install rotates, or
\* resets a password that cannot be read, and restarts the service.
CredentialsCmd ==
    /\ At(Cli, "command") /\ Ends(Cli)
    /\ UNCHANGED <<admin, proxyRow, files, live, salt, past>> /\ NoFault

AdminConfigCmd ==
    /\ At(Cli, "command")
    /\ \E new \in BOOLEAN, path \in Paths :
         /\ Draws(new)
         /\ Becomes(Cli, Saving(Cli, "admin-config",
                                [WithPassword(jobs[Cli].cfg, new) EXCEPT !.path = path], None))
    /\ UNCHANGED <<admin, proxyRow, files, live, past>> /\ NoFault

InstallCmd ==
    /\ At(Cli, "command")
    /\ \E rotate \in BOOLEAN :
         LET new == rotate \/ jobs[Cli].cfg.plain = None IN
         /\ Draws(new)
         /\ IF new
            THEN /\ Becomes(Cli, Saving(Cli, "install",
                                [WithPassword(jobs[Cli].cfg, TRUE) EXCEPT
                                    !.path = IF rotate THEN 1 ELSE @], None))
                 /\ UNCHANGED restart
            ELSE Ends(Cli) /\ restart' = (memory # None)
    /\ UNCHANGED <<admin, proxyRow, files, memory, sessions, logins, past>> /\ NoFault

-----------------------------------------------------------------------------
(* Logins, sessions, and the end of the daemon.                            *)

\* The password is verified against the configuration as it is now; the
\* derivation takes its time.
Verify(l) ==
    /\ memory # None /\ logins[l] = None
    /\ logins' = [logins EXCEPT ![l] = memory.hash]
    /\ UNCHANGED <<admin, proxyRow, files, memory, sessions, restart, jobs, salt, past>> /\ NoFault

\* The session, and whether the password was changed since it was verified.
CreateSession(l) ==
    /\ logins[l] # None
    /\ sessions' = sessions \cup {[hash |-> logins[l], raced |-> logins[l] # memory.hash]}
    /\ logins' = [logins EXCEPT ![l] = None]
    /\ UNCHANGED <<admin, proxyRow, files, memory, restart, jobs, salt, past>> /\ NoFault

\* Logout, or an expired session presented or swept.
RemoveSession ==
    /\ \E s \in sessions : sessions' = sessions \ {s}
    /\ UNCHANGED <<admin, proxyRow, files, memory, logins, restart, jobs, salt, past>> /\ NoFault

DaemonGone ==
    /\ memory' = None /\ sessions' = {} /\ logins' = [l \in Logins |-> None]
    /\ restart' = FALSE /\ lost' = FALSE /\ carried' = FALSE
    /\ jobs' = [a \in Actors |-> IF a = Cli THEN jobs[a] ELSE Idle]

RestartProcess ==
    /\ restart /\ memory # None
    /\ DaemonGone
    /\ UNCHANGED <<admin, proxyRow, files, salt, torn, started>> /\ NoFault

\* A migration that has saved one row and not the other.
Half(a) == At(a, "saveProxy")

Crash ==
    /\ faults < MaxFaults /\ faults' = faults + 1
    /\ \/ DaemonGone /\ torn' = (torn \/ Half(Daemon))
       \/ /\ ~At(Cli, "idle") /\ Ends(Cli) /\ torn' = (torn \/ Half(Cli))
          /\ UNCHANGED <<live, lost, carried>>
    /\ UNCHANGED <<admin, proxyRow, files, salt, calls, started>>

\* A statement of a handler fails, and the handler answers with the error.
StatementFails ==
    /\ faults < MaxFaults /\ faults' = faults + 1
    /\ \E r \in Requests :
         /\ jobs[r].at \in {"get", "updateAdmin", "updateProxy", "system", "updateAll"}
         /\ Ends(r)
    /\ UNCHANGED <<admin, proxyRow, files, live, salt, calls, past>>

\* What a start and a command do.
ProcessSteps ==
    \/ \E a \in {Daemon, Cli} :
         \/ StartProcess(a) \/ Import(a) \/ GetAdmin(a) \/ GetProxy(a) \/ ReadFile(a)
         \/ SaveAdmin(a) \/ SaveProxy(a) \/ Create(a) \/ Recover(a) \/ Adopt(a) \/ Unlink(a)
    \/ CredentialsCmd \/ AdminConfigCmd \/ InstallCmd
    \/ UpdateGet(Cli) \/ UpdateAdmin(Cli) \/ UpdateProxy(Cli) \/ CommandSaved
    \/ RestartProcess
    \/ Crash

\* What the running daemon does for its clients.
ServeSteps ==
    \/ \E r \in Requests :
         \/ UpdateCredentials(r) \/ UpdateAccess(r) \/ UpdateSystemConfig(r)
         \/ SystemPrepare(r) \/ UpdateAll(r)
         \/ UpdateGet(r) \/ UpdateAdmin(r) \/ UpdateProxy(r) \/ SetConfig(r) \/ Clear(r)
    \/ \E l \in Logins : Verify(l) \/ CreateSession(l)
    \/ RemoveSession
    \/ StatementFails

AdminNext == ProcessSteps \/ ServeSteps

AdminSpec == AdminInit /\ [][AdminNext]_adminVars

-----------------------------------------------------------------------------
(* Properties.                                                             *)

AdminTypeOK ==
    /\ admin.hash \in Hashes \cup {None} /\ admin.path \in Paths
    /\ proxyRow.hash \in {None, 0} /\ proxyRow.ext \in BOOLEAN
    /\ bootstrap \in {None, 0, 1} /\ {marker, restart, lost, torn, started} \subseteq BOOLEAN
    /\ {mayRestart, carried} \subseteq BOOLEAN
    /\ memory \in Configs \cup {None}
    /\ sessions \subseteq [hash : Hashes, raced : BOOLEAN]
    /\ \A l \in Logins : logins[l] \in Hashes \cup {None}
    /\ \A a \in Actors : jobs[a].kind = "none" <=> At(a, "idle")
    /\ salt \in Hashes /\ calls <= MaxCalls /\ faults <= MaxFaults

\* The copy is absent, or the very password its hash verifies, or both are word for
\* word the unverified pair of the file.
Recoverable(c) == c.plain \in {None, c.hash} \/ (c.hash = 1 /\ c.plain = Edited)

\* AdminSettings.Password is the recoverable copy: whoever saves, in whatever order
\* and with whatever failure, no copy comes to stand beside the hash of another
\* password, stored or in memory, but for a file that already paired the two so.
PasswordReadable == Recoverable(admin) /\ (memory # None => Recoverable(memory))

\* Sessions.Clear after a change of password: a session verified against another
\* password than the current one was verified before the change and created after
\* it, or the process is about to clear it or to restart.  Not so once an update has
\* overwritten another in memory, nor, where the process may not restart, once a
\* system update has brought into memory a password that a command or an
\* unfinished update had stored: nothing then ends the sessions of the old one.
StaleSessionRaced ==
    \/ lost \/ restart \/ (carried /\ ~mayRestart)
    \/ \E r \in Requests : At(r, "clear")
    \/ \A s \in sessions : s.hash = memory.hash \/ s.raced

\* The one-time migration (loadOrCreate): when the first start to complete
\* removes web-config.json, the password of the file is the one stored, and
\* so is its exposure, unless a process is, or has ended, between the two rows.
MigrationKept ==
    [][(/\ ~started /\ started' /\ legacy # None
        /\ legacy.hash # None \/ legacy.plain # None)
       => /\ admin.hash = 1
          /\ torn \/ (\E a \in Actors : Half(a)) \/ proxyRow.ext = legacy.ext]_adminVars
=============================================================================
