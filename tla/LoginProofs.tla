----------------------------- MODULE LoginProofs -----------------------------
(***************************************************************************)
(* What guards the management port, for any number of requests, logins,    *)
(* passwords, clients, calls and faults.  No save pairs the recoverable    *)
(* copy of one password with the hash of another; but for the cases named, *)
(* a change of password leaves no session of the old one; until a first    *)
(* start completes, its migration of an earlier release's file loses no    *)
(* password; and the login limiter lets at most two windows' worth of      *)
(* attempts through, less one.                                             *)
(***************************************************************************)
EXTENDS AdminSettings, AttemptLimiter, FiniteSetTheorems, TLAPS

-----------------------------------------------------------------------------
(* The password and its recoverable copy: they belong together in every    *)
(* configuration that a handler, a command or a start carries.             *)

SomeHash  == Hashes \cup {None}
SomePlain == SomeHash \cup {Edited}
Readable  == {c \in [hash : SomeHash, plain : SomePlain, path : Paths, ext : BOOLEAN] :
                Recoverable(c)}
AdminRows == {r \in [hash : SomeHash, plain : SomePlain, path : Paths] : Recoverable(r)}
ProxyRows == [hash : {None, 0}, ext : BOOLEAN]
Files     == {None} \cup [hash : SomeHash, plain : SomePlain, path : Paths, ext : BOOLEAN]
Places    == {"idle", "import", "admin", "proxy", "file", "saveAdmin", "saveProxy", "create",
              "recover", "adopt", "unlink", "command", "get", "updateAdmin", "updateProxy",
              "setConfig", "clear", "system", "updateAll"}
Kinds     == {"none", "start", "credentials", "access", "system", "admin-config", "install"}
Jobs      == [at : Places, kind : Kinds, cfg : Readable, proxy : ProxyRows,
              prev : SomeHash, seen : Readable \cup {None}]

\* A file that has a password only is as good as one with its hash.
FileOK == legacy # None => \/ legacy.hash = None /\ legacy.plain \in SomeHash
                           \/ Recoverable(legacy)

Stored == /\ admin \in AdminRows /\ proxyRow \in ProxyRows /\ memory \in Readable \cup {None}
          /\ legacy \in Files /\ FileOK /\ bootstrap \in {None, 0, 1} /\ salt \in Hashes

RInv == Stored /\ jobs \in [Actors -> Jobs]

-----------------------------------------------------------------------------

LEMMA Shapes ==
    /\ Config(NoRow, FALSE) \in Readable /\ Idle \in Jobs /\ NoRow \in AdminRows
    /\ \A c \in Readable : Row(c) \in AdminRows
    /\ \A r \in AdminRows, x \in BOOLEAN : Config(r, x) \in Readable
    /\ 0 \in Hashes /\ 1 \in Hashes
<1>1. 0 \in Hashes /\ 1 \in Hashes
  BY AdminAssumption DEF Hashes
<1>2. NoRow \in AdminRows
  BY DEF NoRow, Admin, AdminRows, SomeHash, Paths, Recoverable, SomePlain
<1>3. \A r \in AdminRows, x \in BOOLEAN : Config(r, x) \in Readable
  BY DEF Config, AdminRows, Readable, Recoverable, SomePlain
<1>4. \A c \in Readable : Row(c) \in AdminRows
  BY DEF Row, Admin, AdminRows, Readable, Recoverable, SomePlain
<1>5. Config(NoRow, FALSE) \in Readable
  BY <1>2, <1>3
<1>6. Idle \in Jobs
  <2>1. [hash |-> None, ext |-> FALSE] \in ProxyRows
    BY DEF ProxyRows, SomeHash
  <2> QED
    BY <1>5, <2>1 DEF Idle, Jobs, SomeHash, Places, Kinds
<1> QED
  BY <1>1, <1>2, <1>3, <1>4, <1>5, <1>6

LEMMA InitRInv == AdminInit => RInv
<1> SUFFICES ASSUME AdminInit PROVE RInv
  OBVIOUS
<1>1. admin \in AdminRows
  <2>1. \A p \in {None, 1, Edited} : Admin(1, p, 1) \in AdminRows
    BY Shapes DEF Admin, AdminRows, SomeHash, Paths, Recoverable, SomePlain
  <2> QED
    BY <2>1, Shapes DEF AdminInit
<1>2. proxyRow \in ProxyRows /\ memory = None /\ salt \in Hashes /\ bootstrap \in {None, 0, 1}
  BY Shapes DEF AdminInit, ProxyRows, SomeHash
<1>3. legacy \in Files /\ FileOK
  <2>1. legacy = None \/ legacy \in LegacyFiles
    BY DEF AdminInit
  <2>2. CASE legacy \in LegacyFiles
    <3>1. /\ legacy \in [hash : {None, 1}, plain : {None, 1, Edited}, path : {2}, ext : {TRUE}]
          /\ legacy.hash = None => legacy.plain # Edited
      BY <2>2 DEF LegacyFiles
    <3> QED
      BY <3>1, Shapes DEF Files, FileOK, SomeHash, SomePlain, Paths, Recoverable
  <2> QED
    BY <2>1, <2>2 DEF Files, FileOK
<1>4. jobs \in [Actors -> Jobs]
  BY Shapes DEF AdminInit
<1> QED
  BY <1>1, <1>2, <1>3, <1>4 DEF RInv, Stored

\* One actor takes a step.
LEMMA Advance ==
    ASSUME RInv, Stored', NEW a \in Actors, NEW new \in Jobs, Becomes(a, new)
    PROVE  RInv'
  BY DEF RInv, Becomes

\* Where it stands changes, and nothing it carries.
LEMMA JobMoved ==
    ASSUME RInv, NEW a \in Actors, NEW there \in Places, Stored', Then(a, there)
    PROVE  RInv'
<1> DEFINE new == [jobs[a] EXCEPT !.at = there]
<1>1. new \in Jobs /\ Becomes(a, new)
  BY DEF RInv, Jobs, Then
<1> HIDE DEF new
<1> QED
  BY <1>1, Advance

LEMMA Ended ==
    ASSUME RInv, NEW a \in Actors, Stored', Ends(a)
    PROVE  RInv'
  BY Shapes, Advance DEF Ends

LEMMA Carried ==
    ASSUME RInv, NEW a \in Actors
    PROVE  /\ jobs[a] \in Jobs /\ jobs[a].cfg \in Readable /\ jobs[a].proxy \in ProxyRows
           /\ jobs[a].seen \in Readable \cup {None} /\ jobs[a].prev \in SomeHash
  BY DEF RInv, Jobs

LEMMA Members == {Daemon, Cli} \subseteq Actors /\ Requests \subseteq Actors
  BY DEF Actors

\* A start that goes on to its next statement.
LEMMA StartKeeps ==
    ASSUME RInv, NEW a \in {Daemon, Cli},
           \/ StartProcess(a) \/ Import(a) \/ GetAdmin(a) \/ GetProxy(a) \/ ReadFile(a)
           \/ SaveAdmin(a) \/ SaveProxy(a) \/ Create(a) \/ Recover(a) \/ Adopt(a) \/ Unlink(a)
    PROVE  RInv'
<1>0. a \in Actors /\ Stored /\ jobs \in [Actors -> Jobs]
  BY Members DEF RInv
<1> DEFINE job == jobs[a]
<1>1. job \in Jobs /\ job.cfg \in Readable /\ job.proxy \in ProxyRows
  BY <1>0, Carried
<1>2. CASE StartProcess(a)
  <2> DEFINE new == [Idle EXCEPT !.at = IF marker THEN "admin" ELSE "import", !.kind = "start"]
  <2>1. new \in Jobs
    BY Shapes DEF Jobs, Places, Kinds
  <2>2. Becomes(a, new) /\ Stored'
    BY <1>0, <1>2 DEF StartProcess, Stored, FileOK, files, live
  <2> HIDE DEF new
  <2> QED
    BY <1>0, <2>1, <2>2, Advance
<1>3. CASE Import(a)
  <2>1. Stored'
    BY <1>0, <1>3, Shapes DEF Import, Stored, FileOK, live, ProxyRows, SomeHash
  <2> QED
    BY <1>0, <1>3, <2>1, JobMoved, Ended DEF Import, Places
<1>4. CASE GetAdmin(a)
  <2> DEFINE new == [job EXCEPT !.at = "proxy", !.cfg = Config(admin, FALSE)]
  <2>1. Config(admin, FALSE) \in Readable
    BY <1>0, Shapes DEF Stored
  <2>2. new \in Jobs
    BY <1>1, <2>1 DEF Jobs, Places
  <2>3. Becomes(a, new) /\ Stored'
    BY <1>0, <1>4 DEF GetAdmin, Stored, FileOK, files, live
  <2> HIDE DEF new
  <2> QED
    BY <1>0, <2>2, <2>3, Advance
<1>5. CASE GetProxy(a)
  <2> DEFINE cfg == [job.cfg EXCEPT !.ext = proxyRow.ext]
             new == [job EXCEPT !.at = "file", !.proxy = proxyRow, !.cfg = cfg]
  <2>1. cfg \in Readable
    BY <1>0, <1>1 DEF Stored, ProxyRows, Readable, Recoverable, SomePlain
  <2>2. [job EXCEPT !.at = "file", !.proxy = proxyRow, !.cfg.ext = proxyRow.ext] = new
    BY <1>1 DEF Jobs
  <2> HIDE DEF cfg
  <2>3. new \in Jobs
    BY <1>0, <1>1, <2>1 DEF Jobs, Stored, Places
  <2>4. Becomes(a, new) /\ Stored'
    BY <1>0, <1>5, <2>2 DEF GetProxy, Stored, FileOK, files, live
  <2> HIDE DEF new
  <2> QED
    BY <1>0, <2>3, <2>4, Advance
<1>6. CASE ReadFile(a)
  <2>1. Stored'
    BY <1>0, <1>6 DEF ReadFile, Stored, FileOK, files, live
  <2>2. CASE Then(a, "create")
    BY <1>0, <2>1, <2>2, JobMoved DEF Places
  <2>3. CASE legacy # None /\ Becomes(a, [jobs[a] EXCEPT !.at = "saveAdmin", !.cfg = FromFile(legacy),
                                                        !.proxy = Exposed(@, legacy)])
    <3> DEFINE cfg == FromFile(legacy)
               proxy == Exposed(job.proxy, legacy)
               new == [job EXCEPT !.at = "saveAdmin", !.cfg = cfg, !.proxy = proxy]
    <3>1. legacy \in [hash : SomeHash, plain : SomePlain, path : Paths, ext : BOOLEAN] /\ FileOK
      BY <1>0, <2>3 DEF Stored, Files
    <3>2. cfg \in Readable
      <4>1. None # 1
        BY Shapes, AdminAssumption
      <4>2. CASE legacy.hash = None
        BY <2>3, <3>1, <4>1, <4>2
        DEF FromFile, Config, Admin, Readable, FileOK, Recoverable, SomePlain, SomeHash
      <4>3. CASE legacy.hash # None
        BY <2>3, <3>1, <4>3
        DEF FromFile, Config, Admin, Readable, FileOK, Recoverable, SomePlain, SomeHash
      <4> QED
        BY <4>2, <4>3
    <3>3. proxy \in ProxyRows
      BY <1>1, <3>1 DEF Exposed, ProxyRows
    <3>4. Becomes(a, new)
      BY <2>3
    <3> HIDE DEF cfg, proxy
    <3>5. new \in Jobs
      BY <1>1, <3>2, <3>3 DEF Jobs, Places
    <3> HIDE DEF new
    <3> QED
      BY <1>0, <2>1, <3>4, <3>5, Advance
  <2> QED
    BY <1>6, <2>2, <2>3 DEF ReadFile
<1>7. CASE SaveAdmin(a) \/ Adopt(a)
  <2>1. Stored'
    BY <1>0, <1>1, <1>7, Shapes DEF SaveAdmin, Adopt, Stored, FileOK, files, live
  <2> QED
    BY <1>0, <1>7, <2>1, JobMoved DEF SaveAdmin, Adopt, Places
<1>8. CASE SaveProxy(a)
  <2>1. Stored'
    BY <1>0, <1>1, <1>8 DEF SaveProxy, Stored, FileOK, files, live
  <2> QED
    BY <1>0, <1>8, <2>1, JobMoved DEF SaveProxy, Places
<1>9. CASE Create(a)
  <2>1. CASE Then(a, "recover") /\ UNCHANGED <<admin, salt>>
    <3>1. Stored'
      BY <1>0, <1>9, <2>1 DEF Create, Stored, FileOK, files, live
    <3> QED
      BY <1>0, <2>1, <3>1, JobMoved DEF Places
  <2>2. CASE /\ salt < MaxHashes /\ salt' = salt + 1 /\ admin' = Admin(salt', salt', 1)
             /\ Becomes(a, [jobs[a] EXCEPT !.at = "unlink",
                                          !.cfg = Config(admin', jobs[a].cfg.ext)])
    <3>1. salt' \in Hashes
      BY <1>0, <2>2, AdminAssumption DEF Stored, Hashes
    <3>2. admin' \in AdminRows
      BY <2>2, <3>1 DEF Admin, AdminRows, SomeHash, Paths, Recoverable, SomePlain
    <3>3. Stored'
      BY <1>0, <1>9, <3>1, <3>2 DEF Create, Stored, FileOK, files, live
    <3> DEFINE cfg == Config(admin', job.cfg.ext)
               new == [job EXCEPT !.at = "unlink", !.cfg = cfg]
    <3>4. cfg \in Readable
      BY <1>1, <3>2, Shapes DEF Readable, Recoverable, SomePlain
    <3>5. Becomes(a, new)
      BY <2>2
    <3> HIDE DEF cfg
    <3>6. new \in Jobs
      BY <1>1, <3>4 DEF Jobs, Places
    <3> HIDE DEF new
    <3> QED
      BY <1>0, <3>3, <3>5, <3>6, Advance
  <2> QED
    BY <1>9, <2>1, <2>2 DEF Create
<1>10. CASE Recover(a)
  <2>1. Stored'
    BY <1>0, <1>10 DEF Recover, Stored, FileOK, files, live
  <2>2. CASE Then(a, "unlink")
    BY <1>0, <2>1, <2>2, JobMoved DEF Places
  <2>3. CASE Recovers(job.cfg) /\ Becomes(a, [jobs[a] EXCEPT !.at = "adopt", !.cfg.plain = bootstrap])
    <3> DEFINE cfg == [job.cfg EXCEPT !.plain = bootstrap]
               new == [job EXCEPT !.at = "adopt", !.cfg = cfg]
    <3>1. cfg \in Readable
      BY <1>0, <1>1, <2>3 DEF Recovers, Readable, Stored, Recoverable, SomePlain
    <3>2. [job EXCEPT !.at = "adopt", !.cfg.plain = bootstrap] = new
      BY <1>1 DEF Jobs
    <3> HIDE DEF cfg
    <3>3. new \in Jobs
      BY <1>1, <3>1 DEF Jobs, Places
    <3>4. Becomes(a, new)
      BY <2>3, <3>2
    <3> HIDE DEF new
    <3> QED
      BY <1>0, <2>1, <3>3, <3>4, Advance
  <2> QED
    BY <1>10, <2>2, <2>3 DEF Recover
<1>11. CASE Unlink(a)
  <2>1. legacy' \in Files /\ FileOK' /\ bootstrap' \in {None, 0, 1}
    BY <1>0, <1>11 DEF Unlink, Stored, FileOK, Files, SomeHash
  <2>2. memory' \in Readable \cup {None}
    BY <1>0, <1>1, <1>11 DEF Unlink, Stored
  <2>3. Stored'
    BY <1>0, <1>11, <2>1, <2>2 DEF Unlink, Stored
  <2> QED
    BY <1>0, <1>11, <2>3, JobMoved, Ended DEF Unlink, Places
<1> QED
  BY <1>2, <1>3, <1>4, <1>5, <1>6, <1>7, <1>8, <1>9, <1>10, <1>11

\* Saving, by a handler or a command.
LEMMA SaveKeeps ==
    ASSUME RInv, NEW a \in Actors,
           UpdateGet(a) \/ UpdateAdmin(a) \/ UpdateProxy(a) \/ UpdateAll(a)
    PROVE  RInv'
<1>1. jobs[a] \in Jobs /\ jobs[a].cfg \in Readable /\ jobs[a].proxy \in ProxyRows /\ Stored
  BY Carried DEF RInv
<1>2. CASE UpdateGet(a)
  <2> DEFINE proxy == [proxyRow EXCEPT !.ext = jobs[a].cfg.ext]
             new == [jobs[a] EXCEPT !.at = "updateAdmin", !.proxy = proxy]
  <2>1. proxy \in ProxyRows
    BY <1>1 DEF Stored, ProxyRows, Readable, Recoverable, SomePlain
  <2>2. Becomes(a, new) /\ Stored'
    BY <1>1, <1>2 DEF UpdateGet, Stored, FileOK, files, live
  <2> HIDE DEF proxy
  <2>3. new \in Jobs
    BY <1>1, <2>1 DEF Jobs, Places
  <2> HIDE DEF new
  <2> QED
    BY <2>2, <2>3, Advance
<1>3. CASE UpdateAdmin(a) \/ UpdateAll(a)
  <2>1. Stored'
    BY <1>1, <1>3, Shapes DEF UpdateAdmin, UpdateAll, Stored, FileOK, files, live
  <2> QED
    BY <1>3, <2>1, JobMoved DEF UpdateAdmin, UpdateAll, Places
<1>4. CASE UpdateProxy(a)
  <2>1. Stored'
    BY <1>1, <1>4 DEF UpdateProxy, Stored, FileOK, files, live
  <2> QED
    BY <1>4, <2>1, JobMoved DEF UpdateProxy, Places
<1> QED
  BY <1>2, <1>3, <1>4

\* What is to be saved carries the password with its hash.
LEMMA Prepared ==
    ASSUME RInv, NEW cfg \in Readable, NEW new \in BOOLEAN, NEW path \in Paths, Draws(new)
    PROVE  /\ WithPassword(cfg, new) \in Readable /\ salt' \in Hashes
           /\ [WithPassword(cfg, new) EXCEPT !.path = path] \in Readable
<1>1. salt' \in Hashes /\ (new => salt + 1 = salt')
  BY AdminAssumption DEF RInv, Stored, Draws, Hashes
<1>2. WithPassword(cfg, new) \in Readable
  BY <1>1 DEF WithPassword, Readable, SomeHash, Recoverable, SomePlain
<1>3. \A c \in Readable : [c EXCEPT !.path = path] \in Readable
  BY DEF Readable, Recoverable, SomePlain
<1> QED
  BY <1>1, <1>2, <1>3

LEMMA SavingOK ==
    ASSUME RInv, NEW a \in Actors, NEW kind \in Kinds, NEW cfg \in Readable,
           NEW prev \in SomeHash
    PROVE  Saving(a, kind, cfg, prev) \in Jobs
  BY Shapes DEF Saving, Jobs, Places, RInv, Stored

\* The handlers.
LEMMA HandlerKeeps ==
    ASSUME RInv, NEW r \in Requests,
           \/ UpdateCredentials(r) \/ UpdateAccess(r) \/ UpdateSystemConfig(r)
           \/ SystemPrepare(r) \/ SetConfig(r) \/ Clear(r)
    PROVE  RInv'
<1>0. r \in Actors /\ Stored
  BY Members DEF RInv
<1>1. jobs[r] \in Jobs /\ jobs[r].cfg \in Readable /\ jobs[r].proxy \in ProxyRows
  BY <1>0, Carried
<1>2. CASE UpdateCredentials(r)
  <2>1. memory \in Readable /\ memory.hash \in SomeHash
    BY <1>0, <1>2 DEF UpdateCredentials, Authorized, Stored, Readable, Recoverable, SomePlain
  <2>2. PICK new \in BOOLEAN, renamed \in BOOLEAN, path \in Paths :
          /\ Draws(new)
          /\ Becomes(r, Saving(r, "credentials", [WithPassword(memory, new) EXCEPT !.path = path],
                               IF renamed THEN None ELSE memory.hash))
    BY <1>2 DEF UpdateCredentials
  <2> DEFINE cfg == [WithPassword(memory, new) EXCEPT !.path = path]
             prev == IF renamed THEN None ELSE memory.hash
  <2>3. cfg \in Readable /\ salt' \in Hashes /\ prev \in SomeHash
    BY <2>1, <2>2, Prepared DEF SomeHash
  <2>4. Stored' /\ Becomes(r, Saving(r, "credentials", cfg, prev))
    BY <1>0, <1>2, <2>2, <2>3 DEF UpdateCredentials, Stored, FileOK, files, live
  <2> HIDE DEF cfg, prev
  <2>5. Saving(r, "credentials", cfg, prev) \in Jobs
    BY <1>0, <2>3, SavingOK DEF Kinds
  <2> QED
    BY <1>0, <2>4, <2>5, Advance
<1>3. CASE UpdateAccess(r)
  <2>1. memory \in Readable /\ memory.hash \in SomeHash
    BY <1>0, <1>3 DEF UpdateAccess, Authorized, Stored, Readable, Recoverable, SomePlain
  <2>2. PICK ext \in BOOLEAN :
          Becomes(r, Saving(r, "access", [memory EXCEPT !.ext = ext], memory.hash))
    BY <1>3 DEF UpdateAccess
  <2> DEFINE cfg == [memory EXCEPT !.ext = ext]
  <2>3. cfg \in Readable
    BY <2>1 DEF Readable, Recoverable, SomePlain
  <2>4. Stored' /\ Becomes(r, Saving(r, "access", cfg, memory.hash))
    BY <1>0, <1>3, <2>2 DEF UpdateAccess, Stored, FileOK, files, live
  <2> HIDE DEF cfg
  <2>5. Saving(r, "access", cfg, memory.hash) \in Jobs
    BY <1>0, <2>1, <2>3, SavingOK DEF Kinds
  <2> QED
    BY <1>0, <2>4, <2>5, Advance
<1>4. CASE UpdateSystemConfig(r)
  <2> DEFINE cfg == Config(admin, FALSE)
             job == Saving(r, "system", cfg, admin.hash)
             new == [job EXCEPT !.at = "system"]
  <2>1. cfg \in Readable /\ admin.hash \in SomeHash
    BY <1>0, Shapes DEF Stored, AdminRows, Recoverable, SomePlain
  <2>2. Stored' /\ Becomes(r, new)
    BY <1>0, <1>4 DEF UpdateSystemConfig, Stored, FileOK, files, live
  <2> HIDE DEF cfg
  <2>3. job \in Jobs
    BY <1>0, <2>1, SavingOK DEF Kinds
  <2> HIDE DEF job
  <2>4. new \in Jobs
    BY <2>3 DEF Jobs, Places
  <2> HIDE DEF new
  <2> QED
    BY <1>0, <2>2, <2>4, Advance
<1>5. CASE SystemPrepare(r)
  <2>1. PICK new, renamed, newProxy, ext \in BOOLEAN, path \in Paths :
          LET hash == IF newProxy THEN 0 ELSE proxyRow.hash IN
          /\ Draws(new)
          /\ IF ext /\ hash = None
             THEN Ends(r)
             ELSE Becomes(r, [jobs[r] EXCEPT
                                 !.at = "updateAll", !.prev = IF renamed THEN None ELSE @,
                                 !.cfg = [WithPassword(@, new) EXCEPT !.path = path, !.ext = ext],
                                 !.proxy = [hash |-> hash, ext |-> ext]])
    BY <1>5 DEF SystemPrepare
  <2> DEFINE with == WithPassword(jobs[r].cfg, new)
             cfg == [with EXCEPT !.path = path, !.ext = ext]
             prev == IF renamed THEN None ELSE jobs[r].prev
             proxy == [hash |-> IF newProxy THEN 0 ELSE proxyRow.hash, ext |-> ext]
             next == [jobs[r] EXCEPT !.at = "updateAll", !.prev = prev, !.cfg = cfg, !.proxy = proxy]
  <2>2. 1 \in Paths
    BY DEF Paths
  <2>3. with \in Readable /\ salt' \in Hashes
    BY <1>1, <2>1, <2>2, Prepared
  <2>4. proxy \in ProxyRows
    BY <1>0, Shapes DEF Stored, ProxyRows, SomeHash
  <2>5. Stored'
    BY <1>0, <1>5, <2>3 DEF SystemPrepare, Stored, FileOK, files, live
  <2>6. Ends(r) \/ Becomes(r, next)
    BY <2>1
  <2> HIDE DEF with
  <2>7. cfg \in Readable
    BY <2>3 DEF Readable, Recoverable, SomePlain
  <2> HIDE DEF cfg, proxy
  <2>9. prev \in SomeHash
    BY <1>1 DEF Jobs, SomeHash
  <2> HIDE DEF prev
  <2>8. next \in Jobs
    BY <1>1, <2>4, <2>7, <2>9 DEF Jobs, Places
  <2> HIDE DEF next
  <2> QED
    BY <1>0, <2>5, <2>6, <2>8, Advance, Ended
<1>6. CASE SetConfig(r)
  <2>1. Stored'
    BY <1>0, <1>1, <1>6 DEF SetConfig, Stored, FileOK, files
  <2> QED
    BY <1>0, <1>6, <2>1, JobMoved, Ended DEF SetConfig, Places
<1>7. CASE Clear(r)
  <2>1. Stored'
    BY <1>0, <1>7 DEF Clear, Stored, FileOK, files
  <2> QED
    BY <1>0, <1>7, <2>1, Ended DEF Clear
<1> QED
  BY <1>2, <1>3, <1>4, <1>5, <1>6, <1>7

\* The commands.
LEMMA CommandKeeps ==
    ASSUME RInv, CommandSaved \/ CredentialsCmd \/ AdminConfigCmd \/ InstallCmd
    PROVE  RInv'
<1>0. Cli \in Actors /\ Stored /\ 1 \in Paths /\ None \in SomeHash
  BY Members DEF RInv, Paths, SomeHash
<1>1. jobs[Cli].cfg \in Readable /\ jobs[Cli].cfg.path \in Paths
  BY <1>0, Carried DEF Readable, Recoverable, SomePlain
<1>2. CASE CommandSaved \/ CredentialsCmd
  <2>1. Stored' /\ Ends(Cli)
    BY <1>0, <1>2 DEF CommandSaved, CredentialsCmd, Stored, FileOK, files, live
  <2> QED
    BY <1>0, <2>1, Ended
<1>3. CASE AdminConfigCmd
  <2>1. PICK new \in BOOLEAN, path \in Paths :
          /\ Draws(new)
          /\ Becomes(Cli, Saving(Cli, "admin-config",
                                 [WithPassword(jobs[Cli].cfg, new) EXCEPT !.path = path], None))
    BY <1>3 DEF AdminConfigCmd
  <2> DEFINE cfg == [WithPassword(jobs[Cli].cfg, new) EXCEPT !.path = path]
  <2>2. cfg \in Readable /\ salt' \in Hashes
    BY <1>1, <2>1, Prepared
  <2>3. Stored' /\ Becomes(Cli, Saving(Cli, "admin-config", cfg, None))
    BY <1>0, <1>3, <2>1, <2>2 DEF AdminConfigCmd, Stored, FileOK, files, live
  <2> HIDE DEF cfg
  <2>4. Saving(Cli, "admin-config", cfg, None) \in Jobs
    BY <1>0, <2>2, SavingOK DEF Kinds
  <2> QED
    BY <1>0, <2>3, <2>4, Advance
<1>4. CASE InstallCmd
  <2>1. PICK rotate \in BOOLEAN :
          LET new == rotate \/ jobs[Cli].cfg.plain = None IN
          /\ Draws(new)
          /\ \/ /\ new
                /\ Becomes(Cli, Saving(Cli, "install",
                                [WithPassword(jobs[Cli].cfg, TRUE) EXCEPT
                                    !.path = IF rotate THEN 1 ELSE @], None))
             \/ Ends(Cli)
    BY <1>4 DEF InstallCmd
  <2> DEFINE new == rotate \/ jobs[Cli].cfg.plain = None
             with == WithPassword(jobs[Cli].cfg, TRUE)
             cfg == [with EXCEPT !.path = IF rotate THEN 1 ELSE with.path]
  <2>2. new \in BOOLEAN /\ Draws(new)
    BY <2>1
  <2>3. salt' \in Hashes
    BY <1>0, <1>1, <2>2, Prepared
  <2>4. Stored'
    BY <1>0, <1>4, <2>3 DEF InstallCmd, Stored, FileOK, files
  <2>5. CASE Ends(Cli)
    BY <1>0, <2>4, <2>5, Ended
  <2>6. CASE new /\ Becomes(Cli, Saving(Cli, "install", cfg, None))
    <3>1. Draws(TRUE)
      BY <2>2, <2>6 DEF Draws
    <3>2. with \in Readable
      BY <1>0, <1>1, <3>1, Prepared
    <3> HIDE DEF with
    <3>3. cfg \in Readable
      BY <3>2, <1>0 DEF Readable, Recoverable, SomePlain
    <3>4. Becomes(Cli, Saving(Cli, "install", cfg, None))
      BY <2>6
    <3> HIDE DEF cfg
    <3>5. Saving(Cli, "install", cfg, None) \in Jobs
      BY <1>0, <3>3, SavingOK DEF Kinds
    <3> QED
      BY <1>0, <2>4, <3>4, <3>5, Advance
  <2> QED
    BY <2>1, <2>5, <2>6
<1> QED
  BY <1>2, <1>3, <1>4

\* Logins and sessions carry no configuration, and what ends forgets its own.
LEMMA SessionKeeps ==
    ASSUME RInv, (\E l \in Logins : Verify(l) \/ CreateSession(l)) \/ RemoveSession
    PROVE  RInv'
  BY DEF RInv, Stored, FileOK, Verify, CreateSession, RemoveSession, files

LEMMA EndKeeps ==
    ASSUME RInv, RestartProcess \/ Crash \/ StatementFails
    PROVE  RInv'
<1>0. Stored /\ jobs \in [Actors -> Jobs] /\ Cli \in Actors /\ Requests \subseteq Actors
  BY Members DEF RInv
<1>1. CASE DaemonGone /\ UNCHANGED <<admin, proxyRow, files, salt>>
  <2>1. Stored'
    BY <1>0, <1>1 DEF DaemonGone, Stored, FileOK, files
  <2>2. jobs' \in [Actors -> Jobs]
    BY <1>0, <1>1, Shapes DEF DaemonGone
  <2> QED
    BY <2>1, <2>2 DEF RInv
<1>2. CASE \E a \in Actors : Ends(a) /\ UNCHANGED <<admin, proxyRow, files, memory, salt>>
  <2>1. Stored'
    BY <1>0, <1>2 DEF Stored, FileOK, files
  <2> QED
    BY <1>2, <2>1, Ended
<1> QED
  BY <1>0, <1>1, <1>2 DEF RestartProcess, Crash, StatementFails, live

LEMMA StepRInv == RInv /\ [AdminNext]_adminVars => RInv'
<1> SUFFICES ASSUME RInv, [AdminNext]_adminVars PROVE RInv'
  OBVIOUS
<1>1. Cli \in Actors /\ Requests \subseteq Actors
  BY Members
<1>2. CASE ProcessSteps
  BY <1>1, <1>2, StartKeeps, CommandKeeps, SaveKeeps, EndKeeps DEF ProcessSteps
<1>3. CASE ServeSteps
  BY <1>1, <1>3, HandlerKeeps, SaveKeeps, SessionKeeps, EndKeeps DEF ServeSteps
<1>4. CASE UNCHANGED adminVars
  BY <1>4 DEF adminVars, files, live, RInv, Stored, FileOK
<1> QED
  BY <1>2, <1>3, <1>4 DEF AdminNext

LEMMA Invariant == AdminSpec => []RInv
  BY InitRInv, StepRInv, PTL DEF AdminSpec

-----------------------------------------------------------------------------

\* security.AdminConfigStore: whatever starts, handlers and commands save, in
\* whatever order and wherever one fails, the recoverable password stored or in
\* the daemon's memory is absent or the one its hash verifies, or both came so from
\* an earlier release's file, which nobody verifies.
THEOREM PasswordsReadable == AdminSpec => []PasswordReadable
<1>1. RInv => PasswordReadable
  BY DEF RInv, Stored, PasswordReadable, AdminRows, Readable, Recoverable, SomePlain
<1> QED
  BY <1>1, Invariant, PTL
-----------------------------------------------------------------------------
(* Sessions.  The strengthening says what each handler under way knows of  *)
(* the password the daemon held when it began, and that nobody is logged   *)
(* in while no daemon is up.                                               *)

Updating == {"get", "updateAdmin", "updateProxy", "setConfig"}

\* A handler that saves another password than the memory held will clear for it,
\* except UpdateSystemConfig, which compares with the database.
RequestOK(job) ==
    \/ job.at = "idle"
    \/ job.kind = "system"
    \/ /\ job.kind = "credentials" /\ job.at \in Updating \cup {"clear"}
       /\ Reauth(job) \/ job.cfg.hash = job.seen.hash
    \/ job.kind = "access" /\ job.at \in Updating /\ job.cfg.hash = job.seen.hash

\* About to clear the sessions, or to restart.
Clears(job) == job.at = "clear" /\ (Reauth(job) \/ (job.kind = "system" /\ mayRestart))

Fresh == \/ lost \/ restart \/ (carried /\ ~mayRestart)
         \/ \E r \in Requests : Clears(jobs[r])
         \/ \A s \in sessions : s.hash = memory.hash \/ s.raced

SInv == /\ memory = None => /\ sessions = {} /\ \A l \in Logins : logins[l] = None
                            /\ \A r \in Requests : At(r, "idle")
        /\ ~At(Daemon, "idle") => memory = None
        /\ \A r \in Requests : RequestOK(jobs[r])
        /\ Fresh

LEMMA InitSInv == AdminInit => SInv
<1> SUFFICES ASSUME AdminInit PROVE SInv
  OBVIOUS
<1>1. \A a \in Actors : jobs[a].at = "idle"
  BY DEF AdminInit, Idle
<1>2. sessions = {} /\ \A l \in Logins : logins[l] = None
  BY DEF AdminInit
<1> QED
  BY <1>1, <1>2, Members DEF SInv, Fresh, RequestOK, At

\* The two processes are no requests.
LEMMA Apart ==
    /\ Daemon \notin Requests /\ Cli \notin Requests /\ Daemon # Cli
    /\ {Daemon, Cli} \subseteq Actors /\ Requests \subseteq Actors
  BY AdminAssumption DEF Actors

\* A step of the command-line process, or of a start short of its last: the
\* daemon's memory and its clients are as they were.
LEMMA ProcessMoves ==
    ASSUME RInv, SInv, NEW a \in {Daemon, Cli}, NEW new, Becomes(a, new),
           a = Daemon => memory = None, restart => restart' \/ memory = None,
           UNCHANGED <<memory, sessions, logins, lost, carried, mayRestart>>
    PROVE  SInv'
<1>1. /\ \A r \in Requests : jobs'[r] = jobs[r]
      /\ a # Daemon => jobs'[Daemon] = jobs[Daemon]
  BY Apart DEF Becomes, RInv
<1>2. /\ memory' = None => /\ sessions' = {} /\ \A l \in Logins : logins'[l] = None
                           /\ \A r \in Requests : At(r, "idle")'
      /\ ~At(Daemon, "idle")' => memory' = None
      /\ \A r \in Requests : RequestOK(jobs[r])'
  BY <1>1 DEF SInv, At
<1>3. Fresh'
  <2>1. CASE lost \/ restart' \/ (carried /\ ~mayRestart)
    BY <2>1 DEF Fresh
  <2>2. CASE memory = None
    BY <2>2 DEF SInv, Fresh
  <2>3. CASE \E r \in Requests : Clears(jobs[r])
    BY <1>1, <2>3 DEF Fresh, Clears
  <2>4. CASE \A s \in sessions : s.hash = memory.hash \/ s.raced
    BY <2>4 DEF Fresh
  <2> QED
    BY <2>1, <2>2, <2>3, <2>4 DEF SInv, Fresh
<1> QED
  BY <1>2, <1>3 DEF SInv

\* A step of a handler that is not its last.
LEMMA RequestMoves ==
    ASSUME RInv, SInv, NEW r \in Requests, NEW new, Becomes(r, new), RequestOK(new),
           memory # None, ~At(r, "clear"),
           UNCHANGED <<memory, sessions, logins, lost, carried, restart, mayRestart>>
    PROVE  SInv'
<1>1. /\ jobs'[r] = new /\ jobs'[Daemon] = jobs[Daemon]
      /\ \A q \in Requests \ {r} : jobs'[q] = jobs[q]
  BY Apart DEF Becomes, RInv
<1>2. Fresh'
  <2>1. CASE \E q \in Requests : Clears(jobs[q])
    <3>1. PICK q \in Requests : Clears(jobs[q])
      BY <2>1
    <3>2. q # r
      BY <3>1 DEF Clears, At
    <3> QED
      BY <1>1, <3>1, <3>2 DEF Fresh, Clears
  <2>2. CASE lost \/ restart \/ (carried /\ ~mayRestart) \/ \A s \in sessions : s.hash = memory.hash \/ s.raced
    BY <2>2 DEF Fresh
  <2> QED
    BY <2>1, <2>2 DEF SInv, Fresh
<1>3. \A q \in Requests : RequestOK(jobs[q])'
  BY <1>1 DEF SInv
<1> QED
  BY <1>1, <1>2, <1>3 DEF SInv, At

\* What a handler under way is; none is while no daemon is up.
LEMMA Under ==
    ASSUME RInv, SInv, NEW r \in Requests, ~At(r, "idle")
    PROVE  memory # None /\ RequestOK(jobs[r]) /\ jobs[r] \in Jobs /\ r \in Actors
  BY Apart DEF SInv, RInv

\* A handler goes on to another statement of Update.
LEMMA UpdatesOn ==
    ASSUME RInv, SInv, NEW r \in Requests, NEW proxy, NEW there \in Updating,
           \/ jobs[r].at \in Updating
           \/ At(r, "updateAll"),
           \/ Then(r, there)
           \/ Becomes(r, [jobs[r] EXCEPT !.at = there, !.proxy = proxy]),
           UNCHANGED <<memory, sessions, logins, lost, carried, restart, mayRestart>>
    PROVE  SInv'
<1>0. memory # None /\ RequestOK(jobs[r]) /\ jobs[r] \in Jobs /\ ~At(r, "clear")
  BY Under DEF At, Updating
<1>1. ASSUME NEW new, new.kind = jobs[r].kind, new.at = there, new.prev = jobs[r].prev,
             new.seen = jobs[r].seen, new.cfg = jobs[r].cfg, Becomes(r, new)
      PROVE  SInv'
  <2>1. RequestOK(new)
    BY <1>0, <1>1 DEF RequestOK, Reauth, Updating, At
  <2> QED
    BY <1>0, <1>1, <2>1, RequestMoves
<1>2. CASE Then(r, there)
  <2> DEFINE new == [jobs[r] EXCEPT !.at = there]
  <2>1. /\ new.kind = jobs[r].kind /\ new.at = there /\ new.prev = jobs[r].prev
        /\ new.seen = jobs[r].seen /\ new.cfg = jobs[r].cfg
    BY <1>0 DEF Jobs
  <2>2. Becomes(r, new)
    BY <1>2 DEF Then
  <2> HIDE DEF new
  <2> QED
    BY <1>1, <2>1, <2>2
<1>3. CASE Becomes(r, [jobs[r] EXCEPT !.at = there, !.proxy = proxy])
  <2> DEFINE new == [jobs[r] EXCEPT !.at = there, !.proxy = proxy]
  <2>1. /\ new.kind = jobs[r].kind /\ new.at = there /\ new.prev = jobs[r].prev
        /\ new.seen = jobs[r].seen /\ new.cfg = jobs[r].cfg
    BY <1>0 DEF Jobs
  <2>2. Becomes(r, new)
    BY <1>3
  <2> HIDE DEF new
  <2> QED
    BY <1>1, <2>1, <2>2
<1> QED
  BY <1>2, <1>3

\* A handler begins.
LEMMA BeginsFresh ==
    ASSUME RInv, SInv, NEW r \in Requests,
           UpdateCredentials(r) \/ UpdateAccess(r) \/ UpdateSystemConfig(r)
    PROVE  SInv'
<1>0. At(r, "idle") /\ memory # None /\ UNCHANGED <<live, lost, carried, mayRestart>>
  BY DEF UpdateCredentials, UpdateAccess, UpdateSystemConfig, Authorized, past, files
<1>1. ASSUME NEW new, Becomes(r, new), RequestOK(new)
      PROVE  SInv'
  BY <1>0, <1>1, RequestMoves DEF live, At
<1>2. CASE UpdateCredentials(r)
  <2>1. PICK new \in BOOLEAN, renamed \in BOOLEAN, path \in Paths :
          /\ Draws(new)
          /\ Becomes(r, Saving(r, "credentials", [WithPassword(memory, new) EXCEPT !.path = path],
                               IF renamed THEN None ELSE memory.hash))
    BY <1>2 DEF UpdateCredentials
  <2> DEFINE with == WithPassword(memory, new)
             cfg == [with EXCEPT !.path = path]
             prev == IF renamed THEN None ELSE memory.hash
  <2>2. memory \in Readable /\ with \in Readable
    BY <1>0, <2>1, Prepared DEF RInv, Stored
  <2>3. with.hash = memory.hash \/ (with.hash = salt' /\ new)
    BY <2>1, <2>2 DEF WithPassword, Draws, Readable
  <2>4. new => salt' \in Hashes
    BY <2>1, <2>2, Prepared
  <2>5. cfg.hash = memory.hash \/ cfg.hash \notin {None, memory.hash}
    <3>1. cfg.hash = with.hash
      BY <2>2 DEF Readable
    <3> QED
      BY <2>3, <2>4, <3>1, AdminAssumption
  <2>6. prev \in {None, memory.hash} /\ Becomes(r, Saving(r, "credentials", cfg, prev))
    BY <2>1
  <2> HIDE DEF with, cfg, prev
  <2>7. RequestOK(Saving(r, "credentials", cfg, prev))
    BY <2>5, <2>6 DEF RequestOK, Saving, Idle, Updating, Reauth
  <2> QED
    BY <1>1, <2>6, <2>7
<1>3. CASE UpdateAccess(r)
  <2>1. PICK ext \in BOOLEAN :
          Becomes(r, Saving(r, "access", [memory EXCEPT !.ext = ext], memory.hash))
    BY <1>3 DEF UpdateAccess
  <2>2. [memory EXCEPT !.ext = ext].hash = memory.hash
    BY <1>0 DEF RInv, Stored, Readable, Recoverable, SomePlain
  <2> DEFINE cfg == [memory EXCEPT !.ext = ext]
  <2>3. cfg.hash = memory.hash
    BY <2>2
  <2> HIDE DEF cfg
  <2>4. RequestOK(Saving(r, "access", cfg, memory.hash))
    BY <2>3 DEF RequestOK, Saving, Idle, Updating
  <2> QED
    BY <1>1, <2>1, <2>4 DEF cfg
<1>4. CASE UpdateSystemConfig(r)
  <2> DEFINE cfg == Config(admin, FALSE)
             new == [Saving(r, "system", cfg, admin.hash) EXCEPT !.at = "system"]
  <2>1. Becomes(r, new)
    BY <1>4 DEF UpdateSystemConfig
  <2> HIDE DEF cfg
  <2>2. RequestOK(new)
    BY DEF RequestOK, Saving, Idle
  <2> QED
    BY <1>1, <2>1, <2>2
<1> QED
  BY <1>2, <1>3, <1>4

\* The memory gets what the handler saved.  If it still holds what the handler
\* found, another password is one the handler is about to clear for.
LEMMA SetFresh ==
    ASSUME RInv, SInv, NEW r \in Requests, SetConfig(r)
    PROVE  SInv'
<1>0. /\ memory # None /\ RequestOK(jobs[r]) /\ jobs[r] \in Jobs /\ r \in Actors
      /\ jobs[r].at = "setConfig"
  BY Under DEF SetConfig, At
<1> DEFINE on == [jobs[r] EXCEPT !.at = "clear"]
<1>1. /\ on.at = "clear" /\ on.kind = jobs[r].kind /\ on.cfg = jobs[r].cfg
      /\ on.prev = jobs[r].prev /\ on.seen = jobs[r].seen
  BY <1>0 DEF Jobs
<1>2. \/ jobs[r].kind = "access" /\ jobs'[r] = Idle
      \/ jobs[r].kind # "access" /\ jobs'[r] = on
  BY <1>0 DEF SetConfig, Ends, Then, Becomes, RInv
<1>3. jobs'[Daemon] = jobs[Daemon] /\ \A q \in Requests \ {r} : jobs'[q] = jobs[q]
  BY Apart DEF SetConfig, Ends, Then, Becomes, RInv
<1>4. /\ memory' = jobs[r].cfg /\ memory' # None /\ lost' = (lost \/ memory # jobs[r].seen)
      /\ carried' = (carried \/ (jobs[r].cfg.hash = jobs[r].prev /\ jobs[r].prev # jobs[r].seen.hash))
      /\ UNCHANGED <<sessions, logins, restart, mayRestart>>
  <2>1. None \notin Readable
    BY AdminAssumption DEF Readable, Configs, SomeHash, Recoverable, SomePlain
  <2> QED
    BY <1>0, <2>1 DEF SetConfig, Jobs, files
<1> HIDE DEF on
<1>5. \A q \in Requests : RequestOK(jobs[q])'
  <2>1. RequestOK(jobs'[r])
    BY <1>0, <1>1, <1>2 DEF RequestOK, Idle, Updating, Reauth
  <2> QED
    BY <1>3, <2>1 DEF SInv
<1>6. Fresh'
  <2>1. CASE lost \/ restart \/ memory # jobs[r].seen \/ (carried /\ ~mayRestart)
    BY <1>4, <2>1 DEF Fresh
  <2>2. CASE \E q \in Requests : Clears(jobs[q])
    <3>1. PICK q \in Requests : Clears(jobs[q])
      BY <2>2
    <3>2. q # r
      BY <1>0, <3>1 DEF Clears
    <3> QED
      BY <1>3, <1>4, <3>1, <3>2 DEF Fresh, Clears
  <2>3. CASE memory = jobs[r].seen /\ \A s \in sessions : s.hash = memory.hash \/ s.raced
    <3>1. CASE memory'.hash = memory.hash
      BY <1>4, <2>3, <3>1 DEF Fresh
    <3>2. CASE memory'.hash # memory.hash
      <4>1. jobs'[r] = on /\ (Reauth(on) \/ jobs[r].kind = "system")
        BY <1>0, <1>1, <1>2, <1>4, <2>3, <3>2 DEF RequestOK, Reauth, Updating
      <4>2. CASE Reauth(on) \/ mayRestart
        BY <1>1, <1>4, <4>1, <4>2 DEF Fresh, Clears, Reauth
      <4>3. CASE ~Reauth(on) /\ ~mayRestart
        <5>1. jobs[r].cfg.hash = jobs[r].prev /\ jobs[r].prev # jobs[r].seen.hash
          BY <1>1, <1>4, <2>3, <3>2, <4>3 DEF Reauth
        <5> QED
          BY <1>4, <4>3, <5>1 DEF Fresh
      <4> QED
        BY <4>2, <4>3
    <3> QED
      BY <3>1, <3>2
  <2> QED
    BY <2>1, <2>2, <2>3 DEF SInv, Fresh
<1> QED
  BY <1>0, <1>3, <1>4, <1>5, <1>6 DEF SInv, At

LEMMA ClearFresh ==
    ASSUME RInv, SInv, NEW r \in Requests, Clear(r)
    PROVE  SInv'
<1>0. memory # None /\ jobs[r].at = "clear"
  BY Under DEF Clear, At
<1>1. /\ jobs'[r] = Idle /\ jobs'[Daemon] = jobs[Daemon]
      /\ \A q \in Requests \ {r} : jobs'[q] = jobs[q]
  BY Apart DEF Clear, Ends, Becomes, RInv
<1>2. /\ sessions' = IF Reauth(jobs[r]) THEN {} ELSE sessions
      /\ restart \/ (jobs[r].kind = "system" /\ mayRestart) => restart'
      /\ UNCHANGED <<memory, logins, lost, carried, mayRestart>>
  BY DEF Clear, Restarts, past, files
<1>3. \A q \in Requests : RequestOK(jobs[q])'
  BY <1>1 DEF SInv, RequestOK, Idle
<1>4. Fresh'
  <2>1. CASE lost \/ restart \/ (carried /\ ~mayRestart) \/ Clears(jobs[r])
    BY <1>2, <2>1 DEF Fresh, Clears
  <2>2. CASE \E q \in Requests \ {r} : Clears(jobs[q])
    BY <1>1, <1>2, <2>2 DEF Fresh, Clears
  <2>3. CASE \A s \in sessions : s.hash = memory.hash \/ s.raced
    BY <1>2, <2>3 DEF Fresh
  <2> QED
    BY <2>1, <2>2, <2>3 DEF SInv, Fresh
<1> QED
  BY <1>0, <1>1, <1>2, <1>3, <1>4 DEF SInv, At

\* A handler is over without having come to its last step.
LEMMA OverFresh ==
    ASSUME RInv, SInv, NEW r \in Requests, Ends(r), ~At(r, "idle"), ~At(r, "clear"),
           UNCHANGED <<memory, sessions, logins, lost, carried, restart, mayRestart>>
    PROVE  SInv'
  BY Under, RequestMoves DEF Ends, RequestOK, Idle

LEMMA PrepareFresh ==
    ASSUME RInv, SInv, NEW r \in Requests, SystemPrepare(r)
    PROVE  SInv'
<1>0. /\ memory # None /\ RequestOK(jobs[r]) /\ jobs[r] \in Jobs /\ jobs[r].at = "system"
      /\ UNCHANGED <<memory, sessions, logins, lost, carried, restart, mayRestart>>
  BY Under DEF SystemPrepare, At, live, past, files
<1>1. CASE Ends(r)
  BY <1>0, <1>1, OverFresh DEF At
<1>2. ASSUME NEW prev, NEW cfg, NEW proxy,
             Becomes(r, [jobs[r] EXCEPT !.at = "updateAll", !.prev = prev, !.cfg = cfg,
                                        !.proxy = proxy])
      PROVE  SInv'
  <2> DEFINE new == [jobs[r] EXCEPT !.at = "updateAll", !.prev = prev, !.cfg = cfg,
                                    !.proxy = proxy]
  <2>1. RequestOK(new)
    BY <1>0 DEF Jobs, RequestOK, Updating
  <2> HIDE DEF new
  <2> QED
    BY <1>0, <1>2, <2>1, RequestMoves DEF At, new
<1>3. PICK new, renamed, newProxy, ext \in BOOLEAN, path \in Paths :
        LET hash == IF newProxy THEN 0 ELSE proxyRow.hash IN
        /\ Draws(new)
        /\ IF ext /\ hash = None
           THEN Ends(r)
           ELSE Becomes(r, [jobs[r] EXCEPT
                               !.at = "updateAll", !.prev = IF renamed THEN None ELSE @,
                               !.cfg = [WithPassword(@, new) EXCEPT !.path = path, !.ext = ext],
                               !.proxy = [hash |-> hash, ext |-> ext]])
  BY DEF SystemPrepare
<1>4. \/ Ends(r)
      \/ Becomes(r, [jobs[r] EXCEPT
                        !.at = "updateAll", !.prev = IF renamed THEN None ELSE jobs[r].prev,
                        !.cfg = [WithPassword(jobs[r].cfg, new) EXCEPT !.path = path, !.ext = ext],
                        !.proxy = [hash |-> IF newProxy THEN 0 ELSE proxyRow.hash, ext |-> ext]])
  BY <1>3
<1> QED
  BY <1>1, <1>2, <1>4

\* A start is over: nobody is logged in yet.
LEMMA UpFresh ==
    ASSUME RInv, SInv, NEW a \in {Daemon, Cli}, Unlink(a)
    PROVE  SInv'
<1>1. UNCHANGED <<sessions, logins, lost, carried, restart, mayRestart>>
  BY DEF Unlink
<1>2. CASE a = Daemon
  <2>1. memory = None
    BY <1>2 DEF SInv, Unlink, At
  <2>2. jobs'[Daemon] = Idle /\ \A r \in Requests : jobs'[r] = jobs[r]
    BY <1>2, Apart DEF Unlink, Ends, Becomes, RInv
  <2> QED
    BY <1>1, <2>1, <2>2 DEF SInv, Fresh, At, Idle, RequestOK
<1>3. CASE a = Cli
  <2>1. memory' = memory /\ Becomes(a, [jobs[a] EXCEPT !.at = "command"])
    BY <1>3, Apart DEF Unlink, Then
  <2> QED
    BY <1>1, <1>3, <2>1, Apart, ProcessMoves
<1> QED
  BY <1>2, <1>3

\* The steps of a process that leave the daemon's memory alone.
LEMMA ProcessFresh ==
    ASSUME RInv, SInv, NEW a \in {Daemon, Cli},
           \/ StartProcess(a) \/ Import(a) \/ GetAdmin(a) \/ GetProxy(a) \/ ReadFile(a)
           \/ SaveAdmin(a) \/ SaveProxy(a) \/ Create(a) \/ Recover(a) \/ Adopt(a)
           \/ a = Cli /\ \/ UpdateGet(a) \/ UpdateAdmin(a) \/ UpdateProxy(a) \/ CommandSaved
                         \/ CredentialsCmd \/ AdminConfigCmd \/ InstallCmd
    PROVE  SInv'
<1>1. a = Daemon => memory = None
  BY Apart DEF SInv, StartProcess, Import, GetAdmin, GetProxy, ReadFile, SaveAdmin, SaveProxy,
               Create, Recover, Adopt, At
<1>2. /\ UNCHANGED <<memory, sessions, logins, lost, carried, mayRestart>>
      /\ restart => restart' \/ memory = None
  BY DEF StartProcess, Import, GetAdmin, GetProxy, ReadFile, SaveAdmin, SaveProxy,
         Create, Recover, Adopt, UpdateGet, UpdateAdmin, UpdateProxy, CommandSaved,
         CredentialsCmd, AdminConfigCmd, InstallCmd, live, past, files
<1>3. \E new : Becomes(a, new)
  <2>1. CASE \/ StartProcess(a) \/ Import(a) \/ GetAdmin(a) \/ GetProxy(a) \/ ReadFile(a)
             \/ SaveAdmin(a) \/ SaveProxy(a)
    BY <2>1 DEF StartProcess, Import, GetAdmin, GetProxy, ReadFile, SaveAdmin, SaveProxy, Then, Ends
  <2>2. CASE Create(a) \/ Recover(a) \/ Adopt(a)
    BY <2>2 DEF Create, Recover, Adopt, Then
  <2>3. CASE a = Cli /\ (UpdateGet(a) \/ UpdateAdmin(a) \/ UpdateProxy(a) \/ CommandSaved)
    BY <2>3 DEF UpdateGet, UpdateAdmin, UpdateProxy, CommandSaved, Then, Ends
  <2>4. CASE a = Cli /\ (CredentialsCmd \/ AdminConfigCmd \/ InstallCmd)
    BY <2>4 DEF CredentialsCmd, AdminConfigCmd, InstallCmd, Ends
  <2> QED
    BY <2>1, <2>2, <2>3, <2>4
<1> QED
  BY <1>1, <1>2, <1>3, ProcessMoves

LEMMA LoginFresh ==
    ASSUME RInv, SInv, (\E l \in Logins : Verify(l) \/ CreateSession(l)) \/ RemoveSession
    PROVE  SInv'
<1>1. memory # None
  BY DEF SInv, Verify, CreateSession, RemoveSession
<1>2. UNCHANGED <<memory, jobs, restart, lost, carried, mayRestart>>
  BY DEF Verify, CreateSession, RemoveSession, past, files
<1>3. \A s \in sessions' : s \in sessions \/ s.hash = memory.hash \/ s.raced
  <2>1. ASSUME NEW l \in Logins, CreateSession(l), NEW s \in sessions'
        PROVE  s \in sessions \/ s.hash = memory.hash \/ s.raced
    <3>1. s \in sessions \/ s = [hash |-> logins[l], raced |-> logins[l] # memory.hash]
      BY <2>1 DEF CreateSession
    <3>2. CASE s = [hash |-> logins[l], raced |-> logins[l] # memory.hash]
      <4>1. s.hash = logins[l] /\ s.raced = (logins[l] # memory.hash)
        BY <3>2
      <4> QED
        BY <4>1
    <3> QED
      BY <3>1, <3>2
  <2> QED
    BY <2>1 DEF Verify, RemoveSession
<1> QED
  BY <1>1, <1>2, <1>3 DEF SInv, Fresh, At, Clears

LEMMA GoneFresh ==
    ASSUME RInv, SInv, DaemonGone
    PROVE  SInv'
  BY Apart DEF SInv, Fresh, DaemonGone, At, Idle, RequestOK

LEMMA StepSInv == RInv /\ SInv /\ [AdminNext]_adminVars => SInv'
<1> SUFFICES ASSUME RInv, SInv, [AdminNext]_adminVars PROVE SInv'
  OBVIOUS
<1>1. CASE ProcessSteps
  <2>1. CASE RestartProcess \/ Crash
    <3>1. CASE DaemonGone
      BY <3>1, GoneFresh
    <3>2. CASE Ends(Cli) /\ UNCHANGED <<live, lost, carried, mayRestart>>
      BY <3>2, Apart, ProcessMoves DEF Ends, live
    <3> QED
      BY <2>1, <3>1, <3>2 DEF RestartProcess, Crash, files
  <2> QED
    BY <1>1, <2>1, ProcessFresh, UpFresh DEF ProcessSteps
<1>2. CASE ServeSteps
  <2>1. ASSUME NEW r \in Requests, UpdateGet(r) \/ UpdateAdmin(r) \/ UpdateProxy(r) \/ UpdateAll(r)
        PROVE  SInv'
    <3>1. /\ UNCHANGED <<memory, sessions, logins, lost, carried, restart, mayRestart>>
          /\ jobs[r].at \in Updating \/ At(r, "updateAll")
      BY <2>1 DEF UpdateGet, UpdateAdmin, UpdateProxy, UpdateAll, live, past, files, At, Updating
    <3>2. \E there \in Updating : \E proxy :
             \/ Then(r, there)
             \/ Becomes(r, [jobs[r] EXCEPT !.at = there, !.proxy = proxy])
      BY <2>1 DEF UpdateGet, UpdateAdmin, UpdateProxy, UpdateAll, Updating
    <3> QED
      BY <3>1, <3>2, UpdatesOn
  <2>2. CASE StatementFails
    <3>1. PICK r \in Requests :
             /\ jobs[r].at \in {"get", "updateAdmin", "updateProxy", "system", "updateAll"}
             /\ Ends(r)
      BY <2>2 DEF StatementFails
    <3>2. UNCHANGED <<memory, sessions, logins, lost, carried, restart, mayRestart>>
      BY <2>2 DEF StatementFails, live, past, files
    <3> QED
      BY <3>1, <3>2, OverFresh DEF At
  <2> QED
    BY <1>2, <2>1, <2>2, BeginsFresh, PrepareFresh, SetFresh, ClearFresh, LoginFresh DEF ServeSteps
<1>3. CASE UNCHANGED adminVars
  BY <1>3 DEF adminVars, live, past, files, SInv, Fresh, At, Clears
<1> QED
  BY <1>1, <1>2, <1>3 DEF AdminNext

\* SessionManager.Clear after a change of password, whatever handlers, logins,
\* commands and failures run beside it: a session verified against another password
\* than the current one was being created while the password changed, or is about to
\* be cleared or to end with the process.  What is left out is named: an update that
\* overwrote another in memory, and, where the process may not restart, a system
\* update that brought into memory a password somebody else had stored.
THEOREM SessionsFresh == AdminSpec => []StaleSessionRaced
<1>1. SInv => StaleSessionRaced
  BY DEF SInv, Fresh, StaleSessionRaced, Clears, At
<1> QED
  BY <1>1, InitRInv, InitSInv, StepRInv, StepSInv, PTL DEF AdminSpec
-----------------------------------------------------------------------------
(* The migration.  Until a start completes, nobody but the two starting    *)
(* processes touches the rows, and each goes on to remove the file only    *)
(* when its password is stored.                                            *)

Starting == {"idle", "import", "admin", "proxy", "file", "saveAdmin", "saveProxy", "create",
             "recover", "unlink"}

\* The file of an earlier release holds a password.
HasPassword == legacy # None /\ (legacy.hash # None \/ legacy.plain # None)

\* Its password is the one of hash 1.
FromOne(f) == f.hash = 1 \/ (f.hash = None /\ f.plain \in {None, 1})

\* What a start has read, or is about to write, at each of its statements.
StartOK(job) ==
    /\ job.at \in {"proxy", "file"} => /\ job.cfg.hash \in {None, 1}
                                       /\ job.cfg.hash = 1 => admin.hash = 1
    /\ job.at \in {"saveAdmin", "saveProxy"} => job.cfg.hash = 1 /\ job.proxy.ext = legacy.ext
    /\ job.at \in {"saveProxy", "create", "recover", "unlink"} => job.cfg.hash = 1 /\ admin.hash = 1

\* Both rows are saved, or somebody is, or has ended, between them.
Both == torn \/ (\E a \in Actors : Half(a)) \/ proxyRow.ext = legacy.ext

Migrating ==
    /\ bootstrap = None /\ FromOne(legacy)
    /\ admin.hash \in {None, 1}
    /\ admin.hash = 1 => Both
    /\ \A a \in {Daemon, Cli} : StartOK(jobs[a])

MInv ==
    ~started =>
        /\ memory = None
        /\ \A r \in Requests : At(r, "idle")
        /\ \A a \in {Daemon, Cli} : jobs[a].at \in Starting \cup {"adopt"}
        /\ HasPassword => Migrating /\ \A a \in {Daemon, Cli} : jobs[a].at \in Starting

LEMMA InitMInv == AdminInit => MInv
<1> SUFFICES ASSUME AdminInit PROVE MInv
  OBVIOUS
<1>1. \A a \in Actors : jobs[a].at = "idle"
  BY DEF AdminInit, Idle
<1>2. memory = None
  BY DEF AdminInit
<1>3. HasPassword => bootstrap = None /\ FromOne(legacy) /\ admin.hash = None
  <2>1. CASE legacy = None
    BY <2>1 DEF HasPassword
  <2>2. CASE /\ admin = NoRow /\ bootstrap = None
             /\ legacy \in LegacyFiles
    BY <2>2 DEF NoRow, Admin, LegacyFiles, FromOne
  <2> QED
    BY <2>1, <2>2 DEF AdminInit
<1>4. None # 1
  BY Shapes, AdminAssumption
<1> QED
  BY <1>1, <1>2, <1>3, <1>4, Apart DEF MInv, Migrating, StartOK, Starting, At

\* A process goes on while a file with a password is there.
LEMMA Migrates ==
    ASSUME RInv, MInv, HasPassword, ~started, NEW a \in {Daemon, Cli}, NEW new, Becomes(a, new),
           new.at \in Starting,
           UNCHANGED <<started, memory, legacy, bootstrap>>,
           StartOK(new)', torn => torn', Half(a) => torn' \/ proxyRow'.ext = legacy.ext,
           proxyRow'.ext \in {proxyRow.ext, legacy.ext},
           \/ UNCHANGED admin
           \/ admin'.hash = 1 /\ new.at = "saveProxy"
    PROVE  MInv'
<1>1. /\ jobs'[a] = new /\ \A b \in Actors \ {a} : jobs'[b] = jobs[b]
      /\ a \in Actors
  BY Apart DEF Becomes, RInv
<1>2. /\ memory = None /\ (\A r \in Requests : At(r, "idle"))
      /\ (\A b \in {Daemon, Cli} : jobs[b].at \in Starting) /\ Migrating
  BY DEF MInv
<1>3. \A b \in {Daemon, Cli} : jobs'[b].at \in Starting /\ StartOK(jobs[b])'
  BY <1>1, <1>2, Apart DEF Migrating, StartOK
<1>4. (admin'.hash = 1) => Both'
  <2> SUFFICES ASSUME admin'.hash = 1 PROVE Both'
    OBVIOUS
  <2>1. CASE new.at = "saveProxy"
    BY <1>1, <2>1 DEF Both, Half, At
  <2>2. CASE UNCHANGED admin
    <3>1. Both
      BY <1>2, <2>2 DEF Migrating
    <3>2. CASE \E b \in Actors : Half(b)
      <4>1. PICK b \in Actors : Half(b)
        BY <3>2
      <4>2. CASE b = a
        BY <4>1, <4>2 DEF Both
      <4>3. CASE b # a
        BY <1>1, <4>1, <4>3 DEF Both, Half, At
      <4> QED
        BY <4>2, <4>3
    <3> QED
      BY <3>1, <3>2 DEF Both
  <2> QED
    BY <2>1, <2>2
<1>5. Migrating'
  BY <1>2, <1>3, <1>4 DEF Migrating
<1>6. \A r \in Requests : At(r, "idle")'
  BY <1>1, <1>2, Apart DEF At
<1> QED
  BY <1>2, <1>3, <1>5, <1>6 DEF MInv, HasPassword

\* A process goes on while there is none.
LEMMA Starts ==
    ASSUME RInv, MInv, ~HasPassword, ~started, NEW a \in {Daemon, Cli}, NEW new, Becomes(a, new),
           new.at \in Starting \cup {"adopt"},
           UNCHANGED <<memory, legacy, started>>
    PROVE  MInv'
<1>1. jobs'[a] = new /\ \A b \in Actors \ {a} : jobs'[b] = jobs[b]
  BY Apart DEF Becomes, RInv
<1> QED
  BY <1>1, Apart DEF MInv, At, HasPassword

\* The steps of a start but for its last.
LEMMA StartMigrates ==
    ASSUME RInv, MInv, ~started, NEW a \in {Daemon, Cli},
           \/ StartProcess(a) \/ Import(a) \/ GetAdmin(a) \/ GetProxy(a) \/ ReadFile(a)
           \/ SaveAdmin(a) \/ SaveProxy(a) \/ Create(a) \/ Recover(a) \/ Adopt(a)
    PROVE  MInv'
<1>0. /\ jobs[a] \in Jobs /\ jobs[a].cfg \in Readable /\ jobs[a].proxy \in ProxyRows
      /\ a \in Actors /\ Stored /\ None # 1
  BY Apart, Carried, Shapes, AdminAssumption DEF RInv
<1>1. UNCHANGED <<memory, legacy, bootstrap, started, torn>>
  BY DEF StartProcess, Import, GetAdmin, GetProxy, ReadFile, SaveAdmin, SaveProxy, Create,
         Recover, Adopt, files, live, past
<1>2. ASSUME ~HasPassword PROVE MInv'
  <2>1. \E new : Becomes(a, new) /\ new.at \in Starting \cup {"adopt"}
    <3>1. ASSUME NEW there \in Starting \cup {"adopt"}, Then(a, there)
          PROVE  \E new : Becomes(a, new) /\ new.at \in Starting \cup {"adopt"}
      BY <1>0, <3>1 DEF Then, Jobs
    <3>2. CASE Ends(a)
      BY <3>2 DEF Ends, Idle, Starting
    <3>3. \A there, cfg, proxy :
             /\ [Idle EXCEPT !.at = there, !.kind = "start"].at = there
             /\ [jobs[a] EXCEPT !.at = there, !.cfg = cfg].at = there
             /\ [jobs[a] EXCEPT !.at = there, !.cfg = cfg, !.proxy = proxy].at = there
      BY <1>0 DEF Jobs, Idle
    <3>4. CASE StartProcess(a)
      <4> DEFINE new == [Idle EXCEPT !.at = IF marker THEN "admin" ELSE "import", !.kind = "start"]
      <4>1. Becomes(a, new) /\ new.at \in Starting
        BY <3>3, <3>4 DEF StartProcess, Starting
      <4> QED
        BY <4>1
    <3>5. CASE Import(a) \/ SaveAdmin(a) \/ SaveProxy(a) \/ Adopt(a)
      BY <3>1, <3>2, <3>5 DEF Import, SaveAdmin, SaveProxy, Adopt, Starting
    <3>6. CASE GetAdmin(a)
      <4> DEFINE new == [jobs[a] EXCEPT !.at = "proxy", !.cfg = Config(admin, FALSE)]
      <4>1. Becomes(a, new) /\ new.at = "proxy"
        BY <3>3, <3>6 DEF GetAdmin
      <4> QED
        BY <4>1 DEF Starting
    <3>7. CASE GetProxy(a)
      <4> DEFINE new == [jobs[a] EXCEPT !.at = "file", !.proxy = proxyRow, !.cfg.ext = proxyRow.ext]
      <4>1. Becomes(a, new) /\ new.at = "file"
        BY <1>0, <3>7 DEF GetProxy, Jobs
      <4> QED
        BY <4>1 DEF Starting
    <3>8. CASE ReadFile(a)
      <4> DEFINE new == [jobs[a] EXCEPT !.at = "saveAdmin", !.cfg = FromFile(legacy),
                                        !.proxy = Exposed(jobs[a].proxy, legacy)]
      <4>1. Then(a, "create") \/ Becomes(a, new)
        BY <3>8 DEF ReadFile
      <4>2. new.at = "saveAdmin"
        BY <3>3
      <4> HIDE DEF new
      <4> QED
        BY <3>1, <4>1, <4>2 DEF Starting
    <3>9. CASE Create(a) \/ Recover(a)
      <4> DEFINE made == [jobs[a] EXCEPT !.at = "unlink", !.cfg = Config(admin', jobs[a].cfg.ext)]
                 found == [jobs[a] EXCEPT !.at = "adopt", !.cfg.plain = bootstrap]
      <4>1. Then(a, "recover") \/ Then(a, "unlink") \/ Becomes(a, made) \/ Becomes(a, found)
        BY <3>9 DEF Create, Recover
      <4>2. made.at = "unlink"
        BY <3>3
      <4>3. found.at = "adopt"
        BY <1>0 DEF Jobs
      <4> HIDE DEF made, found
      <4> QED
        BY <3>1, <4>1, <4>2, <4>3 DEF Starting
    <3> QED
      BY <3>4, <3>5, <3>6, <3>7, <3>8, <3>9
  <2> QED
    BY <1>1, <1>2, <2>1, Starts
<1>3. ASSUME HasPassword PROVE MInv'
  <2>0. /\ Migrating /\ StartOK(jobs[a]) /\ jobs[a].at \in Starting
    BY <1>3 DEF MInv, Migrating
  \* A step that stores nothing.
  <2>1. ASSUME NEW new, Becomes(a, new), new.at \in Starting, StartOK(new), ~Half(a),
               UNCHANGED admin, proxyRow'.ext = proxyRow.ext
        PROVE  MInv'
    <3>1. StartOK(new)'
      BY <1>1, <2>1 DEF StartOK
    <3> QED
      BY <1>1, <1>3, <2>1, <3>1, Migrates
  <2>2. CASE StartProcess(a)
    <3> DEFINE new == [Idle EXCEPT !.at = IF marker THEN "admin" ELSE "import", !.kind = "start"]
    <3>1. new.at \in {"admin", "import"}
      BY DEF Idle
    <3>2. Becomes(a, new) /\ ~Half(a) /\ UNCHANGED <<admin, proxyRow>>
      BY <2>2 DEF StartProcess, Half, At
    <3> HIDE DEF new
    <3>3. StartOK(new) /\ new.at \in Starting
      BY <3>1 DEF StartOK, Starting
    <3> QED
      BY <2>1, <3>2, <3>3
  <2>3. CASE Import(a)
    <3>1. UNCHANGED admin /\ proxyRow'.ext = proxyRow.ext /\ ~Half(a)
      BY <1>0, <2>3 DEF Import, Stored, ProxyRows, Half, At
    <3>2. CASE Ends(a)
      BY <2>1, <3>1, <3>2 DEF Ends, Idle, StartOK, Starting
    <3>3. CASE Then(a, "admin")
      <4> DEFINE new == [jobs[a] EXCEPT !.at = "admin"]
      <4>1. new.at = "admin"
        BY <1>0 DEF Jobs
      <4>2. Becomes(a, new)
        BY <3>3 DEF Then
      <4> HIDE DEF new
      <4> QED
        BY <2>1, <3>1, <4>1, <4>2 DEF StartOK, Starting
    <3> QED
      BY <2>3, <3>2, <3>3 DEF Import
  <2>4. CASE GetAdmin(a)
    <3> DEFINE cfg == Config(admin, FALSE)
               new == [jobs[a] EXCEPT !.at = "proxy", !.cfg = cfg]
    <3>1. new.at = "proxy" /\ new.cfg.hash = admin.hash
      BY <1>0 DEF Jobs, Config
    <3>2. Becomes(a, new) /\ ~Half(a) /\ UNCHANGED <<admin, proxyRow>>
      BY <2>4 DEF GetAdmin, Half, At
    <3> HIDE DEF new
    <3> QED
      BY <2>0, <2>1, <3>1, <3>2 DEF StartOK, Starting, Migrating
  <2>5. CASE GetProxy(a)
    <3> DEFINE cfg == [jobs[a].cfg EXCEPT !.ext = proxyRow.ext]
               new == [jobs[a] EXCEPT !.at = "file", !.proxy = proxyRow, !.cfg = cfg]
    <3>1. cfg.hash = jobs[a].cfg.hash
      BY <1>0 DEF Readable, Recoverable, SomePlain
    <3>2. /\ Becomes(a, new) /\ ~Half(a) /\ UNCHANGED <<admin, proxyRow>>
      <4>1. [jobs[a] EXCEPT !.at = "file", !.proxy = proxyRow, !.cfg.ext = proxyRow.ext] = new
        BY <1>0 DEF Jobs
      <4> QED
        BY <4>1, <2>5 DEF GetProxy, Half, At
    <3> HIDE DEF cfg
    <3>3. new.at = "file" /\ new.cfg.hash = jobs[a].cfg.hash
      BY <1>0, <3>1 DEF Jobs
    <3> HIDE DEF new
    <3>4. StartOK(new)
      BY <2>0, <2>5, <3>3 DEF StartOK, GetProxy, At
    <3> QED
      BY <2>1, <3>2, <3>3, <3>4 DEF Starting
  <2>6. CASE ReadFile(a)
    <3>1. ~Half(a) /\ UNCHANGED <<admin, proxyRow>> /\ jobs[a].at = "file"
      BY <2>6 DEF ReadFile, Half, At
    <3>2. CASE jobs[a].cfg.hash = None
      <4> DEFINE cfg == FromFile(legacy)
                 proxy == Exposed(jobs[a].proxy, legacy)
                 new == [jobs[a] EXCEPT !.at = "saveAdmin", !.cfg = cfg, !.proxy = proxy]
      <4>1. cfg.hash = 1
        BY <1>0, <1>3, <2>0 DEF FromFile, Config, Admin, HasPassword, Migrating, FromOne
      <4>2. proxy.ext = legacy.ext
        BY <1>0 DEF Exposed, ProxyRows
      <4>3. Becomes(a, new)
        BY <1>3, <2>6, <3>2 DEF ReadFile, HasPassword
      <4> HIDE DEF cfg, proxy
      <4>4. new.at = "saveAdmin" /\ new.cfg = cfg /\ new.proxy = proxy
        BY <1>0 DEF Jobs
      <4> HIDE DEF new
      <4> QED
        BY <2>1, <3>1, <4>1, <4>2, <4>3, <4>4 DEF StartOK, Starting
    <3>3. CASE jobs[a].cfg.hash # None
      <4> DEFINE new == [jobs[a] EXCEPT !.at = "create"]
      <4>1. new.at = "create" /\ new.cfg = jobs[a].cfg
        BY <1>0 DEF Jobs
      <4>2. Becomes(a, new)
        BY <2>6, <3>3 DEF ReadFile, Then
      <4> HIDE DEF new
      <4>3. StartOK(new)
        BY <2>0, <3>1, <3>3, <4>1 DEF StartOK
      <4> QED
        BY <2>1, <3>1, <4>1, <4>2, <4>3 DEF Starting
    <3> QED
      BY <3>2, <3>3
  <2>7. CASE SaveAdmin(a)
    <3>0. PICK new : new = [jobs[a] EXCEPT !.at = "saveProxy"]
      OBVIOUS
    <3>1. new.at = "saveProxy" /\ new.cfg = jobs[a].cfg /\ new.proxy = jobs[a].proxy
      BY <1>0, <3>0 DEF Jobs
    <3>2. /\ Becomes(a, new) /\ UNCHANGED proxyRow /\ ~Half(a) /\ jobs[a].at = "saveAdmin"
          /\ admin'.hash = jobs[a].cfg.hash
      BY <2>7, <3>0 DEF SaveAdmin, Then, Half, At, Row, Admin
    <3>3. admin'.hash = 1 /\ StartOK(new)'
      BY <1>1, <2>0, <3>1, <3>2 DEF StartOK
    <3> QED
      BY <1>1, <1>3, <3>1, <3>2, <3>3, Migrates DEF Starting
  <2>8. CASE SaveProxy(a)
    <3>0. PICK new : new = [jobs[a] EXCEPT !.at = "create"]
      OBVIOUS
    <3>1. new.at = "create" /\ new.cfg = jobs[a].cfg
      BY <1>0, <3>0 DEF Jobs
    <3>2. Becomes(a, new) /\ UNCHANGED admin /\ proxyRow' = jobs[a].proxy /\ jobs[a].at = "saveProxy"
      BY <2>8, <3>0 DEF SaveProxy, Then, At
    <3>3. StartOK(new)' /\ proxyRow'.ext = legacy.ext
      BY <1>1, <2>0, <3>1, <3>2 DEF StartOK
    <3> QED
      BY <1>1, <1>3, <3>1, <3>2, <3>3, Migrates DEF Starting
  <2>9. CASE Create(a) \/ Recover(a)
    <3>1. jobs[a].cfg.hash = 1 /\ admin.hash = 1 /\ ~Half(a) /\ bootstrap = None
      BY <2>0, <2>9 DEF Create, Recover, StartOK, At, Half, Migrating
    <3>2. UNCHANGED <<admin, proxyRow>>
      BY <1>0, <2>9, <3>1 DEF Create, Recover
    <3>3. \E there \in {"recover", "unlink"} : Then(a, there)
      BY <1>0, <2>9, <3>1 DEF Create, Recover, Recovers
    <3>4. PICK there \in {"recover", "unlink"} : Then(a, there)
      BY <3>3
    <3> DEFINE new == [jobs[a] EXCEPT !.at = there]
    <3>5. new.at = there /\ new.cfg = jobs[a].cfg
      BY <1>0 DEF Jobs
    <3>6. Becomes(a, new)
      BY <3>4 DEF Then
    <3> HIDE DEF new
    <3>7. StartOK(new)
      BY <3>1, <3>5 DEF StartOK
    <3> QED
      BY <2>1, <3>1, <3>2, <3>5, <3>6, <3>7 DEF Starting
  <2>10. ~Adopt(a)
    BY <2>0 DEF Adopt, At, Starting
  <2> QED
    BY <2>2, <2>3, <2>4, <2>5, <2>6, <2>7, <2>8, <2>9, <2>10
<1> QED
  BY <1>2, <1>3

\* Nothing else happens before a start completes, but that one ends.
LEMMA Quiet ==
    ASSUME RInv, MInv, ~started
    PROVE  /\ ~(CredentialsCmd \/ AdminConfigCmd \/ InstallCmd \/ CommandSaved \/ RestartProcess)
           /\ ~(UpdateGet(Cli) \/ UpdateAdmin(Cli) \/ UpdateProxy(Cli))
           /\ \A r \in Requests :
                ~(\/ UpdateCredentials(r) \/ UpdateAccess(r) \/ UpdateSystemConfig(r)
                  \/ SystemPrepare(r) \/ UpdateAll(r)
                  \/ UpdateGet(r) \/ UpdateAdmin(r) \/ UpdateProxy(r) \/ SetConfig(r) \/ Clear(r))
           /\ ~StatementFails
<1>1. memory = None /\ (\A r \in Requests : At(r, "idle")) /\ jobs[Cli].at \in Starting \cup {"adopt"}
  BY DEF MInv
<1>2. ~(CredentialsCmd \/ AdminConfigCmd \/ InstallCmd \/ CommandSaved \/ RestartProcess)
  BY <1>1 DEF CredentialsCmd, AdminConfigCmd, InstallCmd, CommandSaved, RestartProcess, At, Starting
<1>3. ~(UpdateGet(Cli) \/ UpdateAdmin(Cli) \/ UpdateProxy(Cli))
  BY <1>1 DEF UpdateGet, UpdateAdmin, UpdateProxy, At, Starting
<1>4. ASSUME NEW r \in Requests
      PROVE  ~(\/ UpdateCredentials(r) \/ UpdateAccess(r) \/ UpdateSystemConfig(r)
               \/ SystemPrepare(r) \/ UpdateAll(r)
               \/ UpdateGet(r) \/ UpdateAdmin(r) \/ UpdateProxy(r) \/ SetConfig(r) \/ Clear(r))
  BY <1>1 DEF UpdateCredentials, UpdateAccess, UpdateSystemConfig, Authorized, SystemPrepare,
              UpdateAll, UpdateGet, UpdateAdmin, UpdateProxy, SetConfig, Clear, At
<1>5. ~StatementFails
  BY <1>1 DEF StatementFails, At
<1> QED
  BY <1>2, <1>3, <1>4, <1>5

LEMMA EndMigrates ==
    ASSUME RInv, MInv, ~started, Crash
    PROVE  MInv'
<1> DEFINE Over(gone) ==
        /\ jobs'[gone].at = "idle" /\ (torn \/ Half(gone) => torn')
        /\ \A b \in Actors \ {gone} : jobs'[b] = jobs[b] \/ (jobs'[b].at = "idle" /\ b \in Requests)
        /\ memory' \in {memory, None}
<1>1. PICK gone \in {Daemon, Cli} : Over(gone)
  <2>1. CASE DaemonGone /\ torn' = (torn \/ Half(Daemon))
    <3>1. /\ jobs'[Daemon] = Idle /\ jobs'[Cli] = jobs[Cli] /\ memory' = None
          /\ \A r \in Requests : jobs'[r] = Idle
      BY <2>1, Apart DEF DaemonGone
    <3>2. Idle.at = "idle"
      BY DEF Idle
    <3>3. \A b \in Actors \ {Daemon} : b = Cli \/ b \in Requests
      BY DEF Actors
    <3>4. torn \/ Half(Daemon) => torn'
      BY <2>1
    <3>5. Over(Daemon)
      BY <3>1, <3>2, <3>3, <3>4
    <3> QED
      BY <3>5
  <2>2. CASE Ends(Cli) /\ torn' = (torn \/ Half(Cli)) /\ UNCHANGED live
    <3>1. /\ jobs'[Cli] = Idle /\ (\A b \in Actors \ {Cli} : jobs'[b] = jobs[b])
          /\ memory' = memory
      BY <2>2, Apart DEF Ends, Becomes, RInv, live
    <3>2. Idle.at = "idle"
      BY DEF Idle
    <3>3. torn \/ Half(Cli) => torn'
      BY <2>2
    <3>4. Over(Cli)
      BY <3>1, <3>2, <3>3
    <3> QED
      BY <3>4
  <2> QED
    BY <2>1, <2>2 DEF Crash
<1>2. UNCHANGED <<admin, proxyRow, legacy, bootstrap, started>>
  BY DEF Crash, files
<1>3. /\ memory = None /\ (\A r \in Requests : At(r, "idle"))
      /\ (\A b \in {Daemon, Cli} : jobs[b].at \in Starting \cup {"adopt"})
      /\ HasPassword => Migrating /\ \A b \in {Daemon, Cli} : jobs[b].at \in Starting
  BY DEF MInv
<1>4. /\ memory' = None /\ (\A r \in Requests : At(r, "idle"))'
      /\ (\A b \in {Daemon, Cli} : jobs[b].at \in Starting \cup {"adopt"})'
      /\ HasPassword => (\A b \in {Daemon, Cli} : jobs[b].at \in Starting)'
  BY <1>1, <1>3, Apart DEF At, Starting
<1>5. ASSUME HasPassword PROVE Migrating'
  <2>1. \A b \in {Daemon, Cli} : StartOK(jobs[b])'
    BY <1>1, <1>2, <1>3, <1>5, Apart DEF Migrating, StartOK
  <2>2. Both => Both'
    <3>1. ASSUME NEW b \in Actors, Half(b) PROVE Both'
      <4>1. CASE b = gone
        BY <1>1, <3>1, <4>1 DEF Both
      <4>2. CASE b # gone
        BY <1>1, <1>3, <3>1, <4>2 DEF Both, Half, At
      <4> QED
        BY <4>1, <4>2
    <3> QED
      BY <1>1, <1>2, <3>1 DEF Both
  <2> QED
    BY <1>2, <1>3, <1>5, <2>1, <2>2 DEF Migrating
<1> QED
  BY <1>2, <1>4, <1>5 DEF MInv, HasPassword

LEMMA StepMInv == RInv /\ MInv /\ [AdminNext]_adminVars => MInv'
<1> SUFFICES ASSUME RInv, MInv, [AdminNext]_adminVars PROVE MInv'
  OBVIOUS
<1>1. CASE started'
  BY <1>1 DEF MInv
<1>2. CASE ~started' /\ AdminNext
  <2>1. ~started
    BY <1>2 DEF AdminNext, ProcessSteps, ServeSteps, StartProcess, Import, GetAdmin, GetProxy,
                ReadFile, SaveAdmin, SaveProxy, Create, Recover, Adopt, Unlink, CredentialsCmd,
                AdminConfigCmd, InstallCmd, UpdateGet, UpdateAdmin, UpdateProxy, CommandSaved,
                RestartProcess, Crash, UpdateCredentials, UpdateAccess, UpdateSystemConfig,
                SystemPrepare, UpdateAll, SetConfig, Clear, Verify, CreateSession, RemoveSession,
                StatementFails, past
  <2>2. CASE \E l \in Logins : Verify(l) \/ CreateSession(l)
    <3>1. UNCHANGED <<memory, admin, proxyRow, files, jobs, past>>
      BY <2>2 DEF Verify, CreateSession
    <3> QED
      BY <3>1 DEF MInv, Migrating, StartOK, Both, Half, At, HasPassword, files, past
  <2>3. CASE RemoveSession
    <3>1. UNCHANGED <<memory, admin, proxyRow, files, jobs, past>>
      BY <2>3 DEF RemoveSession
    <3> QED
      BY <3>1 DEF MInv, Migrating, StartOK, Both, Half, At, HasPassword, files, past
  <2>4. \A a \in {Daemon, Cli} : Unlink(a) => started'
    BY DEF Unlink
  <2> QED
    BY <1>2, <2>1, <2>2, <2>3, <2>4, Quiet, StartMigrates, EndMigrates
       DEF AdminNext, ProcessSteps, ServeSteps
<1>3. CASE UNCHANGED adminVars
  BY <1>3 DEF adminVars, live, files, past, MInv, Migrating, StartOK, Both, Half, At, HasPassword
<1> QED
  BY <1>1, <1>2, <1>3

\* security.loadOrCreate, the one-time migration of web-config.json, by the
\* daemon and a command at the same time and with crashes anywhere: when the
\* first start to complete removes the file, the password stored is the file's,
\* and so is its exposure unless somebody is, or has ended, between the rows.
THEOREM MigrationLosesNothing == AdminSpec => MigrationKept
<1> DEFINE Kept == (~started /\ started' /\ HasPassword) => admin.hash = 1 /\ Both
<1>1. RInv /\ MInv /\ [AdminNext]_adminVars => Kept
  <2> SUFFICES ASSUME RInv, MInv, AdminNext, ~started, started', HasPassword
               PROVE  admin.hash = 1 /\ Both
    BY DEF adminVars, past
  <2>1. PICK a \in {Daemon, Cli} : Unlink(a)
    BY DEF AdminNext, ProcessSteps, ServeSteps, StartProcess, Import, GetAdmin, GetProxy,
           ReadFile, SaveAdmin, SaveProxy, Create, Recover, Adopt, CredentialsCmd,
           AdminConfigCmd, InstallCmd, UpdateGet, UpdateAdmin, UpdateProxy, CommandSaved,
           RestartProcess, Crash, UpdateCredentials, UpdateAccess, UpdateSystemConfig,
           SystemPrepare, UpdateAll, SetConfig, Clear, Verify, CreateSession, RemoveSession,
           StatementFails, past
  <2>2. StartOK(jobs[a]) /\ Migrating
    BY DEF MInv, Migrating
  <2> QED
    BY <2>1, <2>2 DEF Unlink, At, StartOK, Migrating
<1>2. Kept => (((/\ ~started /\ started' /\ legacy # None
                 /\ legacy.hash # None \/ legacy.plain # None)
       => /\ admin.hash = 1
          /\ torn \/ (\E a \in Actors : Half(a)) \/ proxyRow.ext = legacy.ext))
  BY DEF HasPassword, Both
<1> HIDE DEF Kept
<1> QED
  BY <1>1, <1>2, InitRInv, InitMInv, StepRInv, StepMInv, PTL DEF AdminSpec, MigrationKept

-----------------------------------------------------------------------------
(* The types.                                                              *)

\* Who is at nothing, and nobody else, is of no kind.
Kinded == \A a \in Actors : jobs[a].kind = "none" <=> jobs[a].at = "idle"

Served ==
    /\ marker \in BOOLEAN /\ restart \in BOOLEAN /\ mayRestart \in BOOLEAN
    /\ lost \in BOOLEAN /\ carried \in BOOLEAN /\ torn \in BOOLEAN /\ started \in BOOLEAN
    /\ sessions \subseteq [hash : Hashes, raced : BOOLEAN] /\ logins \in [Logins -> SomeHash]
    /\ calls \in 0..MaxCalls /\ faults \in 0..MaxFaults

\* An actor begins, goes on or ends.
LEMMA KindSet ==
    ASSUME RInv, Kinded, NEW a \in Actors, NEW new, Becomes(a, new),
           new.kind = "none" <=> new.at = "idle"
    PROVE  Kinded'
  BY DEF RInv, Kinded, Becomes

LEMMA KindKept ==
    ASSUME RInv, Kinded, NEW a \in Actors, jobs[a].at # "idle", NEW there, there # "idle",
           NEW new, Becomes(a, new), new.kind = jobs[a].kind, new.at = there
    PROVE  Kinded'
  BY KindSet DEF Kinded

LEMMA KindGoes ==
    ASSUME RInv, Kinded, NEW a \in Actors, jobs[a].at # "idle", NEW there, there # "idle",
           Then(a, there)
    PROVE  Kinded'
<1>1. jobs[a] \in Jobs
  BY Carried
<1>2. [jobs[a] EXCEPT !.at = there].kind = jobs[a].kind
      /\ [jobs[a] EXCEPT !.at = there].at = there
  BY <1>1 DEF Jobs
<1> QED
  BY <1>2, KindKept DEF Then

LEMMA KindEnds ==
    ASSUME RInv, Kinded, NEW a \in Actors, Ends(a)
    PROVE  Kinded'
  BY KindSet DEF Ends, Idle

LEMMA KindStarts ==
    ASSUME RInv, Kinded, NEW a \in {Daemon, Cli},
           \/ StartProcess(a) \/ Import(a) \/ GetAdmin(a) \/ GetProxy(a) \/ ReadFile(a)
           \/ SaveAdmin(a) \/ SaveProxy(a) \/ Create(a) \/ Recover(a) \/ Adopt(a) \/ Unlink(a)
    PROVE  Kinded'
<1>0. a \in Actors /\ jobs[a] \in Jobs
  BY Members, Carried
<1>1. CASE StartProcess(a)
  BY <1>0, <1>1, KindSet DEF StartProcess, Idle
<1>2. CASE Import(a)
  BY <1>0, <1>2, KindGoes, KindEnds DEF Import, At
<1>3. CASE GetAdmin(a)
  <2>1. \A c : LET new == [jobs[a] EXCEPT !.at = "proxy", !.cfg = c]
               IN new.kind = jobs[a].kind /\ new.at = "proxy"
    BY <1>0 DEF Jobs
  <2> QED
    BY <1>0, <1>3, <2>1, KindKept DEF GetAdmin, At
<1>4. CASE GetProxy(a)
  <2>1. LET new == [jobs[a] EXCEPT !.at = "file", !.proxy = proxyRow, !.cfg.ext = proxyRow.ext]
        IN new.kind = jobs[a].kind /\ new.at = "file"
    BY <1>0 DEF Jobs
  <2> QED
    BY <1>0, <1>4, <2>1, KindKept DEF GetProxy, At
<1>5. CASE ReadFile(a)
  <2>1. LET new == [jobs[a] EXCEPT !.at = "saveAdmin", !.cfg = FromFile(legacy),
                                   !.proxy = Exposed(@, legacy)]
        IN new.kind = jobs[a].kind /\ new.at = "saveAdmin"
    BY <1>0 DEF Jobs
  <2> QED
    BY <1>0, <1>5, <2>1, KindGoes, KindKept DEF ReadFile, At
<1>6. CASE SaveAdmin(a) \/ SaveProxy(a) \/ Adopt(a)
  BY <1>0, <1>6, KindGoes DEF SaveAdmin, SaveProxy, Adopt, At
<1>7. CASE Create(a)
  <2>1. \A c : LET new == [jobs[a] EXCEPT !.at = "unlink", !.cfg = c]
               IN new.kind = jobs[a].kind /\ new.at = "unlink"
    BY <1>0 DEF Jobs
  <2> QED
    BY <1>0, <1>7, <2>1, KindGoes, KindKept DEF Create, At
<1>8. CASE Recover(a)
  <2>1. LET new == [jobs[a] EXCEPT !.at = "adopt", !.cfg.plain = bootstrap]
        IN new.kind = jobs[a].kind /\ new.at = "adopt"
    BY <1>0 DEF Jobs
  <2> QED
    BY <1>0, <1>8, <2>1, KindGoes, KindKept DEF Recover, At
<1>9. CASE Unlink(a)
  BY <1>0, <1>9, KindGoes, KindEnds DEF Unlink, At
<1> QED
  BY <1>1, <1>2, <1>3, <1>4, <1>5, <1>6, <1>7, <1>8, <1>9

LEMMA KindSaves ==
    ASSUME RInv, Kinded, NEW a \in Actors,
           \/ UpdateGet(a) \/ UpdateAdmin(a) \/ UpdateProxy(a) \/ UpdateAll(a)
           \/ SetConfig(a) \/ Clear(a)
    PROVE  Kinded'
<1>0. jobs[a] \in Jobs
  BY Carried
<1>1. CASE UpdateGet(a)
  <2>1. \A p : LET new == [jobs[a] EXCEPT !.at = "updateAdmin", !.proxy = p]
               IN new.kind = jobs[a].kind /\ new.at = "updateAdmin"
    BY <1>0 DEF Jobs
  <2> QED
    BY <1>1, <2>1, KindKept DEF UpdateGet, At
<1>2. CASE UpdateAdmin(a) \/ UpdateProxy(a) \/ UpdateAll(a)
  BY <1>2, KindGoes DEF UpdateAdmin, UpdateProxy, UpdateAll, At
<1>3. CASE SetConfig(a) \/ Clear(a)
  BY <1>3, KindGoes, KindEnds DEF SetConfig, Clear, At
<1> QED
  BY <1>1, <1>2, <1>3

\* A call begins to save, or says what it will.
LEMMA KindBegins ==
    ASSUME RInv, Kinded,
           \/ \E r \in Requests : \/ UpdateCredentials(r) \/ UpdateAccess(r)
                                  \/ UpdateSystemConfig(r) \/ SystemPrepare(r)
           \/ CredentialsCmd \/ AdminConfigCmd \/ InstallCmd \/ CommandSaved
    PROVE  Kinded'
<1>1. Cli \in Actors /\ Requests \subseteq Actors
  BY Members
<1>2. \A a, kind, cfg, prev : /\ Saving(a, kind, cfg, prev).kind = kind
                              /\ Saving(a, kind, cfg, prev).at = "get"
  BY DEF Saving, Idle
<1>3. CASE CredentialsCmd \/ CommandSaved
  BY <1>1, <1>3, KindEnds DEF CredentialsCmd, CommandSaved
<1>4. CASE AdminConfigCmd
  BY <1>1, <1>2, <1>4, KindSet DEF AdminConfigCmd
<1>5. CASE InstallCmd
  BY <1>1, <1>2, <1>5, KindSet, KindEnds DEF InstallCmd
<1>6. ASSUME NEW r \in Requests, UpdateCredentials(r) \/ UpdateAccess(r) PROVE Kinded'
  <2>1. \E kind \in {"credentials", "access"} : \E cfg, prev : Becomes(r, Saving(r, kind, cfg, prev))
    BY <1>6 DEF UpdateCredentials, UpdateAccess
  <2> QED
    BY <1>1, <1>2, <2>1, KindSet
<1>7. ASSUME NEW r \in Requests, UpdateSystemConfig(r) PROVE Kinded'
  <2>1. \A cfg, prev : LET new == [Saving(r, "system", cfg, prev) EXCEPT !.at = "system"]
                       IN new.kind = "system" /\ new.at = "system"
    BY DEF Saving, Idle
  <2> QED
    BY <1>1, <1>7, <2>1, KindSet DEF UpdateSystemConfig
<1>8. ASSUME NEW r \in Requests, SystemPrepare(r) PROVE Kinded'
  <2>1. jobs[r] \in Jobs /\ r \in Actors /\ jobs[r].at = "system"
    BY <1>1, <1>8, Carried DEF SystemPrepare, At
  <2>2. \A h, c, p :
          LET new == [jobs[r] EXCEPT !.at = "updateAll", !.prev = h, !.cfg = c, !.proxy = p]
          IN new.kind = jobs[r].kind /\ new.at = "updateAll"
    BY <2>1 DEF Jobs
  <2>3. \/ Ends(r)
        \/ \E h : \E c : \E p :
             Becomes(r, [jobs[r] EXCEPT !.at = "updateAll", !.prev = h, !.cfg = c, !.proxy = p])
    BY <1>8 DEF SystemPrepare
  <2>4. ASSUME NEW h, NEW c, NEW p,
               Becomes(r, [jobs[r] EXCEPT !.at = "updateAll", !.prev = h, !.cfg = c, !.proxy = p])
        PROVE  Kinded'
    <3> DEFINE new == [jobs[r] EXCEPT !.at = "updateAll", !.prev = h, !.cfg = c, !.proxy = p]
    <3>1. new.kind = jobs[r].kind /\ new.at = "updateAll" /\ Becomes(r, new)
      BY <2>2, <2>4
    <3> HIDE DEF new
    <3> QED
      BY <2>1, <3>1, KindKept
  <2> QED
    BY <2>1, <2>3, <2>4, KindEnds
<1> QED
  BY <1>3, <1>4, <1>5, <1>6, <1>7, <1>8

LEMMA StepKinded == RInv /\ Kinded /\ [AdminNext]_adminVars => Kinded'
<1> SUFFICES ASSUME RInv, Kinded, [AdminNext]_adminVars PROVE Kinded'
  OBVIOUS
<1>0. Cli \in Actors /\ Requests \subseteq Actors
  BY Members
<1>1. CASE UNCHANGED jobs
  BY <1>1 DEF Kinded
<1>2. CASE DaemonGone
  BY <1>2 DEF DaemonGone, Kinded, Idle
<1>3. CASE RestartProcess \/ Crash \/ StatementFails
  BY <1>0, <1>2, <1>3, KindEnds DEF RestartProcess, Crash, StatementFails
<1>4. CASE UNCHANGED adminVars \/ RemoveSession \/ \E l \in Logins : Verify(l) \/ CreateSession(l)
  BY <1>1, <1>4 DEF adminVars, RemoveSession, Verify, CreateSession
<1>5. CASE ProcessSteps
  BY <1>0, <1>3, <1>5, KindStarts, KindBegins, KindSaves DEF ProcessSteps
<1>6. CASE ServeSteps
  BY <1>0, <1>3, <1>4, <1>6, KindBegins, KindSaves DEF ServeSteps
<1> QED
  BY <1>4, <1>5, <1>6 DEF AdminNext

\* What a step may change of the daemon's side.
LEMMA StepServed == RInv /\ Served /\ [AdminNext]_adminVars => Served'
<1> SUFFICES ASSUME RInv, Served, [AdminNext]_adminVars PROVE Served'
  OBVIOUS
<1> USE AdminAssumption DEF Served
<1>1. ASSUME UNCHANGED <<marker, mayRestart, restart, lost, carried, torn, started, sessions, logins>>,
             UNCHANGED <<calls, faults>> \/ (calls < MaxCalls /\ calls' = calls + 1 /\ UNCHANGED faults)
      PROVE  Served'
  BY <1>1
<1>2. ASSUME NEW a \in {Daemon, Cli},
             \/ StartProcess(a) \/ GetAdmin(a) \/ GetProxy(a) \/ ReadFile(a)
             \/ SaveAdmin(a) \/ SaveProxy(a) \/ Create(a) \/ Recover(a) \/ Adopt(a)
      PROVE  Served'
  BY <1>1, <1>2 DEF StartProcess, GetAdmin, GetProxy, ReadFile, SaveAdmin, SaveProxy, Create,
                    Recover, Adopt, files, live, past, NoFault
<1>3. ASSUME NEW a \in {Daemon, Cli}, Import(a) \/ Unlink(a) PROVE Served'
  BY <1>3 DEF Import, Unlink, live, past, NoFault
<1>4. ASSUME NEW a \in Actors, UpdateGet(a) \/ UpdateAdmin(a) \/ UpdateProxy(a) \/ UpdateAll(a)
      PROVE  Served'
  BY <1>1, <1>4 DEF UpdateGet, UpdateAdmin, UpdateProxy, UpdateAll, files, live, past, NoFault
<1>5. ASSUME NEW r \in Requests,
             UpdateCredentials(r) \/ UpdateAccess(r) \/ UpdateSystemConfig(r) \/ SystemPrepare(r)
      PROVE  Served'
  BY <1>1, <1>5 DEF UpdateCredentials, UpdateAccess, UpdateSystemConfig, SystemPrepare,
                    Authorized, files, live, past, NoFault
<1>6. ASSUME NEW r \in Requests, SetConfig(r) \/ Clear(r) PROVE Served'
  BY <1>6 DEF SetConfig, Clear, files, past, NoFault
<1>7. CASE CredentialsCmd \/ AdminConfigCmd \/ InstallCmd \/ CommandSaved
  BY <1>7 DEF CredentialsCmd, AdminConfigCmd, InstallCmd, CommandSaved, files, live, past, NoFault
<1>8. ASSUME NEW l \in Logins, Verify(l) PROVE Served'
  <2>1. memory.hash \in SomeHash
    BY <1>8 DEF Verify, RInv, Stored, Readable, Recoverable, SomePlain
  <2> QED
    BY <1>8, <2>1 DEF Verify, files, past, NoFault
<1>9. ASSUME NEW l \in Logins, CreateSession(l) PROVE Served'
  <2>1. logins[l] \in Hashes
    BY <1>9 DEF CreateSession, SomeHash
  <2> DEFINE s == [hash |-> logins[l], raced |-> logins[l] # memory.hash]
  <2>2. s \in [hash : Hashes, raced : BOOLEAN]
    BY <2>1
  <2>3. sessions' = sessions \cup {s} /\ logins' = [logins EXCEPT ![l] = None]
    BY <1>9 DEF CreateSession
  <2> HIDE DEF s
  <2>4. sessions' \subseteq [hash : Hashes, raced : BOOLEAN] /\ logins' \in [Logins -> SomeHash]
    BY <2>2, <2>3 DEF SomeHash
  <2> QED
    BY <1>9, <2>4 DEF CreateSession, files, past, NoFault
<1>10. CASE RemoveSession
  BY <1>10 DEF RemoveSession, files, past, NoFault
<1>11. CASE DaemonGone /\ UNCHANGED <<files, started, calls>> /\ torn' \in BOOLEAN
            /\ (UNCHANGED faults \/ (faults < MaxFaults /\ faults' = faults + 1))
  <2>1. sessions' = {} /\ logins' \in [Logins -> SomeHash]
        /\ {restart', lost', carried'} \subseteq BOOLEAN
    BY <1>11 DEF DaemonGone, SomeHash
  <2>2. marker' \in BOOLEAN /\ mayRestart' \in BOOLEAN /\ started' \in BOOLEAN
    BY <1>11 DEF files
  <2>3. calls' \in 0..MaxCalls /\ faults' \in 0..MaxFaults
    BY <1>11
  <2> QED
    BY <1>11, <2>1, <2>2, <2>3
<1>12. CASE RestartProcess
  BY <1>11, <1>12 DEF RestartProcess, NoFault
<1>13. CASE Crash \/ StatementFails
  <2>1. \A a : Half(a) \in BOOLEAN
    BY DEF Half, At
  <2> QED
    BY <1>11, <1>13, <2>1 DEF Crash, StatementFails, live, files, past
<1>14. CASE UNCHANGED adminVars
  BY <1>14 DEF adminVars, files, live, past
<1>15. Cli \in Actors /\ Requests \subseteq Actors
  BY Members
<1>16. CASE ProcessSteps
  BY <1>2, <1>3, <1>4, <1>7, <1>12, <1>13, <1>15, <1>16 DEF ProcessSteps
<1>17. CASE ServeSteps
  BY <1>4, <1>5, <1>6, <1>8, <1>9, <1>10, <1>13, <1>15, <1>17 DEF ServeSteps
<1> QED
  BY <1>14, <1>16, <1>17 DEF AdminNext

LEMMA InitTypes == AdminInit => Kinded /\ Served
<1> SUFFICES ASSUME AdminInit PROVE Kinded /\ Served
  OBVIOUS
<1>1. Kinded
  BY DEF AdminInit, Idle, Kinded
<1>2. logins \in [Logins -> SomeHash] /\ sessions = {} /\ marker \in BOOLEAN /\ mayRestart \in BOOLEAN
  BY DEF AdminInit, SomeHash
<1>3. calls = 0 /\ faults = 0 /\ ~restart /\ ~lost /\ ~carried /\ ~torn /\ ~started
      /\ {restart, lost, carried, torn, started} \subseteq BOOLEAN
  BY DEF AdminInit
<1> QED
  BY <1>1, <1>2, <1>3, AdminAssumption DEF Served

LEMMA AdminTyped == RInv /\ Kinded /\ Served => AdminTypeOK
<1> SUFFICES ASSUME RInv, Kinded, Served PROVE AdminTypeOK
  OBVIOUS
<1>1. /\ admin.hash \in Hashes \cup {None} /\ admin.path \in Paths
      /\ proxyRow.hash \in {None, 0} /\ proxyRow.ext \in BOOLEAN
      /\ bootstrap \in {None, 0, 1} /\ salt \in Hashes
  BY DEF RInv, Stored, AdminRows, ProxyRows, SomeHash, Recoverable, SomePlain
<1>2. memory \in Configs \cup {None}
  BY DEF RInv, Stored, Readable, Configs, SomeHash, Recoverable, SomePlain
<1>3. calls <= MaxCalls /\ faults <= MaxFaults
  BY AdminAssumption DEF Served
<1> QED
  BY <1>1, <1>2, <1>3 DEF AdminTypeOK, Kinded, Served, At, SomeHash

-----------------------------------------------------------------------------
(* The limiter.  What is let through is counted by the window it falls in: *)
(* the attempt that opened a window is as old as the window, so that a     *)
(* window that has elapsed leaves at most Limit - 1 attempts behind it.    *)

\* A window is open and has not elapsed.
Live(k) == k \in DOMAIN buckets /\ ~Elapsed(k)

Counted(k) ==
    /\ Live(k) => \A a \in Ages :
          allowed[k][a] <= buckets[k].count + (IF a < buckets[k].age THEN 0 ELSE Limit) - 1
    /\ ~Live(k) => \A a \in Ages : allowed[k][a] <= Limit - 1

Table == IsFiniteSet(DOMAIN buckets) /\ Cardinality(DOMAIN buckets) <= MaxKeys

\* An entry of the table.
Bucket == [count : 1..Limit, age : 0..Window]

LInv == /\ DOMAIN buckets \subseteq Keys
        /\ buckets \in [DOMAIN buckets -> Bucket]
        /\ allowed \in [Keys -> [Ages -> Nat]]
        /\ Table
        /\ \A k \in Keys : Counted(k)

LEMMA InitLInv == LimiterInit => LInv
<1> SUFFICES ASSUME LimiterInit PROVE LInv
  OBVIOUS
<1>1. DOMAIN buckets = {} /\ buckets \in [DOMAIN buckets -> Bucket]
  BY DEF LimiterInit
<1>2. Table
  BY <1>1, FS_EmptySet, LimiterAssumption DEF Table
<1>3. allowed \in [Keys -> [Ages -> Nat]] /\ \A k \in Keys, a \in Ages : allowed[k][a] = 0
  BY DEF LimiterInit, NoAttempts
<1>4. \A k \in Keys : Counted(k)
  BY <1>1, <1>3, LimiterAssumption DEF Counted, Live
<1> QED
  BY <1>1, <1>2, <1>3, <1>4 DEF LInv

\* The table holds another key, for which there was room.
LEMMA RoomForOne ==
    ASSUME LInv, NEW keys \in SUBSET DOMAIN buckets, NEW k \in Keys,
           k \in keys \/ Cardinality(keys) < MaxKeys
    PROVE  IsFiniteSet(keys \cup {k}) /\ Cardinality(keys \cup {k}) <= MaxKeys
<1>1. IsFiniteSet(keys) /\ Cardinality(keys) <= MaxKeys /\ Cardinality(keys) \in Nat
  <2>1. IsFiniteSet(DOMAIN buckets) /\ Cardinality(DOMAIN buckets) <= MaxKeys
    BY DEF LInv, Table
  <2>2. IsFiniteSet(keys) /\ Cardinality(keys) <= Cardinality(DOMAIN buckets)
    BY <2>1, FS_Subset
  <2> QED
    BY <2>1, <2>2, FS_CardinalityType, LimiterAssumption
<1>2. CASE k \in keys
  <2>1. keys \cup {k} = keys
    BY <1>2
  <2> QED
    BY <1>1, <2>1
<1>3. CASE k \notin keys
  <2>1. IsFiniteSet(keys \cup {k}) /\ Cardinality(keys \cup {k}) = Cardinality(keys) + 1
    BY <1>1, <1>3, FS_AddElement
  <2> QED
    BY <1>1, <1>3, <2>1, LimiterAssumption
<1> QED
  BY <1>2, <1>3

\* One attempt is let through, in window b of k.
LEMMA LetThrough ==
    ASSUME LInv, NEW keys \in SUBSET DOMAIN buckets, NEW k \in Keys, NEW b \in Bucket,
           k \in keys \/ Cardinality(keys) < MaxKeys,
           \A x \in DOMAIN buckets \ keys : x = k \/ Elapsed(x),
           b.age < Window,
           \A a \in Ages : allowed[k][a] <= b.count + (IF a < b.age THEN 0 ELSE Limit) - 2,
           Put(keys, k, b), LetsThrough(k)
    PROVE  LInv'
<1>1. DOMAIN buckets' = keys \cup {k} /\ keys \cup {k} \subseteq Keys
  BY DEF Put, LInv
<1>2. buckets'[k] = b /\ \A x \in keys \ {k} : buckets'[x] = buckets[x]
  BY DEF Put
<1>3. buckets' \in [keys \cup {k} -> Bucket]
  BY DEF Put, LInv
<1>4. /\ allowed' \in [Keys -> [Ages -> Nat]]
      /\ \A a \in Ages : allowed'[k][a] = allowed[k][a] + 1
      /\ \A x \in Keys \ {k} : allowed'[x] = allowed[x]
  <2> DEFINE more == [a \in Ages |-> allowed[k][a] + 1]
  <2>1. more \in [Ages -> Nat] /\ \A a \in Ages : more[a] = allowed[k][a] + 1
    BY DEF LInv
  <2>2. allowed' = [allowed EXCEPT ![k] = more]
    BY DEF LetsThrough
  <2> HIDE DEF more
  <2> QED
    BY <2>1, <2>2 DEF LInv
<1>5. Table'
  BY <1>1, RoomForOne DEF Table
<1>6. ASSUME NEW x \in Keys PROVE Counted(x)'
  <2>1. CASE x = k
    <3>1. Live(k)'
      BY <1>1, <1>2, LimiterAssumption DEF Live, Elapsed, Bucket
    <3>2. ASSUME NEW a \in Ages
          PROVE  allowed'[k][a] <= b.count + (IF a < b.age THEN 0 ELSE Limit) - 1
      <4>1. allowed[k][a] <= b.count + (IF a < b.age THEN 0 ELSE Limit) - 2
        OBVIOUS
      <4>2. allowed[k][a] \in Nat /\ b.count \in Nat /\ b.age \in Nat /\ allowed'[k][a] = allowed[k][a] + 1
        BY <1>4, LimiterAssumption DEF LInv, Bucket
      <4> QED
        BY <4>1, <4>2, LimiterAssumption DEF Ages
    <3> QED
      BY <2>1, <3>1, <3>2, <1>2 DEF Counted
  <2>2. CASE x # k
    <3>1. allowed'[x] = allowed[x] /\ Counted(x)
      BY <1>4, <2>2 DEF LInv
    <3>2. CASE x \in keys
      <4>1. buckets'[x] = buckets[x] /\ x \in DOMAIN buckets /\ x \in DOMAIN buckets'
        BY <1>1, <1>2, <2>2, <3>2
      <4> QED
        BY <3>1, <4>1 DEF Counted, Live, Elapsed
    <3>3. CASE x \notin keys
      <4>1. ~Live(x) /\ ~Live(x)'
        BY <1>1, <2>2, <3>3 DEF Live
      <4> QED
        BY <3>1, <4>1 DEF Counted
    <3> QED
      BY <3>2, <3>3
  <2> QED
    BY <2>1, <2>2
<1> QED
  BY <1>1, <1>3, <1>4, <1>5, <1>6 DEF LInv

\* A window opens once there is none: it has room for Limit attempts.
LEMMA Opens ==
    ASSUME LInv, NEW k \in Keys, ~Live(k), NEW a \in Ages
    PROVE  /\ NewWindow \in Bucket /\ NewWindow.age < Window
           /\ allowed[k][a] <= NewWindow.count + (IF a < NewWindow.age THEN 0 ELSE Limit) - 2
<1>1. allowed[k][a] <= Limit - 1 /\ allowed[k][a] \in Nat
  BY DEF LInv, Counted
<1> QED
  BY <1>1, LimiterAssumption DEF NewWindow, Bucket, Ages

LEMMA KnownKeeps ==
    ASSUME LInv, NEW k \in Keys, AllowKnown(k)
    PROVE  LInv'
<1>0. k \in DOMAIN buckets /\ buckets[k] \in Bucket /\ 0 \in Ages
  BY LimiterAssumption DEF AllowKnown, LInv, Ages
<1>1. CASE Elapsed(k) /\ Put(DOMAIN buckets, k, NewWindow) /\ LetsThrough(k)
  <2>1. ~Live(k)
    BY <1>1 DEF Live
  <2> QED
    BY <1>0, <1>1, <2>1, Opens, LetThrough
<1>2. CASE UNCHANGED limiterVars
  BY <1>2 DEF limiterVars, LInv, Table, Counted, Live, Elapsed
<1>3. CASE /\ ~Elapsed(k) /\ buckets[k].count < Limit
           /\ Put(DOMAIN buckets, k, [buckets[k] EXCEPT !.count = @ + 1]) /\ LetsThrough(k)
  <2> DEFINE b == [buckets[k] EXCEPT !.count = @ + 1]
  <2>1. b \in Bucket /\ b.count = buckets[k].count + 1 /\ b.age = buckets[k].age
    BY <1>0, <1>3, LimiterAssumption DEF Bucket
  <2>2. b.age < Window
    BY <1>0, <1>3, <2>1, LimiterAssumption DEF Elapsed, Bucket
  <2>3. ASSUME NEW a \in Ages
        PROVE  allowed[k][a] <= b.count + (IF a < b.age THEN 0 ELSE Limit) - 2
    <3>1. allowed[k][a] <= buckets[k].count + (IF a < buckets[k].age THEN 0 ELSE Limit) - 1
      BY <1>0, <1>3 DEF LInv, Counted, Live
    <3>2. allowed[k][a] \in Nat /\ buckets[k].count \in Nat /\ buckets[k].age \in Nat
      BY <1>0, LimiterAssumption DEF LInv, Bucket
    <3> HIDE DEF b
    <3> QED
      BY <2>1, <3>1, <3>2, LimiterAssumption DEF Ages
  <2>4. Put(DOMAIN buckets, k, b)
    BY <1>3
  <2> HIDE DEF b
  <2> QED
    BY <1>0, <1>3, <2>1, <2>2, <2>3, <2>4, LetThrough
<1> QED
  BY <1>1, <1>2, <1>3 DEF AllowKnown

\* Windows that have elapsed go; or a client's, with what was counted for it.
LEMMA Dropped ==
    ASSUME LInv, NEW keys \in SUBSET DOMAIN buckets,
           buckets' = [x \in keys |-> buckets[x]],
           allowed' \in [Keys -> [Ages -> Nat]],
           \A x \in Keys : \/ allowed'[x] = NoAttempts
                           \/ allowed'[x] = allowed[x] /\ (x \in keys \/ ~Live(x))
    PROVE  LInv'
<1>1. DOMAIN buckets' = keys /\ buckets' \in [keys -> Bucket] /\ keys \subseteq Keys
  BY DEF LInv
<1>2. Table'
  <2>1. IsFiniteSet(keys) /\ Cardinality(keys) <= Cardinality(DOMAIN buckets)
    BY FS_Subset DEF LInv, Table
  <2>2. Cardinality(keys) \in Nat /\ Cardinality(DOMAIN buckets) \in Nat
    BY <2>1, FS_CardinalityType DEF LInv, Table
  <2> QED
    BY <1>1, <2>1, <2>2, LimiterAssumption DEF LInv, Table
<1>3. ASSUME NEW x \in Keys PROVE Counted(x)'
  <2>1. CASE allowed'[x] = NoAttempts
    <3>1. \A a \in Ages : allowed'[x][a] = 0
      BY <2>1 DEF NoAttempts
    <3>2. x \in keys => buckets'[x].count \in 1..Limit
      BY <1>1 DEF Bucket
    <3> QED
      BY <1>1, <3>1, <3>2, LimiterAssumption DEF Counted, Live
  <2>2. CASE allowed'[x] = allowed[x] /\ x \in keys
    <3>1. buckets'[x] = buckets[x] /\ x \in DOMAIN buckets
      BY <2>2
    <3> QED
      BY <1>1, <2>2, <3>1 DEF LInv, Counted, Live, Elapsed
  <2>3. CASE allowed'[x] = allowed[x] /\ x \notin keys /\ ~Live(x)
    BY <1>1, <2>3 DEF LInv, Counted, Live
  <2> QED
    BY <2>1, <2>2, <2>3
<1> QED
  BY <1>1, <1>2, <1>3 DEF LInv

\* Only windows that have elapsed are purged.
LEMMA RoomLive ==
    ASSUME NEW x \in DOMAIN buckets \ Room
    PROVE  Elapsed(x)
  BY DEF Room, Purged

LEMMA NewKeeps ==
    ASSUME LInv, NEW k \in Keys, AllowNew(k)
    PROVE  LInv'
<1>0. k \notin DOMAIN buckets /\ Room \subseteq DOMAIN buckets /\ ~Live(k) /\ 0 \in Ages
  BY LimiterAssumption DEF AllowNew, Room, Purged, Live, Ages
<1>1. CASE Cardinality(Room) >= MaxKeys
  <2>1. buckets' = [x \in Room |-> buckets[x]] /\ UNCHANGED allowed
    BY <1>1 DEF AllowNew
  <2>2. \A x \in Keys : x \in Room \/ ~Live(x)
    BY RoomLive DEF Live
  <2> QED
    BY <1>0, <2>1, <2>2, Dropped DEF LInv
<1>2. CASE ~(Cardinality(Room) >= MaxKeys)
  <2>1. Put(Room, k, NewWindow) /\ LetsThrough(k)
    BY <1>2 DEF AllowNew
  <2>2. Cardinality(Room) < MaxKeys
    <3>1. IsFiniteSet(Room)
      BY <1>0, FS_Subset DEF LInv, Table
    <3> QED
      BY <1>2, <3>1, FS_CardinalityType, LimiterAssumption
  <2> QED
    BY <1>0, <2>1, <2>2, RoomLive, Opens, LetThrough
<1> QED
  BY <1>1, <1>2

LEMMA ResetKeeps ==
    ASSUME LInv, NEW k \in Keys, ResetKey(k)
    PROVE  LInv'
<1>1. NoAttempts \in [Ages -> Nat]
  BY DEF NoAttempts
<1>2. /\ allowed' \in [Keys -> [Ages -> Nat]]
      /\ allowed'[k] = NoAttempts /\ \A x \in Keys \ {k} : allowed'[x] = allowed[x]
  BY <1>1 DEF ResetKey, LInv
<1>3. \A x \in Keys \ {k} : x \in DOMAIN buckets \ {k} \/ ~Live(x)
  BY DEF Live
<1> QED
  BY <1>2, <1>3, Dropped DEF ResetKey

\* Everything gets a tick older.
LEMMA TickKeeps ==
    ASSUME LInv, Tick
    PROVE  LInv'
<1>1. /\ DOMAIN buckets' = DOMAIN buckets
      /\ \A x \in DOMAIN buckets :
            /\ buckets'[x] \in Bucket /\ buckets'[x].count = buckets[x].count
            /\ buckets'[x].age = IF buckets[x].age < Window THEN buckets[x].age + 1 ELSE buckets[x].age
  <2>1. DOMAIN buckets' = DOMAIN buckets
    BY DEF Tick
  <2>2. ASSUME NEW x \in DOMAIN buckets
        PROVE  /\ buckets'[x] \in Bucket /\ buckets'[x].count = buckets[x].count
               /\ buckets'[x].age = IF buckets[x].age < Window THEN buckets[x].age + 1 ELSE buckets[x].age
    <3>1. buckets[x] \in Bucket
      BY DEF LInv
    <3>2. buckets'[x] = [buckets[x] EXCEPT !.age = IF buckets[x].age < Window THEN buckets[x].age + 1 ELSE buckets[x].age]
      BY DEF Tick
    <3> QED
      BY <3>1, <3>2, LimiterAssumption DEF Bucket
  <2> QED
    BY <2>1, <2>2
<1>2. buckets' \in [DOMAIN buckets -> Bucket]
  <2>1. buckets' = [x \in DOMAIN buckets |-> buckets'[x]]
    BY DEF Tick
  <2> QED
    BY <1>1, <2>1
<1>3. /\ allowed' \in [Keys -> [Ages -> Nat]]
      /\ \A x \in Keys, a \in Ages :
            allowed'[x][a] = IF a = 0 THEN 0 ELSE allowed[x][a - 1]
      /\ \A a \in Ages : a # 0 => a - 1 \in Ages
  <2>1. \A a \in Ages : a # 0 => a - 1 \in Ages
    BY LimiterAssumption DEF Ages
  <2>2. \A x \in Keys : [a \in Ages |-> IF a = 0 THEN 0 ELSE allowed[x][a - 1]] \in [Ages -> Nat]
    BY <2>1 DEF LInv
  <2> QED
    BY <2>1, <2>2 DEF Tick
<1>4. ASSUME NEW x \in Keys PROVE Counted(x)'
  <2>0. \A a \in Ages : allowed[x][a] \in Nat /\ a \in Nat
    BY LimiterAssumption DEF LInv, Ages
  <2>1. CASE ~Live(x)
    <3>1. ~Live(x)'
      BY <1>1, <2>1, LimiterAssumption DEF Live, Elapsed, Bucket, LInv
    <3>2. \A a \in Ages : allowed[x][a] <= Limit - 1
      BY <2>1 DEF LInv, Counted
    <3>3. \A a \in Ages : allowed'[x][a] <= Limit - 1
      BY <1>3, <3>2, LimiterAssumption
    <3> QED
      BY <3>1, <3>3 DEF Counted
  <2>2. CASE Live(x)
    <3> DEFINE g == buckets[x].age
               c == buckets[x].count
    <3>1. g \in 0..Window /\ c \in 1..Limit /\ g < Window /\ x \in DOMAIN buckets
      BY <2>2, LimiterAssumption DEF Live, Elapsed, LInv, Bucket
    <3>2. buckets'[x].age = g + 1 /\ buckets'[x].count = c
      BY <1>1, <3>1
    <3>3. \A a \in Ages : allowed[x][a] <= c + (IF a < g THEN 0 ELSE Limit) - 1
      BY <2>2 DEF LInv, Counted
    <3> HIDE DEF g, c
    <3>4. ASSUME NEW a \in Ages
          PROVE  allowed'[x][a] <= c + (IF a < g + 1 THEN 0 ELSE Limit) - 1
      <4>1. CASE a = 0
        BY <1>3, <3>1, <4>1, LimiterAssumption
      <4>2. CASE a # 0
        <5>1. allowed'[x][a] = allowed[x][a - 1] /\ a - 1 \in Ages
          BY <1>3, <4>2
        <5>2. allowed[x][a - 1] <= c + (IF a - 1 < g THEN 0 ELSE Limit) - 1
          BY <3>3, <5>1
        <5>3. a \in Nat /\ (a - 1 < g <=> a < g + 1)
          BY <2>0, <3>1
        <5> QED
          BY <5>1, <5>2, <5>3
      <4> QED
        BY <4>1, <4>2
    <3>5. CASE g + 1 < Window
      <4>1. Live(x)'
        BY <1>1, <3>1, <3>2, <3>5, LimiterAssumption DEF Live, Elapsed
      <4> QED
        BY <3>2, <3>4, <4>1 DEF Counted
    <3>6. CASE g + 1 >= Window
      <4>1. ~Live(x)'
        BY <1>1, <3>2, <3>6 DEF Live, Elapsed
      <4>2. \A a \in Ages : a < g + 1
        BY <3>1, <3>6, LimiterAssumption DEF Ages
      <4>3. \A a \in Ages : allowed'[x][a] <= c - 1
        BY <3>1, <3>4, <4>2, LimiterAssumption
      <4>4. \A a \in Ages : allowed'[x][a] \in Nat
        BY <1>3
      <4>5. \A a \in Ages : allowed'[x][a] <= Limit - 1
        BY <3>1, <4>3, <4>4, LimiterAssumption
      <4> QED
        BY <4>1, <4>5 DEF Counted
    <3> QED
      BY <3>1, <3>5, <3>6, LimiterAssumption
  <2> QED
    BY <2>1, <2>2
<1> QED
  BY <1>1, <1>2, <1>3, <1>4 DEF LInv, Table

LEMMA StepLInv == LInv /\ [LimiterNext]_limiterVars => LInv'
<1> SUFFICES ASSUME LInv, [LimiterNext]_limiterVars PROVE LInv'
  OBVIOUS
<1>1. CASE UNCHANGED limiterVars
  BY <1>1 DEF limiterVars, LInv, Table, Counted, Live, Elapsed
<1> QED
  BY <1>1, KnownKeeps, NewKeeps, ResetKeeps, TickKeeps DEF LimiterNext

LEMMA LimiterInvariant == LimiterSpec => []LInv
  BY StepLInv, InitLInv, PTL DEF LimiterSpec

LEMMA LimiterTyped == LInv => LimiterTypeOK
  BY DEF LInv, Bucket, LimiterTypeOK

\* security.AttemptLimiter, for any number of clients: the table keeps to its
\* limit, and in no stretch of Window ticks, wherever it begins, is a client
\* that keeps failing let through 2 * Limit times; purging the table for other
\* clients opens it no new window.
THEOREM LimitKept == LimiterSpec => []LimitHolds
<1>1. LInv => LimitHolds
  <2> SUFFICES ASSUME LInv PROVE LimitHolds
    OBVIOUS
  <2>1. Cardinality(DOMAIN buckets) <= MaxKeys
    BY DEF LInv, Table
  <2>2. ASSUME NEW k \in Keys PROVE allowed[k][Window - 1] <= 2 * Limit - 1
    <3>1. Window - 1 \in Ages /\ allowed[k][Window - 1] \in Nat
      BY LimiterAssumption DEF Ages, LInv
    <3>2. CASE Live(k)
      <4>1. /\ allowed[k][Window - 1] <= buckets[k].count
                   + (IF Window - 1 < buckets[k].age THEN 0 ELSE Limit) - 1
            /\ buckets[k].count \in 1..Limit
        BY <3>1, <3>2 DEF LInv, Counted, Live, Bucket
      <4> QED
        BY <3>1, <4>1, LimiterAssumption
    <3>3. CASE ~Live(k)
      <4>1. allowed[k][Window - 1] <= Limit - 1
        BY <3>1, <3>3 DEF LInv, Counted
      <4> QED
        BY <3>1, <4>1, LimiterAssumption
    <3> QED
      BY <3>2, <3>3
  <2> QED
    BY <2>1, <2>2 DEF LimitHolds
<1> QED
  BY <1>1, LimiterInvariant, PTL
=============================================================================
