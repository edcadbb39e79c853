------------------------------ MODULE SelfUpdate ------------------------------
(***************************************************************************)
(* Self-update from the console (updater, platform/selfupdate.go) and the  *)
(* jobs it runs as (services/jobs.go, store): a release check, a download  *)
(* verified against the release's digest, the exchange of the binary, and  *)
(* the handoff that restarts the service, while releases are published,    *)
(* uploaded again and withdrawn, any step fails, and the process dies.     *)
(*                                                                         *)
(* A build is its version and its upload; a digest is the upload it was    *)
(* made of.  Step positions follow Install in the source.                  *)
(***************************************************************************)
EXTENDS Naturals, FiniteSets

CONSTANTS Jobs,
          MaxVersion, MaxUpload,   \* bounds on the releases and their uploads
          Irregular,               \* bound: the versions that may lack a binary,
                                   \* are uploaded again and are withdrawn
          Broken,                  \* the builds that do not run on this host
          Nothing

Versions == 1..MaxVersion
Uploads  == 1..MaxUpload
BuildsOf(v) == {[v |-> v, upload |-> u] : u \in Uploads}
Builds   == UNION {BuildsOf(v) : v \in Versions \cup {0}}
Runnable == Builds \ Broken

ASSUME UpdateAssumption ==
    /\ MaxVersion \in Nat /\ MaxUpload \in Nat \ {0}
    /\ Broken \subseteq Builds /\ Irregular \subseteq Versions
    /\ Nothing \notin Builds

\* A release: absent, or listed with the uploads of its binary (0 for none of
\* this architecture) and of its digest file.
Absent   == [listed |-> FALSE, asset |-> 0, sum |-> 0]
Listed(a, s) == [listed |-> TRUE, asset |-> a, sum |-> s]

NoTarget == [v |-> 0, binary |-> FALSE]

VARIABLES
    release,     \* what is published, per version
    vouched,     \* history: the builds a published digest was made of
    disk,        \* the binary at BinPath
    running,     \* the build the service runs, or Nothing
    checked,     \* whether a check has been cached
    target,      \* what an update would install
    installing,  \* the flag of the process
    handoff,     \* whether the script that runs `install` is waiting to
    status,      \* per job: its row
    work,        \* per job: where its goroutine is and its locals
    files        \* the temporary files beside the binary

github  == <<release, vouched>>
machine == <<disk, running, handoff>>
memory  == <<checked, target, installing>>
updateVars == <<github, machine, memory, status, work, files>>

Fresh(p) == [at |-> p, target |-> NoTarget, sum |-> 0, got |-> 0]

UpdateInit ==
    /\ release = [v \in Versions |-> Absent] /\ vouched = {}
    /\ disk \in {[v |-> 0, upload |-> 1], [v |-> 1, upload |-> 1]} /\ disk \in Runnable
    /\ running = disk /\ handoff = FALSE
    /\ checked = FALSE /\ target = NoTarget /\ installing = FALSE
    /\ status = [j \in Jobs |-> "none"] /\ work = [j \in Jobs |-> Fresh("none")]
    /\ files = {}

Alive == running # Nothing
JobAt(j, p) == work[j].at = p /\ Alive
Step(j, new) == work' = [work EXCEPT ![j] = new]
Goto(j, p) == Step(j, [work[j] EXCEPT !.at = p])

-----------------------------------------------------------------------------
(* Releases.                                                               *)

Publish ==
    /\ \E v \in Versions, a \in {0, 1} :
         /\ ~release[v].listed
         /\ a = 0 => v \in Irregular
         /\ release' = [release EXCEPT ![v] = Listed(a, 1)]
         /\ vouched' = vouched \cup {[v |-> v, upload |-> 1]}
    /\ UNCHANGED <<machine, memory, status, work, files>>

\* The binary and its digest are uploaded again one after the other.
UploadAgain ==
    /\ \E v \in Irregular, u \in Uploads :
         /\ release[v].listed
         /\ \/ /\ u > release[v].asset
               /\ release' = [release EXCEPT ![v].asset = u] /\ UNCHANGED vouched
            \/ /\ u = release[v].asset /\ u > release[v].sum
               /\ release' = [release EXCEPT ![v].sum = u]
               /\ vouched' = vouched \cup {[v |-> v, upload |-> u]}
    /\ UNCHANGED <<machine, memory, status, work, files>>

Withdraw ==
    /\ \E v \in Irregular : release[v].listed /\ release' = [release EXCEPT ![v] = Absent]
    /\ UNCHANGED <<vouched, machine, memory, status, work, files>>

-----------------------------------------------------------------------------
(* Service.Status, under its mutex.                                        *)

Newest == {v \in Versions : release[v].listed /\ \A w \in Versions : release[w].listed => w <= v}

\* compare: the newest release if it is newer than this build, or if this
\* build has no version to compare.
Compare ==
    LET new == {v \in Newest : running.v = 0 \/ v > running.v}
    IN IF new = {} THEN NoTarget
       ELSE LET v == CHOOSE v \in new : TRUE
            IN [v |-> v, binary |-> release[v].asset # 0]

\* fetchReleases answered, or it failed and only a cached answer helps.
CheckOK == checked' = TRUE /\ target' = Compare /\ UNCHANGED installing
CheckFails == UNCHANGED memory

UpdateStatus ==
    /\ Alive /\ (CheckOK \/ CheckFails)
    /\ UNCHANGED <<github, machine, status, work, files>>

-----------------------------------------------------------------------------
(* JobService and the job rows.  A write that fails is ignored.            *)

Submit(j) ==
    /\ Alive /\ status[j] = "none" /\ work[j].at = "none"
    /\ status' = [status EXCEPT ![j] = "pending"]
    /\ Goto(j, "submitted")
    /\ UNCHANGED <<github, machine, memory, files>>

MarkRunning(j) ==
    /\ JobAt(j, "submitted")
    /\ \/ status' = [status EXCEPT ![j] = "running"]
       \/ UNCHANGED status
    /\ Goto(j, "begin")
    /\ UNCHANGED <<github, machine, memory, files>>

\* MarkSucceeded or MarkFailed; "lost" when the row could not be written.
MarkFinished(j) ==
    /\ work[j].at \in {"succeeded", "failed"} /\ Alive
    /\ \/ status' = [status EXCEPT ![j] = work[j].at] /\ Step(j, Fresh("none"))
       \/ UNCHANGED status /\ Step(j, Fresh("lost"))
    /\ UNCHANGED <<github, machine, memory, files>>

\* DeleteOlderThan, at the end of a maintenance cycle.
DeleteOlderThan ==
    /\ Alive
    /\ \E j \in Jobs :
         /\ status[j] \notin {"none", "pending", "running"}
         /\ status' = [status EXCEPT ![j] = "none"]
    /\ UNCHANGED <<github, machine, memory, work, files>>

-----------------------------------------------------------------------------
(* Service.Install.                                                        *)

Begin(j) ==
    /\ JobAt(j, "begin")
    /\ IF installing
       THEN Goto(j, "failed") /\ UNCHANGED installing
       ELSE Goto(j, "check") /\ installing' = TRUE
    /\ UNCHANGED <<github, machine, checked, target, status, files>>

\* The host cannot update itself, or a check that is forced: when it fails, the
\* cached answer does, and there is an error only without one.
Check(j) ==
    /\ JobAt(j, "check")
    /\ \/ CheckOK /\ Goto(j, "target")
       \/ CheckFails /\ Goto(j, IF checked THEN "target" ELSE "release")
       \/ CheckFails /\ Step(j, Fresh("release"))
    /\ UNCHANGED <<github, machine, status, files>>

ReadTarget(j) ==
    /\ JobAt(j, "target")
    /\ IF target = NoTarget \/ ~target.binary
       THEN Step(j, Fresh("release"))
       ELSE Step(j, [work[j] EXCEPT !.at = "sum", !.target = target])
    /\ UNCHANGED <<github, machine, memory, status, files>>

Current(j) == release[work[j].target.v]

ExpectedSum(j) ==
    /\ JobAt(j, "sum")
    /\ \/ Current(j).listed /\ Step(j, [work[j] EXCEPT !.at = "download", !.sum = Current(j).sum])
       \/ Step(j, Fresh("release"))
    /\ UNCHANGED <<github, machine, memory, status, files>>

\* (fault) what was downloaded is kept whatever its digest
VerifiedNot(got, sum) == got # 0

Verified(got, sum) == got = sum

\* The file is created, written and hashed, and removed when that failed or
\* the digest is another (0: cut short or altered).
Download(j) ==
    /\ JobAt(j, "download")
    /\ \/ /\ Current(j).listed
          /\ files' = files \cup {j}
          /\ \E got \in {Current(j).asset, 0} : Step(j, [work[j] EXCEPT !.at = "hash", !.got = got])
       \/ Step(j, Fresh("release")) /\ UNCHANGED files
    /\ UNCHANGED <<github, machine, memory, status>>

Hash(j) ==
    /\ JobAt(j, "hash")
    /\ IF Verified(work[j].got, work[j].sum)
       THEN Step(j, [work[j] EXCEPT !.at = "run", !.sum = 0]) /\ UNCHANGED files
       ELSE Step(j, Fresh("release")) /\ files' = files \ {j}
    /\ UNCHANGED <<github, machine, memory, status>>

Downloaded(j) == [v |-> work[j].target.v, upload |-> work[j].got]

RunVersion(j) ==
    /\ JobAt(j, "run")
    /\ \/ Downloaded(j) \in Runnable /\ Goto(j, "rename")
       \/ Step(j, Fresh("remove"))
    /\ UNCHANGED <<github, machine, memory, status, files>>

Rename(j) ==
    /\ JobAt(j, "rename")
    /\ \/ /\ disk' = Downloaded(j) /\ files' = files \ {j}
          /\ Step(j, Fresh("finish"))
       \/ Step(j, Fresh("remove")) /\ UNCHANGED <<disk, files>>
    /\ UNCHANGED <<github, running, handoff, memory, status>>

\* A transient unit, else a detached child, else an error.
FinishUpdate(j) ==
    /\ JobAt(j, "finish")
    /\ \/ handoff' = TRUE /\ Goto(j, "done")
       \/ Step(j, Fresh("remove")) /\ UNCHANGED handoff
    /\ UNCHANGED <<github, disk, running, memory, status, files>>

\* (fault) the flag is cleared but the file stays
DeferredKeeping(j) ==
    /\ work[j].at \in {"remove", "done", "release"} /\ Alive
    /\ installing' = FALSE
    /\ Goto(j, IF work[j].at = "done" THEN "succeeded" ELSE "failed")
    /\ UNCHANGED <<github, machine, checked, target, status, files>>

\* The deferred calls: the file, if one was made, then the flag.
Deferred(j) ==
    /\ work[j].at \in {"remove", "done", "release"} /\ Alive
    /\ files' = IF work[j].at = "release" THEN files ELSE files \ {j}
    /\ installing' = FALSE
    /\ Goto(j, IF work[j].at = "done" THEN "succeeded" ELSE "failed")
    /\ UNCHANGED <<github, machine, checked, target, status>>

Install(j) ==
    \/ Begin(j)
    \/ Check(j)
    \/ ReadTarget(j)
    \/ ExpectedSum(j)
    \/ Download(j)
    \/ Hash(j)
    \/ RunVersion(j)
    \/ Rename(j)
    \/ FinishUpdate(j)
    \/ Deferred(j)

-----------------------------------------------------------------------------
(* The handoff, and the service stopping and starting.                     *)

\* What a dead process was downloading stays beside the binary, and nothing
\* looks at it again: files has those of the living one.
Gone ==
    /\ running' = Nothing /\ files' = {}
    /\ installing' = FALSE /\ checked' = FALSE /\ target' = NoTarget
    /\ work' = [j \in Jobs |-> IF work[j].at = "lost" THEN work[j] ELSE Fresh("none")]

\* (fault) no restart when `install` fails
HandoffUnguarded ==
    /\ handoff /\ handoff' = FALSE
    /\ Gone \/ UNCHANGED <<running, memory, work, files>>
    /\ UNCHANGED <<github, disk, status>>

\* `install` restarts the service, or fails, and then the script does.
Handoff ==
    /\ handoff /\ handoff' = FALSE
    /\ Gone
    /\ UNCHANGED <<github, disk, status>>

\* A crash, or an operator's stop.  A script that runs as a detached child, not
\* as a unit, is in the service's control group and ends with it.
ServiceDies ==
    /\ Alive /\ Gone
    /\ handoff' \in {handoff, FALSE}
    /\ UNCHANGED <<github, disk, status>>

\* (fault) only the jobs that had started are cancelled
UnfinishedStarted == {j \in Jobs : status[j] = "running"}

Unfinished == {j \in Jobs : status[j] \in {"pending", "running"}}

\* The service manager starts what is installed; JobService.Initialize cancels
\* what the last process left unfinished, or fails and says so in the log.
ServiceStarts ==
    /\ ~Alive /\ running' = disk
    /\ \/ /\ status' = [j \in Jobs |-> IF j \in Unfinished THEN "cancelled" ELSE status[j]]
          /\ work' = [j \in Jobs |-> Fresh("none")]
       \/ /\ work' = [j \in Jobs |-> Fresh(IF j \in Unfinished THEN "lost" ELSE "none")]
          /\ UNCHANGED status
    /\ UNCHANGED <<github, disk, handoff, memory, files>>

UpdateNext ==
    \/ Publish
    \/ UploadAgain
    \/ Withdraw
    \/ UpdateStatus
    \/ \E j \in Jobs : Submit(j) \/ MarkRunning(j) \/ MarkFinished(j) \/ Install(j)
    \/ DeleteOlderThan
    \/ Handoff
    \/ ServiceDies
    \/ ServiceStarts

\* The script runs by itself and the service manager restarts the service.
UpdateFairness == WF_updateVars(Handoff) /\ WF_updateVars(ServiceStarts)

UpdateSpec == UpdateInit /\ [][UpdateNext]_updateVars /\ UpdateFairness

-----------------------------------------------------------------------------
(* Properties.                                                             *)

Inside == {"check", "target", "sum", "download", "hash", "run", "rename", "finish",
           "remove", "done", "release"}

\* Every variable keeps its type (updater.Service, job rows, the host).
UpdateTypeOK ==
    /\ \A v \in Versions : release[v] = Absent \/ release[v].sum \in Uploads
    /\ vouched \subseteq Builds /\ disk \in Runnable /\ running \in Builds \cup {Nothing}
    /\ handoff \in BOOLEAN
    /\ target.v \in Versions \cup {0} /\ checked \in BOOLEAN /\ installing \in BOOLEAN
    /\ \A j \in Jobs :
         /\ status[j] \in {"none", "pending", "running", "succeeded", "failed", "cancelled"}
         /\ work[j].at \in Inside \cup {"none", "submitted", "begin", "succeeded", "failed", "lost"}
    /\ files \subseteq Jobs

\* Service.Install: one install at a time, for as long as the flag is up, and
\* however it ends it leaves no temporary file beside the binary.
InstallAlone ==
    LET inside == {j \in Jobs : work[j].at \in Inside}
    IN /\ Cardinality(inside) <= 1 /\ (installing <=> inside # {})
       /\ files \subseteq inside

\* JobService: in a live process every unfinished job has a goroutine that will
\* finish it, unless writing the row failed.
JobsSettled ==
    Alive => \A j \in Jobs : status[j] \in {"pending", "running"} => work[j].at # "none"

\* updater and platform/selfupdate.go as VerifiedInstall describes them.
Promise == INSTANCE VerifiedInstall WITH installed <- disk
VerifiedOnly == Promise!Spec

\* FinishUpdate: once the handoff has started, the service comes up again with
\* the binary that is installed, even if `install` fails.
HandoffCompletes == handoff ~> Alive /\ running = disk
=============================================================================
