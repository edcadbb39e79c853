--------------------------- MODULE SelfUpdateProofs ---------------------------
(***************************************************************************)
(* Self-update implements VerifiedInstall, and installs do not overlap nor *)
(* leave files behind, for any number of jobs, releases and uploads.       *)
(***************************************************************************)
EXTENDS SelfUpdate, FiniteSetTheorems, TLAPS

Ats == Inside \cup {"none", "submitted", "begin", "succeeded", "failed", "lost"}
Statuses == {"none", "pending", "running", "succeeded", "failed", "cancelled"}
Sums == {0} \cup Uploads
Releases == [listed : BOOLEAN, asset : Sums, sum : Sums]
Targets == [v : {0} \cup Versions, binary : BOOLEAN]
Work == [at : Ats, target : Targets, sum : Sums, got : Sums]

TypeInv ==
    /\ release \in [Versions -> Releases] /\ vouched \subseteq Builds
    /\ disk \in Runnable /\ running \in Builds \cup {Nothing} /\ handoff \in BOOLEAN
    /\ checked \in BOOLEAN /\ target \in Targets /\ installing \in BOOLEAN
    /\ status \in [Jobs -> Statuses] /\ work \in [Jobs -> Work] /\ files \subseteq Jobs

Build(v, u) == [v |-> v, upload |-> u]
NewerThan(b, v) == b.v = 0 \/ v > b.v

\* A release is absent, or listed with a digest that vouches for a build.
ListedVouched ==
    \A v \in Versions :
        IF release[v].listed
        THEN release[v].sum \in Uploads /\ Build(v, release[v].sum) \in vouched
        ELSE release[v] = Absent

\* What a check found is newer than what runs.
TargetOK(t, b) == t = NoTarget \/ (t.v \in Versions /\ NewerThan(b, t.v))

\* What an install knows at each of its steps.
WorkOK(w, b, sums) ==
    /\ w.at \in {"sum", "download", "hash", "run", "rename"}
       => w.target.v \in Versions /\ NewerThan(b, w.target.v)
    /\ w.at \in {"download", "hash"} => Build(w.target.v, w.sum) \in sums
    /\ w.at \in {"run", "rename"} => Build(w.target.v, w.got) \in sums
    /\ w.at = "rename" => Build(w.target.v, w.got) \in Runnable

In(j) == work[j].at \in Inside

\* Where an install may have a temporary file.
Holding == {"hash", "run", "rename", "remove"}

\* The flag is up as long as one job is inside, which alone may have a file.
AloneInv ==
    /\ \A i, j \in Jobs : In(i) /\ In(j) => i = j
    /\ installing <=> \E j \in Jobs : In(j)
    /\ \A j \in files : work[j].at \in Holding

\* A process that is gone has no memory.
DeadInv == ~Alive => ~installing /\ files = {} /\ target = NoTarget

IInv ==
    /\ TypeInv /\ ListedVouched /\ AloneInv /\ DeadInv
    /\ Alive => TargetOK(target, running)
    /\ \A j \in Jobs : WorkOK(work[j], running, vouched)

-----------------------------------------------------------------------------

\* Records and constants.
LEMMA Shapes ==
    /\ \A p \in Ats : Fresh(p) \in Work /\ Fresh(p).at = p
    /\ NoTarget \in Targets /\ NoTarget.v = 0 /\ NoTarget.binary = FALSE
    /\ Absent \in Releases /\ Absent.listed = FALSE
    /\ \A v \in Versions, u \in Uploads : Build(v, u) \in Builds
  BY UpdateAssumption DEF Fresh, Work, NoTarget, Targets, Absent, Releases, Sums, Build, Builds,
                          BuildsOf

LEMMA FreshOK ==
    \A p \in Ats : p \notin {"sum", "download", "hash", "run", "rename"}
                   => \A b, sums : WorkOK(Fresh(p), b, sums)
  BY Shapes DEF WorkOK

LEMMA InitIInv == UpdateInit => IInv
<1> SUFFICES ASSUME UpdateInit PROVE IInv
  OBVIOUS
<1>1. \A j \in Jobs : work[j] = Fresh("none")
  BY DEF UpdateInit
<1>2. "none" \in Ats /\ "none" \notin Inside
  BY DEF Ats, Inside
<1>3. disk \in Builds /\ disk \in Runnable /\ running = disk
  BY DEF UpdateInit, Runnable
<1>4. TypeInv
  <2>1. release \in [Versions -> Releases]
    BY Shapes DEF UpdateInit
  <2>2. work \in [Jobs -> Work] /\ status \in [Jobs -> Statuses]
    BY <1>2, Shapes DEF UpdateInit, Statuses
  <2>3. vouched = {} /\ ~handoff /\ ~checked /\ target = NoTarget /\ ~installing /\ files = {}
        /\ {handoff, checked, installing} \subseteq BOOLEAN
    BY DEF UpdateInit
  <2> QED
    BY <1>3, <2>1, <2>2, <2>3, Shapes DEF TypeInv
<1>5. ListedVouched
  BY Shapes DEF UpdateInit, ListedVouched
<1>6. AloneInv
  BY <1>1, <1>2, Shapes DEF UpdateInit, AloneInv, In
<1>7. DeadInv /\ TargetOK(target, running)
  BY DEF UpdateInit, DeadInv, TargetOK
<1>8. \A j \in Jobs : WorkOK(work[j], running, vouched)
  BY <1>1, <1>2, FreshOK DEF Inside
<1> QED
  BY <1>4, <1>5, <1>6, <1>7, <1>8 DEF IInv

\* One job takes a step of an install, or before or after one.
LEMMA Advance ==
    ASSUME IInv, Alive, NEW j \in Jobs, NEW new \in Work, Step(j, new),
           WorkOK(new, running, vouched),
           UNCHANGED <<release, vouched, running>>,
           installing' \in BOOLEAN, files' \subseteq Jobs, checked' \in BOOLEAN,
           handoff' \in BOOLEAN, disk' \in Runnable, status' \in [Jobs -> Statuses],
           target' \in Targets, TargetOK(target', running),
           \* Its part in the flag and the files.
           installing' <=> (IF In(j) \/ new.at \in Inside THEN new.at \in Inside ELSE installing),
           In(j) \/ ~installing \/ new.at \notin Inside,
           files' \subseteq files \cup {j}, j \in files' => new.at \in Holding
    PROVE  IInv'
<1>1. /\ work \in [Jobs -> Work] /\ work' = [work EXCEPT ![j] = new]
  BY DEF IInv, TypeInv, Step
<1>2. /\ work' \in [Jobs -> Work] /\ work'[j] = new
      /\ \A i \in Jobs : i # j => work'[i] = work[i]
  BY <1>1
<1>3. /\ In(j)' <=> new.at \in Inside
      /\ \A i \in Jobs : i # j => (In(i)' <=> In(i))
  BY <1>2 DEF In
<1>4. TypeInv'
  BY <1>2 DEF IInv, TypeInv
<1>5. ListedVouched'
  BY DEF IInv, ListedVouched, Build
<1>6. AloneInv'
  <2>1. \A i \in files' : work'[i].at \in Holding
    BY <1>2 DEF IInv, TypeInv, AloneInv
  <2> QED
    BY <1>3, <2>1 DEF IInv, AloneInv
<1>7. Alive' /\ DeadInv'
  BY DEF Alive, DeadInv
<1>8. \A i \in Jobs : WorkOK(work'[i], running', vouched')
  BY <1>2 DEF IInv
<1> QED
  BY <1>4, <1>5, <1>6, <1>7, <1>8 DEF IInv

\* A job moves to another position with what it knew.
LEMMA WorkMoved ==
    ASSUME IInv, NEW j \in Jobs, NEW p \in Ats
    PROVE  LET new == [work[j] EXCEPT !.at = p]
           IN new \in Work /\ new.at = p /\ new.target = work[j].target
              /\ new.sum = work[j].sum /\ new.got = work[j].got
  BY DEF IInv, TypeInv, Work

\* A step within an install.
LEMMA Inner ==
    ASSUME IInv, Alive, NEW j \in Jobs, NEW new \in Work, Step(j, new),
           In(j), new.at \in Inside, WorkOK(new, running, vouched),
           UNCHANGED <<release, vouched, running, installing, status>>,
           files' \subseteq files \cup {j}, j \in files' => new.at \in Holding,
           checked' \in BOOLEAN, handoff' \in BOOLEAN, disk' \in Runnable,
           target' \in Targets, TargetOK(target', running)
    PROVE  IInv'
<1>1. installing /\ installing' = installing
  BY DEF IInv, AloneInv
<1>2. files' \subseteq Jobs /\ status' \in [Jobs -> Statuses] /\ installing' \in BOOLEAN
  BY DEF IInv, TypeInv
<1> QED
  BY <1>1, <1>2, Advance

\* A job outside an install moves on outside, or writes its row.
LEMMA Outer ==
    ASSUME IInv, Alive, NEW j \in Jobs, NEW p \in Ats, NEW new \in Work, Step(j, new),
           new.at = p, p \notin Inside, ~In(j),
           UNCHANGED <<release, vouched, machine, memory, files>>,
           status' \in [Jobs -> Statuses]
    PROVE  IInv'
<1>1. WorkOK(new, running, vouched)
  BY DEF WorkOK, Inside
<1>2. files' = files /\ j \notin files /\ files \subseteq Jobs
  BY DEF IInv, TypeInv, AloneInv, In, Inside, Holding
<1>3. /\ installing' = installing /\ installing' \in BOOLEAN
      /\ checked' \in BOOLEAN /\ handoff' \in BOOLEAN /\ disk' \in Runnable
      /\ target' \in Targets /\ target' = target /\ running' = running
  BY DEF IInv, TypeInv, machine, memory
<1>4. TargetOK(target', running)
  BY <1>3 DEF IInv
<1> QED
  BY <1>1, <1>2, <1>3, <1>4, Advance

LEMMA JobRow ==
    ASSUME IInv, NEW j \in Jobs, NEW s \in Statuses
    PROVE  [status EXCEPT ![j] = s] \in [Jobs -> Statuses]
  BY DEF IInv, TypeInv

LEMMA SubmitKeeps == \A j \in Jobs : IInv /\ Submit(j) => IInv'
<1> SUFFICES ASSUME NEW j \in Jobs, IInv, Submit(j) PROVE IInv'
  OBVIOUS
<1> DEFINE new == [work[j] EXCEPT !.at = "submitted"]
<1>1. "submitted" \in Ats /\ "submitted" \notin Inside /\ "pending" \in Statuses
  BY DEF Ats, Inside, Statuses
<1>2. new \in Work /\ new.at = "submitted"
  BY <1>1, WorkMoved
<1>3. ~In(j) /\ Step(j, new) /\ Alive
  BY DEF Submit, Goto, In, Inside
<1>4. status' \in [Jobs -> Statuses]
  BY <1>1, JobRow DEF Submit
<1>5. UNCHANGED <<release, vouched, machine, memory, files>>
  BY DEF Submit, github
<1> HIDE DEF new
<1> QED
  BY <1>1, <1>2, <1>3, <1>4, <1>5, Outer

LEMMA MarkRunningKeeps == \A j \in Jobs : IInv /\ MarkRunning(j) => IInv'
<1> SUFFICES ASSUME NEW j \in Jobs, IInv, MarkRunning(j) PROVE IInv'
  OBVIOUS
<1> DEFINE new == [work[j] EXCEPT !.at = "begin"]
<1>1. "begin" \in Ats /\ "begin" \notin Inside /\ "running" \in Statuses
  BY DEF Ats, Inside, Statuses
<1>2. new \in Work /\ new.at = "begin"
  BY <1>1, WorkMoved
<1>3. ~In(j) /\ Step(j, new) /\ Alive
  BY DEF MarkRunning, JobAt, Goto, In, Inside
<1>4. status' \in [Jobs -> Statuses]
  BY <1>1, JobRow DEF MarkRunning, IInv, TypeInv
<1>5. UNCHANGED <<release, vouched, machine, memory, files>>
  BY DEF MarkRunning, github
<1> HIDE DEF new
<1> QED
  BY <1>1, <1>2, <1>3, <1>4, <1>5, Outer

LEMMA MarkFinishedKeeps == \A j \in Jobs : IInv /\ MarkFinished(j) => IInv'
<1> SUFFICES ASSUME NEW j \in Jobs, IInv, MarkFinished(j) PROVE IInv'
  OBVIOUS
<1>1. /\ {"none", "lost"} \subseteq Ats /\ "none" \notin Inside /\ "lost" \notin Inside
      /\ {"succeeded", "failed"} \subseteq Statuses
  BY DEF Ats, Inside, Statuses
<1>2. Fresh("none") \in Work /\ Fresh("none").at = "none"
      /\ Fresh("lost") \in Work /\ Fresh("lost").at = "lost"
  BY <1>1, Shapes
<1>3. ~In(j) /\ (Step(j, Fresh("none")) \/ Step(j, Fresh("lost"))) /\ Alive
  BY DEF MarkFinished, In, Inside
<1>4. status' \in [Jobs -> Statuses]
  BY <1>1, JobRow DEF MarkFinished, IInv, TypeInv
<1>5. UNCHANGED <<release, vouched, machine, memory, files>>
  BY DEF MarkFinished, github
<1> QED
  BY <1>1, <1>2, <1>3, <1>4, <1>5, Outer

LEMMA BeginKeeps == \A j \in Jobs : IInv /\ Begin(j) => IInv'
<1> SUFFICES ASSUME NEW j \in Jobs, IInv, Begin(j) PROVE IInv'
  OBVIOUS
<1>1. /\ {"failed", "check"} \subseteq Ats /\ "failed" \notin Inside /\ "check" \in Inside
  BY DEF Ats, Inside
<1>2. ~In(j) /\ Alive
  BY DEF Begin, JobAt, In, Inside
<1>3. CASE installing
  <2> DEFINE new == [work[j] EXCEPT !.at = "failed"]
  <2>1. new \in Work /\ new.at = "failed" /\ Step(j, new)
    BY <1>1, <1>3, WorkMoved DEF Begin, Goto
  <2>2. UNCHANGED <<release, vouched, machine, memory, files>> /\ status' \in [Jobs -> Statuses]
    BY <1>3 DEF Begin, github, memory, IInv, TypeInv
  <2> HIDE DEF new
  <2> QED
    BY <1>1, <1>2, <2>1, <2>2, Outer
<1>4. CASE ~installing
  <2> DEFINE new == [work[j] EXCEPT !.at = "check"]
  <2>1. new \in Work /\ new.at = "check" /\ Step(j, new) /\ installing'
    BY <1>1, <1>4, WorkMoved DEF Begin, Goto
  <2>2. WorkOK(new, running, vouched)
    BY <2>1 DEF WorkOK
  <2>3. UNCHANGED <<release, vouched, running, disk, handoff, checked, target, files, status>>
    BY DEF Begin, github, machine
  <2>4. files = {}
    BY <1>4 DEF IInv, AloneInv, TypeInv, In, Inside, Holding
  <2>5. /\ checked' \in BOOLEAN /\ handoff' \in BOOLEAN /\ disk' \in Runnable
        /\ target' \in Targets /\ status' \in [Jobs -> Statuses] /\ files' = {}
        /\ TargetOK(target', running)
    BY <1>2, <2>3, <2>4 DEF IInv, TypeInv
  <2>6. installing' \in BOOLEAN /\ files' \subseteq Jobs
    BY <2>1, <2>5, <1>4 DEF Begin
  <2> HIDE DEF new
  <2> QED
    BY <1>1, <1>2, <1>4, <2>1, <2>2, <2>3, <2>5, <2>6, Advance
<1> QED
  BY <1>3, <1>4

\* What a check finds is a release newer than this build.
LEMMA Compared ==
    ASSUME IInv, Alive
    PROVE  Compare \in Targets /\ TargetOK(Compare, running)
<1> DEFINE new == {v \in Newest : running.v = 0 \/ v > running.v}
<1>1. CASE new = {}
  <2>1. Compare = NoTarget
    BY <1>1 DEF Compare
  <2> QED
    BY <2>1, Shapes DEF TargetOK
<1>2. CASE new # {}
  <2> DEFINE v == CHOOSE v \in new : TRUE
  <2>1. v \in new
    BY <1>2
  <2>2. v \in Versions /\ (running.v = 0 \/ v > running.v)
    BY <2>1 DEF Newest
  <2>3. Compare = [v |-> v, binary |-> release[v].asset # 0]
    BY <1>2 DEF Compare
  <2> HIDE DEF v
  <2>4. Compare \in Targets /\ Compare.v = v
    BY <2>2, <2>3 DEF Targets
  <2> QED
    BY <2>2, <2>4 DEF TargetOK, NewerThan
<1> QED
  BY <1>1, <1>2

\* A check leaves a target that is right, or the one before.
LEMMA Rechecked ==
    ASSUME IInv, Alive, CheckOK \/ CheckFails
    PROVE  /\ checked' \in BOOLEAN /\ target' \in Targets /\ TargetOK(target', running)
           /\ UNCHANGED installing
  BY Compared DEF CheckOK, CheckFails, memory, IInv, TypeInv

LEMMA CheckKeeps == \A j \in Jobs : IInv /\ Check(j) => IInv'
<1> SUFFICES ASSUME NEW j \in Jobs, IInv, Check(j) PROVE IInv'
  OBVIOUS
<1> DEFINE at == [work[j] EXCEPT !.at = "target"]
           out == [work[j] EXCEPT !.at = "release"]
           new == Fresh("release")
<1>1. {"target", "release"} \subseteq Ats /\ {"target", "release"} \subseteq Inside
  BY DEF Ats, Inside
<1>2. /\ at \in Work /\ at.at = "target" /\ out \in Work /\ out.at = "release"
      /\ new \in Work /\ new.at = "release"
  BY <1>1, WorkMoved, Shapes
<1>3. PICK to \in {at, out, new} : Step(j, to)
  BY DEF Check, Goto
<1>4. In(j) /\ Alive /\ work[j].at = "check"
  BY DEF Check, JobAt, In, Inside
<1>5. (CheckOK \/ CheckFails) /\ UNCHANGED <<release, vouched, disk, running, handoff, status, files>>
  BY DEF Check, github, machine
<1>6. to \in Work /\ to.at \in {"target", "release"} /\ WorkOK(to, running, vouched)
  BY <1>2, <1>3 DEF WorkOK
<1>7. j \notin files' /\ files' \subseteq files \cup {j} /\ handoff' \in BOOLEAN /\ disk' \in Runnable
  BY <1>4, <1>5 DEF IInv, TypeInv, AloneInv, Holding
<1> HIDE DEF at, out, new
<1> QED
  BY <1>1, <1>3, <1>4, <1>5, <1>6, <1>7, Rechecked, Inner

LEMMA ReadTargetKeeps == \A j \in Jobs : IInv /\ ReadTarget(j) => IInv'
<1> SUFFICES ASSUME NEW j \in Jobs, IInv, ReadTarget(j) PROVE IInv'
  OBVIOUS
<1> DEFINE new == [work[j] EXCEPT !.at = "sum", !.target = target]
<1>1. {"sum", "release"} \subseteq Ats /\ {"sum", "release"} \subseteq Inside
  BY DEF Ats, Inside
<1>2. In(j) /\ Alive /\ j \notin files
  BY DEF ReadTarget, JobAt, In, Inside, IInv, AloneInv, Holding
<1>3. /\ UNCHANGED <<release, vouched, running, installing, status>>
      /\ files' = files /\ checked' \in BOOLEAN /\ handoff' \in BOOLEAN /\ disk' \in Runnable
      /\ target' = target /\ target \in Targets /\ TargetOK(target, running)
  BY <1>2 DEF ReadTarget, github, machine, memory, IInv, TypeInv
<1>4. files' \subseteq files \cup {j} /\ j \notin files' /\ target' \in Targets /\ TargetOK(target', running)
  BY <1>2, <1>3
<1>5. CASE Step(j, Fresh("release"))
  <2>1. Fresh("release") \in Work /\ Fresh("release").at = "release"
    BY <1>1, Shapes
  <2>2. WorkOK(Fresh("release"), running, vouched)
    BY <2>1 DEF WorkOK
  <2> QED
    BY <1>1, <1>2, <1>3, <1>4, <1>5, <2>1, <2>2, Inner
<1>6. CASE target # NoTarget /\ Step(j, new)
  <2>1. work[j] \in Work
    BY DEF IInv, TypeInv
  <2>2. new \in Work /\ new.at = "sum" /\ new.target = target
    BY <1>1, <1>3, <2>1 DEF Work
  <2>3. WorkOK(new, running, vouched)
    BY <1>3, <1>6, <2>2 DEF WorkOK, TargetOK
  <2> HIDE DEF new
  <2> QED
    BY <1>1, <1>2, <1>3, <1>4, <1>6, <2>2, <2>3, Inner
<1> QED
  BY <1>5, <1>6 DEF ReadTarget

\* A step within an install that leaves the releases and the memory alone.
LEMMA Offline ==
    ASSUME IInv, Alive, NEW j \in Jobs, NEW new \in Work, Step(j, new),
           In(j), new.at \in Inside, WorkOK(new, running, vouched),
           UNCHANGED <<github, memory, running, status>>,
           files' \subseteq files \cup {j}, j \in files' => new.at \in Holding,
           handoff' \in BOOLEAN, disk' \in Runnable
    PROVE  IInv'
<1>1. UNCHANGED <<release, vouched, running, installing, status, checked, target>>
  BY DEF github, memory
<1>2. checked' \in BOOLEAN /\ target' \in Targets /\ TargetOK(target', running)
  BY <1>1 DEF IInv, TypeInv
<1> QED
  BY <1>1, <1>2, Inner

\* An install gives up, or has only its deferred calls left.
LEMMA GivesUp ==
    ASSUME IInv, Alive, NEW j \in Jobs, NEW p \in {"release", "remove", "finish"},
           Step(j, Fresh(p)), In(j), UNCHANGED <<github, memory, running, status>>,
           files' \subseteq files, p # "remove" => j \notin files',
           handoff' \in BOOLEAN, disk' \in Runnable
    PROVE  IInv'
<1>1. p \in Ats /\ p \in Inside /\ (p = "remove" => p \in Holding)
  BY DEF Ats, Inside, Holding
<1>2. Fresh(p) \in Work /\ Fresh(p).at = p
  BY <1>1, Shapes
<1>3. WorkOK(Fresh(p), running, vouched)
  BY <1>2 DEF WorkOK
<1>4. j \in files' => Fresh(p).at \in Holding
  BY <1>1, <1>2
<1> QED
  BY <1>1, <1>2, <1>3, <1>4, Offline

LEMMA ExpectedSumKeeps == \A j \in Jobs : IInv /\ ExpectedSum(j) => IInv'
<1> SUFFICES ASSUME NEW j \in Jobs, IInv, ExpectedSum(j) PROVE IInv'
  OBVIOUS
<1> DEFINE new == [work[j] EXCEPT !.at = "download", !.sum = Current(j).sum]
<1>1. "download" \in Ats /\ "download" \in Inside
  BY DEF Ats, Inside
<1>2. In(j) /\ Alive /\ j \notin files /\ work[j].at = "sum"
  BY DEF ExpectedSum, JobAt, In, Inside, IInv, AloneInv, Holding
<1>3. UNCHANGED <<github, memory, running, status>> /\ files' = files
      /\ handoff' \in BOOLEAN /\ disk' \in Runnable
  BY DEF ExpectedSum, machine, IInv, TypeInv
<1>4. CASE Step(j, Fresh("release"))
  BY <1>2, <1>3, <1>4, GivesUp
<1>5. CASE Current(j).listed /\ Step(j, new)
  <2>1. work[j] \in Work /\ WorkOK(work[j], running, vouched)
    BY DEF IInv, TypeInv
  <2>2. work[j].target.v \in Versions /\ NewerThan(running, work[j].target.v)
    BY <1>2, <2>1 DEF WorkOK
  <2>3. /\ Current(j).sum \in Uploads
        /\ Build(work[j].target.v, Current(j).sum) \in vouched
    BY <1>5, <2>2 DEF IInv, ListedVouched, Current
  <2>4. /\ new \in Work /\ new.at = "download" /\ new.target = work[j].target
        /\ new.sum = Current(j).sum
    BY <1>1, <2>1, <2>3 DEF Work, Sums
  <2>5. WorkOK(new, running, vouched)
    BY <2>2, <2>3, <2>4 DEF WorkOK
  <2> HIDE DEF new
  <2> QED
    BY <1>1, <1>2, <1>3, <1>5, <2>4, <2>5, Offline
<1> QED
  BY <1>4, <1>5 DEF ExpectedSum

LEMMA DownloadKeeps == \A j \in Jobs : IInv /\ Download(j) => IInv'
<1> SUFFICES ASSUME NEW j \in Jobs, IInv, Download(j) PROVE IInv'
  OBVIOUS
<1>1. "hash" \in Ats /\ "hash" \in Inside /\ "hash" \in Holding
  BY DEF Ats, Inside, Holding
<1>2. In(j) /\ Alive /\ j \notin files /\ work[j].at = "download"
  BY DEF Download, JobAt, In, Inside, IInv, AloneInv, Holding
<1>3. UNCHANGED <<github, memory, running, status>>
      /\ handoff' \in BOOLEAN /\ disk' \in Runnable
  BY DEF Download, machine, IInv, TypeInv
<1>4. CASE Step(j, Fresh("release")) /\ UNCHANGED files
  BY <1>2, <1>3, <1>4, GivesUp
<1>5. CASE /\ files' = files \cup {j}
           /\ \E got \in {Current(j).asset, 0} : Step(j, [work[j] EXCEPT !.at = "hash", !.got = got])
  <2> PICK got \in {Current(j).asset, 0} : Step(j, [work[j] EXCEPT !.at = "hash", !.got = got])
    BY <1>5
  <2> DEFINE new == [work[j] EXCEPT !.at = "hash", !.got = got]
  <2>1. work[j] \in Work /\ WorkOK(work[j], running, vouched)
    BY DEF IInv, TypeInv
  <2>2. work[j].target.v \in Versions /\ NewerThan(running, work[j].target.v)
        /\ Build(work[j].target.v, work[j].sum) \in vouched
    BY <1>2, <2>1 DEF WorkOK
  <2>3. release[work[j].target.v] \in Releases
    BY <2>2 DEF IInv, TypeInv
  <2>4. got \in Sums
    BY <2>3 DEF Current, Releases, Sums
  <2>5. /\ new \in Work /\ new.at = "hash" /\ new.target = work[j].target
        /\ new.sum = work[j].sum /\ new.got = got
    BY <1>1, <2>1, <2>4 DEF Work
  <2>6. WorkOK(new, running, vouched)
    BY <2>2, <2>5 DEF WorkOK
  <2>7. Step(j, new)
    OBVIOUS
  <2> HIDE DEF new
  <2> QED
    BY <1>1, <1>2, <1>3, <1>5, <2>5, <2>6, <2>7, Offline
<1> QED
  BY <1>4, <1>5 DEF Download

LEMMA HashKeeps == \A j \in Jobs : IInv /\ Hash(j) => IInv'
<1> SUFFICES ASSUME NEW j \in Jobs, IInv, Hash(j) PROVE IInv'
  OBVIOUS
<1> DEFINE new == [work[j] EXCEPT !.at = "run", !.sum = 0]
<1>1. "run" \in Ats /\ "run" \in Inside /\ "run" \in Holding
  BY DEF Ats, Inside, Holding
<1>2. In(j) /\ Alive /\ work[j].at = "hash"
  BY DEF Hash, JobAt, In, Inside
<1>3. UNCHANGED <<github, memory, running, status>>
      /\ handoff' \in BOOLEAN /\ disk' \in Runnable
  BY DEF Hash, machine, IInv, TypeInv
<1>4. CASE ~Verified(work[j].got, work[j].sum)
  BY <1>2, <1>3, <1>4, GivesUp DEF Hash
<1>5. CASE Verified(work[j].got, work[j].sum)
  <2>1. work[j] \in Work /\ WorkOK(work[j], running, vouched)
    BY DEF IInv, TypeInv
  <2>2. work[j].target.v \in Versions /\ NewerThan(running, work[j].target.v)
        /\ Build(work[j].target.v, work[j].got) \in vouched
    BY <1>2, <1>5, <2>1 DEF WorkOK, Verified
  <2>3. /\ new \in Work /\ new.at = "run" /\ new.target = work[j].target
        /\ new.got = work[j].got
    BY <1>1, <2>1 DEF Work, Sums
  <2>4. WorkOK(new, running, vouched)
    BY <2>2, <2>3 DEF WorkOK
  <2>5. Step(j, new) /\ files' = files
    BY <1>5 DEF Hash
  <2> HIDE DEF new
  <2> QED
    BY <1>1, <1>2, <1>3, <2>3, <2>4, <2>5, Offline
<1> QED
  BY <1>4, <1>5

LEMMA RunVersionKeeps == \A j \in Jobs : IInv /\ RunVersion(j) => IInv'
<1> SUFFICES ASSUME NEW j \in Jobs, IInv, RunVersion(j) PROVE IInv'
  OBVIOUS
<1> DEFINE new == [work[j] EXCEPT !.at = "rename"]
<1>1. "rename" \in Ats /\ "rename" \in Inside
  BY DEF Ats, Inside
<1>2. In(j) /\ Alive /\ work[j].at = "run"
  BY DEF RunVersion, JobAt, In, Inside
<1>3. UNCHANGED <<github, memory, running, status>> /\ files' = files
      /\ handoff' \in BOOLEAN /\ disk' \in Runnable
  BY DEF RunVersion, machine, IInv, TypeInv
<1>4. CASE Step(j, Fresh("remove"))
  BY <1>2, <1>3, <1>4, GivesUp
<1>5. CASE Downloaded(j) \in Runnable /\ Step(j, new)
  <2>1. work[j] \in Work /\ WorkOK(work[j], running, vouched)
    BY DEF IInv, TypeInv
  <2>2. work[j].target.v \in Versions /\ NewerThan(running, work[j].target.v)
        /\ Build(work[j].target.v, work[j].got) \in vouched
    BY <1>2, <2>1 DEF WorkOK
  <2>3. /\ new \in Work /\ new.at = "rename" /\ new.target = work[j].target
        /\ new.got = work[j].got
    BY <1>1, WorkMoved
  <2>4. WorkOK(new, running, vouched)
    BY <1>5, <2>2, <2>3 DEF WorkOK, Downloaded, Build
  <2>5. j \in files' => new.at \in Holding
    BY <2>3 DEF Holding
  <2> HIDE DEF new
  <2> QED
    BY <1>1, <1>2, <1>3, <1>5, <2>3, <2>4, <2>5, Offline
<1> QED
  BY <1>4, <1>5 DEF RunVersion, Goto

\* What is renamed over the binary is newer, vouched for, and runs.
LEMMA Renamed ==
    ASSUME IInv, NEW j \in Jobs, JobAt(j, "rename")
    PROVE  /\ Downloaded(j) \in vouched \cap Runnable
           /\ running.v = 0 \/ Downloaded(j).v > running.v
<1>1. work[j].at = "rename" /\ WorkOK(work[j], running, vouched)
  BY DEF IInv, JobAt
<1>2. Downloaded(j) = Build(work[j].target.v, work[j].got) /\ Downloaded(j).v = work[j].target.v
  BY DEF Downloaded, Build
<1> QED
  BY <1>1, <1>2 DEF WorkOK, NewerThan

LEMMA RenameKeeps == \A j \in Jobs : IInv /\ Rename(j) => IInv'
<1> SUFFICES ASSUME NEW j \in Jobs, IInv, Rename(j) PROVE IInv'
  OBVIOUS
<1>1. In(j) /\ Alive /\ JobAt(j, "rename")
  BY DEF Rename, JobAt, In, Inside
<1>2. UNCHANGED <<github, memory, running, status>> /\ handoff' \in BOOLEAN
  BY DEF Rename, IInv, TypeInv
<1>3. CASE Step(j, Fresh("remove")) /\ UNCHANGED <<disk, files>>
  BY <1>1, <1>2, <1>3, GivesUp DEF IInv, TypeInv
<1>4. CASE disk' = Downloaded(j) /\ files' = files \ {j} /\ Step(j, Fresh("finish"))
  <2>1. disk' \in Runnable
    BY <1>1, <1>4, Renamed
  <2> QED
    BY <1>1, <1>2, <1>4, <2>1, GivesUp
<1> QED
  BY <1>3, <1>4 DEF Rename

LEMMA FinishUpdateKeeps == \A j \in Jobs : IInv /\ FinishUpdate(j) => IInv'
<1> SUFFICES ASSUME NEW j \in Jobs, IInv, FinishUpdate(j) PROVE IInv'
  OBVIOUS
<1> DEFINE new == [work[j] EXCEPT !.at = "done"]
<1>1. "done" \in Ats /\ "done" \in Inside
  BY DEF Ats, Inside
<1>2. In(j) /\ Alive /\ j \notin files
  BY DEF FinishUpdate, JobAt, In, Inside, IInv, AloneInv, Holding
<1>3. /\ UNCHANGED <<github, memory, running, status>> /\ files' = files
      /\ disk' \in Runnable /\ handoff' \in BOOLEAN
  BY DEF FinishUpdate, IInv, TypeInv
<1>4. CASE Step(j, Fresh("remove"))
  BY <1>2, <1>3, <1>4, GivesUp
<1>5. CASE Step(j, new)
  <2>1. new \in Work /\ new.at = "done"
    BY <1>1, WorkMoved
  <2>2. WorkOK(new, running, vouched)
    BY <2>1 DEF WorkOK
  <2> HIDE DEF new
  <2> QED
    BY <1>1, <1>2, <1>3, <1>5, <2>1, <2>2, Offline
<1> QED
  BY <1>4, <1>5 DEF FinishUpdate, Goto

LEMMA DeferredKeeps == \A j \in Jobs : IInv /\ Deferred(j) => IInv'
<1> SUFFICES ASSUME NEW j \in Jobs, IInv, Deferred(j) PROVE IInv'
  OBVIOUS
<1> DEFINE p == IF work[j].at = "done" THEN "succeeded" ELSE "failed"
           new == [work[j] EXCEPT !.at = p]
<1>1. p \in Ats /\ p \notin Inside
  BY DEF Ats, Inside
<1>2. new \in Work /\ new.at = p
  BY <1>1, WorkMoved
<1>3. Step(j, new) /\ Alive /\ work[j].at \in {"remove", "done", "release"}
  BY DEF Deferred, Goto
<1>4. In(j)
  BY <1>3 DEF In, Inside
<1>5. WorkOK(new, running, vouched)
  BY <1>1, <1>2 DEF WorkOK, Inside
<1>6. files' \subseteq files /\ j \notin files'
  BY <1>3 DEF Deferred, IInv, AloneInv, Holding
<1>7. /\ UNCHANGED <<release, vouched, running, disk, handoff, status, checked, target>>
      /\ installing' = FALSE
  BY DEF Deferred, github, machine
<1>8. /\ checked' \in BOOLEAN /\ handoff' \in BOOLEAN /\ disk' \in Runnable
      /\ status' \in [Jobs -> Statuses] /\ target' \in Targets /\ TargetOK(target', running)
      /\ files' \subseteq Jobs /\ installing' \in BOOLEAN
  BY <1>3, <1>6, <1>7 DEF IInv, TypeInv
<1> HIDE DEF new, p
<1> QED
  BY <1>1, <1>2, <1>3, <1>4, <1>5, <1>6, <1>7, <1>8, Advance

-----------------------------------------------------------------------------

\* Steps of the rest of the world that leave the jobs' goroutines alone.
LEMMA Elsewhere ==
    ASSUME IInv, UNCHANGED <<running, installing, work, files>>, vouched \subseteq vouched',
           TypeInv', ListedVouched', DeadInv', Alive => TargetOK(target', running)
    PROVE  IInv'
<1>1. \A j \in Jobs : WorkOK(work'[j], running', vouched')
  BY DEF IInv, WorkOK
<1>2. AloneInv' /\ (Alive' => TargetOK(target', running'))
  BY DEF IInv, AloneInv, In, Alive
<1> QED
  BY <1>1, <1>2 DEF IInv

LEMMA GithubKeeps ==
    ASSUME IInv, UNCHANGED <<machine, memory, status, work, files>>,
           release' \in [Versions -> Releases], vouched' \subseteq Builds,
           vouched \subseteq vouched', ListedVouched'
    PROVE  IInv'
<1>1. TypeInv' /\ DeadInv' /\ (Alive => TargetOK(target', running))
  BY DEF IInv, TypeInv, DeadInv, Alive, machine, memory
<1>2. UNCHANGED <<running, installing, work, files>>
  BY DEF machine, memory
<1> QED
  BY <1>1, <1>2, Elsewhere

LEMMA PublishKeeps == IInv /\ Publish => IInv'
<1> SUFFICES ASSUME IInv, Publish PROVE IInv'
  OBVIOUS
<1>1. PICK v \in Versions, a \in {0, 1} :
         /\ release' = [release EXCEPT ![v] = Listed(a, 1)]
         /\ vouched' = vouched \cup {[v |-> v, upload |-> 1]}
  BY DEF Publish
<1>2. 1 \in Uploads
  BY UpdateAssumption DEF Uploads
<1>3. Listed(a, 1) \in Releases /\ Listed(a, 1).listed /\ Listed(a, 1).sum = 1
  BY <1>2 DEF Listed, Releases, Sums
<1>4. Build(v, 1) \in Builds /\ vouched' = vouched \cup {Build(v, 1)}
  BY <1>1, <1>2, Shapes DEF Build
<1>5. release \in [Versions -> Releases] /\ vouched \subseteq Builds
  BY DEF IInv, TypeInv
<1>6. release' \in [Versions -> Releases] /\ vouched' \subseteq Builds /\ vouched \subseteq vouched'
  BY <1>1, <1>3, <1>4, <1>5
<1>7. ListedVouched'
  BY <1>1, <1>2, <1>3, <1>4, <1>5 DEF IInv, ListedVouched
<1>8. UNCHANGED <<machine, memory, status, work, files>>
  BY DEF Publish
<1> QED
  BY <1>6, <1>7, <1>8, GithubKeeps

LEMMA UploadAgainKeeps == IInv /\ UploadAgain => IInv'
<1> SUFFICES ASSUME IInv, UploadAgain PROVE IInv'
  OBVIOUS
<1>1. PICK v \in Irregular, u \in Uploads :
         /\ release[v].listed
         /\ \/ /\ release' = [release EXCEPT ![v].asset = u] /\ UNCHANGED vouched
            \/ /\ release' = [release EXCEPT ![v].sum = u]
               /\ vouched' = vouched \cup {[v |-> v, upload |-> u]}
  BY DEF UploadAgain
<1>2. v \in Versions /\ u \in Sums /\ Build(v, u) \in Builds
  BY UpdateAssumption, Shapes DEF Sums
<1>3. release \in [Versions -> Releases] /\ vouched \subseteq Builds /\ release[v] \in Releases
  BY <1>2 DEF IInv, TypeInv
<1>4. UNCHANGED <<machine, memory, status, work, files>>
  BY DEF UploadAgain
<1>5. CASE release' = [release EXCEPT ![v].asset = u] /\ UNCHANGED vouched
  <2>1. release' \in [Versions -> Releases]
    BY <1>2, <1>3, <1>5 DEF Releases
  <2>2. /\ \A w \in Versions \ {v} : release'[w] = release[w]
        /\ release'[v].listed /\ release'[v].sum = release[v].sum
    BY <1>1, <1>2, <1>3, <1>5 DEF Releases
  <2>3. ListedVouched'
    BY <1>5, <2>2 DEF IInv, ListedVouched
  <2> QED
    BY <1>3, <1>4, <1>5, <2>1, <2>3, GithubKeeps
<1>6. CASE release' = [release EXCEPT ![v].sum = u] /\ vouched' = vouched \cup {Build(v, u)}
  <2>1. release' \in [Versions -> Releases]
    BY <1>2, <1>3, <1>6 DEF Releases
  <2>2. /\ \A w \in Versions \ {v} : release'[w] = release[w]
        /\ release'[v].listed /\ release'[v].sum = u
    BY <1>1, <1>2, <1>3, <1>6 DEF Releases
  <2>3. ListedVouched'
    BY <1>6, <2>2 DEF IInv, ListedVouched
  <2>4. vouched' \subseteq Builds /\ vouched \subseteq vouched'
    BY <1>2, <1>3, <1>6
  <2> QED
    BY <1>4, <2>1, <2>3, <2>4, GithubKeeps
<1> QED
  BY <1>1, <1>5, <1>6 DEF Build

LEMMA WithdrawKeeps == IInv /\ Withdraw => IInv'
<1> SUFFICES ASSUME IInv, Withdraw PROVE IInv'
  OBVIOUS
<1>1. PICK v \in Irregular : release' = [release EXCEPT ![v] = Absent]
  BY DEF Withdraw
<1>2. release \in [Versions -> Releases] /\ vouched \subseteq Builds /\ v \in Versions
  BY UpdateAssumption DEF IInv, TypeInv
<1>3. release' \in [Versions -> Releases] /\ UNCHANGED vouched
  BY <1>1, <1>2, Shapes DEF Withdraw
<1>4. ListedVouched'
  BY <1>1, <1>2, <1>3, Shapes DEF IInv, ListedVouched
<1>5. UNCHANGED <<machine, memory, status, work, files>>
  BY DEF Withdraw
<1> QED
  BY <1>2, <1>3, <1>4, <1>5, GithubKeeps

LEMMA UpdateStatusKeeps == IInv /\ UpdateStatus => IInv'
<1> SUFFICES ASSUME IInv, UpdateStatus PROVE IInv'
  OBVIOUS
<1>1. /\ checked' \in BOOLEAN /\ target' \in Targets /\ TargetOK(target', running)
      /\ UNCHANGED installing
  BY Rechecked DEF UpdateStatus
<1>2. Alive /\ UNCHANGED <<release, vouched, disk, running, handoff, status, work, files>>
  BY DEF UpdateStatus, github, machine
<1>3. TypeInv' /\ ListedVouched'
  BY <1>1, <1>2 DEF IInv, TypeInv, ListedVouched, Build
<1>4. DeadInv'
  BY <1>2 DEF DeadInv, Alive
<1> QED
  BY <1>1, <1>2, <1>3, <1>4, Elsewhere

LEMMA DeleteOlderThanKeeps == IInv /\ DeleteOlderThan => IInv'
<1> SUFFICES ASSUME IInv, DeleteOlderThan PROVE IInv'
  OBVIOUS
<1>1. status' \in [Jobs -> Statuses]
  BY JobRow DEF DeleteOlderThan, Statuses
<1>2. UNCHANGED <<release, vouched, disk, running, handoff, checked, target, installing, work, files>>
  BY DEF DeleteOlderThan, github, machine, memory
<1>3. TypeInv' /\ ListedVouched' /\ DeadInv' /\ (Alive => TargetOK(target', running))
  BY <1>1, <1>2 DEF IInv, TypeInv, ListedVouched, Build, DeadInv, Alive
<1> QED
  BY <1>2, <1>3, Elsewhere

\* No job is inside an install.
LEMMA Idle ==
    ASSUME IInv, ~installing', files' = {}, target' = NoTarget,
           UNCHANGED <<release, vouched, disk>>, running' \in Builds \cup {Nothing},
           handoff' \in BOOLEAN, checked' \in BOOLEAN, installing' \in BOOLEAN,
           status' \in [Jobs -> Statuses], work' \in [Jobs -> Work],
           \A j \in Jobs : work'[j].at \in {"none", "lost"}
    PROVE  IInv'
<1>1. \A j \in Jobs : ~In(j)'
  BY DEF In, Inside
<1>2. TypeInv'
  BY Shapes DEF IInv, TypeInv
<1>3. ListedVouched'
  BY DEF IInv, ListedVouched, Build
<1>4. AloneInv' /\ DeadInv' /\ TargetOK(target', running')
  BY <1>1 DEF AloneInv, DeadInv, TargetOK
<1>5. \A j \in Jobs : WorkOK(work'[j], running', vouched')
  BY DEF WorkOK
<1> QED
  BY <1>2, <1>3, <1>4, <1>5 DEF IInv

LEMMA GoneKeeps ==
    ASSUME IInv, Gone, UNCHANGED <<github, disk, status>>, handoff' \in BOOLEAN
    PROVE  IInv'
<1>1. "none" \in Ats /\ Fresh("none") \in Work /\ Fresh("none").at = "none"
  BY Shapes DEF Ats
<1>2. work \in [Jobs -> Work] /\ status \in [Jobs -> Statuses]
  BY DEF IInv, TypeInv
<1>3. \A j \in Jobs : work'[j] = IF work[j].at = "lost" THEN work[j] ELSE Fresh("none")
  BY DEF Gone
<1>4. work' \in [Jobs -> Work]
  BY <1>1, <1>2 DEF Gone
<1>5. \A j \in Jobs : work'[j].at \in {"none", "lost"}
  BY <1>1, <1>3
<1>6. /\ ~installing' /\ files' = {} /\ target' = NoTarget /\ running' = Nothing
      /\ checked' \in BOOLEAN /\ installing' \in BOOLEAN
      /\ UNCHANGED <<release, vouched, disk>> /\ status' = status
  BY DEF Gone, github
<1> QED
  BY <1>2, <1>4, <1>5, <1>6, Idle

LEMMA HandoffKeeps == IInv /\ Handoff => IInv'
  BY GoneKeeps DEF Handoff

LEMMA ServiceDiesKeeps == IInv /\ ServiceDies => IInv'
<1> SUFFICES ASSUME IInv, ServiceDies PROVE IInv'
  OBVIOUS
<1>1. handoff' \in BOOLEAN
  BY DEF ServiceDies, IInv, TypeInv
<1> QED
  BY <1>1, GoneKeeps DEF ServiceDies

LEMMA ServiceStartsKeeps == IInv /\ ServiceStarts => IInv'
<1> SUFFICES ASSUME IInv, ServiceStarts PROVE IInv'
  OBVIOUS
<1>1. {"none", "lost"} \subseteq Ats /\ "cancelled" \in Statuses
  BY DEF Ats, Statuses
<1>2. \A p \in {"none", "lost"} : Fresh(p) \in Work /\ Fresh(p).at = p
  BY <1>1, Shapes
<1>3. status \in [Jobs -> Statuses] /\ disk \in Builds
  BY DEF IInv, TypeInv, Runnable
<1>4. status' \in [Jobs -> Statuses]
  BY <1>1, <1>3 DEF ServiceStarts
<1>5. work' \in [Jobs -> Work] /\ \A j \in Jobs : work'[j].at \in {"none", "lost"}
  <2>1. PICK p \in [Jobs -> {"none", "lost"}] : work' = [j \in Jobs |-> Fresh(p[j])]
    <3>1. CASE work' = [j \in Jobs |-> Fresh("none")]
      <4> WITNESS [j \in Jobs |-> "none"] \in [Jobs -> {"none", "lost"}]
      <4> QED
        BY <3>1
    <3>2. CASE work' = [j \in Jobs |-> Fresh(IF j \in Unfinished THEN "lost" ELSE "none")]
      <4> WITNESS [j \in Jobs |-> IF j \in Unfinished THEN "lost" ELSE "none"]
                     \in [Jobs -> {"none", "lost"}]
      <4> QED
        BY <3>2
    <3> QED
      BY <3>1, <3>2 DEF ServiceStarts
  <2>2. \A j \in Jobs : Fresh(p[j]) \in Work /\ Fresh(p[j]).at = p[j]
    BY <1>2
  <2> QED
    BY <2>1, <2>2
<1>6. /\ ~Alive /\ running' = disk /\ UNCHANGED <<release, vouched, disk, handoff>>
      /\ UNCHANGED <<checked, target, installing, files>>
  BY DEF ServiceStarts, github, memory
<1>7. /\ ~installing' /\ files' = {} /\ target' = NoTarget
      /\ handoff' \in BOOLEAN /\ checked' \in BOOLEAN /\ installing' \in BOOLEAN
  BY <1>6 DEF IInv, TypeInv, DeadInv
<1> QED
  BY <1>3, <1>4, <1>5, <1>6, <1>7, Idle

LEMMA JobKeeps ==
    ASSUME NEW j \in Jobs, IInv, Submit(j) \/ MarkRunning(j) \/ MarkFinished(j) \/ Install(j)
    PROVE  IInv'
  BY SubmitKeeps, MarkRunningKeeps, MarkFinishedKeeps, BeginKeeps, CheckKeeps, ReadTargetKeeps,
     ExpectedSumKeeps, DownloadKeeps, HashKeeps, RunVersionKeeps, RenameKeeps, FinishUpdateKeeps,
     DeferredKeeps
  DEF Install

LEMMA StutterKeeps == IInv /\ UNCHANGED updateVars => IInv'
<1> SUFFICES ASSUME IInv, UNCHANGED updateVars PROVE IInv'
  OBVIOUS
<1>1. UNCHANGED <<release, vouched, disk, running, handoff, checked, target, installing,
                  status, work, files>>
  BY DEF updateVars, github, machine, memory
<1> QED
  BY <1>1 DEF IInv, TypeInv, ListedVouched, AloneInv, In, DeadInv, Alive

LEMMA StepIInv == IInv /\ [UpdateNext]_updateVars => IInv'
  BY PublishKeeps, UploadAgainKeeps, WithdrawKeeps, UpdateStatusKeeps, JobKeeps,
     DeleteOlderThanKeeps, HandoffKeeps, ServiceDiesKeeps, ServiceStartsKeeps, StutterKeeps
  DEF UpdateNext

LEMMA Invariant == UpdateSpec => []IInv
  BY InitIInv, StepIInv, PTL DEF UpdateSpec

-----------------------------------------------------------------------------
(* Theorems.                                                               *)

LEMMA AloneFollows == IInv => InstallAlone
<1> SUFFICES ASSUME IInv PROVE InstallAlone
  OBVIOUS
<1> DEFINE inside == {j \in Jobs : work[j].at \in Inside}
<1>1. \A i, j \in inside : i = j
  BY DEF IInv, AloneInv, In
<1>2. Cardinality(inside) <= 1
  <2>1. CASE inside = {}
    BY <2>1, FS_EmptySet
  <2>2. CASE inside # {}
    <3>1. PICK i \in inside : TRUE
      BY <2>2
    <3>2. inside = {i}
      BY <1>1
    <3>3. Cardinality({i}) = 1
      BY FS_Singleton
    <3> QED
      BY <3>2, <3>3
  <2> QED
    BY <2>1, <2>2
<1>3. installing <=> inside # {}
  BY DEF IInv, AloneInv, In
<1>4. files \subseteq inside
  BY DEF IInv, TypeInv, AloneInv, Holding, Inside
<1> QED
  BY <1>2, <1>3, <1>4 DEF InstallAlone

LEMMA UpdateTyped == IInv => UpdateTypeOK
  BY DEF IInv, TypeInv, ListedVouched, Targets, Work, Ats, Statuses, UpdateTypeOK

\* For any number of jobs, one install runs at a time, for exactly as long as
\* the flag of Service.Install is up, and none leaves a temporary file behind.
THEOREM InstallsAlone == UpdateSpec => []InstallAlone
  BY Invariant, AloneFollows, PTL

\* The variables of VerifiedInstall.
seen == <<disk, running, vouched>>

LEMMA RefinedInit == UpdateInit => Promise!Init
  BY Shapes DEF UpdateInit, Promise!Init

LEMMA ReplaceRefined ==
    ASSUME NEW j \in Jobs, IInv, Rename(j)
    PROVE  Promise!Replace \/ UNCHANGED seen
<1>1. UNCHANGED <<running, vouched>> /\ Alive /\ JobAt(j, "rename")
  BY DEF Rename, github, JobAt
<1>2. CASE UNCHANGED disk
  BY <1>1, <1>2 DEF seen
<1>3. CASE disk' = Downloaded(j)
  BY <1>1, <1>3, Renamed DEF Promise!Replace, Promise!Newer, Alive
<1> QED
  BY <1>2, <1>3 DEF Rename

LEMMA PublishRefined ==
    ASSUME IInv, IInv', Publish \/ UploadAgain
    PROVE  Promise!Publish
<1>1. UNCHANGED <<disk, running>> /\ vouched \subseteq vouched'
  BY DEF Publish, UploadAgain, machine
<1>2. vouched' \in SUBSET Builds
  BY DEF IInv, TypeInv
<1> QED
  BY <1>1, <1>2 DEF Promise!Publish

LEMMA QuietRefined ==
    ASSUME NEW j \in Jobs,
           \/ Submit(j) \/ MarkRunning(j) \/ MarkFinished(j) \/ Begin(j) \/ Check(j)
           \/ ReadTarget(j) \/ ExpectedSum(j) \/ Download(j) \/ Hash(j) \/ RunVersion(j)
           \/ FinishUpdate(j) \/ Deferred(j)
    PROVE  UNCHANGED seen
  BY DEF Submit, MarkRunning, MarkFinished, Begin, Check, ReadTarget, ExpectedSum, Download,
         Hash, RunVersion, FinishUpdate, Deferred, github, machine, seen

LEMMA StepRefined ==
    IInv /\ IInv' /\ [UpdateNext]_updateVars => [Promise!Next]_(Promise!vars)
<1> SUFFICES ASSUME IInv, IInv', [UpdateNext]_updateVars
             PROVE  Promise!Next \/ UNCHANGED seen
  BY DEF seen, Promise!vars
<1>1. CASE Publish \/ UploadAgain
  BY <1>1, PublishRefined DEF Promise!Next
<1>2. CASE Withdraw \/ UpdateStatus \/ DeleteOlderThan \/ UNCHANGED updateVars
  BY <1>2 DEF Withdraw, UpdateStatus, DeleteOlderThan, updateVars, github, machine, seen
<1>3. ASSUME NEW j \in Jobs, Submit(j) \/ MarkRunning(j) \/ MarkFinished(j) \/ Install(j)
      PROVE  Promise!Next \/ UNCHANGED seen
  BY <1>3, ReplaceRefined, QuietRefined DEF Install, Promise!Next
<1>4. CASE Handoff \/ ServiceDies
  BY <1>4 DEF Handoff, ServiceDies, Gone, github, Promise!Stop, Promise!Next
<1>5. CASE ServiceStarts
  BY <1>5 DEF ServiceStarts, Alive, github, Promise!Start, Promise!Next
<1> QED
  BY <1>1, <1>2, <1>3, <1>4, <1>5 DEF UpdateNext

\* updater.Install and the handoff implement VerifiedInstall, whatever is
\* published, uploaded again or withdrawn, wherever a step fails and whenever
\* the service dies: the binary is replaced only by a newer build that a
\* published digest vouches for and that runs here, and a start runs it.
THEOREM Implements == UpdateSpec => VerifiedOnly
  BY RefinedInit, Invariant, StepRefined, PTL DEF UpdateSpec, VerifiedOnly, Promise!Spec
-----------------------------------------------------------------------------
(* The rows of the jobs.                                                   *)

\* A goroutine that goes on.
LEMMA GoesOn ==
    ASSUME IInv, JobsSettled, NEW j \in Jobs, NEW new, Step(j, new), new.at # "none",
           UNCHANGED running, \A k \in Jobs \ {j} : status'[k] = status[k]
    PROVE  JobsSettled'
  BY DEF JobsSettled, Alive, Step, IInv, TypeInv

LEMMA GoesTo ==
    ASSUME IInv, JobsSettled, NEW j \in Jobs, NEW p, Goto(j, p), p # "none",
           UNCHANGED running, \A k \in Jobs \ {j} : status'[k] = status[k]
    PROVE  JobsSettled'
<1>1. [work[j] EXCEPT !.at = p].at = p
  BY DEF IInv, TypeInv, Work
<1> QED
  BY <1>1, GoesOn DEF Goto

LEMMA MarksSettled ==
    ASSUME IInv, JobsSettled, NEW j \in Jobs, Submit(j) \/ MarkRunning(j) \/ MarkFinished(j)
    PROVE  JobsSettled'
<1>1. status \in [Jobs -> Statuses] /\ work \in [Jobs -> Work] /\ UNCHANGED running
  BY DEF IInv, TypeInv, Submit, MarkRunning, MarkFinished, machine
<1>2. CASE Submit(j)
  BY <1>1, <1>2, GoesTo DEF Submit
<1>3. CASE MarkRunning(j)
  BY <1>1, <1>3, GoesTo DEF MarkRunning
<1>4. CASE status' = [status EXCEPT ![j] = work[j].at] /\ Step(j, Fresh("none"))
           /\ work[j].at \in {"succeeded", "failed"}
  <2>1. status'[j] \notin {"pending", "running"}
    BY <1>1, <1>4
  <2> QED
    BY <1>1, <1>4, <2>1 DEF Step, JobsSettled, Alive
<1>5. CASE UNCHANGED status /\ Step(j, Fresh("lost"))
  BY <1>1, <1>5, GoesOn DEF Fresh
<1> QED
  BY <1>2, <1>3, <1>4, <1>5 DEF MarkFinished

LEMMA InstallSettled ==
    ASSUME IInv, JobsSettled, NEW j \in Jobs, Install(j)
    PROVE  JobsSettled'
<1>1. UNCHANGED <<running, status>> /\ work[j] \in Work
  BY DEF Install, Begin, Check, ReadTarget, ExpectedSum, Download, Hash, RunVersion, Rename,
         FinishUpdate, Deferred, machine, IInv, TypeInv
<1>2. \A p : Fresh(p).at = p
  BY DEF Fresh
<1>3. CASE Begin(j)
  BY <1>1, <1>3, GoesTo DEF Begin
<1>4. CASE Check(j)
  BY <1>1, <1>2, <1>4, GoesTo, GoesOn DEF Check
<1>5. CASE ReadTarget(j)
  <2>1. [work[j] EXCEPT !.at = "sum", !.target = target].at = "sum"
    BY <1>1 DEF Work
  <2> QED
    BY <1>1, <1>2, <1>5, <2>1, GoesOn DEF ReadTarget
<1>6. CASE ExpectedSum(j)
  <2>1. [work[j] EXCEPT !.at = "download", !.sum = Current(j).sum].at = "download"
    BY <1>1 DEF Work
  <2> QED
    BY <1>1, <1>2, <1>6, <2>1, GoesOn DEF ExpectedSum
<1>7. CASE Download(j)
  <2>1. \A got : [work[j] EXCEPT !.at = "hash", !.got = got].at = "hash"
    BY <1>1 DEF Work
  <2> QED
    BY <1>1, <1>2, <1>7, <2>1, GoesOn DEF Download
<1>8. CASE Hash(j)
  <2>1. [work[j] EXCEPT !.at = "run", !.sum = 0].at = "run"
    BY <1>1 DEF Work
  <2> QED
    BY <1>1, <1>2, <1>8, <2>1, GoesOn DEF Hash
<1>9. CASE RunVersion(j) \/ Rename(j) \/ FinishUpdate(j)
  BY <1>1, <1>2, <1>9, GoesTo, GoesOn DEF RunVersion, Rename, FinishUpdate
<1>10. CASE Deferred(j)
  BY <1>1, <1>10, GoesTo DEF Deferred
<1> QED
  BY <1>3, <1>4, <1>5, <1>6, <1>7, <1>8, <1>9, <1>10 DEF Install

LEMMA StartSettled ==
    ASSUME IInv, ServiceStarts
    PROVE  JobsSettled'
<1>1. \A p : Fresh(p).at = p
  BY DEF Fresh
<1>2. CASE status' = [j \in Jobs |-> IF j \in Unfinished THEN "cancelled" ELSE status[j]]
  BY <1>2 DEF JobsSettled, Unfinished
<1>3. CASE work' = [j \in Jobs |-> Fresh(IF j \in Unfinished THEN "lost" ELSE "none")]
           /\ UNCHANGED status
  BY <1>1, <1>3 DEF JobsSettled, Unfinished
<1> QED
  BY <1>2, <1>3 DEF ServiceStarts

LEMMA StepSettled == IInv /\ JobsSettled /\ [UpdateNext]_updateVars => JobsSettled'
<1> SUFFICES ASSUME IInv, JobsSettled, [UpdateNext]_updateVars PROVE JobsSettled'
  OBVIOUS
<1>1. CASE UNCHANGED <<running, status, work>>
  BY <1>1 DEF JobsSettled, Alive
<1>2. CASE Publish \/ UploadAgain \/ Withdraw \/ UpdateStatus \/ UNCHANGED updateVars
  BY <1>1, <1>2 DEF Publish, UploadAgain, Withdraw, UpdateStatus, updateVars, machine
<1>3. CASE DeleteOlderThan
  BY <1>3 DEF DeleteOlderThan, JobsSettled, Alive, machine, IInv, TypeInv
<1>4. CASE Handoff \/ ServiceDies
  BY <1>4 DEF Handoff, ServiceDies, Gone, JobsSettled, Alive
<1> QED
  BY <1>2, <1>3, <1>4, MarksSettled, InstallSettled, StartSettled DEF UpdateNext

\* JobService: a job that a living service has not finished is in the hands of
\* a goroutine, or its row could not be written, whenever the service died and
\* whichever of its writes failed.
THEOREM NoJobForgotten == UpdateSpec => []JobsSettled
<1>1. UpdateInit => JobsSettled
  BY DEF UpdateInit, JobsSettled
<1> QED
  BY <1>1, StepSettled, Invariant, PTL DEF UpdateSpec
=============================================================================
