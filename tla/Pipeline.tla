------------------------------- MODULE Pipeline -------------------------------
(***************************************************************************)
(* How code reaches one service of one box.  Two programs move it and meet *)
(* in Docker's tags, the container, the build lock and the release         *)
(* container:                                                              *)
(*   the build   rebuild.sh, started by a trigger: lock, image, hold guard,*)
(*               release, promotion, restart, health check, rollback;      *)
(*   the deploy  bay up or bay rollback: codepin reads the failed builds,  *)
(*               points :latest at the pinned commit under the build lock, *)
(*               and then, without it, the reconciler pass recreates the   *)
(*               container and the play writes the receipt.                *)
(* The pass is the recreate path of Reconciler, for one name.              *)
(*                                                                         *)
(* A commit is a number, newer commits are greater; an image is named by   *)
(* the commit of its label, which every build sets (com.bay.commit).       *)
(***************************************************************************)
EXTENDS Naturals

CONSTANTS
    MaxCommit,      \* bound: commits are 1..MaxCommit
    Registry,       \* TRUE: images come from a registry (pull path); FALSE: built here
    Pin,            \* TRUE: track = "pin", a push only builds
    Releasing,      \* TRUE: the service has a release command
    MaxFailures,    \* the circuit breaker's threshold
    MaxTrouble,     \* bound: failures, kills, timeouts, resets, other builds
    MaxDeploys      \* bound: deploys

None == 0
Commits == 1..MaxCommit
Image == Commits
Failure == [commit : Commits, image : Image]

ASSUME PipelineConstants ==
    /\ MaxCommit \in Nat \ {0} /\ MaxFailures \in Nat \ {0}
    /\ MaxTrouble \in Nat /\ MaxDeploys \in Nat
    /\ Registry \in BOOLEAN /\ Pin \in BOOLEAN /\ Releasing \in BOOLEAN

VARIABLES
    head,           \* the branch's head, and what the registry's :latest holds
    trigger,        \* the trigger file: None or the revision it carries
    frozenAt,       \* frozen_commit of the environment, None when not frozen
    tag,            \* <repo>:<commit12> on the box
    latest, previous,   \* <repo>:latest and <repo>:previous on the box
    ctr,            \* the image the service's container runs, None without one
    rel,            \* <service>-release: "none", run by the "build" or the "pass",
                    \* running without the process that started it ("buildleft",
                    \* "passleft"), or the "finished" one of a pass that died
    failed,         \* the box's failed-commits file
    count,          \* consecutive_failures of the circuit breaker
    lock,           \* the build lock: "free", "build", "pin" or "other"
    bpc, sha, held, promoted, started, kept,    \* the build
    dpc, target, strict, known, make, report,   \* the deploy
    receipt,        \* the commit the receipt names for the container
    late,           \* history: the commits pushed since the environment is frozen
    seen,           \* history: the newest head a build looked at
    trouble, deploys

imageVars == <<tag, latest, previous>>
buildVars == <<sha, held, promoted, started, kept>>
deployVars == <<dpc, target, strict, known, make, report>>
envVars == <<head, frozenAt, late, deploys>>
vars == <<envVars, trigger, imageVars, ctr, rel, failed, count, lock, bpc, buildVars,
          deployVars, receipt, seen, trouble>>

Owned == {"build", "pull", "release", "releasing", "promote", "stop", "run",
          "started", "health", "rerun", "rehealth"}

TypeOK ==
    /\ head \in Commits /\ seen \in 0..MaxCommit /\ late \subseteq Commits
    /\ {trigger, frozenAt, latest, previous, ctr, promoted, started, kept,
        target, report, receipt, sha} \subseteq 0..MaxCommit
    /\ tag \in [Commits -> 0..MaxCommit]
    /\ rel \in {"none", "build", "pass", "buildleft", "passleft", "finished"}
    /\ failed \subseteq Failure /\ known \subseteq Failure
    /\ count \in 0..MaxFailures
    /\ lock \in {"free", "build", "pin", "other"}
    /\ bpc \in Owned \cup {"idle", "wait"}
    /\ dpc \in {"idle", "read", "plan", "lock", "replan", "pass", "release",
                "releasing", "stop", "start", "report", "write"}
    /\ {held, strict} \subseteq BOOLEAN
    /\ make \in {"create", "recreate"}
    /\ trouble \in 0..MaxTrouble /\ deploys \in 0..MaxDeploys

\* An environment right after its first deploy, of commit 1.
Init ==
    /\ head = 1 /\ trigger = None /\ frozenAt = None
    /\ tag = [c \in Commits |-> IF c = 1 THEN 1 ELSE None]
    /\ latest = 1 /\ previous = None /\ ctr = 1 /\ receipt = 1 /\ rel = "none"
    /\ failed = {} /\ count = 0 /\ lock = "free"
    /\ bpc = "idle" /\ sha = None /\ held = FALSE
    /\ promoted = None /\ started = None /\ kept = None
    /\ dpc = "idle" /\ target = None /\ strict = FALSE /\ known = {}
    /\ make = "create" /\ report = None
    /\ seen = 1 /\ late = {} /\ trouble = 0 /\ deploys = 0

Trouble == trouble < MaxTrouble /\ trouble' = trouble + 1
Smooth == UNCHANGED trouble

-----------------------------------------------------------------------------
(* rebuild.sh.                                                               *)

\* The run ends: the kernel drops the flock with the process.
Exit == bpc' = "idle" /\ lock' = IF lock = "build" THEN "free" ELSE lock
Goto(step) == bpc' = step /\ UNCHANGED lock
RecordFailure == count' = count + 1

\* What runs before the hold guard does not change. After it: the release, when
\* there is one, and then the promotion; the pull path moved :latest already.
Deploying == IF Registry THEN "stop" ELSE "promote"
AfterHold == IF Releasing THEN "release" ELSE Deploying

\* The breaker is open.
Open == count >= MaxFailures

\* A push: the webhook (or the build server's pull signal) writes the trigger.
Push ==
    /\ head < MaxCommit
    /\ head' = head + 1 /\ trigger' = head + 1
    /\ late' = IF frozenAt # None THEN late \cup {head + 1} ELSE late
    /\ UNCHANGED <<frozenAt, deploys, imageVars, ctr, rel, failed, count, lock, bpc,
                   buildVars, deployVars, receipt, seen, trouble>>

\* Another trigger for the head: a redelivery, or by hand.
Retrigger ==
    /\ trigger = None /\ Trouble
    /\ trigger' = head
    /\ UNCHANGED <<envVars, imageVars, ctr, rel, failed, count, lock, bpc, buildVars,
                   deployVars, receipt, seen>>

\* The trigger is consumed at the start; the script's copy of TRACK and FROZEN is
\* the one rendered by then; an open breaker drops the run.
Consume ==
    /\ bpc = "idle" /\ trigger # None
    /\ trigger' = None
    /\ sha' = trigger /\ held' = (Pin \/ frozenAt # None)
    /\ Goto(IF Open THEN "idle" ELSE "wait")
    /\ UNCHANGED <<envVars, imageVars, ctr, rel, failed, count, promoted, started, kept,
                   deployVars, receipt, seen, trouble>>

TakeLock ==
    /\ bpc = "wait" /\ lock = "free"
    /\ lock' = "build" /\ bpc' = IF Registry THEN "pull" ELSE "build"
    /\ UNCHANGED <<envVars, trigger, imageVars, ctr, rel, failed, count, buildVars,
                   deployVars, receipt, seen, trouble>>

LockTimeout ==
    /\ bpc = "wait" /\ lock # "free" /\ Trouble
    /\ Exit
    /\ UNCHANGED <<envVars, trigger, imageVars, ctr, rel, failed, count, buildVars,
                   deployVars, receipt, seen>>

\* git pull, build under the commit tag alone (an image of that commit is
\* reused), and the hold guard; it also holds a push that changed its bay.toml.
Build(hold) ==
    /\ bpc = "build"
    /\ sha' = head /\ seen' = head
    /\ tag' = [tag EXCEPT ![head] = IF @ = None THEN head ELSE @]
    /\ IF hold THEN Exit ELSE Goto(AfterHold)
    /\ UNCHANGED <<envVars, trigger, latest, previous, ctr, rel, failed, count, held,
                   promoted, started, kept, deployVars, receipt, trouble>>

\* The pull path holds before it pulls, and then pulls only the commit tag.
PullHeld ==
    /\ bpc = "pull" /\ held
    /\ tag' = [tag EXCEPT ![sha] = sha] /\ seen' = sha
    /\ Exit
    /\ UNCHANGED <<envVars, trigger, latest, previous, ctr, rel, failed, count, buildVars,
                   deployVars, receipt, trouble>>

\* docker pull <repo>:latest, the commit tag of the trigger's revision, and the
\* running container's image as :previous unless it is the one just pulled.
Pull ==
    /\ bpc = "pull" /\ ~held
    /\ latest' = head /\ tag' = [tag EXCEPT ![sha] = head]
    /\ previous' = IF ctr \notin {None, head} THEN ctr ELSE previous
    /\ promoted' = head /\ kept' = ctr /\ seen' = head
    /\ Goto(AfterHold)
    /\ UNCHANGED <<envVars, trigger, ctr, rel, failed, count, sha, held, started,
                   deployVars, receipt, trouble>>

FetchFails ==
    /\ bpc \in {"build", "pull"} /\ ~(bpc = "pull" /\ held) /\ Trouble
    /\ seen' = head
    /\ RecordFailure /\ Exit
    /\ UNCHANGED <<envVars, trigger, imageVars, ctr, rel, failed, buildVars, deployVars, receipt>>

StartRelease ==
    /\ bpc = "release" /\ rel = "none"
    /\ rel' = "build"
    /\ Goto("releasing")
    /\ UNCHANGED <<envVars, trigger, imageVars, ctr, failed, count, buildVars, deployVars,
                   receipt, seen, trouble>>

EndRelease ==
    /\ bpc = "releasing"
    /\ rel' = "none"
    /\ Goto(Deploying)
    /\ UNCHANGED <<envVars, trigger, imageVars, ctr, failed, count, buildVars, deployVars,
                   receipt, seen, trouble>>

\* _release_or_fail on any exit but 0: a timeout, a non-zero exit, and a name
\* that is taken. It removes <service>-release whose label names the service,
\* which the reconciler's has too; the pull path points :latest back.
ReleaseFails ==
    /\ \/ bpc = "release" /\ rel # "none" /\ Smooth
       \/ bpc = "releasing" /\ Trouble
    /\ rel' = "none"
    /\ latest' = IF Registry /\ kept # None THEN kept ELSE latest
    /\ RecordFailure /\ Exit
    /\ UNCHANGED <<envVars, trigger, tag, previous, ctr, failed, buildVars, deployVars,
                   receipt, seen>>

PreviousAfter(want) == IF latest \notin {None, want} THEN latest ELSE previous

\* _promote_latest: the old :latest becomes :previous, unless it already is
\* this image.
Promote ==
    /\ bpc = "promote"
    /\ previous' = PreviousAfter(tag[sha])
    /\ latest' = tag[sha] /\ promoted' = tag[sha]
    /\ Goto("stop")
    /\ UNCHANGED <<envVars, trigger, tag, ctr, rel, failed, count, sha, held, started, kept,
                   deployVars, receipt, seen, trouble>>

StopOld ==
    /\ bpc = "stop"
    /\ ctr' = None
    /\ Goto("run")
    /\ UNCHANGED <<envVars, trigger, imageVars, rel, failed, count, buildVars, deployVars,
                   receipt, seen, trouble>>

\* docker run of <repo>:latest, by tag.
RunNew ==
    /\ bpc = "run" /\ ctr = None
    /\ ctr' = latest
    /\ Goto("started")
    /\ UNCHANGED <<envVars, trigger, imageVars, rel, failed, count, buildVars, deployVars,
                   receipt, seen, trouble>>

\* _started_commit reads back what the container of that name runs by then.
ReadStarted ==
    /\ bpc = "started"
    /\ started' = ctr
    /\ Goto("health")
    /\ UNCHANGED <<envVars, trigger, imageVars, ctr, rel, failed, count, sha, held, promoted, kept,
                   deployVars, receipt, seen, trouble>>

OnStartFailureRemove == ctr' = None
OnStartFailure == UNCHANGED ctr

\* The name is taken (the pass was first), or the start fails: the ERR trap.
RunFails ==
    /\ bpc = "run"
    /\ \/ ctr # None /\ Smooth
       \/ ctr = None /\ Trouble
    /\ OnStartFailure /\ RecordFailure /\ Exit
    /\ UNCHANGED <<envVars, trigger, imageVars, rel, failed, buildVars, deployVars,
                   receipt, seen>>

\* What the receipt names (None: no commit), and which commit a failed check marks.
StartedCommit == IF started = promoted THEN sha ELSE started
Marked == IF started = promoted THEN {[commit |-> sha, image |-> tag[sha]]} ELSE {}

\* The pull path then wants the trigger's revision to be the one that runs.
AnyRevision == TRUE
Announced == Registry => ctr = sha

\* A trigger written during the run is not this run's to remove.
DropTrigger == trigger' = None
LeaveTrigger == UNCHANGED trigger

Healthy ==
    /\ bpc = "health" /\ ctr # None /\ Announced
    /\ receipt' = StartedCommit
    /\ failed' = {f \in failed : f.commit # StartedCommit}
    /\ count' = 0
    /\ LeaveTrigger /\ Exit
    /\ UNCHANGED <<envVars, imageVars, ctr, rel, buildVars, deployVars, seen, trouble>>

OtherRevision ==
    /\ bpc = "health" /\ ctr # None /\ ~Announced
    /\ RecordFailure /\ Exit
    /\ UNCHANGED <<envVars, trigger, imageVars, ctr, rel, failed, buildVars, deployVars,
                   receipt, seen, trouble>>

\* _handle_rollback up to the restart: a container that is gone is not healthy.
Unhealthy ==
    /\ bpc = "health"
    /\ \/ ctr = None /\ Smooth
       \/ ctr # None /\ Trouble
    /\ ctr' = None
    /\ failed' = failed \cup Marked
    /\ tag' = IF Marked = {} THEN tag ELSE [tag EXCEPT ![sha] = None]
    /\ IF previous = None
         THEN RecordFailure /\ Exit /\ UNCHANGED <<latest, kept>>
         ELSE /\ latest' = previous /\ kept' = latest
              /\ Goto("rerun") /\ UNCHANGED count
    /\ UNCHANGED <<envVars, trigger, previous, rel, sha, held, promoted, started, deployVars,
                   receipt, seen>>

Rerun ==
    /\ bpc = "rerun" /\ ctr = None
    /\ ctr' = latest
    /\ Goto("rehealth")
    /\ UNCHANGED <<envVars, trigger, imageVars, rel, failed, count, buildVars, deployVars,
                   receipt, seen, trouble>>

RolledBack ==
    /\ bpc = "rehealth" /\ ctr # None
    /\ RecordFailure /\ Exit
    /\ UNCHANGED <<envVars, trigger, imageVars, ctr, rel, failed, buildVars, deployVars,
                   receipt, seen, trouble>>

\* The rollback fails too: :latest goes back to the image before it.
RollbackFails ==
    /\ \/ bpc = "rerun" /\ ctr # None /\ Smooth /\ UNCHANGED ctr
       \/ bpc = "rerun" /\ ctr = None /\ Trouble /\ UNCHANGED ctr
       \/ bpc = "rehealth" /\ ctr = None /\ Smooth /\ UNCHANGED ctr
       \/ bpc = "rehealth" /\ ctr # None /\ Trouble /\ ctr' = None
    /\ latest' = kept
    /\ RecordFailure /\ Exit
    /\ UNCHANGED <<envVars, trigger, tag, previous, rel, failed, buildVars, deployVars,
                   receipt, seen>>

\* TimeoutStartSec, the OOM killer, a reboot. Docker keeps the containers.
Killed ==
    /\ bpc # "idle" /\ Trouble
    /\ Exit
    /\ rel' = IF rel = "build" THEN "buildleft" ELSE rel
    /\ UNCHANGED <<envVars, trigger, imageVars, ctr, failed, count, buildVars, deployVars,
                   receipt, seen>>

-----------------------------------------------------------------------------
(* bay up, bay rollback: the freeze, codepin, the pass, the receipt.         *)

Deploy(step) == dpc' = step

\* bay up to commit t. Newer than the frozen commit, it clears the freeze. The
\* deploy renders rebuild.sh first, so its FROZEN is the new one. Outside pin
\* mode there may be no code target: the bay.toml is in the fleet, or the
\* container runs newer code than the pin.
BayUp(t, pins) ==
    /\ dpc = "idle" /\ deploys < MaxDeploys /\ (Pin => pins)
    /\ target' = t /\ strict' = Pin
    /\ frozenAt' = IF frozenAt # None /\ t > frozenAt THEN None ELSE frozenAt
    /\ late' = IF frozenAt' = None THEN {} ELSE late
    /\ deploys' = deploys + 1
    /\ Deploy(IF pins THEN "read" ELSE "pass")
    /\ UNCHANGED <<head, trigger, imageVars, ctr, rel, failed, count, lock, bpc, buildVars,
                   known, make, report, receipt, seen, trouble>>

\* bay rollback [--to t] freezes at t; only --to is strict.
BayRollback(t, to) ==
    /\ dpc = "idle" /\ deploys < MaxDeploys
    /\ target' = t /\ strict' = to
    /\ frozenAt' = t
    /\ deploys' = deploys + 1
    /\ Deploy("read")
    /\ UNCHANGED <<head, late, trigger, imageVars, ctr, rel, failed, count, lock, bpc,
                   buildVars, known, make, report, receipt, seen, trouble>>

\* codepin.main reads the failed builds before it asks for the lock.
ReadFailed ==
    /\ dpc = "read"
    /\ known' = failed
    /\ Deploy("plan")
    /\ UNCHANGED <<envVars, trigger, imageVars, ctr, rel, failed, count, lock, bpc, buildVars,
                   target, strict, make, report, receipt, seen, trouble>>

BadCommit(c) == \E f \in known : f.commit = c
BadImage(i) == \E f \in known : f.image = i

\* runs_commit, by_label and the registry, in this order: each finds the image
\* whose label is the target. A failed commit without a tag is not looked for.
RunsTarget == target = (IF ctr # None THEN ctr ELSE latest) /\ ~BadImage(target)
ByLabel ==
    /\ target \in {latest, previous} \cup {tag[c] : c \in Commits}
    /\ ~BadImage(target)
Source ==
    IF tag[target] # None THEN tag[target]
    ELSE IF ~BadCommit(target) /\ (RunsTarget \/ ByLabel \/ Registry) THEN target ELSE None
KnownBad(i) == BadCommit(target) \/ BadImage(i)
Outcome ==
    IF Source = None THEN "missing"
    ELSE IF Source = latest THEN "noop"
    ELSE IF KnownBad(Source) THEN "missing" ELSE "retag"

\* The commit tag by_label or the pull makes; it needs no lock.
TagFound ==
    tag' = IF Source # None /\ ~(tag[target] = None /\ RunsTarget)
             THEN [tag EXCEPT ![target] = Source] ELSE tag
\* A strict target that is missing stops the deploy before the pass.
AfterPin == IF Outcome = "missing" /\ strict THEN "idle" ELSE "pass"

PlanMove ==
    /\ dpc = "plan"
    /\ TagFound
    /\ Deploy(IF Outcome = "retag" THEN "lock" ELSE AfterPin)
    /\ UNCHANGED <<envVars, trigger, latest, previous, ctr, rel, failed, count, lock, bpc,
                   buildVars, target, strict, known, make, report, receipt, seen, trouble>>

PinAtOnce == TRUE
PinMayLock == lock = "free"

PinTakesLock ==
    /\ dpc = "lock" /\ PinMayLock
    /\ lock' = "pin"
    /\ Deploy("replan")
    /\ UNCHANGED <<envVars, trigger, imageVars, ctr, rel, failed, count, bpc, buildVars,
                   target, strict, known, make, report, receipt, seen, trouble>>

\* The wait runs out: planned once more, with no move of :latest.
PinTimeout ==
    /\ dpc = "lock" /\ lock # "free" /\ Trouble
    /\ TagFound
    /\ Deploy(AfterPin)
    /\ UNCHANGED <<envVars, trigger, latest, previous, ctr, rel, failed, count, lock, bpc,
                   buildVars, target, strict, known, make, report, receipt, seen>>

Unlock == lock' = "free"

\* Planned again under the lock, from what Docker says now; the lock is
\* released when codepin ends.
Repin ==
    /\ dpc = "replan"
    /\ TagFound
    /\ IF Outcome = "retag"
         THEN /\ latest' = Source
              /\ previous' = IF latest # None THEN latest ELSE previous
         ELSE UNCHANGED <<latest, previous>>
    /\ Unlock
    /\ Deploy(AfterPin)
    /\ UNCHANGED <<envVars, trigger, ctr, rel, failed, count, bpc, buildVars, target, strict,
                   known, make, report, receipt, seen, trouble>>

\* The reconciler observes and plans (no container: create; another image than
\* :latest: recreate).
Observe ==
    /\ dpc = "pass"
    /\ make' = IF ctr = None THEN "create" ELSE "recreate"
    /\ Deploy(IF ctr # None /\ latest \in {None, ctr} THEN "report"
              ELSE IF Releasing THEN "release"
              ELSE IF ctr = None THEN "start" ELSE "stop")
    /\ UNCHANGED <<envVars, trigger, imageVars, ctr, rel, failed, count, lock, bpc, buildVars,
                   target, strict, known, report, receipt, seen, trouble>>

\* A leftover that finished is removed, one that runs is left alone.
ReleaseFree == rel \in {"none", "finished"}

PassRelease ==
    /\ dpc = "release" /\ ReleaseFree /\ latest # None
    /\ rel' = "pass"
    /\ Deploy("releasing")
    /\ UNCHANGED <<envVars, trigger, imageVars, ctr, failed, count, lock, bpc, buildVars,
                   target, strict, known, make, report, receipt, seen, trouble>>

PassReleaseEnds ==
    /\ dpc = "releasing" /\ rel = "pass"
    /\ rel' = "none"
    /\ Deploy(IF make = "create" THEN "start" ELSE "stop")
    /\ UNCHANGED <<envVars, trigger, imageVars, ctr, failed, count, lock, bpc, buildVars,
                   target, strict, known, make, report, receipt, seen, trouble>>

\* Another release runs, the command fails, or its container was killed.
PassReleaseFails ==
    /\ \/ dpc = "release" /\ ~(ReleaseFree /\ latest # None) /\ Smooth
       \/ dpc = "releasing" /\ rel # "pass" /\ Smooth
       \/ dpc = "releasing" /\ rel = "pass" /\ Trouble
    /\ rel' = IF rel = "pass" THEN "none" ELSE rel
    /\ Deploy("report")
    /\ UNCHANGED <<envVars, trigger, imageVars, ctr, failed, count, lock, bpc, buildVars,
                   target, strict, known, make, report, receipt, seen>>

PassStops ==
    /\ dpc = "stop"
    /\ ctr' = None
    /\ Deploy("start")
    /\ UNCHANGED <<envVars, trigger, imageVars, rel, failed, count, lock, bpc, buildVars,
                   target, strict, known, make, report, receipt, seen, trouble>>

PassStarts ==
    /\ dpc = "start" /\ ctr = None /\ latest # None
    /\ ctr' = latest
    /\ Deploy("report")
    /\ UNCHANGED <<envVars, trigger, imageVars, rel, failed, count, lock, bpc, buildVars,
                   target, strict, known, make, report, receipt, seen, trouble>>

PassStartFails ==
    /\ dpc = "start"
    /\ \/ (ctr # None \/ latest = None) /\ Smooth
       \/ ctr = None /\ Trouble
    /\ Deploy("report")
    /\ UNCHANGED <<envVars, trigger, imageVars, ctr, rel, failed, count, lock, bpc, buildVars,
                   target, strict, known, make, report, receipt, seen>>

\* The reconciler's last observe; the play writes the receipt from it.
Report ==
    /\ dpc = "report"
    /\ report' = ctr
    /\ Deploy("write")
    /\ UNCHANGED <<envVars, trigger, imageVars, ctr, rel, failed, count, lock, bpc, buildVars,
                   target, strict, known, make, receipt, seen, trouble>>

WriteReceipt ==
    /\ dpc = "write"
    /\ receipt' = report
    /\ Deploy("idle")
    /\ UNCHANGED <<envVars, trigger, imageVars, ctr, rel, failed, count, lock, bpc, buildVars,
                   target, strict, known, make, report, seen, trouble>>

DeployDies ==
    /\ dpc # "idle" /\ Trouble
    /\ Deploy("idle")
    /\ lock' = IF lock = "pin" THEN "free" ELSE lock
    /\ rel' = IF rel = "pass" THEN "passleft" ELSE rel
    /\ UNCHANGED <<envVars, trigger, imageVars, ctr, failed, count, bpc, buildVars,
                   target, strict, known, make, report, receipt, seen>>

-----------------------------------------------------------------------------
(* The rest of the box.                                                      *)

\* bay build reset.
ResetBreaker ==
    /\ count > 0 /\ Trouble
    /\ count' = 0
    /\ UNCHANGED <<envVars, trigger, imageVars, ctr, rel, failed, lock, bpc, buildVars,
                   deployVars, receipt, seen>>

\* The build's release container removes itself (--rm), the pass's does not.
LeftoverEnds ==
    /\ rel \in {"buildleft", "passleft"}
    /\ rel' = IF rel = "buildleft" THEN "none" ELSE "finished"
    /\ UNCHANGED <<envVars, trigger, imageVars, ctr, failed, count, lock, bpc, buildVars,
                   deployVars, receipt, seen, trouble>>

\* A build of another service of the box.
OtherBuild ==
    /\ lock = "free" /\ Trouble
    /\ lock' = "other"
    /\ UNCHANGED <<envVars, trigger, imageVars, ctr, rel, failed, count, bpc, buildVars,
                   deployVars, receipt, seen>>

OtherBuildEnds ==
    /\ lock = "other"
    /\ lock' = "free"
    /\ UNCHANGED <<envVars, trigger, imageVars, ctr, rel, failed, count, bpc, buildVars,
                   deployVars, receipt, seen, trouble>>

-----------------------------------------------------------------------------
BuildStep ==
    \/ Consume \/ TakeLock \/ (\E hold \in {TRUE, held} : Build(hold)) \/ PullHeld
    \/ Pull \/ StartRelease \/ EndRelease
    \/ Promote \/ StopOld \/ RunNew \/ ReadStarted \/ Healthy \/ OtherRevision \/ Rerun \/ RolledBack
    \/ LockTimeout \/ FetchFails \/ ReleaseFails \/ RunFails \/ Unhealthy
    \/ RollbackFails \/ Killed
DeployStep ==
    \/ ReadFailed \/ PlanMove \/ PinTakesLock \/ Repin \/ Observe \/ PassRelease
    \/ PassReleaseEnds \/ PassStops \/ PassStarts \/ Report \/ WriteReceipt
    \/ PinTimeout \/ PassReleaseFails \/ PassStartFails \/ DeployDies
BoxStep == LeftoverEnds \/ OtherBuildEnds
Outside ==
    \/ Push \/ Retrigger \/ ResetBreaker \/ OtherBuild
    \/ \E t \in 1..head, b \in BOOLEAN : BayUp(t, b) \/ BayRollback(t, b)

Next == BuildStep \/ DeployStep \/ BoxStep \/ Outside

Spec == Init /\ [][Next]_vars

\* systemd starts a triggered unit and both programs go on; a flock that stays
\* free is taken; a release and a build of another service end by a timeout.
FairSpec == Spec /\ WF_vars(BuildStep) /\ WF_vars(DeployStep) /\ WF_vars(BoxStep)

-----------------------------------------------------------------------------
(* Safety.                                                                   *)

\* From its promotion until it starts the container, a build finds :latest
\* where it put it: no bay up moves it back under the build
\* (docs/build-pipeline.md, "The build lock covers the promotion and the start").
StartsWhatItPromoted ==
    [][(bpc \in {"stop", "run"}) => latest' = promoted]_vars

\* A build stamps the receipt with a commit only when the container it checked
\* runs that commit (_started_commit and the revision check of the pull path).
StampedIsLive ==
    [][bpc = "health" /\ receipt' # receipt /\ dpc' = dpc => receipt' \in {None, ctr}]_vars

\* A push is never dropped: with no timeout, kill or open breaker, a build that
\* is not asked for any more has looked at the newest head (rebuild.sh: "A
\* trigger written mid-run is kept").
NoPushLost ==
    bpc = "idle" /\ trigger = None /\ trouble = 0 /\ count < MaxFailures => seen = head

\* Builds and deploys race for the container, but when both are over and nothing
\* failed on its own, the service has one.
SomethingServes ==
    bpc = "idle" /\ dpc = "idle" /\ trouble = 0 => ctr # None

\* The image a failed health check goes back to is not the image under test
\* (rebuild.sh: "moving it would make the rollback target the image under test").
RollbackTargetDiffers ==
    bpc = "health" => previous # promoted

\* codepin never points :latest at a build it knows to have failed, by its
\* commit or by its image.
KnownFailureStays ==
    [][dpc = "replan" /\ latest' # latest
       => \A f \in known : f.commit # target /\ f.image # latest']_vars

\* The same of every build recorded by then (docs/build-pipeline.md: "a later bay
\* up whose WANTED is that commit never promotes the failed image").
FailedNeverPinned ==
    [][dpc = "replan" /\ latest' # latest
       => \A f \in failed : f.commit # target /\ f.image # latest']_vars

\* A release of the deploy runs to its own end: a build of the same service does
\* not remove it (sdk_client._remove_release, rebuild.sh _release_or_fail: "only
\* a container this service's release made").
PassReleaseSurvives ==
    [][rel = "pass" /\ rel' # "pass" => dpc # dpc']_vars

\* Once a rollback has put its commit back, no commit pushed since the freeze is deployed by a
\* build while the environment is frozen (docs/plan.md: "a push builds and tags
\* its image, but does not deploy it, whatever track says").
FreezeHolds ==
    [][bpc = "promote" /\ dpc = "idle" /\ frozenAt # None /\ frozenAt = latest
       => sha \notin late]_vars

\* <repo>:<commit12> is the code of that commit: bay rollback --to finds it so.
CommitTagNamesItsCode ==
    \A c \in Commits : tag[c] \in {None, c}

=============================================================================
