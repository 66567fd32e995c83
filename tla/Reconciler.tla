------------------------------ MODULE Reconciler ------------------------------
(***************************************************************************)
(* One box, its containers and the passes of the server-side reconciler:   *)
(* src/bay_reconcile observes the fleet, plans one action per container    *)
(* and executes the plan against Docker, phase by phase.  Every Docker     *)
(* call is an atomic step here; what happens between two calls (another    *)
(* worker's call, a crash of the process, a container that exits, a tag    *)
(* that moves, another release that starts) is a step of its own.          *)
(*                                                                         *)
(* A bundle entry is a name with a Configs value: the config hash, which   *)
(* is all the planner compares, and the host port it publishes.            *)
(***************************************************************************)
EXTENDS Naturals, FiniteSets

CONSTANTS
    Names,          \* names a bundle may list
    Type,           \* [Names -> {"infra", "accessory", "service"}]
    ZeroDowntime,   \* names whose spec asks for a canary swap
    Built,          \* names whose image the box builds, so a pass never pulls it
    Releasing,      \* names whose spec has a release command
    HealthChecked,  \* names whose spec has a healthcheck
    Configs,        \* config hashes a bundle may ask for
    Port,           \* [Configs -> Nat], the host port, 0 for none
    MaxImage,       \* image ids are 1..MaxImage, 0 is an unknown id
    RemoveOrphans,  \* the bundle's remove_orphans
    MaxWorkers,     \* threads of a batch (8 in the code)
    MaxPolls,       \* health polls of a canary (timeout / poll in the code)
    MaxFaults,      \* bound: Docker errors, crashes and containers that die
    MaxEdits,       \* bound: changes of the bundle and moves of an image tag
    Unlisted,       \* the bundle does not list the name
    Absent,         \* no container has the name
    Unhashed,       \* cfg of a managed container without a config hash
    Foreign         \* cfg of a container Bay does not manage

CanaryOf(n) == <<n, "-new">>
Canaries == {CanaryOf(n) : n \in Names}
Containers == Names \cup Canaries

Types == {"infra", "accessory", "service"}
Cfgs == Configs \cup {Unhashed, Foreign}
Up == {"plain", "starting", "healthy", "unhealthy", "looping"}
Status == Up \cup {"created", "exited"}
Container == [cfg : Cfgs, image : 1..MaxImage, status : Status]

ASSUME ConstantsOK ==
    /\ IsFiniteSet(Names)
    /\ Type \in [Names -> Types]
    /\ ZeroDowntime \subseteq Names /\ Built \subseteq Names
    /\ Releasing \subseteq Names /\ HealthChecked \subseteq Names
    /\ Port \in [Configs -> Nat]
    /\ MaxImage \in Nat \ {0} /\ MaxWorkers \in Nat \ {0} /\ MaxPolls \in Nat \ {0}
    /\ MaxFaults \in Nat /\ MaxEdits \in Nat
    /\ RemoveOrphans \in BOOLEAN

\* A canary's name is no name of a bundle, and the markers are no other value.
ASSUME MarkersDistinct ==
    /\ Names \cap Canaries = {}
    /\ Unlisted \notin Configs
    /\ Unhashed \notin Configs /\ Foreign \notin Configs /\ Unhashed # Foreign
    /\ Absent \notin Container

VARIABLES
    want,       \* the bundle: [Names -> Configs \cup {Unlisted}]
    local,      \* the image id each name's reference resolves to on the box
    box,        \* the containers of the Docker daemon
    rel,        \* the one-shot container <name>-release: running for this pass,
                \* "other" for another process's, finished, or none
    pass,       \* "idle", "run", "ok" or "failed"
    plan,       \* the action planned for each container
    pc,         \* where that action is
    polls,      \* health polls made by the canary swap under way
    released,   \* history: names whose release command exited 0 in this pass
    moved,      \* history: names whose image tag moved since the pass observed
    faults, edits

dockerVars == <<local, box, rel>>
passVars   == <<pass, plan, pc, polls>>
vars == <<want, dockerVars, passVars, released, moved, faults, edits>>

Steps == {"queued", "pull", "release", "releasing", "stop", "remove", "start",
          "canary", "health", "rename",
          "rescue_stop_canary", "rescue_remove_canary", "rescue_stop",
          "rescue_remove", "rescue_start", "done", "failed"}
Kinds == {"none", "noop", "create", "recreate", "swap", "remove"}

Over == {"done", "failed"}
Rescue == {"rescue_stop_canary", "rescue_remove_canary", "rescue_stop",
           "rescue_remove", "rescue_start"}
Busy(c) == pc[c] \notin Over \cup {"queued"}

TypeOK ==
    /\ want \in [Names -> Configs \cup {Unlisted}]
    /\ local \in [Names -> 0..MaxImage]
    /\ box \in [Containers -> Container \cup {Absent}]
    /\ rel \in [Names -> {"none", "running", "other", "finished"}]
    /\ pass \in {"idle", "run", "ok", "failed"}
    /\ plan \in [Containers -> Kinds]
    /\ pc \in [Containers -> Steps]
    /\ polls \in 0..MaxPolls
    /\ released \subseteq Names /\ moved \subseteq Names
    /\ faults \in 0..MaxFaults /\ edits \in 0..MaxEdits

-----------------------------------------------------------------------------
(* What Docker holds.                                                        *)

Present(c) == box[c] # Absent
Running(c) == Present(c) /\ box[c].status \in Up
Managed(c) == Present(c) /\ box[c].cfg # Foreign
Listed(c)  == c \in Names /\ want[c] # Unlisted

PortOf(cfg) == IF cfg \in Configs THEN Port[cfg] ELSE 0

\* The name and its canary publish the same host port; only one of them can.
PortTaken(n, t) ==
    /\ Port[want[n]] # 0
    /\ \E u \in {n, CanaryOf(n)} \ {t} :
          Running(u) /\ PortOf(box[u].cfg) = Port[want[n]]

Turned(c, status) == [cfg |-> box[c].cfg, image |-> box[c].image, status |-> status]

\* The container `docker run` leaves for name n when it gets to `status`.
NewContainer(n, status) == [cfg |-> want[n], image |-> local[n], status |-> status]
Started(n) == NewContainer(n, IF n \in HealthChecked THEN "starting" ELSE "plain")

Fault == faults < MaxFaults /\ faults' = faults + 1
Edit  == edits < MaxEdits /\ edits' = edits + 1

-----------------------------------------------------------------------------
(* planner.py: the decision table.                                           *)

Drifted(n) == local[n] # 0 /\ local[n] # box[n].image
PortDrift(n) == PortOf(box[n].cfg) # Port[want[n]]

DecisionNoImage(c) ==
    IF Listed(c)
      THEN IF ~Present(c) THEN "create"
           ELSE IF box[c].cfg = want[c] THEN "noop" ELSE "recreate"
      ELSE IF RemoveOrphans /\ Managed(c) THEN "remove" ELSE "none"
DecisionKeepsOrphans(c) ==
    IF Listed(c)
      THEN IF ~Present(c) THEN "create"
           ELSE IF box[c].cfg = want[c] /\ ~Drifted(c) THEN "noop" ELSE "swap"
      ELSE "none"
Decision(c) ==
    IF Listed(c)
      THEN IF ~Present(c) THEN "create"
           ELSE IF box[c].cfg = want[c] /\ ~Drifted(c) THEN "noop"
           ELSE IF c \in ZeroDowntime /\ Type[c] = "service" /\ ~PortDrift(c)
             THEN "swap" ELSE "recreate"
      ELSE IF RemoveOrphans /\ Managed(c) THEN "remove" ELSE "none"

(* executor.py: the phases.  Within a phase the canary swaps come after the  *)
(* other actions and one at a time; removals of orphans come last.           *)
Rank(t) == IF t = "infra" THEN 0 ELSE IF t = "accessory" THEN 2 ELSE 4
Stage(c) == IF plan[c] = "remove" THEN 6
            ELSE Rank(Type[c]) + (IF plan[c] = "swap" THEN 1 ELSE 0)

Acting(c) == plan[c] \in Kinds \ {"none", "noop"}
WorkersAll(c) == MaxWorkers
Workers(c) == IF plan[c] = "swap" THEN 1 ELSE MaxWorkers

Turn(c) ==
    /\ Cardinality({d \in Containers : Busy(d)}) < Workers(c)
    /\ \A d \in Containers : Acting(d) /\ Stage(d) < Stage(c) => pc[d] \in Over

-----------------------------------------------------------------------------
(* A pass: observe and plan in one read, then one thread per action.         *)

\* Before the first pass: nothing, a container of somebody else, or one that
\* the Ansible path of an earlier release left without a hash label.
Found == {Absent, [cfg |-> Foreign,  image |-> 1, status |-> "plain"],
                  [cfg |-> Unhashed, image |-> 1, status |-> "plain"]}

Init ==
    /\ want \in [Names -> Configs \cup {Unlisted}]
    /\ local \in [Names -> {0, 1}]
    /\ \E found \in [Names -> Found] :
         box = [c \in Containers |-> IF c \in Names THEN found[c] ELSE Absent]
    /\ rel = [n \in Names |-> "none"]
    /\ pass = "idle"
    /\ plan = [c \in Containers |-> "none"] /\ pc = [c \in Containers |-> "done"]
    /\ polls = 0 /\ released = {} /\ moved = {} /\ faults = 0 /\ edits = 0

StartPass ==
    /\ pass = "idle"
    /\ pass' = "run"
    /\ plan' = [c \in Containers |-> Decision(c)]
    /\ pc' = [c \in Containers |->
                IF Decision(c) \in {"none", "noop"} THEN "done" ELSE "queued"]
    /\ released' = {} /\ moved' = {}
    /\ UNCHANGED <<want, dockerVars, polls, faults, edits>>

\* Where an action goes after its release, after its pull, and when its turn
\* comes (executor._apply, executor._canary_swap).
AfterRelease(c) == IF plan[c] = "create" THEN "start"
                   ELSE IF plan[c] = "recreate" THEN "stop" ELSE "canary"
AfterPullUngated(c) == AfterRelease(c)
AfterPull(c) == IF c \in Releasing THEN "release" ELSE AfterRelease(c)
FirstStep(c) == IF plan[c] = "remove" THEN "stop"
                ELSE IF c \in Built THEN AfterPull(c) ELSE "pull"

At(c, step) == pass = "run" /\ pc[c] = step
Goto(c, step) == pc' = [pc EXCEPT ![c] = step]

\* An exception: inside the try block of a swap it reaches the rescue, anywhere
\* else (the create of the canary and the rescue itself included) the worker.
Raise(c) == Goto(c, IF plan[c] = "swap" /\ pc[c] \in {"health", "stop", "remove", "rename"}
                      THEN "rescue_stop_canary" ELSE "failed")

Begin(c) ==
    /\ At(c, "queued") /\ Turn(c)
    /\ Goto(c, FirstStep(c))
    /\ UNCHANGED <<want, dockerVars, pass, plan, polls, released, moved, faults, edits>>

\* Contact the registry only when the image is absent.
Pull(c) ==
    /\ At(c, "pull")
    /\ local' = IF local[c] = 0 THEN [local EXCEPT ![c] = 1] ELSE local
    /\ Goto(c, AfterPull(c))
    /\ UNCHANGED <<want, box, rel, pass, plan, polls, released, moved, faults, edits>>

\* sdk_client.run_release: a leftover that finished is removed, then the new
\* one-shot container runs; one that still runs fails this release.
ReleaseFree(c) == rel[c] # "other"

RunRelease(c) ==
    /\ At(c, "release") /\ ReleaseFree(c) /\ local[c] # 0
    /\ rel' = [rel EXCEPT ![c] = "running"]
    /\ Goto(c, "releasing")
    /\ UNCHANGED <<want, local, box, pass, plan, polls, released, moved, faults, edits>>

RefuseRelease(c) ==
    /\ At(c, "release") /\ ~(ReleaseFree(c) /\ local[c] # 0)
    /\ Raise(c)
    /\ UNCHANGED <<want, dockerVars, pass, plan, polls, released, moved, faults, edits>>

\* Exit 0. The container is removed on every path out.
EndRelease(c) ==
    /\ At(c, "releasing")
    /\ rel' = [rel EXCEPT ![c] = "none"]
    /\ released' = released \cup {c}
    /\ Goto(c, AfterRelease(c))
    /\ UNCHANGED <<want, local, box, pass, plan, polls, moved, faults, edits>>

\* A non-zero exit or release_timeout.
FailRelease(c) ==
    /\ At(c, "releasing") /\ Fault
    /\ rel' = [rel EXCEPT ![c] = "none"]
    /\ Raise(c)
    /\ UNCHANGED <<want, local, box, pass, plan, polls, released, moved, edits>>

-----------------------------------------------------------------------------
(* The Docker calls of an action. `Subject` is the container the call names. *)

SubjectSwapped(c) == IF pc[c] \in {"canary", "health", "remove"} /\ plan[c] = "swap"
                     THEN CanaryOf(c) ELSE c
Subject(c) == IF pc[c] \in {"canary", "health", "rescue_stop_canary", "rescue_remove_canary"}
              THEN CanaryOf(c) ELSE c

AfterStop(c) == IF pc[c] = "stop" THEN "remove"
                ELSE IF pc[c] = "rescue_stop" THEN "rescue_remove" ELSE "rescue_remove_canary"
AfterRemove(c) == IF pc[c] = "rescue_remove_canary" THEN "rescue_stop"
                  ELSE IF pc[c] = "rescue_remove" THEN "rescue_start"
                  ELSE IF plan[c] = "recreate" THEN "start"
                  ELSE IF plan[c] = "swap" THEN "rename" ELSE "done"

Stop(c) ==
    /\ pass = "run" /\ pc[c] \in {"stop", "rescue_stop_canary", "rescue_stop"}
    /\ box' = IF Running(Subject(c)) THEN [box EXCEPT ![Subject(c)] = Turned(Subject(c), "exited")] ELSE box
    /\ Goto(c, AfterStop(c))
    /\ UNCHANGED <<want, local, rel, pass, plan, polls, released, moved, faults, edits>>

Remove(c) ==
    /\ pass = "run" /\ pc[c] \in {"remove", "rescue_remove_canary", "rescue_remove"}
    /\ box' = [box EXCEPT ![Subject(c)] = Absent]
    /\ Goto(c, AfterRemove(c))
    /\ UNCHANGED <<want, local, rel, pass, plan, polls, released, moved, faults, edits>>

\* `docker run`, the create and the start of it. The name may be taken (409)
\* or the image missing: no effect. The port may be taken: the container was
\* created, with its labels, and only its start failed.
Starting(c) == pass = "run" /\ pc[c] \in {"start", "canary", "rescue_start"}
Creatable(c) == ~Present(Subject(c)) /\ local[c] # 0

Start(c) ==
    /\ Starting(c) /\ Creatable(c) /\ ~PortTaken(c, Subject(c))
    /\ box' = [box EXCEPT ![Subject(c)] = Started(c)]
    /\ Goto(c, IF pc[c] = "canary" THEN "health" ELSE "done")
    /\ polls' = IF pc[c] = "canary" THEN 0 ELSE polls
    /\ UNCHANGED <<want, local, rel, pass, plan, released, moved, faults, edits>>

RefuseCreate(c) ==
    /\ Starting(c) /\ ~Creatable(c)
    /\ Raise(c)
    /\ UNCHANGED <<want, dockerVars, pass, plan, polls, released, moved, faults, edits>>

RefuseStart(c) ==
    /\ Starting(c) /\ Creatable(c) /\ PortTaken(c, Subject(c))
    /\ box' = [box EXCEPT ![Subject(c)] = NewContainer(c, "created")]
    /\ Raise(c)
    /\ UNCHANGED <<want, local, rel, pass, plan, polls, released, moved, faults, edits>>

\* Any other failure of the start: the same leftover.
StartFails(c) ==
    /\ Starting(c) /\ Creatable(c) /\ Fault
    /\ box' = [box EXCEPT ![Subject(c)] = NewContainer(c, "created")]
    /\ Raise(c)
    /\ UNCHANGED <<want, local, rel, pass, plan, polls, released, moved, edits>>

\* executor._wait_healthy of name n's canary: the health field decides, not the
\* status. A container without one (no healthcheck, or gone) passes; Docker
\* reports "unhealthy" once a health-checked container has stopped.
Canary(n) == box[CanaryOf(n)]
Looping(n) == Present(CanaryOf(n)) /\ Canary(n).status = "looping"
Undecided(n) ==
    /\ Present(CanaryOf(n)) /\ n \in HealthChecked
    /\ Canary(n).status \in {"starting", "unhealthy", "exited"}

PollPasses(c) ==
    /\ At(c, "health") /\ ~Looping(c) /\ ~Undecided(c)
    /\ Goto(c, "stop")
    /\ UNCHANGED <<want, dockerVars, pass, plan, polls, released, moved, faults, edits>>

PollAgain(c) ==
    /\ At(c, "health") /\ Undecided(c) /\ polls + 1 < MaxPolls
    /\ polls' = polls + 1
    /\ UNCHANGED <<want, dockerVars, pass, plan, pc, released, moved, faults, edits>>

PollFails(c) ==
    /\ At(c, "health")
    /\ Looping(c) \/ (Undecided(c) /\ polls + 1 = MaxPolls)
    /\ Raise(c)
    /\ UNCHANGED <<want, dockerVars, pass, plan, polls, released, moved, faults, edits>>

Rename(c) ==
    /\ At(c, "rename") /\ Present(CanaryOf(c)) /\ ~Present(c)
    /\ box' = [box EXCEPT ![c] = box[CanaryOf(c)], ![CanaryOf(c)] = Absent]
    /\ Goto(c, "done")
    /\ UNCHANGED <<want, local, rel, pass, plan, polls, released, moved, faults, edits>>

\* A call that raises and changes nothing: the daemon does not answer, the
\* registry refuses, a container cannot be stopped.
CallFails(c) ==
    /\ pass = "run" /\ Busy(c) /\ pc[c] # "releasing" /\ Fault
    /\ Raise(c)
    /\ UNCHANGED <<want, dockerVars, pass, plan, polls, released, moved, edits>>

-----------------------------------------------------------------------------
(* Around the pass (roles/container_lifecycle, roles/deploy_stack).          *)

Report ==
    /\ pass = "run" /\ \A c \in Containers : pc[c] \in Over
    /\ pass' = IF \E c \in Containers : pc[c] = "failed" THEN "failed" ELSE "ok"
    /\ UNCHANGED <<want, dockerVars, plan, pc, polls, released, moved, faults, edits>>

Close ==
    /\ pass = "ok"
    /\ pass' = "idle"
    /\ UNCHANGED <<want, dockerVars, plan, pc, polls, released, moved, faults, edits>>

\* The rescue of deploy_stack removes the canary of every service the bundle
\* lists; it ignores the removals that fail, so some may stay.
Cleanable == {n \in Names : Type[n] = "service" /\ Listed(n)}
CleanCanaries(kept) ==
    /\ pass = "failed"
    /\ IF kept = {} THEN UNCHANGED faults ELSE Fault
    /\ box' = [c \in Containers |->
                 IF \E n \in Cleanable \ kept : c = CanaryOf(n) THEN Absent ELSE box[c]]
    /\ pass' = "idle"
    /\ UNCHANGED <<want, local, rel, plan, pc, polls, released, moved, edits>>

\* The reconciler dies in the middle of a pass. Its play goes on to the rescue,
\* or is gone too (the operator's connection). A release container runs on.
Crash(next) ==
    /\ pass = "run" /\ Fault
    /\ pass' = next
    /\ pc' = [c \in Containers |-> IF pc[c] \in Over THEN pc[c] ELSE "failed"]
    /\ rel' = [n \in Names |-> IF rel[n] = "running" THEN "other" ELSE rel[n]]
    /\ UNCHANGED <<want, local, box, plan, polls, released, moved, edits>>

-----------------------------------------------------------------------------
(* The rest of the box.                                                      *)

\* A new bundle is written before a pass, never under one.
EditBundle(n, cfg) ==
    /\ pass = "idle" /\ cfg # want[n] /\ Edit
    /\ want' = [want EXCEPT ![n] = cfg]
    /\ UNCHANGED <<dockerVars, passVars, released, moved, faults>>

\* A webhook build or a pull moves the tag, at any time.
MoveImage(n, i) ==
    /\ i # local[n] /\ Edit
    /\ local' = [local EXCEPT ![n] = i]
    /\ moved' = moved \cup {n}
    /\ UNCHANGED <<want, box, rel, passVars, released, faults>>

\* A container is stopped by hand, or its process exits and Docker's restart
\* policy starts it again.
Die(c, status) ==
    /\ Running(c) /\ box[c].status # status /\ Fault
    /\ box' = [box EXCEPT ![c] = Turned(c, status)]
    /\ UNCHANGED <<want, local, rel, passVars, released, moved, edits>>

HealthReport(c, status) ==
    /\ Running(c) /\ box[c].status \in {"starting", "healthy", "unhealthy"} \ {status}
    /\ box' = [box EXCEPT ![c] = Turned(c, status)]
    /\ UNCHANGED <<want, local, rel, passVars, released, moved, faults, edits>>

\* Another process's release (a webhook build), under the same name.
OtherReleaseStarts(n) ==
    /\ rel[n] \in {"none", "finished"} /\ Fault
    /\ rel' = [rel EXCEPT ![n] = "other"]
    /\ UNCHANGED <<want, local, box, passVars, released, moved, edits>>

\* Its end, or the end of the one a crashed pass left running.
OtherReleaseEnds(n) ==
    /\ rel[n] = "other"
    /\ rel' = [rel EXCEPT ![n] = "finished"]
    /\ UNCHANGED <<want, local, box, passVars, released, moved, faults, edits>>

-----------------------------------------------------------------------------
Work(c) ==
    \/ Begin(c) \/ Stop(c) \/ Remove(c)
    \/ /\ c \in Names
       /\ \/ Pull(c) \/ RunRelease(c) \/ RefuseRelease(c) \/ EndRelease(c)
          \/ Start(c) \/ RefuseCreate(c) \/ RefuseStart(c)
          \/ PollPasses(c) \/ PollAgain(c) \/ PollFails(c) \/ Rename(c)
Trouble(c) ==
    \/ CallFails(c)
    \/ \E status \in {"exited", "looping"} : Die(c, status)
    \/ \E status \in {"healthy", "unhealthy"} : HealthReport(c, status)
    \/ /\ c \in Names
       /\ \/ FailRelease(c) \/ StartFails(c)
          \/ OtherReleaseStarts(c) \/ OtherReleaseEnds(c)
          \/ \E cfg \in Configs \cup {Unlisted} : EditBundle(c, cfg)
          \/ \E i \in 1..MaxImage : MoveImage(c, i)
Play ==
    \/ StartPass \/ Report \/ Close
    \/ \E kept \in SUBSET Names : CleanCanaries(kept)

Next ==
    \/ \E c \in Containers : Work(c) \/ Trouble(c)
    \/ Play
    \/ \E next \in {"failed", "idle"} : Crash(next)

Spec == Init /\ [][Next]_vars

\* A worker goes on, a release ends (its timeout ends it), the play goes on and
\* the operator deploys again. Nothing makes Docker answer or a container heal.
Fairness ==
    /\ \A c \in Containers : WF_vars(Work(c))
    /\ \A n \in Names : WF_vars(OtherReleaseEnds(n))
    /\ WF_vars(Play)
FairSpec == Spec /\ Fairness

-----------------------------------------------------------------------------
(* Safety.                                                                   *)

Hashed(n) == Present(n) /\ box[n].cfg = want[n]
Fresh(n) == Hashed(n) /\ ~Drifted(n)

\* A pass that reports ok left every listed container with the bundle's hash
\* and, unless its tag moved under the pass, with the image the tag names; and
\* with remove_orphans no other managed container, a canary included, is left.
\* (planner.plan and executor.execute agree on when there is nothing to do.)
OkMeansConverged ==
    pass = "ok" => \A c \in Containers :
        IF Listed(c) THEN Fresh(c) \/ (c \in moved /\ Hashed(c))
        ELSE RemoveOrphans => ~Managed(c)

\* Dependencies first: an action is under way or over only when every action of
\* an earlier stage is over, and a canary swap has the box to itself
\* (executor._run_phase: "One at a time, the peak is the largest single service").
PhaseOrder ==
    pass = "run" => \A c, d \in Containers :
        Busy(c) /\ Acting(d) /\ d # c =>
            /\ Stage(d) < Stage(c) => pc[d] \in Over
            /\ Busy(d) => plan[c] # "swap"

\* What stays while a swap is between its health gate and its rename: the
\* canary that passed the gate, with the hash the bundle asks for. So the old
\* container is only stopped when its successor exists, whatever else runs.
SwapKeepsACopy ==
    \A n \in Names :
        pass = "run" /\ plan[n] = "swap" /\ pc[n] \in {"stop", "remove", "rename"} =>
            Present(CanaryOf(n)) /\ box[CanaryOf(n)].cfg = want[n]

\* The old container of a name with a release command is stopped or removed by
\* a change only after that command exited 0 in the same pass, in the rescue of
\* a swap too (executor._release: "The old container keeps serving").
ReleaseGate ==
    [][\A n \in Releasing :
         pass = "run" /\ plan[n] \in {"recreate", "swap"} /\ Present(n)
           /\ pc[n] # pc'[n] /\ (~Present(n)' \/ (Running(n) /\ ~Running(n)'))
         => n \in released]_vars

\* planner.py: "Port-binding drift forces a standard recreate: two containers
\* cannot share a host port, so the canary path would deadlock"; and services.md:
\* a canary that fails falls back to a recreate, "The deploy succeeds either
\* way". So no swap ends in a failure when Docker fails at nothing else.
SwapFallsBack ==
    \A n \in Names : plan[n] = "swap" /\ faults = 0 => pc[n] # "failed"

\* executor._wait_healthy: "A container with no healthcheck passes once
\* running": no canary passes its gate while it does not run.
GateMeansRunning ==
    [][\A n \in Names : At(n, "health") /\ pc'[n] = "stop" => Running(CanaryOf(n))]_vars

-----------------------------------------------------------------------------
(* Liveness.                                                                 *)

Converged ==
    \A c \in Containers : IF Listed(c) THEN Fresh(c) ELSE RemoveOrphans => ~Managed(c)

\* Faults and edits are finite; once the last one is over, passes repeated
\* long enough bring the box to the bundle and keep it there, whatever a
\* crash, a half-done swap or a canary left behind.
Heals == <>[]Converged

=============================================================================
