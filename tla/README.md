# Bay: a fleet of boxes, modelled and proved

Bay deploys a fleet of containers: an operator's `bay` command compiles `bay.toml` files into one
`services.yml`, commits and pushes it, and runs Ansible; a reconciler on each box brings its containers there;
webhooks start builds on the boxes. This directory holds TLA+ models of the parts where several operators,
programs, threads, crashes, retries and configuration files meet, the TLC runs that check them on small
instances, and TLAPS proofs of the properties that matter most for every value of the constants.

Paths below are relative to the repository. `PROJECT.json` maps every definition to the lines it models, and
lists the runs, the mutants that show each property can fail, the hazards, the findings and the theorems.

    tlc -workers 2 -config MCReconciler_swap.cfg MCReconciler     # a run: module and cfg of section 3
    tlapm WebhookProofs.tla                                       # a proof module: all of section 4 are checked so

## 1. Inventory

| Component | State it keeps | Operations | Hard behaviour | What makes it correct | Modelled in |
|---|---|---|---|---|---|
| Reconciler: `src/bay_reconcile/{planner,executor,sdk_client,observe,__main__}.py` | none of its own; Docker's containers, images and labels | observe, plan, execute in phases, report | worker threads, Docker calls that fail half-way, crashes, tags that move under a plan | an ok pass converged; a swap always keeps a copy; a release gates the change; repeated passes heal a box | `Reconciler` |
| Deploy play: `roles/deploy_stack`, `roles/container_lifecycle` | bundle, deploy lock | lock, codepin, pass, receipt; rescue: remove canaries | two operators, a killed run, ignored errors | one deploy at a time; a failed one leaves a repairable box | `Reconciler` (rescue), `Pipeline` (codepin, pass, receipt), `FleetRun` (lock) |
| `rebuild.sh` (`roles/git_deploy/templates`) with its systemd units | trigger file, breaker count, failed commits, tags, build lock | build or pull, hold, release, promote, restart, health check, roll back | runs beside deploys and other builds, is killed, times out | no push lost, starts what it promoted, stamps what runs | `Pipeline` (one service, every step), `Webhook` (many services, whole builds) |
| Code pin: `src/bay_reconcile/codepin.py` | none; Docker's tags, the failed commits | plan moves, take the build lock, plan again, move `:latest` | state read before a wait and used after it | never moves `:latest` under a build | `Pipeline` |
| Receipt: `src/bay_reconcile/receipt.py`, `src/bay_cli/receipts.py` | `<env>.json` and its previous copy | write after a deploy, stamp after a build, read by the CLI | two writers with no lock, a reader that trusts it | names the code that runs; `bay show` is true | `Pipeline`, `SavedPlan`, `Show` |
| Webhook: `roles/git_deploy/files/webhook/app.py`, `src/bay_rig_runtime/{pushinputs,tomlhash}.py` | seen deliveries, triggers | deduplicate, filter, write or forward a trigger | redelivery, restart, threads, two writers of one trigger | an answered push is heard; a replay builds nothing; a tag is code of its inputs | `Webhook`, `PushPromise` |
| Fleet sync: `src/bay_cli/{fleetsync,gitrepo}.py`, claims of `apply.py` | a git clone, a run lock, claims in `services.lock` | pull, claim, undo, play, record, rebase and push | two machines, kills, lost answers, takeovers | one deployer; an ok record is what runs; a refused run leaves nothing | `FleetRun` |
| Plan and apply: `src/bay_cli/{plan,apply,scope,lockfile}.py` | saved plans, approvals, locks, `services.yml` | plan, save, approve, apply, record | the plan's repository, boxes and files move before it is applied; half-done plays | nothing is lost that no approved step named; the scope reaches every changed box | `PlanSteps`, `Scope`, `Planning`, `SavedPlan` |
| Removal: `src/bay_cli/remove.py` | the same files | remove, resume | killed between two of its steps | what is forgotten runs nowhere | `Planning`, `SavedPlan` |
| Status: `bay show` in `apply.py` | none | read locks, plans and receipts | never asks the boxes | says ok only of what runs | `Show` |
| Compiler: `src/bay_cli/{bay_toml,compiler,fleet}.py`, `commands/compile.py` | `services.yml`, jobs, routes | merge, check, name, place, link | two files of different owners meet in one name, host or URL | names apart; every URL answered | `BayToml`, `Compile`, `FleetConfig` |
| Traefik labels and push groups: `src/filter_plugins/bay_filters.py` | none | labels; siblings, shared builds | routers of several containers compete | requests go home; locked paths stay in; a push reaches all | `Routing`, `PushFan` |
| Validation and health check: `commands/validate.py`, `healthcheck.py` | none | refuse a fleet; ask the hosts | they decide on their own what compile and routers decide | the deploy accepts what compiled; a probe asks its service | `Validate`, `Routing` |
| Gateways: `commands/gateway.py`, `gateway_backend.py`, `routes.py` | headscale's users, nodes, routes | users, nodes, routes, migrate, audit | calls that fail half-way, two operators, stale records | a migration can be repeated; lists and audit are true | `Gateway`, `Acl` |
| Alerts: `commands/alerts.py`, `filter_plugins/bay_alert.py`, roles `alert_*`, `*_monitor` | override and credential files, routing tables baked into scripts | disable, enable, list, doctor, resolve | one file is baked in, another read; partial runs | who is listed is who hears; a mute lasts | `Alerts`, `Rig` |
| Rig runs: `commands/ops.py`, `deploy.yml`, `provision.yml` | rig cache, `.rig-state` | deploy, provision, skip the rig roles | stale caches, tags, limits, failed hosts | a skipped role was done | `Rig` |
| Importer and adoption: `importer.py`, `adopt.py` | documents | one translation of a hand-written fleet | little | round trips | not modelled |
| Backup, Watchtower, secrets and vault, host roles, CLI shell, rename migration | host configuration, files | idempotent tasks, file encryption | third-party programs | - | not modelled (section 8) |

How they meet. `bay up` reads the fleet repository, compiles (`Compile`), plans (`Planning`), claims the
environment by a pushed commit (`FleetRun`), runs the play, and records the result from the receipts. The play
decides whether the host's rig roles run (`Rig`), validates the fleet (`Validate`), renders `rebuild.sh` and
the bundle, runs codepin, the reconciler and the receipt (`Pipeline`, `Reconciler`). A push comes in at the
webhook of one box, goes to siblings and regions as trigger files (`Webhook`, groups from `PushFan`), and
systemd runs `rebuild.sh`, which moves Docker's tags and replaces the container under the build lock; of a
deploy only codepin takes that lock. So the shared state is: the fleet repository and its checkouts; on a box
the tags `:latest`, `:previous` and `:<commit12>`, the container's name, `<service>-release`, the failed
commits, the build lock, the deploy lock, the trigger and the receipt.

## 2. Modules

**`Reconciler`** One box, any number of names. An entry of the bundle is reduced to its config hash (all the
planner compares) and the host port it publishes; an image is an id; a container is absent or has a hash, an
image and a status. The status distinguishes what the code reads: a canary with and without a health report,
crash-looping, created but never started, exited.

- The planner is the operator `Decision`, the table of `planner.plan`; `StartPass` applies it to all
  containers at once, since a pass observes once and plans from that.
- The executor is one program counter per container. `Begin` gives an action its turn: phases by type, swaps
  after the others and alone, removals last, at most `MaxWorkers` threads. `FirstStep`, `AfterPull`,
  `AfterRelease`, `AfterStop` and `AfterRemove` are the order of the calls in `_apply`, `_canary_swap` and
  `_stop_then_remove`; `Raise` is what an exception does: inside the `try` of a swap it reaches the rescue,
  everywhere else it fails the action.
- Every Docker call is one step (`Pull`, `RunRelease`, `Stop`, `Remove`, `Start`, `Rename`, a poll). A start
  is a create and a start, so a failed one leaves a created container. Between any two calls another worker's
  call, a fault, a moved tag, another process's release or a crash may come.
- Around a pass: the play's rescue (`CleanCanaries`), the end of a deploy, a new bundle.

**`Pipeline`** One service of one box, and the two programs that bring code to it. A commit is a number and an
image is named by the commit in its label, which every build sets. `bpc` follows `rebuild.sh` from the trigger
to its exit, for the local strategy (`Registry = FALSE`) and the pull path (`Registry = TRUE`). `dpc` follows
a deploy: the freeze, codepin (failed records, plan, lock, plan again), the pass (the recreate path of
`Reconciler` for one name) and the receipt. The tags, the container, the release container, the failed
commits, the breaker and the lock are shared variables. Two kinds of history variables serve properties only:
`seen` (the newest head a build looked at) and `late` (what was pushed since the freeze).

**`Webhook`** The receivers of all regions, with their threads, delivery caches and triggers, and the builds
of all services, here as whole decisions. A push is a set of changed files; `Handle` is one request, whose
thread goes through `do_POST` trigger by trigger and peer by peer; `Rebuild` is one run of `rebuild.sh` with
its filters (config-only, no input change, pull-only), the shared checkout, hold, breaker, timeout and kill.
**`PushPromise`** is the abstract specification of both together: an accepted push is looked at, or the team
is warned. `Webhook` refines it (`PushPromised`), safety and liveness, mapping what is accepted and not
settled to `owed`.

**`FleetRun`** Runs on machines with their checkouts, one remote, one box environment. A commit is the record
of every project's lock with its claim, its pin, its result, `prev` and `plan`, the run whose `plan_id` and
`deployed_at` it carries: a pending record names its run (apply.py:912), and a report stamps every record it
decides (`_pin_deployed`), also of projects the run does not move. A run pulls, writes the locks,
compiles, commits, pushes its claim (with rebases), plays step by step on the boxes, reads the receipts and
pushes its records. Faults: a git call fails or loses its answer, the process is interrupted or killed, a
claim expires, another session commits.

**`SavedPlan`** extends **`Planning`**, **`Scope`** and **`PlanSteps`**, and **`Show`** extends it. The state
is the fleet repository (documents, locks, `services.yml`, saved plans and approvals), the project
repositories, the boxes (containers, the code they run, and the receipt that tells both) and one run. Whatever
bay knows of running code comes from receipts (`RunningCode`), and a receipt may lag: a play whose receipt
cannot be written only warns (`PlayOk`; reconcile.yml:637-643), and a build stamps the row of its container or
fails to (`HookBuild`; rebuild.sh.j2:754-766). `PlanSteps` compares two compiled fleets
(`diff_steps`: routine, shared, destructive steps); `Scope` says which boxes a play covers; `Planning` builds
a plan body (requests, box check, code status, predicted effects, removal); `SavedPlan` has the actions: plan,
save, approve, apply with every refusal, the play over the boxes with failures, undo, record, prune, `bay
remove` and its resumption, and the edits and pushes others make meanwhile. `Show` is `bay show`.

**`FleetConfig`** composes **`BayToml`** (the merged view and rules of a document), **`Compile`** (units,
names, boxes, domains, needs, databases, volumes, builds, claims), **`Routing`** (routers and who wins, and
what `bay healthcheck` asks of whom), **`PushFan`** (who is reached by a push) and **`Validate`** (what the
deploy refuses). Its actions are edits of any file by anybody and compiles; `out` is the last accepted
compile. Names are sequences of words, so that gluing them with dashes may collide as it does in the code.

**`Gateway`** extends **`Acl`**. Headscale's users and nodes, and two operators whose commands are programs of
calls (`Step` between two of them, a failure at any). A node row takes its owner from the list of users, and
where that call fails shows the owner name inside the node's record (`NodeRows(read)`; gateway.py:766-767),
which is of an earlier moment. `Acl` resolves a policy, and has the audit and the
warnings that bay derives from it.

**`Rig`** extends **`Alerts`**. The commit log of alert configuration and everything else that touches the
rig, the hosts with what each emitter was rendered from, and one deploy or provision at a time, role by role:
of play 3 the build scripts of `git_deploy` come before the credentials (deploy.yml:295, 314).
`Alerts` is the resolver (levels, recipients, mutes) and the configuration commands.

`MCReconciler`, `MCPipeline`, `MCWebhook`, `MCFleetRun`, `MCSavedPlan`, `MCFleetConfig`, `MCGateway` and
`MCRig` instantiate them. `ReconcilerProofs`, `PipelineProofs`, `ConfigProofs` (about `FleetConfig`),
`WebhookProofs`, `FleetRunProofs`, `SavedPlanProofs`, `GatewayProofs` and `RigProofs` hold the theorems about
them.

## 3. Runs

Every property of a passing run has a mutant of the code that breaks it (`PROJECT.json`, "mutants").

| Run | Instance | Shows |
|---|---|---|
| `swap` | one zero-downtime service with release and healthcheck, two hashes, two images, two faults, one edit | `OkMeansConverged`, `SwapKeepsACopy`, `ReleaseGate`, and with fairness `Heals` |
| `fleet` | an accessory and two services, both swapping, two threads, one fault | `PhaseOrder`: no service before its accessories are done, a swap alone |
| `local` | builds on the box, three commits, two deploys, one failure, kill, timeout, reset or other build anywhere | `StartsWhatItPromoted`, `NoPushLost`, `SomethingServes` |
| `pull` | the registry path, three commits, one deploy, one trouble | `StampedIsLive` |
| `push` | two pushes and a pull signal, two regions, a sibling and an image-only service, two threads, one fault, replay, restart or deploy | `ReplayBuildsNothing`, `OkMeansHeard`, `CommitTagHoldsItsInputs`, and the refinement `PushPromised` with its liveness |
| `claim` | three runs on two machines: up, rollback, take-over, fleet push; one fault or event | `OneDeployer`, `OkPinRuns`, `PreviousRan`, `ShippedIsPublic`, `RefusedLeavesNothing`, `PendingIsExplained` |
| `plays` | up, deploy, a route-only up and fleet push on two checkouts and a box | with fairness, `RunsEnd`: every run ends and lets go of its locks |
| `plan` | two projects and a resource on three boxes; two events, two runs, one fault | `PlanKept`, `ScopeCovers`, `RemovedIsGone`, `ShowIsTrue`, `NoUnseenLoss`, `CodeBackNamed`, `CheckedIsSaid`; 1.1 million states, under two minutes |
| `config` | three base fleets, two edits anywhere, compiles in between | `AcceptedDeploys`, `NamesApart`, `UrlsAnswer`, `RequestsGoHome`, `LockedStaysIn`, `PushReachesAll`, `ProbesReach` |
| `gateway` | two operators, three commands, three nodes, two users, one failing call, one event | `RowsAreTrue`, `PolicyIsRead`, `MigratedMeansAll` |
| `alerts` | two hosts of one environment, two recipients, two alerts; three commits, three runs, one fault, one change of the time | `AppliedIsListed`, `MutedStaysQuiet`, `SkipIsSafe` |
| `rig` | two environments; expects a violation of `NeverStaleSkip` | the cached answer that lets a deploy skip the rig roles does not say which environment it is about (ops.py:378-384 says there is "never a stale skip of a needed rig") |

What the properties of the larger models say, in words:

- *Pushes.* One delivery opens a trigger of a service once, whatever brings it there, as long as the receiver
  remembers it. What GitHub was told went well is heard in every region of every service of that `bay.toml`,
  or an alert names who did not take it, or the write of that one trigger failed, or a peer called it a
  duplicate of a forward that outlived the receiver that sent it (section 7). The image a commit tag names
  has the inputs of that commit. An accepted push is looked at or warned about.
- *Runs.* With no take-over, expired claim, orphaned playbook or run that makes no claim: at most one run
  plays, and a record that says ok names what runs. A rollback target once ran. What is played is on the
  remote. A refused or undone run leaves no commit with anybody. A pending record of a run that is over is
  there because somebody was told so.
- *Plans.* A deploy takes away a volume, a database or a container only if a destructive or shared step of an
  approved plan names it, whatever happened between plan and apply. Every box that no failed run left behind
  runs what `services.yml` says, so the scope was wide enough. Code goes back only in track `pin`, over a
  build that landed meanwhile, without receipts, with an approved step, or where the box's receipt is behind
  what runs there (the last is section 7's `CodeBackSaid`). A checked plan names every container
  its play touches, half-done plays of earlier runs included. A forgotten project runs nowhere. A plan that a
  lock names is not pruned. `bay show` says ok without drift only of boxes that run what the lock and the file
  say, but for boxes that a failed run left behind and boxes whose last play could not write its receipt
  (`missed`, `unlisted`).
- *Configuration.* See the comments of `FleetConfig`: on every accepted fleet names are apart, URLs are
  answered, a request goes to the project that claims its host and to the longest path service, locked paths
  are behind the VPN rule whoever wins the route (on a tailnet service, paths that begin with the text of an
  open one are left out: section 7, `OpenEndsAtSegment`), a push reaches all that is built from it, a probe asks the
  container it names, and the validation of the deploy accepts the fleet.
- *Gateway.* `nodes` and `routes` show owners and approvals that are so or were asked for; where the users
  cannot be read, an owner that was. An audit that resolves every target is right about every node that no tag
  of the policy names; of the others the documentation and the code disagree (section 7). A migration that was
  cut short anywhere is finished by the next that ends well.
- *Alerts.* After a full deploy and provision the emitters send to exactly the recipients `bay alerts list`
  names, once each; an alert that is not switched off reaches the legacy sink too, and while a mute lasts
  nobody hears. What a permanent mute owes the legacy sink is section 7's. A mute holds until its end on every
  host that has it. Skipped rig roles were done.

### Bounds

`MaxFaults`, `MaxEdits`, `MaxEvents`, `MaxRuns`, `MaxTrouble`, `MaxDeploys`, `MaxCommands`, `MaxCommits`,
`MaxTime` and `MaxFramework` bound how often the environment interferes; they appear as guards only.

- `swap`, `fleet`: two faults are a failure and a failure of its repair, or a crash and what the next pass
  meets; one edit makes a moved tag or a new hash under a pass. Three names are two tiers, with two swaps in
  one of them, and two threads are enough for two actions to overlap. Two polls separate a health wait that
  goes on from one that ends.
- `local`, `pull`: three commits are a running one, a pushed one and one pushed meanwhile; two deploys are a
  rollback and the `up` that ends the freeze. Failures that need no trouble (a taken name, a container that
  was replaced) are not bounded at all.
- `push`: two pushes are the least that can overtake each other, a pull signal is the third writer;
  `CacheSize` 3 makes the cache forget; `MaxFailures` 1 opens the breaker after one failed build; one event of
  each run is a fault, restart, replay or deploy.
- `claim`, `plays`: three runs on two machines put two of them in one checkout and one elsewhere; two rebases
  are a loss and a retry that loses again.
- `plan`: two events are an edit or a push on either side of the plan; two runs are a half-done run and the
  next; one fault is a failed play, a lost record or a kill. `Keep` 1 prunes at once. The `ACTION_CONSTRAINT`
  `ApproveBetweenRuns` leaves out approvals given while a run is under way: a run reads its approval when it
  starts.
- `config`: two edits reach every pair of keys of two documents from three bases (plain, with an environment
  of its own, two projects of one repository); violations found while the model grew needed one or two. Random
  walks with five edits over 430 000 states found no more.
- `gateway`: three commands are a migration that is cut short, something in between, and the migration again.
- `alerts`: four events in all are, at worst, a commit, a run, a second commit and a second run, each of them
  able to fail. Hosts are symmetric in `alerts`, where both are in one environment, and not in `rig`.

`CHECK_DEADLOCK FALSE` stands where the system may rest: no push left, all runs over, bounds used up.

### Fairness

`Reconciler`: the work of each container (its thread runs on, a release ends by its timeout), the end of
another process's release, and the play, which goes on after a pass and is deployed again by the operator.
Nothing makes Docker answer: a failing call is a fault, and faults are finite. So `Heals` says: after the last
fault and edit, deploys repeated long enough bring the box to the bundle and keep it there. `Pipeline` states
weak fairness of the build, of the deploy and of the end of other processes; every wait in the code is bounded
(`flock -w`, `TimeoutStartSec`, the release timeout). `Webhook`: weak fairness of the receiver's threads
together and of the builds together; systemd starts a build for a trigger that exists and kills one that runs
too long. `FleetRun`: weak fairness of the steps of live runs and of their plays; git calls have timeouts, and
Ansible returns. Pushes, deploys, edits and all faults are never fair.

## 4. Proofs

`ReconcilerProofs` proves, for every set of names, every bundle, every number of images, threads, polls,
faults and edits (the assumptions are `ConstantsOK` and `MarkersDistinct`: finite names, positive bounds,
canary names are not names of the bundle, markers are different values):

| Theorem | Statement |
|---|---|
| `TypeCorrect` | `Spec => [](TypeOK /\ PlanInv)` |
| `PhasesInOrder` | `Spec => []PhaseOrder` |
| `CanaryOutlives` | `Spec => []SwapKeepsACopy` |
| `ReleaseFirst` | `Spec => ReleaseGate` |
| `OkIsConverged` | `Spec => []OkMeansConverged` |

The argument. `PlanInv` says which steps an action of each kind can be at (a removal never pulls, only a swap
is at `health` or `rename`, and a canary's name only ever has a removal or nothing planned); almost everything
rests on it, because a step's effect depends on kind and step together. `PhaseOrder` is not inductive alone:
it needs that a queued action of a later stage has not begun while an earlier one is unfinished, which `Turn`
establishes and every later step keeps since a finished action stays finished. `SwapKeepsACopy` needs
`PhaseOrder`: no other action runs during a swap, and removals, the only other actions on a canary's name,
come in a later stage. `ReleaseGate` needs that an action past its release has its name in `released`.
`OkMeansConverged` needs the strongest invariant: for each finished action, what it has left behind (its
container with the wanted hash and image, or none), kept by every step of another container, and for each name
with no action, what the plan saw.

`PipelineProofs` proves, for any number of commits, failures, troubles and deploys, either strategy, pinned or
not, with or without a release (the assumption is `PipelineConstants`: types and positive bounds):

| Theorem | Statement |
|---|---|
| `TypeCorrect` | `Spec => []TypeOK` |
| `LockCoversTheStart` | `Spec => StartsWhatItPromoted` |
| `PushIsBuilt` | `Spec => []NoPushLost` |
| `RaceLeavesOne` | `Spec => []SomethingServes` |
| `RollsBackElsewhere` | `Spec => []RollbackTargetDiffers`, for `Registry = FALSE` |
| `FailureIsNotPinned` | `Spec => KnownFailureStays` |
| `StampIsLive` | `Spec => StampedIsLive` |

The argument. The invariant `IInv` has six parts. `Where` says that the lock is held by a build exactly at the
steps that need it and by codepin exactly at its second plan, so the two exclude each other; the type
invariant needs it, since an open breaker (no build under way) is what keeps the count at its threshold.
`Fixed` follows: nobody moves `:latest` between a build's promotion and the end of its health check, so a pass
that replaces the container meanwhile starts the same image, which is why the receipt's stamp is right.
`Looked` keeps, for each step of a build, that a head no trigger announces is about to be looked at.
`Replaced` says that whoever stopped the container is about to start it. `Local` is about a box that builds:
no image is newer than the last build, and `:previous` and `:latest` are the same image only after a rollback,
when both are older than the next build's. For the pull path `RollbackTargetDiffers` does not hold: a pull
leaves `:previous` alone when no container runs, and it may then be the image just pulled. TLC checked all
parts of `IInv` on the instances of `local` and `pull` before they were proved. `RollbackTargetDiffers` and
`KnownFailureStays` are proved and no longer part of a run.

`ConfigProofs` proves about every fleet of any projects, boxes, names, words, hosts and paths, under any
number of edits:

| Theorem | Statement |
|---|---|
| `NamesStayApart` | `Spec => []NamesApart` |
| `LockedPathsStayIn` | `Spec => []LockedStaysIn` |
| `UrlsAreAnswered` | `GroupsNameBoxes => (Spec => []UrlsAnswer)` |

The assumptions are `RuleAssumption` (rules and paths have a length; what is below a path starts with it),
`BasesCompile` (the fleet one begins with is accepted) and `RequestsArePaths`. The inductive invariant is
small, `Accepts(src) /\ out = Output(src)`: whatever is edited, the last compile is of an accepted fleet. All
the work is in what acceptance implies. `NamesApart` goes from the rules about slots (a unit and a service) to
entries, to the names derived from them, to jobs and routers, where appending the suffix of one and of another
kind cannot give one name. `LockedStaysIn` compares the rules that compete for a request: a split router
outranks the catch-all, a health router everything, and each step up keeps the access mode unless the path is
declared. `UrlsAnswer` follows a URL from the need that made it to the entry that is exposed or runs beside
it. `GroupsNameBoxes` (each box has a group of its own) is a hypothesis because without it a box runs what was
placed on another (section 7).

`WebhookProofs` proves, for any boxes, services, siblings, threads, cache size, filters and any number of
pushes, faults, restarts and replays (`WebhookConstants`: types, finitely many threads, a cache with room for
one delivery):

| Theorem | Statement |
|---|---|
| `OkIsHeard` | `OneHook => (Spec => []OkMeansHeard)` |
| `ReplaysAreNoOps` | `Spec => []ReplayBuildsNothing` |
| `TagsAreBuiltFrom` | `Labelled => (Spec => []CommitTagHoldsItsInputs)` |
| `PromiseIsKept` | `Spec => Promise!Init /\ [][Promise!Next]_(Promise!vars)` |

The argument. The invariant `RInv` describes a request wherever it is: of a request of GitHub, that the
services it is past are done with on every box and that of the one it is at only the peers it still has to ask
may be missing (`MainAt`); of a forward, that it is the one a request waits for or that nobody waits for it
any more (`FwdAt`, `AwaitedAt`, `OneEach`). A cache entry is then a promise: what a receiver remembers is done
with, or the request that has it in hand goes on (`HomeKnows`, `HookKnows`, `PeersKnow`). So a redelivery that
is told "duplicate" hides nothing, and the answer `ok` means heard (`Answered`). This is where the proof
changed the model: a forward whose sender restarted is nobody's, and a redelivery that meets it at the peer is
answered `ok` before it is done. It is now among the excuses of `OkMeansHeard` and in section 7. The
hypothesis `OneHook`, no service in the groups of two hooks, is what `bay validate` asks for (validate.py:2771-2806,
"Keep one hook and delete the others"); with two hooks the delivery of one is a duplicate of the other's that
may yet fail. `ReplaysAreNoOps` counts: triggers opened for a delivery plus requests let in for it are at most
the deliveries forgotten, plus one while it is remembered (`Counted`). `TagsAreBuiltFrom` needs that "no file
that matters was touched between two commits" is transitive though the range of commits is not a set
difference of contents (`SameCodeAdds`); then a tag that is moved to a commit without a build keeps its
meaning. `Labelled` says that the first image names its commit; without it the property is false
(section 7). `PromiseIsKept` is the safety half of the refinement `PushPromised`, step by step.

`FleetRunProofs` proves, for any machines, checkouts, projects, boxes, jobs, pins, rebases and faults
(`FleetConstants`: types; a run is no checkout; `bay deploy` and `bay fleet push` name no project, as their
commands take none):

| Theorem | Statement |
|---|---|
| `TypeCorrect` | `Spec => []TypeOK` |
| `RefusedIsGone` | `Spec => []RefusedLeavesNothing` |
| `PlaysWhatIsPublic` | `Spec => []ShippedIsPublic` |
| `TargetsRan` | `Spec => []PreviousRan` |
| `OneAtATime` | `Spec => []OneDeployer` |
| `PendingMeansSilence` | `Spec => []PendingIsExplained` |
| `OkIsWhatRuns` | `Spec => []OkPinRuns` |

The argument. `Shape` (types, every history begins with the same root, one run per checkout, where a run is)
is the base. Almost every step either leaves the histories alone, appends one commit, cuts one back or rebases
it, and the work is in the last: `Replay` is a recursive function over the local commits, and what it returns
is proved by induction on their number (the lemmas `CountUp`, `ReplayStep`, `Rebased`): the remote's history,
then the local commits with their authors and records. `RefusedIsGone` follows the commits of a run (`Gone`):
none before it commits, only in its checkout until a push took them, always behind the base its undo cuts back
to, so that a cut removes all of them. `PlaysWhatIsPublic` follows the tree: what is claimed is the head's, a
landed push puts it on the remote, and the remote only grows (`RemoteGrows`). `TargetsRan` says of every
record anywhere, in histories, work trees and receipts, that what it calls ok ran and what it calls its
predecessor ran (`Truthful`); a record is only written from such records and a receipt of a play that ended.

`OneAtATime` rests on `Claimed`. Before a run writes, no tree anywhere holds its name (`Unwritten`); from the
write on, its claims are on its disk and in its branch (`Kept`), and while it deploys in its fleet commit, which
is on the remote (`Held`). Unless something is excused, no commit of any branch drops the claim of a run that
deploys (`Lasting`), and no other run that deploys or is about to commit has built on it (`Apart`): its gate saw
the claim and refused. Of two runs that play, both fleet commits are on the remote, one before the other; the
later then holds the earlier's claim by `Lasting` and does not by `Apart`. That both branches of a rebase must
keep the claim is why the invariant speaks of every log and not of the remote.

`PendingMeansSilence` rests on `Explained`. A claim enters a history only with a fleet commit of its run
(`Built`). Of a run that reports its end, every checkout has its fleet commits only where the remote has them
too (`SharedAt`); as a rebase begins after the last commit both have, it never copies one. So no push of
anybody brings back a claim that the remote had before the report, and the report itself writes a result over
every claim of its run (`ReportFrees`, `RebaseFrees`, `PushFrees`; `SettledAt`). TLC checked both invariants
on the instances of `claim` and `plays`, with one event and with two, before they were proved.

`OkIsWhatRuns` rests on `Known`, next to `Claimed`. Where commits are: a fleet commit is on a branch at most
once, and where the remote has it, it stands at the same place in every branch (`Single`), so "before" and
"after" mean the same everywhere; a run ships its own fleet commit or another session's on top of it
(`Aboard`). What receipts say: a receipt of a run comes from its play (`Received`), and as long as the run
deploys, an ok receipt of its fleet commit is true of its box (`Reported`). What a record means: every record
has a source, the run whose fleet commit brought its pin; a run that stamps a project it does not move passes
the source on (`Of`). Along a history a source changes only with the fleet commit of the new source (`Traced`,
`Entered`). Of every ok record in a branch or on a disk, the source is on the remote, no run that still deploys
comes before it there, and while the remote's record has the same source, the box runs its pin (`OkAt`,
`Sound`). A rebase needs this last form: it may copy an ok record over the remote's only where the remote's has
not changed since, and that the remote did not change and change back follows from `Entered` and `Single`,
because a source does not return. The sources are no variable of the model: the invariant says that some
assignment `sets` of them exists (`\E sets : Kin(sets)`), and the step that writes the locks extends it by the
run's own. TLC checked the candidates on the instances of `claim` and `plays` before they were proved. An
invariant of the records without `plan` fails: two records of different plays can then be equal, and a rebase
takes an unpushed result for a change that the remote has since made and undone.

`SavedPlanProofs` proves, for any projects, boxes, environments, documents, requests and any number of pushes,
edits, plans, approvals, failed plays, kills and removals:

| Theorem | Statement |
|---|---|
| `StateIsTyped` | `Spec => []Typed` |
| `PlansAreKept` | `Spec => []PlanKept` |
| `ScopeIsEnough` | `Spec => []ScopeCovers` |
| `NothingIsLostUnseen` | `Spec => NoUnseenLoss` |
| `RemovalIsFinal` | `Spec => RemovedIsGone` |

The assumptions say what a fleet is. `TomlsOfProjects` and `DocsOfFleet`: a `bay.toml` names a known box, and a
container name belongs to the one project or to the fleet file that claims it, which the compiler enforces
(compiler.py: `_claim_container`; `NamesStayApart` is the theorem about it); an entry has its keys.
`CommitsAreNumbers` and `RequestsOfProjects` are types.

The argument. `Typed` has the shape of locks, plans and the run. `PlansAreKept` adds that the plan of the run
under way is recorded, and that whatever is pruned is older than the plans the locks name. The others rest on
`BoxInv`. `PlanInv` is about the file: every entry of `services.yml` belongs to a member of the fleet and is on
a box of the environment its lock names (`Owned`); what a run is about to write is what its gate looked at, but
for the `bay.fleet.toml` that may move (`GateKept`); and a removal deploys the whole environment of what it
removes (`RemoveHome`). The rest is about the boxes. A box that no failed run left behind, and that the play
has not still to reach, runs its slice of the file (`Covered`); also after a raced edit it runs no project's
container that the file does not have (`NoStray`), which is what a removal needs. `Accounted` is the account of
losses: what any box would still lose by the file, now or at any later play, was named by a step that was let
through; so a play, whenever it comes and after whatever failure, takes away only that. `Covered` needs that
the scope of a plan holds every box on which the new file differs from the old one, which is proved of the
operators of `Scope` and `Planning` for every plan kind.

`GatewayProofs` proves, for any users, nodes, operators, commands and policies (`TailnetBegins`: nodes have
different addresses and existing owners; `PoliciesAreValid`: an alias is no address and a target is of a known
kind, as headscale requires; `RouteIsKnown`: the ingress and the route's host are what a policy takes them for):

| Theorem | Statement |
|---|---|
| `ListsAreTrue` | `Spec => []RowsAreTrue` |
| `PoliciesAreRead` | `Spec => []PolicyIsRead` |

The argument. `Recorded` says that the names history keeps hold every name an owner has or had, so that also a
row built from a node's own record shows one of them. `Writes` says that a list of routes an operator is about
to write back, however old, holds only routes that were approved or asked for (`Justified` says it of the
nodes); so a lost update can bring a route back and can never invent one. `Owned` and `Apart` keep owners and
addresses. `PolicyIsRead` is about the operators of `Acl`: what `Resolve` finds for a target is what it means
(`ResolveIsMeaning`), so the audit is right (`AuditIsRight`) for nodes that no tag names, and a warning about
an ingress that is not reached, or an inert rule, is true.

`RigProofs` proves, for any hosts, environments, alerts, levels and recipients, and any number of commits,
framework versions, runs and faults (`RigConstants`: types; a host that is set up when the fleet begins was
deployed to, so the first recipients passed validation):

| Theorem | Statement |
|---|---|
| `TypeCorrect` | `Spec => []TypeOK` |
| `SkipsAreSafe` | `Spec => []SkipIsSafe` |
| `MutesLast` | `Spec => []MutedStaysQuiet` |
| `AppliedIsTrue` | `Spec => []AppliedIsListed` |

The argument. `Runs` says that a host still in a run has everything of it that is not left to do, in the order
of the plays (`StepsAre`, `NextRole`). `Trusted` is about what a later deploy believes: a cache that answers
"not needed" for the newest commit of the rig, and a state file of that commit on a host where a run ended
well, each imply rig roles of that commit (`FreshFrom`). It holds although the state file names HEAD at its
writing and the roles the commit of the start: a commit between the two either leaves the rig alone, or makes
the newest one later than anything the run can be taken for. What a run may skip follows from it when the run
begins (`Evidence`) and is kept by every commit and role until it ends. `Muting` follows a mute through the
commits; it needs that the mute list is part of the off list, because a later mute takes the list over from it
(alerts.py:247-300). `Fits` says that what was applied is of a configuration equal to the fleet's, and
`Scripts` that the running monitor has the routing on its disk unless a restart is owed (`Pends`) or was lost;
with the two, `AppliedIsListed` is a fact about one configuration (`SentToListed`, `SentOnce`,
`EveryoneHears`). TLC checked the parts of `IInv` on the instance of `alerts` before they were proved.

Some definitions here choose the least number of a set or fold over a history; what they return is proved from
the well-ordering of the naturals (`LeastNumber`, `LowestIsIn`, `RefIs`, `CountUp`), which needs no induction
theorem with an operator as its parameter.

Only model-checked:

- Liveness: `Heals`, `RunsEnd` and the liveness of `PushPromised` need fairness and ENABLED and are out of the
  prover's reach.
- `RequestsGoHome`, `PushReachesAll`, `AcceptedDeploys` and `ProbesReach` of `FleetConfig`.
- `ShowIsTrue`, `CodeBackNamed` and `CheckedIsSaid` of `SavedPlan` and `Show`. The last two compare by name
  what a plan says of a container: with one container name on several boxes of an environment, `box_steps`
  names it once and `code_status` reads the first box that has it, so for arbitrary inventories they are likely
  to fail; the instance has one box with the code of each project at a time.
- `MigratedMeansAll` of `Gateway`, which is an action property of the instance and false in general: a node
  whose user was renamed to the old name shortly before, and which headscale refreshes in the middle of a
  migration, is not seen by it.

The modules that are only model-checked state a type invariant, `TypeOK`, for the reader; those of
`Reconciler`, `Pipeline`, `FleetRun` and `Rig` are proved, and of `SavedPlan`'s the part the proofs need, `Typed`.

## 5. Abstractions

**Reconciler and Pipeline.** Two host ports are equal or different; one service's port never meets another's.
A health wait is a bounded number of polls. In `Pipeline` one step stands for stopping and removing a
container, for the failure branch of `_handle_rollback` up to the retag, and for the check of a health wait
with what follows it; a kill comes between steps. A deploy is one at a time, for one container, and its pass
recreates. The hold guard's comparison of bay.toml hashes is a choice: any build may be held.

**Webhook.** A pattern is the set of files it matches; commits are linear, a forced push too; a file changed
in a range counts as changed even if reverted. Left out: branch deletions and other refs, signature and size
checks, the pull signal of one service and the build server's receiver, the alias fan-out (`PushFan` has it),
remote builds. Image-only services are no part of `PushPromise`, because a half-written pull trigger is
skipped without a word (rebuild.sh.j2:1508), and a reboot loses a `.running` trigger.

**FleetRun.** `services.yml` is a function of the locks; one environment of a box, one environment per
project. Two commits conflict when they touch one lock file. Left out: dirty files Bay does not own,
`--no-push`, `--allow-dirty`, layout migration, a kill in the middle of a rebase, moves and removals. The
history `excuses` keeps why two deployers may meet (take-over, expired claim, orphaned playbook, a run without
a claim); the properties that say "with no excuse" read it.

**SavedPlan.** One environment per project and removal of whole projects. Left out: the push of the
application's adopt commit, secrets, projects inside the fleet repository, freeze, unsupported features, a box
check that fails (it blocks). A request for routes only presumes that no project names the environment. Claims
of others are `FleetRun`'s. A record that an undo restores keeps its new place in the list. Excuses:
`raced`, an edit of `bay.fleet.toml` between the plan and the compile of a run, which goes out with it
(apply.py:928); `missed`, a run for other projects that failed on a box; and `unlisted`, a box whose last play
went well and could not write its receipt (of `ShowIsTrue` only). A receipt lists one code per container; a
commit label and a commit tag are not told apart. The old box of a move is not part
of the box check. `Show` leaves out framework drift and `--routes`, shows claims without their age, and lets
receipts be stamped.

**FleetConfig.** Local builds; of the keys an environment overrides: box, domain, aliases, access, branch,
track and the domains of services. Left out: `--allow-unsupported`, the refusal of hand edits with `--adopt`
and `--force`, redirects of aliases (they are served), hooks per box, certificates of routes, cron, middleware
limits, secrets, release and update rules, mount files. A database and its role have one name. Properties
leave out what section 7 lists: hosts on which a project with an internal main container routes by path
(`RequestsGoHome`), its need from another box (`UrlsAnswer`), and the names and paths `Validate` refuses for
reasons the compile does not have (`AcceptedDeploys`, `Known`). `Validate` has the checks that the model's
files decide. `Targets` takes domains as written, with no region variable in them, and one answer per probe;
`ProbesReach` leaves out the probes of section 7.

**Gateway.** Headscale is external: it takes a call as a whole, refuses a taken name, a user with nodes and an
empty `-r`, may show an older owner name, and never gives an id twice. A call that works and is reported as
failed is a failure of the next call. Devices join with keys; keys expire; nodes offer and withdraw routes. A
double rename while headscale still shows the first name leaves nodes under a third one, which
`MigratedMeansAll` excuses. Left out: `apikey`, `status`, the choice of the control host, spelling, prompts,
`--dry-run`.

**Alerts and Rig.** Emitters are the build scripts, a shell script, a hook, the backup, the monitor and the
outbound monitor. A recipient is a webhook with a literal url, so target and credential are one; the legacy
sink is `alert_webhook_url`. One run at a time, as the run lock has it; a commit made during a run counts from
the next time HEAD is read; time moves between runs, and while a mute runs. Left out: `--skip-validate`,
`--allow-dirty`, an update of the framework during a run, `token_env` and `url_env`, headers, `alerts test`.
Excused: a monitor whose restart handler was lost, or that keeps an old credential because nothing but a
credential changed.

## 6. What is left

1. `ShowIsTrue` for every fleet: `Covered` gives what the boxes run, and what is missing is an invariant that
   ties each record to the plan it was written from and to the environment file of that plan.
2. `RequestsGoHome` and `AcceptedDeploys` for every fleet: `LockedStaysIn`'s lemmas about the rank of routers
   and `NamesApart`'s about names carry over.
3. Backup locks against deploys; `Receipt`'s previous copy.
4. `Replace`: an abstract "one name, one change" that `Reconciler`'s recreate and swap implement.

## 7. Known divergences

What the models were made to exclude, because the code does otherwise. Where a property states the promise, it
is in the module and a cfg is beside the runs: TLC finds the violation. Some rows share a cfg with another
check: give it the property named here in place of its own.

| cfg | Property | The code does |
|---|---|---|
| `MCReconciler_port` | `SwapFallsBack` | The canary of a service with a published port cannot bind it; the create is outside the `try` (executor.py:201), so the swap has no fallback and the service never converges. |
| `MCReconciler_port` with `HealthChecked = {}`, `NoPorts`, `MaxFaults = 2` | `GateMeansRunning` | A canary without a healthcheck passes whatever its status (executor.py:236). |
| `MCPipeline_stale` | `FailedNeverPinned` | codepin reads the failed builds before it waits for the lock (codepin.py:657) and promotes the one that failed meanwhile. |
| `MCPipeline_release` | `PassReleaseSurvives` | A build whose release name is taken removes the running release of a pass: both carry one label (rebuild.sh.j2:699). |
| `MCPipeline_release` | `FreezeHolds` | A build that waited for the lock during `bay rollback` deploys a push made after the freeze (rebuild.sh.j2:1110). |
| `MCPipeline_pull` with `Spec` | `CommitTagNamesItsCode` | The pull path tags the newest image with the commit of an older trigger (rebuild.sh.j2:1361). |
| `MCFleetRun_session` | `HandCommitsKept` | HEAD is read before another session's commit, and the undo of a refused claim resets over it (apply.py:863). |
| `MCSavedPlan_forward` | `CodeForward` | In branch mode an up can move code back over a build that landed after the plan (apply.py:938; docs/plan.md:1535). |
| `MCSavedPlan_forward` with `MaxFaults = 1` | `CodeBackSaid` | A play that cannot write its receipt only warns (reconcile.yml:637-643), a build that cannot stamp it logs a line (rebuild.sh.j2:754-766): the next plan reads the older commit, keeps nothing and moves the code back without a step or a note (docs/plan.md:1532). |
| `MCSavedPlan_forward` with `RetryDocs`, `RetryRequests`, `MaxEvents = 1`, `MaxFaults = 1` | `RetryCompletes` | A box whose play failed after the file was written has no step in the next plan, so the retry leaves it (scope.py:290; docs/plan.md:974). |
| `MCFleetConfig_placed` | `PlacedWhereSaid` | `_regions` is None for a box without a group that is alone in its environment (compiler.py:385-400), and deploy.yml:138-140 takes that for everywhere (docs/layout-scenarios.md:176-177). |
| `MCFleetConfig_open` | `OpenEndsAtSegment` | An open path is a Traefik `PathPrefix`: `/apix` is public beside an open `/api`, where docs/bay-toml.md:128-130 (rule 9) has a segment boundary. bay_filters.py:619-622 takes this into account where it matches too much on purpose, for `locked`. |
| `MCGateway_tags` | `TagsReadUnknown` | `acl audit` resolves `tag:` targets (gateway.py:469-488) and calls such a node reachable; docs/access-gateways.md:308 says it deliberately does not and the node reads as `unknown`. |
| `MCGateway_owners` | `ForceDeletesOwn` | `delete-user --force` deletes the nodes shown under a stale owner name (docs/access-gateways.md:267). |
| `MCGateway_owners` | `CountsAreTrue` | `bay gateway users` counts by it (docs/access-gateways.md:269). |
| `MCGateway_gateway` with `MigrateOnly`, `NoRegion`, `OneUser`, `OneNode` | `MigratedIsDone` | With a dash in the stack name and no region a second migration renames again (gateway.py:1930; 1858 says it is safe to repeat). |
| `MCRig_permanent` | `MuteIsAbsolute` | An alert switched off with `--permanent` is taken out of the routing tables, which the legacy sink is not in, so it goes on firing there (docs/alerting.md:301-305 has a mute absolute; alerts.py:293-295 says it "will never fire again"). |
| `MCRig_permanent` | `IndicesAgree` | Recipients in another order and a run of some roles number the credential file anew but not the scripts: an alert goes to another recipient's address (_notify.sh.j2:265-269 says the indices cannot diverge without both changing). |
| `MCRig_alerts` | `ExpiredIsInert` | The ids of a mute that is over are still in the off list of what is rendered then; doctor calls them inert (docs/alerting.md:724-725). |

Others, met while reading and stated as exceptions or abstractions of the models:

- *Pushes.* A receiver that restarts while it waits for a peer leaves its forward running there. GitHub's
  redelivery finds the peer's cache filled, is told "duplicate" and answers 200 (app.py:128-158, 862-890);
  if the forward then fails, nobody is told. With two hooks in one group, which `bay validate` asks to remove,
  each delivery may be answered as a duplicate of the other's before it is done. An image without a
  `com.bay.commit` label is taken for no commit: a build that is killed after it moved the checkout's mark
  counts no failure then, and the next push that changes only configuration tags the old image with the new
  commit (rebuild.sh.j2:474-505).
- *Builds.* A pass that replaces the container under a build's health check makes the build mark its commit
  failed (rebuild.sh.j2:816). A build that takes another's image relies on the fan-out of the one that builds:
  if that one is held by a freeze or `track = "pin"`, it is not deployed, though its own environment is not
  held (bay_filters.py:1357; docs/bay-toml.md:678); `PushReachesAll` leaves it out.
- *Deploys.* `bay deploy` and a route-only `bay up` make no claim, so the stat and copy of the deploy lock
  race is open there (docs/plan.md:1835-1838). A killed run's playbook may go on (fleetsync.py:155). When the
  fetch after a landed claim push fails, the claim is undone locally though the remote holds it. A receipt
  carries HEAD at the start of the play, so another session's commit makes a good deploy read as failed.
- *Plans.* `recheck_env` drops `force_code` and `code_order`, so a whole-env plan made with `--force-code` is
  never applied by its id (plan.py:3654; the comment at 3620). An approval with `--allow-dirty` carries over
  to other dirty contents. `tailnet_step` compares HEAD with the work tree, so once committed there is no step
  (docs/plan.md:442). A resource whose box changes leaves the old one undeployed (docs/plan.md:561-563).
  Without receipts at plan time the code may move back. After a failed removal the next up of another project
  creates the removed containers again, as safe steps. A move within one box environment has no new-box-first
  order; a move between two whose old half fails, followed by a removal, leaves containers. A staging up may
  change entries of the same project elsewhere (docs/plan.md:1975).
- *Show.* It says ok without drift for a project whose box failed under another project's run (`missed`). A
  route-only run records nothing, so a project tuned since would show drift that is none.
- *Compile.* A job's canary name may equal the derived name of a service called `job` (compiler.py:274, 533).
  A project whose main container is internal routes path services on the main domain without claiming it
  (compiler.py:665-670), and is never exposed to another box that was given its URL (compiler.py:281-283). A
  health carve-out ends at a slash, a `PathPrefix` does not (bay_filters.py:620-663); the health path of the
  main under a path service's prefix goes to the main. `bay up` validates only after it pushed (apply.py:168):
  a project called `x-vpn` or `open = ["/"]` compiles, is pushed, and then no deploy of the fleet passes.
  Builds are grouped over the fleet but over a host by the siblings, so a second region's own build may be
  triggered twice (bay_filters.py:1206-1214; docs/build-pipeline.md:852-858). Secret names `<CONTAINER>_<VAR>`
  can coincide. With two projects of one repository a `shared_from` service of the second may take the image
  of the first's main, and a push through the second's hook alone does not reach it.
- *Probes.* `should_skip_vpn_only` ignores locked paths, so a locked health path is a permanent false red
  (healthcheck.py:169-188). A path service whose health path is outside its path is asked at its path, behind
  the VPN rule or password (healthcheck.py:436-440).
- *Gateway.* `route-approve` of two operators loses an update, a revoked route may come back; revoking the
  last approved route runs `approve-routes -r` with no value (gateway_backend.py:117-119).
  The warnings are quiet when one rule has the ingress alone as source, even if another
  grants others (routes.py:719-738). Two nodes with one target name never migrate.
- *Alerts and rig.* A play that fails after `.rig-state` was written is taken for done once the cache expires;
  `.rig-state` keeps HEAD while the CLI compares the last commit that touches the rig, so roles run once more
  than needed; a commit that lands during the playbook is recorded as deployed. All mutes share one end, so a
  later mute moves earlier ones, and permanent ones join it. A rotated credential reaches the monitor only at
  its restart (docs/alerting.md:190). `doctor` does not look at the legacy sinks, `validate` only at the
  webhook one (docs/alerting.md:721-722). `bay provision` validates nothing.

## 8. Not modelled

- Importer and adoption: one translation by one operator of a hand-written fleet into documents, with no state
  to interleave. Its tests compare documents.
- Secrets and vault: file encryption and checks of one operator. Backup: a timer and a dump; its meeting with
  deploys is a wait that ignores its errors (deploy_stack/tasks/main.yml:211) and is part of section 6.
- Watchtower, zot, headscale and tailscale installation, host hardening, users, swap, rename migration:
  idempotent Ansible tasks and third-party programs. What Watchtower does, moving a tag, is an action of
  `Reconciler`.
- The CLI shell: argument parsing, lookup, output, logs, restarts, `restore`, `admin-shell`. Of `doctor` and
  `validate` the checks that need hosts, secrets or spelling.
