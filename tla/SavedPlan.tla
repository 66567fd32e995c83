------------------------------ MODULE SavedPlan ------------------------------
(***************************************************************************)
(* From a plan to a deploy in one fleet checkout.  bay plan compares what  *)
(* the commits of the projects compile to with the services file of the    *)
(* fleet, and saves what it found under the hash of it; bay approve signs  *)
(* such a record; bay up plans again, refuses what is blocked, stale or    *)
(* not approved, writes the locks and the services file, deploys the boxes *)
(* of the scope and reads their receipts.  bay remove goes the same way.   *)
(*                                                                         *)
(* Meanwhile the application repositories move, webhook builds deploy new  *)
(* code, and somebody edits bay.fleet.toml.  Every project has an          *)
(* application repository and one environment, and is deployed when the    *)
(* model starts.  FleetRun has the other machines and the claim.           *)
(***************************************************************************)
EXTENDS Planning

CONSTANTS
    Ups,            \* the requests: [of, data, force, forceCode, allBoxes, dirty, remote];
                    \* of = {}: the environment of the ingress box, for the routes
    Removals,       \* the projects somebody may remove: [of, remote]
    Keep,           \* PLANS_KEEP
    MaxEvents, MaxRuns, MaxFaults      \* bounds; an event is a push, an edit or a plan

ASSUME RequestsOfProjects ==
    /\ Nobody \notin Boxes /\ Keep \in Nat
    /\ Ups \subseteq [of : SUBSET Projects, data : BOOLEAN, force : BOOLEAN, forceCode : BOOLEAN,
                     allBoxes : BOOLEAN, dirty : BOOLEAN, remote : BOOLEAN]
    /\ Removals \subseteq [of : Projects, remote : BOOLEAN]

VARIABLES
    bodies,         \* the plan bodies ever made; a plan id is an index
    files,          \* id -> the place of its record in plans/ by time, the oldest first
    verdict,        \* id -> the verdict of its record
    approved,       \* ids with an approval
    tracked,        \* ids committed
    up,             \* the run that holds the lock of the checkout
    granted,        \* history: <<box, container, item>>: losses an accepted plan named
    missed,         \* history: <<box, projects>>: a box that failed to take a services file,
                    \* or was left out, and the projects of that run
    raced,          \* history: an edit of bay.fleet.toml after a plan went out with it
    unlisted,       \* history: boxes whose play went well and whose receipt is an older one
    count           \* bounded: events, runs, faults

planVars == <<bodies, files, verdict, approved, tracked>>
history == <<granted, missed, raced, unlisted>>
vars == <<tip, fleetVars, boxVars, planVars, up, history, count>>

Idle == [pc |-> "idle"]
Spend(what) == count[what] > 0 /\ count' = [count EXCEPT ![what] = @ - 1]

-----------------------------------------------------------------------------
(* The records of the plans. *)

\* Some project of the request is left, or it is for the routes.
Answers(r) == r.of = {} \/ r.of \intersect Members # {}

\* The id of a body, known or new; the record is saved before anything is refused.
IdOf(body) == IF \E i \in DOMAIN bodies : bodies[i] = body
              THEN CHOOSE i \in DOMAIN bodies : bodies[i] = body ELSE Len(bodies) + 1
Verdict(body, stale, skipDirty) ==
    Decide(body.blocked \/ (Dirty /\ ~skipDirty), stale, body.steps, IdOf(body) \in approved)
Put(f, k, v) == [x \in DOMAIN f \union {k} |-> IF x = k THEN v ELSE f[x]]
Listed(i) == i \in DOMAIN files
\* The records that are left, in their order; the n newest of some ids.
Only(ids) == [x \in ids |-> Cardinality({y \in ids : files[y] <= files[x]})]
Newest(ids, n) == {x \in ids : Cardinality({y \in ids : files[y] > files[x]}) < n}
Save(body, v) ==
    LET i == IdOf(body)
    IN  /\ bodies' = IF i > Len(bodies) THEN Append(bodies, body) ELSE bodies
        /\ files' = Put(Only(DOMAIN files \ {i}), i, Cardinality(DOMAIN files \union {i}))
        /\ verdict' = Put(verdict, i, v)

-----------------------------------------------------------------------------
(* The world beside the run. *)

PushApp(p) ==
    /\ Spend("events")
    /\ \E a \in DOMAIN Toml[p] \ {tip[p]} : tip' = [tip EXCEPT ![p] = a]
    /\ UNCHANGED <<fleetVars, boxVars, planVars, up, history>>

\* A webhook build deploys the pushed commit; in track pin it only builds.  It
\* stamps the row the receipt of the box has; a stamp that fails is a log line.
Stamped(b, p) ==
    [receipt[b] EXCEPT !.code = [c \in DOMAIN @ |-> IF WhoOwns(c) = p /\ c \in DOMAIN ran[b]
                                                    THEN tip[p] ELSE @[c]]]
HookBuild(p) ==
    /\ rec[p] # Absent /\ Toml[p][rec[p].pin].track = "branch"
    /\ ran' = [b \in Boxes |-> [c \in DOMAIN ran[b] |-> IF Owner[c] = p THEN tip[p] ELSE ran[b][c]]]
    /\ ran' # ran
    /\ \E unstamped \in SUBSET {b \in Boxes : ran'[b] # ran[b]} :
         /\ receipt' = [b \in Boxes |-> IF b \in unstamped THEN receipt[b] ELSE Stamped(b, p)]
         /\ IF unstamped = {} THEN UNCHANGED count ELSE Spend("faults")
    /\ up' = IF up.pc = "idle" THEN up ELSE [up EXCEPT !.built = @ \union {p}]
    /\ UNCHANGED <<tip, fleetVars, live, planVars, history>>

\* Somebody edits bay.fleet.toml, and commits it.
EditDoc ==
    /\ Spend("events")
    /\ \E d \in DOMAIN Docs \ {doc.work} : doc' = [doc EXCEPT !.work = d]
    /\ UNCHANGED <<tip, head, rec, services, boxVars, planVars, up, history>>
CommitDoc ==
    /\ Dirty /\ up.pc = "idle"
    /\ doc' = [doc EXCEPT !.head = doc.work] /\ head' = head + 1
    /\ UNCHANGED <<tip, rec, services, boxVars, planVars, up, history, count>>

-----------------------------------------------------------------------------
(* bay plan, bay remove, bay approve. *)

\* recheck: the request a saved plan is planned again with.
Again(r, s) ==
    [r EXCEPT !.of = s.of,
              !.data = @ \/ \E m \in Values(s.moves) : m.data,
              !.forceCode = @ \/ (Cardinality(s.of) = 1 /\ \E x \in s.steps :
                                    x.kind = "image" /\ x.risk = "destructive"),
              !.allBoxes = @ \/ s.scope.why = "flag",
              !.remote = @ \/ s.checked]
AgainRemove(s) == RemoveBody(CHOOSE p \in s.of : TRUE, s.running[1], s.checked)
\* The plan a saved one is compared with, and why it no longer holds.
Rechecked(r, s) == IF s.kind = "remove" THEN AgainRemove(s) ELSE PlanBody(Again(r, s), s.at, TRUE)
Stale(s, fresh) == fresh # s
\* --all-boxes with a saved plan of fewer boxes.
RefusesAllBoxes(r, s) == r.allBoxes /\ s.scope.limited
MayCheck(r, i) ==
    LET s == bodies[i] IN
    /\ Listed(i) /\ s.of \subseteq Members
    /\ s.kind # "remove" => r.of = s.of /\ ~RefusesAllBoxes(r, s)

SaveNew(body) == Save(body, Verdict(body, FALSE, FALSE))
SaveAgain(i, fresh) == Save(fresh, Verdict(fresh, Stale(bodies[i], fresh), FALSE))

\* bay plan, bay plan --plan-id, bay remove: a record is saved, whatever it says.
MakePlan ==
    /\ Spend("events")
    /\ \/ \E r \in {r \in Ups : Answers(r)} :
            SaveNew(PlanBody(r, tip, TRUE))
       \/ \E x \in {x \in Removals : x.of \in Members} :
            SaveNew(RemoveBody(x.of, TRUE, x.remote))
       \/ \E r \in Ups : \E i \in {i \in DOMAIN files : MayCheck(r, i)} :
            SaveAgain(i, Rechecked(r, bodies[i]))
    /\ UNCHANGED <<tip, fleetVars, boxVars, approved, tracked, up, history>>

Approve(i) ==
    /\ Listed(i) /\ i \notin approved /\ verdict[i] \notin {"blocked", "stale"}
    /\ approved' = approved \union {i}
    /\ UNCHANGED <<tip, fleetVars, boxVars, bodies, files, verdict, tracked, up, history, count>>

-----------------------------------------------------------------------------
(* bay up. *)

\* The plan of the run is saved, then the gate refuses it or lets it through.
Gate(r, body, stale, read) ==
    LET v == Verdict(body, stale, r.dirty)
        prior == IF Listed(IdOf(body)) THEN verdict[IdOf(body)] ELSE "none"
        pass == v = "auto" \/ (v = "approve" /\ r.force)
    IN
    /\ Save(body, v)
    /\ up' = IF ~pass THEN Idle
             ELSE [pc |-> "write", id |-> IdOf(body), prior |-> prior, doc |-> doc.work, read |-> read,
                   commit |-> 0, envs |-> <<>>, left |-> {}, unread |-> {}, failed |-> FALSE, built |-> {}]

GateSaved(r, i, fresh) == Gate(r, fresh, Stale(bodies[i], fresh), TRUE)

\* read: whether the receipts could be read; no box answers is a fault.
StartUp(r) ==
    /\ up.pc = "idle" /\ Answers(r) /\ ~r.remote /\ count.runs > 0
    /\ \E read \in BOOLEAN :
         /\ count' = [count EXCEPT !.runs = @ - 1, !.faults = IF read THEN @ ELSE @ - 1]
         /\ read \/ count.faults > 0
         /\ Gate(r, PlanBody(r, tip, read), FALSE, read)
    /\ UNCHANGED <<tip, fleetVars, boxVars, approved, tracked, history>>

StartSaved(r, i) ==
    /\ up.pc = "idle" /\ ~r.remote /\ MayCheck(r, i) /\ Spend("runs")
    /\ GateSaved(r, i, Rechecked(r, bodies[i]))
    /\ UNCHANGED <<tip, fleetVars, boxVars, approved, tracked, history>>

Body == bodies[up.id]
Misses(bs) == bs \X {Body.of}
Behind == {x[1] : x \in missed}

\* What an accepted step says goes away: a container or resource with all it
\* has when no bay.toml explains it, else the one item.
Named(steps, n, item) ==
    \E s \in steps : /\ s.risk \in Risky /\ s.on = n
                     /\ \/ s.kind = "resource" \/ WhoOwns(n) = Nobody
                        \/ s.kind = "container" /\ s.action = "remove"
                        \/ s.kind = item[1] /\ s.item = item[2]
LostOn(old, new) ==
    UNION {{<<x[1], x[2], l>> : l \in LostItems(At(Slice(old, x[1]), x[2]), At(Slice(new, x[1]), x[2]))} :
             x \in Boxes \X DOMAIN old}

\* The lock record bay up writes before it deploys.
Confirmed(p) == rec[p].result \notin {"failed", "pending"}
Pending(p, body) ==
    LET at == body.at[p]
        same == rec[p].pin = at
        prev == CASE ~same /\ Confirmed(p) -> [pin |-> rec[p].pin, plan |-> rec[p].plan]
                  [] ~same /\ ~Confirmed(p) /\ rec[p].prev # Absent /\ rec[p].prev.pin = at -> Absent
                  [] OTHER -> rec[p].prev
    IN  [pin |-> at, box |-> IF p \in DOMAIN body.moves THEN body.moves[p].to ELSE rec[p].box,
         result |-> "pending", plan |-> up.id, seen |-> rec[p].seen, prev |-> prev]
\* What a run writes: the lock records and the services file it compiles.
UpWrites(d) ==
    LET locks == [p \in Projects |-> IF p \in Body.of THEN Pending(p, Body) ELSE rec[p]]
    IN  <<locks, CompileFleet(d, [p \in Members |-> locks[p].pin], [p \in Members |-> locks[p].box])>>
RemoveWrites(d) ==
    LET stay == Members \ Body.of
    IN  <<[p \in Projects |-> IF p \in Body.of THEN [rec[p] EXCEPT !.result = "pending", !.plan = up.id]
                              ELSE rec[p]],
          CompileFleet(d, [p \in stay |-> rec[p].pin], [p \in stay |-> rec[p].box])>>
RouteWrites(d) == <<rec, CompileFleet(d, Pins(<<>>), BoxesOf(<<>>))>>
Writes(d) == CASE Body.kind = "up" -> UpWrites(d)
               [] Body.kind = "remove" -> RemoveWrites(d)
               [] OTHER -> RouteWrites(d)
\* A resource that goes to another box: the old one is left to the operator.
LeftByResources(old, new) ==
    {b \in Boxes : \E n \in DOMAIN old \intersect DOMAIN new :
                      WhoOwns(n) = Nobody /\ b \in old[n].regions \ new[n].regions}

\* deploy_envs: the environment of the plan, then the old one of each move.
EnvOrder(body) ==
    LET others == {BoxEnv[m.from] : m \in Values(body.moves)} \ {body.env}
    IN  <<body.env>> \o (IF others = {} THEN <<>> ELSE <<CHOOSE e \in others : TRUE>>)

\* The locks, the compile, the commit, and the claim that lands.
Write ==
    LET locks == Writes(doc.work)[1]
        want == Writes(doc.work)[2]
        lost == LostOn(services.entries, want.entries)
        back == LostOn(want.entries, services.entries)
    IN
    /\ up.pc = "write"
    /\ rec' = locks /\ services' = want /\ head' = head + 1
    /\ tracked' = tracked \union {up.id}
    /\ up' = [up EXCEPT !.pc = "play", !.commit = head + 1, !.envs = EnvOrder(Body),
                        !.left = Deployed(Body.scope, Body.env)]
    /\ granted' = (granted \ back) \union
         {x \in lost : up.doc # doc.work \/ Named(Body.steps, x[2], x[3])}
    /\ raced' = (raced \/ up.doc # doc.work)
    /\ missed' = missed \union Misses(
         LeftByResources(services.entries, want.entries)
         \union {b \in Boxes : BoxEnv[b] \notin Values(EnvOrder(Body))
                               /\ Slice(want.entries, b) # Slice(services.entries, b)})
    /\ UNCHANGED <<tip, doc, boxVars, bodies, files, verdict, approved, unlisted, count>>

\* The claim is refused: the run puts everything back, its plan record too.
Undo ==
    /\ up.pc = "write" /\ Spend("faults")
    /\ files' = IF up.prior = "none" THEN Only(DOMAIN files \ {up.id}) ELSE files
    /\ verdict' = IF up.prior = "none" THEN verdict ELSE [verdict EXCEPT ![up.id] = up.prior]
    /\ up' = Idle
    /\ UNCHANGED <<tip, fleetVars, boxVars, bodies, approved, tracked, history>>

\* Where :latest must point: no target for a container that runs newer code.
Target(b, c) ==
    LET p == WhoOwns(c) IN
    /\ Body.kind = "up" /\ BoxEnv[b] = Body.env /\ p \in Body.of
    /\ Toml[p][Body.at[p]].track = "pin" \/ c \notin Body.keep

\* The images after a play: with no image of the commit on the box (found = FALSE)
\* :latest stays, or is the branch when the box builds the container first.
Images(b, entries, found) ==
    [c \in BuiltIn(entries) |->
       IF Target(b, c) /\ found THEN Body.at[WhoOwns(c)]
       ELSE IF c \in DOMAIN ran[b] THEN ran[b][c] ELSE tip[WhoOwns(c)]]
MayLack(b) == \A p \in Body.of : Body.kind = "up" => Toml[p][Body.at[p]].track # "pin"

PlayDone(b) == up' = [up EXCEPT !.left = @ \ {b}]
\* The receipt lists what the box has after the play, whatever its result.  A
\* receipt that cannot be written is a warning, and the one before stays.
WriteReceipt(b, result) ==
    /\ receipt' = [receipt EXCEPT ![b] = [at |-> up.commit, result |-> result, rows |-> live'[b],
                                          doc |-> doc.head, code |-> ran'[b]]]
    /\ unlisted' = unlisted \ {b}
PlayOk(b) ==
    /\ up.pc = "play" /\ b \in up.left
    /\ live' = [live EXCEPT ![b] = Slice(services.entries, b)]
    /\ \E found \in BOOLEAN : /\ found \/ MayLack(b)
                              /\ ran' = [ran EXCEPT ![b] = Images(b, live'[b], found)]
    /\ \/ WriteReceipt(b, "ok") /\ UNCHANGED count
       \/ UNCHANGED receipt /\ unlisted' = unlisted \union {b} /\ Spend("faults")
    /\ missed' = {x \in missed : x[1] # b}
    /\ PlayDone(b)
    /\ UNCHANGED <<tip, fleetVars, planVars, granted, raced>>

\* The play fails on a box after some of its containers; the others go on.
PlayFails(b) ==
    LET new == Slice(services.entries, b)
        changed == {n \in Names(live[b], new) : At(live[b], n) # At(new, n)}
    IN
    /\ up.pc = "play" /\ b \in up.left /\ Spend("faults")
    /\ \E done \in SUBSET changed :
         live' = [live EXCEPT ![b] =
           [n \in (DOMAIN live[b] \ (done \ DOMAIN new)) \union (done \intersect DOMAIN new) |->
              IF n \in done THEN new[n] ELSE live[b][n]]]
    /\ \E found \in BOOLEAN : ran' = [ran EXCEPT ![b] = Images(b, live'[b], found)]
    /\ WriteReceipt(b, "failed") \/ UNCHANGED <<receipt, unlisted>>
    /\ missed' = missed \union Misses({b})
    /\ up' = [up EXCEPT !.left = @ \ {b}, !.failed = TRUE]
    /\ UNCHANGED <<tip, fleetVars, planVars, granted, raced>>

\* read_receipts_after: it is read again and again; that of a box may stay unread.
Unread == {{}} \union {{b} : b \in Deployed(Body.scope, Body.env)}
\* The next environment, unless this one failed; then the receipts are read.
NextEnv ==
    /\ up.pc = "play" /\ up.left = {}
    /\ LET rest == SubSeq(up.envs, 2, Len(up.envs)) IN
         IF up.failed \/ rest = <<>>
         THEN /\ \E unread \in Unread :
                   /\ up' = [up EXCEPT !.pc = "record", !.unread = unread]
                   /\ IF unread = {} THEN UNCHANGED count ELSE Spend("faults")
              /\ missed' = missed \union Misses(UNION {Deployed(Body.scope, e) : e \in Values(rest)})
         ELSE /\ up' = [up EXCEPT !.envs = rest, !.left = Deployed(Body.scope, rest[1])]
              /\ UNCHANGED <<missed, count>>
    /\ UNCHANGED <<tip, fleetVars, boxVars, planVars, granted, raced, unlisted>>

\* The process is killed while the playbook runs.
Kill ==
    /\ up.pc = "play" /\ Spend("faults")
    /\ missed' = missed \union Misses(
         up.left \union UNION {Deployed(Body.scope, e) : e \in Values(SubSeq(up.envs, 2, Len(up.envs)))})
    /\ up' = Idle
    /\ UNCHANGED <<tip, fleetVars, boxVars, planVars, granted, raced, unlisted>>

\* box_results: what the receipts of this deploy say.
Result(b) == IF /\ b \in Deployed(Body.scope, Body.env) \ up.unread
                /\ receipt[b].at = up.commit
             THEN receipt[b].result ELSE "none"
\* The digest of the rows of p: those of its environment that could be read.
Digest(p) == Running(EnvBoxes(Body.env) \ up.unread, DOMAIN Toml[p][rec[p].pin].entries)
RunFailed == up.failed \/ \E b \in Boxes : Result(b) = "failed"
RecordedUp(p) ==
    LET r == Result(rec[p].box) IN
    CASE p \in Body.of -> [rec[p] EXCEPT !.result = IF ~up.failed /\ r = "ok" THEN "ok" ELSE "failed",
                                     !.seen = Digest(p)]
      [] p \notin Body.of /\ (\/ r = "none" \/ BoxEnv[rec[p].box] # Body.env
                              \/ r = "failed" /\ rec[p].result = "ok") -> rec[p]
      [] OTHER -> [rec[p] EXCEPT !.result = r, !.plan = up.id, !.seen = Digest(p)]

\* Mutant: a playbook that ended is enough.
GoneByExit(p) == up.pc = "record"
\* _gone: every receipt of the environment is of this deploy and lists none of them.
Gone(p) == /\ ~RunFailed
           /\ \A b \in EnvBoxes(Body.env) :
                Result(b) = "ok" /\ {n \in DOMAIN live[b] : WhoOwns(n) = p} = {}

RecordedRemove(p) ==
    CASE p \notin Body.of -> rec[p]
      [] p \in Body.of /\ Gone(p) -> Absent
      [] OTHER -> [rec[p] EXCEPT !.result = "failed"]

\* prune_plans: the newest committed records, and every one a lock names.
\* Mutant: only the records of the deployments before are spared.
NamedByPrevious(locks) ==
    {x.plan : x \in {locks[p].prev : p \in {q \in Projects : locks[q] # Absent}} \ {Absent}}
NamedByLocks(locks) ==
    UNION {{locks[p].plan} \union {x.plan : x \in {locks[p].prev} \ {Absent}} :
             p \in {q \in Projects : locks[q] # Absent}}
Pruned(locks) ==
    tracked \ (Newest(DOMAIN files \intersect tracked, Keep) \union NamedByLocks(locks))

\* A route-only run records nothing: there is a commit only when records are pruned.
HeadAfter == IF Body.kind = "routes" /\ Pruned(rec) = {} THEN head ELSE head + 1
Record ==
    /\ up.pc = "record"
    /\ rec' = [p \in Projects |->
                 CASE rec[p] = Absent \/ Body.kind = "routes" -> rec[p]
                   [] rec[p] # Absent /\ Body.kind = "up" -> RecordedUp(p)
                   [] OTHER -> RecordedRemove(p)]
    /\ head' = HeadAfter
    /\ tracked' = tracked \ Pruned(rec')
    /\ files' = Only(DOMAIN files \ Pruned(rec'))
    /\ approved' = approved \ Pruned(rec')
    /\ up' = Idle
    /\ UNCHANGED <<tip, doc, services, boxVars, bodies, verdict, history, count>>

-----------------------------------------------------------------------------
Init ==
    LET at0 == [p \in Projects |-> 0]
        box0 == [p \in Projects |-> Toml[p][0].box]
    IN
    /\ tip = at0
    /\ doc = [head |-> 1, work |-> 1] /\ head = 1
    /\ services = CompileFleet(1, at0, box0)
    /\ live = [b \in Boxes |-> Slice(services.entries, b)]
    /\ ran = [b \in Boxes |-> [c \in BuiltIn(live[b]) |-> 0]]
    /\ receipt = [b \in Boxes |-> [at |-> 1, result |-> "ok", rows |-> live[b], doc |-> 1,
                                code |-> ran[b]]]
    /\ rec = [p \in Projects |->
                [pin |-> 0, box |-> box0[p], result |-> "ok", plan |-> 0, prev |-> Absent,
                 seen |-> Running(EnvBoxes(BoxEnv[box0[p]]), DOMAIN Toml[p][0].entries)]]
    /\ bodies = <<>> /\ files = <<>> /\ verdict = <<>> /\ approved = {} /\ tracked = {}
    /\ up = Idle /\ granted = {} /\ missed = {} /\ raced = FALSE /\ unlisted = {}
    /\ count = [events |-> MaxEvents, runs |-> MaxRuns, faults |-> MaxFaults]

Start == \E r \in Ups : StartUp(r) \/ \E i \in DOMAIN files : StartSaved(r, i)
Play == \E b \in Boxes : PlayOk(b) \/ PlayFails(b)
Next ==
    \/ \E p \in Projects : PushApp(p) \/ HookBuild(p)
    \/ EditDoc \/ CommitDoc
    \/ MakePlan \/ \E i \in DOMAIN files : Approve(i)
    \/ Start \/ Write \/ Undo \/ Play \/ NextEnv \/ Kill \/ Record
Spec == Init /\ [][Next]_vars

-----------------------------------------------------------------------------
TypeOK ==
    /\ \A p \in Projects : tip[p] \in DOMAIN Toml[p]
    /\ \A b \in Boxes : DOMAIN ran[b] = BuiltIn(live[b]) /\ Values(ran[b]) \subseteq Commits
    /\ doc \in [head : DOMAIN Docs, work : DOMAIN Docs]
    /\ \A p \in Members : rec[p].box \in Boxes /\ rec[p].result \in {"ok", "failed", "pending"}
    /\ DOMAIN live = Boxes /\ DOMAIN receipt = Boxes
    /\ DOMAIN files \subseteq DOMAIN bodies /\ DOMAIN files \subseteq DOMAIN verdict
    /\ tracked \subseteq DOMAIN bodies
    /\ up.pc \in {"idle", "write", "play", "record"} /\ Behind \subseteq Boxes /\ raced \in BOOLEAN

\* A deploy takes a volume, a database or a container from a box only when a
\* destructive or shared step of a plan that was let through names it, whatever
\* was pushed, planned, approved or half deployed before (plan.py: diff_steps).
NoUnseenLoss ==
    [][\A b \in Boxes : \A n \in DOMAIN live[b] :
         \A l \in LostItems(live[b][n], At(live'[b], n)) : <<b, n, l>> \in granted]_vars

\* The plan a lock record or its previous entry names keeps its record in the
\* fleet repository, across pruning and refused runs (apply.py: prune_plans).
PlanKept ==
    \A p \in Members : \A i \in {rec[p].plan} \union (IF rec[p].prev = Absent THEN {} ELSE {rec[p].prev.plan}) :
        i = 0 \/ (Listed(i) /\ i \in tracked)

\* A box that no failed run left behind runs what the services file says, up to
\* what needs no new container: the scope holds every box the new file changes
\* (scope.py: compute).
Runs(b) == LET file == Slice(services.entries, b)
           IN  \A n \in Names(live[b], file) : ~Differs(At(live[b], n), At(file, n))
ScopeCovers ==
    up.pc \in {"idle", "write"} /\ ~raced => \A b \in Boxes \ Behind : Runs(b)

\* A deploy moves code back only in track pin, over a build that landed while it
\* ran, without receipts, or with an approved image step (plan.py: code_status);
\* or where the receipt of the box is behind what runs there, after a play that
\* could not write it (reconcile.yml:637) or a build that could not stamp it
\* (rebuild.sh.j2:754).  That case is excused here, and CodeBackSaid has it.
PlayStep == up.pc = "play" /\ up'.pc = "play" /\ up'.left # up.left
Back(b, c) == /\ c \in DOMAIN ran[b] \intersect DOMAIN ran'[b] /\ ran'[b][c] # ran[b][c]
              /\ Order(ran'[b][c], ran[b][c]) # "older"
              /\ Toml[WhoOwns(c)][Body.at[WhoOwns(c)]].track = "branch"
Unsaid(b, c) ==
    /\ Back(b, c) /\ up.read /\ WhoOwns(c) \notin up.built
    /\ ~\E s \in Body.steps : s.kind = "image" /\ s.on = c /\ s.risk = "destructive"
ReceiptBehind(b, c) == c \notin DOMAIN receipt[b].code \/ receipt[b].code[c] # ran[b][c]
CodeBackNamed ==
    [][PlayStep =>
         \A b \in Boxes : \A c \in BuiltIn(live[b]) : Unsaid(b, c) => ReceiptBehind(b, c)]_vars

\* When bay remove drops the lock of a project, no box of the environment that lock
\* named runs a container of it, whatever failed before, and no other box does that
\* a failed run did not leave behind; and none comes back (remove.py: _gone).
HasOf(b, p) == {n \in DOMAIN live[b] : WhoOwns(n) = p}
RemovedIsGone ==
    [][\A p \in Projects, b \in Boxes : rec'[p] = Absent =>
         IF rec[p] = Absent THEN HasOf(b, p)' \subseteq HasOf(b, p)
         ELSE BoxEnv[b] = BoxEnv[rec[p].box] \/ b \notin Behind => HasOf(b, p)' = {}]_vars

\* A plan that was checked on the boxes names every container its play then
\* creates, replaces or takes away there, also what an earlier run left half
\* done (plan.py: box_steps).
CheckedIsSaid ==
    [][PlayStep /\ Body.checked /\ ~raced =>
         \A b \in EnvBoxes(Body.env) : \A n \in Names(live[b], live'[b]) :
           Differs(At(live[b], n), At(live'[b], n)) =>
             \E s \in Body.steps : s.on = n /\ (n \in DOMAIN live'[b] \/ s.risk \in Risky)]_vars

\* docs/plan.md:1535: in branch mode bay up "moves the code only forward".
CodeForward ==
    [][PlayStep =>
         \A b \in Boxes : \A c \in BuiltIn(live[b]) :
           Back(b, c) => Order(ran'[b][c], ran[b][c]) # "newer"]_vars

\* docs/plan.md:1532: "every code move that `bay up` sends is a plan step for the
\* container, or this note", which is for code no receipt names.
CodeBackSaid ==
    [][PlayStep =>
         \A b \in Boxes : \A c \in BuiltIn(live[b]) : c \in DOMAIN receipt[b].code => ~Unsaid(b, c)]_vars

\* docs/plan.md:974: "a second `bay up` is the retry".  A run for projects whose
\* last deploy failed, which ends ok, leaves no box of its environment behind.
RetryCompletes ==
    [][up.pc = "record" /\ Body.kind = "up" /\ ~raced /\ up'.pc = "idle" =>
         ((\A p \in Body.of : Body.lock[p].result = "failed" /\ rec'[p].result = "ok") =>
            \A b \in EnvBoxes(Body.env) : live[b] = Slice(services.entries, b))]_vars
=============================================================================
