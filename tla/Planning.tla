------------------------------- MODULE Planning -------------------------------
(***************************************************************************)
(* The state a fleet checkout plans from, and the plan bodies made of it:  *)
(* bay plan of some projects, of a whole environment, of the tailnet       *)
(* routes alone, and bay remove.  A body is what is hashed into the plan   *)
(* id: the wanted commits, the fleet commit, the lock records, what runs,  *)
(* the steps, the moves, the scope and what the check on the boxes found.  *)
(***************************************************************************)
EXTENDS Scope

CONSTANTS
    Projects,
    Commits, Line,  \* application commits, numbers; the branch each is on
    Toml,           \* project -> commit -> [box, track, entries, jobs, backups, needs]
    Docs            \* bay.fleet.toml: a sequence of [tune, own, hook, routes, allow]

ASSUME CommitsAreNumbers == Commits \subseteq Nat /\ 0 \in Commits
\* A container name is claimed once, by a bay.toml or by the fleet file, and a bay.toml
\* names a known box (compiler.py: _claim_container).
EntryKeys == {"regions", "vols", "db", "secrets", "spec", "hold", "build"}
ASSUME TomlsOfProjects ==
    /\ IsFiniteSet(Projects) /\ Nobody \notin Projects
    /\ \A p \in Projects : /\ 0 \in DOMAIN Toml[p]
                          /\ \A c \in DOMAIN Toml[p] :
                               /\ Toml[p][c].box \in Boxes
                               /\ \A n \in DOMAIN Toml[p][c].entries :
                                    WhoOwns(n) = p /\ DOMAIN Toml[p][c].entries[n] = EntryKeys
ASSUME DocsOfFleet ==
    /\ 1 \in DOMAIN Docs
    /\ \A d \in DOMAIN Docs : \A n \in DOMAIN Docs[d].own :
         WhoOwns(n) = Nobody /\ DOMAIN Docs[d].own[n] = EntryKeys

VARIABLES
    tip,            \* project -> HEAD of its checkout (WANTED)
    doc,            \* bay.fleet.toml: [head, work], committed and on disk
    head,           \* the number of the fleet's HEAD commit
    rec,            \* project -> its lock record (PINNED), Absent once removed
    services,       \* the compiled services file
    ran,            \* box -> its build containers -> the commit of the image
    live,           \* box -> the entries its containers run
    receipt         \* box -> [at, result, rows, doc, code] of the last deploy (RUNNING): its
                    \* fleet commit, the entries it lists, the bay.fleet.toml of that commit
                    \* and, of its build containers, the commit of the image

fleetVars == <<doc, head, rec, services>>
boxVars == <<ran, live, receipt>>

BuiltIn(entries) == {c \in DOMAIN entries : entries[c].build # "no"}
Members == {p \in Projects : rec[p] # Absent}

-----------------------------------------------------------------------------
(* The compile: every project at its pin, on the box of its lock. *)

Merge(fs) == [n \in UNION {DOMAIN f : f \in fs} |-> (CHOOSE f \in fs : n \in DOMAIN f)[n]]

\* pins: project -> commit, boxes: project -> box; who is not in pins is left out.
CompileFleet(d, pins, boxes) ==
    LET d0 == Docs[d]
        part(p) == Toml[p][pins[p]]
        placed(p) == [c \in DOMAIN part(p).entries |->
                        [part(p).entries[c] EXCEPT !.regions = {boxes[p]},
                                                   !.spec = <<@, {d0.tune[x] : x \in {c} \intersect DOMAIN d0.tune}>>]]
    IN
    [entries |-> Merge({placed(p) : p \in DOMAIN pins} \union {d0.own}),
     jobs |-> Merge({part(p).jobs : p \in DOMAIN pins} \union {<<>>}),
     backups |-> Merge({part(p).backups : p \in DOMAIN pins} \union {<<>>}),
     hook |-> d0.hook, routes |-> d0.routes]

Pins(over) == [p \in Members |-> IF p \in DOMAIN over THEN over[p] ELSE rec[p].pin]
BoxesOf(over) == [p \in Members |-> IF p \in DOMAIN over THEN over[p] ELSE rec[p].box]
Without(p, f) == [x \in DOMAIN f \ {p} |-> f[x]]

\* What a box runs of a services file.
Slice(entries, b) ==
    [n \in {n \in DOMAIN entries : b \in entries[n].regions} |-> entries[n]]

\* project_containers over the pinned and the wanted bay.toml.
NamesOf(p, at) == DOMAIN Toml[p][rec[p].pin].entries \union DOMAIN Toml[p][at].entries

-----------------------------------------------------------------------------
(* The plan. *)

\* code_order: where the running commit stands against the wanted one.
Order(want, run) ==
    CASE want = run -> "same"
      [] Line[want] = Line[run] /\ run > want -> "newer"
      [] Line[want] = Line[run] /\ run < want -> "older"
      [] OTHER -> "unknown"

\* running_slice: what the receipts of these boxes list of these containers.
Running(bs, names) ==
    UNION {{<<b, n, receipt[b].rows[n]>> : n \in names \intersect DOMAIN receipt[b].rows} : b \in bs}

Dirty == doc.head # doc.work
TailnetSteps == IF Docs[doc.head].allow = Docs[doc.work].allow THEN {}
                ELSE {Step("tailnet", "update", "shared", "allowlist", "allowlist", Nobody)}

\* running_commits: what the receipts of the environment say a container runs;
\* where several boxes list it, the row of one decides.
Receipted(e, c) == {b \in EnvBoxes(e) : c \in DOMAIN receipt[b].code}
RunningCode(e, c) == LET b == CHOOSE b \in Receipted(e, c) : TRUE IN receipt[b].code[c]
\* project_code: the build containers of p that the receipts list, each against at.
Where(e, p, at, seen, want) ==
    [c \in {c \in BuiltIn(want.entries) \intersect seen : WhoOwns(c) = p /\ Receipted(e, c) # {}} |->
        Order(at, RunningCode(e, c))]

-----------------------------------------------------------------------------
(* The parts of a plan. *)

\* read: whether the receipts could be read.
ReadRunning(read, e, names) == IF read THEN Running(EnvBoxes(e), names) ELSE {}
RunningNames(running) == {x[2] : x \in running}

\* The deploy goes to the box bay.toml wants; it moves when the lock has another.
WantedBox(p, at) == Toml[p][at[p]].box
Moving(of, at) == {p \in of : WantedBox(p, at) # rec[p].box}
MoveRecord(p, at, data, files) ==
    [from |-> rec[p].box, to |-> WantedBox(p, at), data |-> data,
     risk |-> IF HasData(NamesOf(p, at[p]), files) THEN "destructive" ELSE "shared"]
MoveBlocked(m) == m.risk = "destructive" /\ ~m.data

\* The compile against the services file, with its routes.
Compared(want, readable, seen) ==
    DiffSteps(services, want, readable, seen) \union RouteSteps(services, want)
RoutesElsewhere(want, e) == RouteSteps(services, want) # {} /\ BoxEnv[Ingress] # e

\* The check on the boxes (--remote): what a deploy of want would do there.
BoxAction(old, new) ==
    CASE old = Absent -> "create" [] new = Absent -> "remove" [] OTHER -> "recreate"
\* Mutant: the containers the file no longer holds are not predicted.
PredictedOfWanted(bs, want) ==
    {[box |-> x[1], name |-> x[2], action |-> BoxAction(At(live[x[1]], x[2]), want.entries[x[2]])] :
       x \in {x \in bs \X DOMAIN want.entries :
                /\ x[2] \in DOMAIN Slice(want.entries, x[1])
                /\ Differs(At(live[x[1]], x[2]), want.entries[x[2]])}}
\* default_box_check: the deploy in check mode against the compiled file, which
\* changes nothing; a container the file no longer holds is a remove.
BoxAnswer(b, want) ==
    LET new == Slice(want.entries, b) IN
    {[box |-> b, name |-> n, action |-> BoxAction(At(live[b], n), At(new, n))] :
       n \in {n \in Names(live[b], new) : Differs(At(live[b], n), At(new, n))}}
Predicted(bs, want) == UNION {BoxAnswer(b, want) : b \in bs}
\* What no step of the compile explains.
BoxSteps(predicted, steps) ==
    {[Step("container", x.action, IF x.action = "remove" THEN "destructive" ELSE "safe",
           x.name, x.name, WhoOwns(x.name)) EXCEPT !.src = "box"] :
       x \in {x \in predicted : \A s \in steps : s.on # x.name}}

\* project_code of every project; a safe step of a container that has one is left out.
ImageSteps(e, of, at, forced, seen, want, steps) ==
    {s \in UNION {CodeSteps(p, Toml[p][at[p]].track, forced, Where(e, p, at[p], seen, want)) : p \in of} :
       s.risk = "destructive" \/ \A d \in steps : d.on # s.on}

\* A dirty fleet takes nothing away.
DirtyLoss(steps) == Dirty /\ \E s \in steps : s.risk = "destructive"

\* What every body has; the rest is set by the plan of its kind.
Body0(kind, of, running, e) ==
    [kind |-> kind, of |-> of, at |-> <<>>, head |-> head, dirty |-> Dirty,
     lock |-> [p \in of |-> rec[p]], running |-> running, env |-> e, steps |-> {},
     moves |-> <<>>, keep |-> {}, scope |-> Whole, checked |-> FALSE, predicted |-> {},
     blocked |-> FALSE]

-----------------------------------------------------------------------------
(* The plans. *)

\* What the plan of some projects starts from: the compile of the wanted commits
\* (at), what runs of their containers, and how the compile differs.
WantedEnvs(of, at) == {BoxEnv[WantedBox(p, at)] : p \in of}
UpFacts(of, at, read) ==
    LET env == CHOOSE e \in WantedEnvs(of, at) : TRUE
        names == UNION {NamesOf(p, at[p]) : p \in of}
        running == ReadRunning(read, env, names)
        want == CompileFleet(doc.work, Pins([p \in of |-> at[p]]),
                             BoxesOf([p \in of |-> WantedBox(p, at)]))
    IN  [of |-> of, env |-> env, want |-> want, read |-> read, running |-> running,
         diff |-> Compared(want, IF read THEN names ELSE {}, RunningNames(running))]

\* The scope; a plan of a whole environment has all of its boxes.
UpScope(r, at, f) ==
    LET who == CHOOSE p \in r.of : TRUE
        old == IF who \in Moving(f.of, at) THEN rec[who].box ELSE Nobody
    IN  IF Cardinality(r.of) # 1 THEN Whole
        ELSE Compute(who, WantedBox(who, at), old, f.diff \union TailnetSteps, services, f.want, r.allBoxes)

\* The steps, the moves, the check on the boxes, and what blocks.
UpPlan(r, at, f, scope) ==
    LET moving == Moving(f.of, at)
        files == {services, f.want}
        seen == RunningNames(f.running)
        oneEnv == Cardinality(WantedEnvs(f.of, at)) = 1 /\ ~RoutesElsewhere(f.want, f.env)
        checked == r.remote /\ oneEnv
        predicted == IF checked THEN Predicted(Deployed(scope, f.env), f.want) ELSE {}
        found == f.diff \union BoxSteps(predicted, f.diff)
        moves == [p \in moving |-> MoveRecord(p, at, r.data, files)]
        steps == found \union ImageSteps(f.env, f.of, at, r.forceCode, seen, f.want, found) \union TailnetSteps
                 \union UNION {MoveSteps(p, NamesOf(p, at[p]), files) : p \in moving}
        track(p) == Toml[p][at[p]].track
        where(p) == Where(f.env, p, at[p], seen, f.want)
    IN
    [Body0("up", f.of, <<f.read, f.running>>, f.env) EXCEPT
        !.at = at, !.steps = steps, !.moves = moves, !.scope = scope,
        !.checked = checked, !.predicted = predicted,
        !.keep = UNION {Kept(track(p), where(p)) : p \in f.of},
        !.blocked = \/ ~oneEnv
                    \/ \E m \in Values(moves) : MoveBlocked(m)
                    \/ \E p \in f.of : CodeBlocked(track(p), r.forceCode, where(p))
                    \/ DirtyLoss(steps)]

\* make_plan and make_env_plan.
UpBody(r, at, read) ==
    LET f == UpFacts(r.of \intersect Members, at, read) IN UpPlan(r, at, f, UpScope(r, at, f))

\* A plan of the environment of the ingress box, which no project names: the
\* compile at the pins.  It pins nothing, so a step of a project blocks it.
RoutesBody(r, read) ==
    LET want == CompileFleet(doc.work, Pins(<<>>), BoxesOf(<<>>))
        env == BoxEnv[Ingress]
        diff == Compared(want, {}, {})
        predicted == IF r.remote THEN Predicted(EnvBoxes(env), want) ELSE {}
        found == diff \union BoxSteps(predicted, diff)
    IN
    [Body0("routes", {}, <<read, {}>>, env) EXCEPT
        !.steps = found \union TailnetSteps, !.checked = r.remote, !.predicted = predicted,
        !.blocked = (\E s \in found : s.who # Nobody) \/ DirtyLoss(found)]

PlanBody(r, at, read) == IF r.of = {} THEN RoutesBody(r, read) ELSE UpBody(r, at, read)

\* The projects whose pinned bay.toml needs p.
Needers(p) == {q \in Members \ {p} : p \in Toml[q][rec[q].pin].needs}
\* The containers of p at the commits its lock names.
RemovedNames(p) == NamesOf(p, rec[p].pin)
\* What the services file or a receipt still lists of these containers.
Held(names, running) == {n \in names : n \in DOMAIN services.entries \union RunningNames(running)}
\* The compile without p changes something else as well.
ChangesMore(want, names) ==
    \E s \in Compared(want, {}, {}) : ~(s.kind = "container" /\ s.action = "remove" /\ s.on \in names)

\* RUNNING, of every box of the environment p is in.
RemoveRunning(p, read) == ReadRunning(read, BoxEnv[rec[p].box], RemovedNames(p))
\* One remove for each container the fleet compiled or a box runs.
RemoveSteps(p, running) ==
    {Step("container", "remove", "destructive", n, n, p) : n \in Held(RemovedNames(p), running)}
\* _check_boxes: what the boxes do beside the removes becomes steps as well.
CheckBoxes(p, want) == Predicted(EnvBoxes(BoxEnv[rec[p].box]), want)

\* make_remove_plan, of a whole project.
RemoveBody(p, read, remote) ==
    LET want == CompileFleet(doc.work, Without(p, Pins(<<>>)), Without(p, BoxesOf(<<>>)))
        running == RemoveRunning(p, read)
        removed == RemoveSteps(p, running)
        refused == Needers(p) # {} \/ ChangesMore(want, RemovedNames(p))
        checked == remote /\ ~refused
        predicted == IF checked THEN CheckBoxes(p, want) ELSE {}
        steps == removed \union BoxSteps(predicted, removed)
    IN
    [Body0("remove", {p}, <<read, running>>, BoxEnv[rec[p].box]) EXCEPT
        !.steps = steps, !.checked = checked, !.predicted = predicted,
        !.blocked = refused \/ TailnetSteps # {} \/ (Dirty /\ steps # {})]
=============================================================================
