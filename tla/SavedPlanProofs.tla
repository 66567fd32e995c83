---------------------------- MODULE SavedPlanProofs ----------------------------
(***************************************************************************)
(* Theorems of SavedPlan: the records a lock names are kept, a removed     *)
(* project is gone from the boxes, a deploy loses nothing an accepted plan *)
(* did not name, and the scope of a run covers the boxes it changes.       *)
(***************************************************************************)
EXTENDS SavedPlan, SequenceTheorems, FiniteSetTheorems, TLAPS

-----------------------------------------------------------------------------
(* The shape of the state. *)

LockKeys == {"pin", "box", "result", "plan", "prev", "seen"}
RunKeys == {"pc", "id", "prior", "doc", "read", "commit", "envs", "left", "unread",
            "failed", "built"}

IsLock(p, l) ==
    /\ DOMAIN l = LockKeys /\ l.pin \in DOMAIN Toml[p] /\ l.box \in Boxes
    /\ l.prev # Absent => DOMAIN l.prev = {"pin", "plan"}
LocksOK == DOMAIN rec = Projects /\ \A p \in Members : IsLock(p, rec[p])

IsPins(at) == DOMAIN at = Projects /\ \A p \in Projects : at[p] \in DOMAIN Toml[p]
InputsOK == /\ IsPins(tip) /\ DOMAIN doc = {"head", "work"}
            /\ doc.work \in DOMAIN Docs /\ doc.head \in DOMAIN Docs

\* Of the body of a plan: whom it is for, at which commits, and what moves where.
IsBody(b) ==
    /\ b.kind \in {"up", "remove", "routes"} /\ b.of \subseteq Projects
    /\ b.kind = "up" => /\ b.of # {} /\ IsPins(b.at)
                        /\ DOMAIN b.moves \subseteq b.of
                        /\ \A p \in DOMAIN b.moves : b.moves[p].to \in Boxes
    /\ b.kind = "remove" => \E p \in Projects : b.of = {p}
    /\ b.kind = "routes" => b.of = {}
BodiesOK == /\ bodies \in Seq(Values(bodies))
            /\ \A i \in DOMAIN bodies : IsBody(bodies[i])
            /\ DOMAIN files \subseteq DOMAIN bodies

Run == up.pc # "idle"
RunOK == /\ up.pc \in {"idle", "write", "play", "record"}
         /\ Run => /\ DOMAIN up = RunKeys /\ up.id \in DOMAIN bodies /\ up.doc \in DOMAIN Docs
                   /\ Body.of \subseteq Members

Typed == LocksOK /\ InputsOK /\ BodiesOK /\ RunOK

\* The bodies a plan can have in this state.
Asks(r) == r.of \subseteq Projects /\ Answers(r)
Planned(body) ==
    \/ \E r, at, read : Asks(r) /\ r.of # {} /\ IsPins(at) /\ body = UpBody(r, at, read)
    \/ \E r, read : body = RoutesBody(r, read)
    \/ \E p, read, remote : p \in Members /\ body = RemoveBody(p, read, remote)

-----------------------------------------------------------------------------
(* The bodies of the plans, field by field. *)

\* What the plan of some projects found: its facts and its scope.
EnvOf(of, at) == CHOOSE e \in WantedEnvs(of, at) : TRUE
WantOf(of, at) ==
    CompileFleet(doc.work, Pins([p \in of |-> at[p]]), BoxesOf([p \in of |-> WantedBox(p, at)]))
FactsOf(r, at, read) == UpFacts(r.of \intersect Members, at, read)
ScopeOf(r, at, read) == UpScope(r, at, FactsOf(r, at, read))

LEMMA FactsFields ==
    ASSUME NEW of, NEW at, NEW read, NEW f, f = UpFacts(of, at, read)
    PROVE  /\ f.of = of /\ f.env = EnvOf(of, at)
           /\ f.want = WantOf(of, at)
           /\ \E readable, seen : f.diff = Compared(f.want, readable, seen)
<1>1. PICK env : env = CHOOSE e \in WantedEnvs(of, at) : TRUE  OBVIOUS
<1>2. PICK want : want = CompileFleet(doc.work, Pins([p \in of |-> at[p]]),
                                      BoxesOf([p \in of |-> WantedBox(p, at)]))  OBVIOUS
<1>3. PICK names : names = UNION {NamesOf(p, at[p]) : p \in of}  OBVIOUS
<1>4. PICK running : running = ReadRunning(read, env, names)  OBVIOUS
<1>5. PICK diff : diff = Compared(want, IF read THEN names ELSE {}, RunningNames(running))  OBVIOUS
<1>6. UpFacts(of, at, read) = [of |-> of, env |-> env, want |-> want, read |-> read,
                               running |-> running, diff |-> diff]
  BY <1>1, <1>2, <1>3, <1>4, <1>5 DEF UpFacts
<1>7. f.of = of /\ f.env = env /\ f.want = want /\ f.diff = diff
  BY <1>6
<1>8. \E readable, seen : f.diff = Compared(f.want, readable, seen)
  BY <1>5, <1>7
<1> QED  BY <1>1, <1>2, <1>7, <1>8 DEF EnvOf, WantOf

MovesOf(of, at, data, want) == [p \in Moving(of, at) |-> MoveRecord(p, at, data, {services, want})]
SaysMoves(steps, of, at, want) ==
    \A p \in Moving(of, at) : MoveSteps(p, NamesOf(p, at[p]), {services, want}) \subseteq steps

LEMMA UpPlanFields ==
    ASSUME NEW r, NEW at, NEW f, NEW scope, NEW b, b = UpPlan(r, at, f, scope)
    PROVE  /\ b.kind = "up" /\ b.of = f.of /\ b.env = f.env /\ b.at = at /\ b.scope = scope
           /\ b.moves = MovesOf(f.of, at, r.data, f.want)
           /\ f.diff \subseteq b.steps
           /\ SaysMoves(b.steps, f.of, at, f.want)
<1> DEFINE moving == Moving(f.of, at)
           pair == {services, f.want}
<1>1. PICK moves : moves = [p \in moving |-> MoveRecord(p, at, r.data, pair)]  OBVIOUS
<1>2. PICK seen : seen = RunningNames(f.running)  OBVIOUS
<1>3. PICK oneEnv : oneEnv = (Cardinality(WantedEnvs(f.of, at)) = 1 /\ ~RoutesElsewhere(f.want, f.env))
  OBVIOUS
<1>4. PICK checked : checked = (r.remote /\ oneEnv)  OBVIOUS
<1>5. PICK predicted : predicted = IF checked THEN Predicted(Deployed(scope, f.env), f.want) ELSE {}
  OBVIOUS
<1>6. PICK found : found = f.diff \union BoxSteps(predicted, f.diff)  OBVIOUS
<1>7. PICK steps : steps = found \union ImageSteps(f.env, f.of, at, r.forceCode, seen, f.want, found)
                           \union TailnetSteps
                           \union UNION {MoveSteps(p, NamesOf(p, at[p]), pair) : p \in moving}
  OBVIOUS
<1>8. PICK keep, blocked :
        b = [Body0("up", f.of, <<f.read, f.running>>, f.env) EXCEPT
                  !.at = at, !.steps = steps, !.moves = moves, !.scope = scope,
                  !.checked = checked, !.predicted = predicted, !.keep = keep, !.blocked = blocked]
  BY <1>1, <1>2, <1>3, <1>4, <1>5, <1>6, <1>7, ZenonT(120) DEF UpPlan
<1>9. b.kind = "up" /\ b.of = f.of /\ b.env = f.env
  BY <1>8 DEF Body0
<1>10. b.at = at /\ b.scope = scope /\ b.moves = moves /\ b.steps = steps
  BY <1>8 DEF Body0
<1>11. f.diff \subseteq b.steps
  BY <1>6, <1>7, <1>10
<1>12. \A p \in moving : MoveSteps(p, NamesOf(p, at[p]), pair) \subseteq b.steps
  BY <1>7, <1>10
<1> QED  BY <1>1, <1>9, <1>10, <1>11, <1>12 DEF MovesOf, SaysMoves

\* A plan of the routes has no project and compares the compile at the pins.
PinnedFleet(d) == CompileFleet(d, Pins(<<>>), BoxesOf(<<>>))
LEMMA RoutesFields ==
    ASSUME NEW r, NEW read, NEW b, b = RoutesBody(r, read)
    PROVE  /\ b.kind = "routes" /\ b.of = {} /\ b.env = BoxEnv[Ingress] /\ b.scope = Whole
           /\ b.moves = <<>>
           /\ Compared(PinnedFleet(doc.work), {}, {}) \subseteq b.steps
<1>1. PICK want : want = CompileFleet(doc.work, Pins(<<>>), BoxesOf(<<>>))  OBVIOUS
<1>2. PICK env : env = BoxEnv[Ingress]  OBVIOUS
<1>3. PICK diff : diff = Compared(want, {}, {})  OBVIOUS
<1>4. PICK predicted : predicted = IF r.remote THEN Predicted(EnvBoxes(env), want) ELSE {}
  OBVIOUS
<1>5. PICK found : found = diff \union BoxSteps(predicted, diff)  OBVIOUS
<1>6. PICK blocked :
        b = [Body0("routes", {}, <<read, {}>>, env) EXCEPT
               !.steps = found \union TailnetSteps, !.checked = r.remote,
               !.predicted = predicted, !.blocked = blocked]
  BY <1>1, <1>2, <1>3, <1>4, <1>5 DEF RoutesBody
<1>7. /\ b.kind = "routes" /\ b.of = {} /\ b.env = env /\ b.scope = Whole /\ b.moves = <<>>
      /\ b.steps = found \union TailnetSteps
  BY <1>6 DEF Body0
<1>8. diff \subseteq b.steps  BY <1>5, <1>7
<1> QED  BY <1>1, <1>2, <1>3, <1>7, <1>8 DEF PinnedFleet

\* A removal compiles the fleet without the project; unless it is blocked, that
\* changes no more than the containers it removes.
FleetWithout(p, d) == CompileFleet(d, Without(p, Pins(<<>>)), Without(p, BoxesOf(<<>>)))
LEMMA RemoveFields ==
    ASSUME NEW p, NEW read, NEW remote, NEW b, b = RemoveBody(p, read, remote)
    PROVE  /\ b.kind = "remove" /\ b.of = {p} /\ b.env = BoxEnv[rec[p].box] /\ b.scope = Whole
           /\ b.moves = <<>>
           /\ \E running : RemoveSteps(p, running) \subseteq b.steps
           /\ ~b.blocked => ~ChangesMore(FleetWithout(p, doc.work), RemovedNames(p))
<1>1. PICK want : want = FleetWithout(p, doc.work)  OBVIOUS
<1>2. PICK running : running = RemoveRunning(p, read)  OBVIOUS
<1>3. PICK removed : removed = RemoveSteps(p, running)  OBVIOUS
<1>4. PICK refused : refused = (Needers(p) # {} \/ ChangesMore(want, RemovedNames(p)))  OBVIOUS
<1>5. PICK checked : checked = (remote /\ ~refused)  OBVIOUS
<1>6. PICK predicted : predicted = IF checked THEN CheckBoxes(p, want) ELSE {}  OBVIOUS
<1>7. PICK steps : steps = removed \union BoxSteps(predicted, removed)  OBVIOUS
<1>8. PICK blocked : blocked = (refused \/ TailnetSteps # {} \/ (Dirty /\ steps # {}))  OBVIOUS
<1>9. PICK e : e = BoxEnv[rec[p].box]  OBVIOUS
<1>10. b = [Body0("remove", {p}, <<read, running>>, e) EXCEPT
               !.steps = steps, !.checked = checked, !.predicted = predicted, !.blocked = blocked]
  BY <1>1, <1>2, <1>3, <1>4, <1>5, <1>6, <1>7, <1>8, <1>9 DEF RemoveBody, FleetWithout
<1>11. /\ b.kind = "remove" /\ b.of = {p} /\ b.env = e /\ b.scope = Whole /\ b.moves = <<>>
       /\ b.steps = steps /\ b.blocked = blocked
  BY <1>10 DEF Body0
<1>12. removed \subseteq b.steps  BY <1>7, <1>11
<1>13. ~b.blocked => ~ChangesMore(want, RemovedNames(p))
  BY <1>4, <1>8, <1>11
<1>14. \E x : RemoveSteps(p, x) \subseteq b.steps  BY <1>3, <1>12
<1> QED  BY <1>1, <1>9, <1>11, <1>13, <1>14

IsUpPlan(b, r, at, read) ==
    LET of == r.of \intersect Members
        f == FactsOf(r, at, read)
    IN  /\ b.kind = "up" /\ b.of = of /\ b.at = at /\ b.env = EnvOf(of, at)
        /\ b.scope = ScopeOf(r, at, read)
        /\ b.moves = MovesOf(of, at, r.data, f.want)
        /\ f.diff \subseteq b.steps
        /\ SaysMoves(b.steps, of, at, f.want)
LEMMA UpFields ==
    ASSUME NEW r, NEW at, NEW read
    PROVE  IsUpPlan(UpBody(r, at, read), r, at, read)
<1>0. PICK b, of, f : /\ b = UpBody(r, at, read)
                      /\ of = r.of \intersect Members
                      /\ f = FactsOf(r, at, read)
  OBVIOUS
<1> DEFINE scope == ScopeOf(r, at, read)
<1>1. f = UpFacts(of, at, read)  BY <1>0 DEF FactsOf
<1>2. f.of = of /\ f.env = EnvOf(of, at)
  BY <1>1, FactsFields
<1>3. b = UpPlan(r, at, f, scope)
  BY <1>0 DEF UpBody, FactsOf, ScopeOf
<1> HIDE DEF scope
<1>4. /\ b.kind = "up" /\ b.of = f.of /\ b.env = f.env /\ b.at = at /\ b.scope = scope
      /\ b.moves = MovesOf(f.of, at, r.data, f.want)
      /\ f.diff \subseteq b.steps
      /\ SaysMoves(b.steps, f.of, at, f.want)
  BY ONLY <1>3, UpPlanFields
<1>5. IsUpPlan(b, r, at, read)
  BY <1>0, <1>2, <1>4 DEF scope, IsUpPlan
<1> QED  BY <1>0, <1>5
-----------------------------------------------------------------------------
(* What a plan makes in a typed state, and what saving it does. *)

LEMMA WantedInBoxes ==
    ASSUME NEW at, IsPins(at), NEW p \in Projects
    PROVE  WantedBox(p, at) \in Boxes
BY TomlsOfProjects DEF IsPins, WantedBox

LEMMA UpIsBody ==
    ASSUME NEW r, NEW at, NEW read, Asks(r), r.of # {}, IsPins(at)
    PROVE  IsBody(UpBody(r, at, read))
<1>0. PICK b, of, f : /\ b = UpBody(r, at, read)
                      /\ of = r.of \intersect Members
                      /\ f = FactsOf(r, at, read)
  OBVIOUS
<1>9. IsUpPlan(b, r, at, read)  BY <1>0, UpFields
<1>1. b.kind = "up" /\ b.of = of /\ b.at = at /\ b.moves = MovesOf(of, at, r.data, f.want)
  BY <1>0, <1>9 DEF IsUpPlan
<1>2. of # {} /\ of \subseteq Projects
  BY <1>0 DEF Asks, Answers
<1>3. DOMAIN b.moves = Moving(of, at) /\ \A p \in DOMAIN b.moves : b.moves[p].to = WantedBox(p, at)
  BY <1>1 DEF MovesOf, MoveRecord
<1>4. Moving(of, at) \subseteq of  BY DEF Moving
<1>5. \A p \in DOMAIN b.moves : b.moves[p].to \in Boxes
  BY <1>2, <1>3, <1>4, WantedInBoxes
<1> QED  BY <1>0, <1>1, <1>2, <1>3, <1>4, <1>5 DEF IsBody

LEMMA PlannedIsBody ==
    ASSUME NEW body, Planned(body)
    PROVE  IsBody(body)
<1>1. CASE \E r, at, read : Asks(r) /\ r.of # {} /\ IsPins(at) /\ body = UpBody(r, at, read)
  BY <1>1, UpIsBody
<1>2. CASE \E r, read : body = RoutesBody(r, read)
  <2>1. body.kind = "routes" /\ body.of = {}  BY <1>2, RoutesFields
  <2> QED  BY <2>1 DEF IsBody
<1>3. CASE \E p, read, remote : p \in Members /\ body = RemoveBody(p, read, remote)
  <2>1. PICK p, read, remote : p \in Members /\ body = RemoveBody(p, read, remote)  BY <1>3
  <2>2. body.kind = "remove" /\ body.of = {p}  BY <2>1, RemoveFields
  <2>3. p \in Projects  BY <2>1 DEF Members
  <2> QED  BY <2>2, <2>3 DEF IsBody
<1> QED  BY <1>1, <1>2, <1>3 DEF Planned

\* A request that is planned again keeps what it asks for.
LEMMA AgainFields ==
    ASSUME NEW r \in Ups, NEW s
    PROVE  Again(r, s).of = s.of
BY RequestsOfProjects DEF Again

LEMMA PlanIsPlanned ==
    ASSUME NEW r \in Ups, Answers(r), InputsOK, NEW read
    PROVE  Planned(PlanBody(r, tip, read))
BY RequestsOfProjects DEF Planned, PlanBody, Asks, InputsOK

LEMMA RecheckedIsPlanned ==
    ASSUME Typed, NEW r \in Ups, NEW i \in DOMAIN bodies, MayCheck(r, i)
    PROVE  Planned(Rechecked(r, bodies[i]))
<1> DEFINE s == bodies[i]
<1>1. IsBody(s) /\ s.of \subseteq Members
  BY DEF Typed, BodiesOK, MayCheck
<1>2. CASE s.kind = "remove"
  <2>1. PICK p \in Projects : s.of = {p}  BY <1>1, <1>2 DEF IsBody
  <2>2. (CHOOSE q \in s.of : TRUE) = p  BY <2>1
  <2>3. Rechecked(r, s) = RemoveBody(p, s.running[1], s.checked)
    BY <1>2, <2>2 DEF Rechecked, AgainRemove
  <2>4. p \in Members  BY <1>1, <2>1
  <2> QED  BY <2>3, <2>4 DEF Planned
<1>3. CASE s.kind # "remove"
  <2> DEFINE a == Again(r, s)
  <2>1. a.of = s.of  BY AgainFields
  <2>2. Rechecked(r, s) = PlanBody(a, s.at, TRUE)  BY <1>3 DEF Rechecked
  <2> HIDE DEF a
  <2>3. CASE s.of = {}
    BY <2>1, <2>2, <2>3 DEF PlanBody, Planned
  <2>4. CASE s.of # {}
    <3>1. s.kind = "up" /\ IsPins(s.at)  BY <1>1, <1>3, <2>4 DEF IsBody
    <3>2. Asks(a)  BY <1>1, <2>1, <2>4 DEF Asks, Answers, Members
    <3> QED  BY <2>1, <2>2, <2>4, <3>1, <3>2 DEF PlanBody, Planned
  <2> QED  BY <2>3, <2>4
<1> QED  BY <1>2, <1>3

LEMMA SaveFacts ==
    ASSUME bodies \in Seq(Values(bodies)), NEW body, NEW v, Save(body, v)
    PROVE  /\ bodies' \in Seq(Values(bodies'))
           /\ IdOf(body) \in DOMAIN bodies' /\ bodies'[IdOf(body)] = body
           /\ \A i \in DOMAIN bodies : i \in DOMAIN bodies' /\ bodies'[i] = bodies[i]
           /\ \A i \in DOMAIN bodies' : bodies'[i] = body \/ (i \in DOMAIN bodies /\ bodies'[i] = bodies[i])
           /\ DOMAIN files' = DOMAIN files \union {IdOf(body)}
           /\ DOMAIN verdict' = DOMAIN verdict \union {IdOf(body)}
           /\ verdict'[IdOf(body)] = v
           /\ \A i \in DOMAIN verdict : i # IdOf(body) => verdict'[i] = verdict[i]
<1> DEFINE i == IdOf(body)
<1>0. /\ Len(bodies) \in Nat /\ DOMAIN bodies = 1..Len(bodies)
      /\ \A k \in DOMAIN bodies : bodies[k] \in Values(bodies)
  BY DEF Values
<1> HIDE DEF i
<1>9. bodies' = IF i > Len(bodies) THEN Append(bodies, body) ELSE bodies
  BY DEF Save, i
<1>1. /\ files' = Put(Only(DOMAIN files \ {i}), i, Cardinality(DOMAIN files \union {i}))
      /\ verdict' = Put(verdict, i, v)
  BY DEF Save, i
<1>2. /\ bodies' \in Seq(Values(bodies'))
      /\ i \in DOMAIN bodies' /\ bodies'[i] = body
      /\ \A k \in DOMAIN bodies : k \in DOMAIN bodies' /\ bodies'[k] = bodies[k]
      /\ \A k \in DOMAIN bodies' : bodies'[k] = body \/ (k \in DOMAIN bodies /\ bodies'[k] = bodies[k])
  <2>1. CASE \E k \in DOMAIN bodies : bodies[k] = body
    <3>1. i \in DOMAIN bodies /\ bodies[i] = body
      BY <2>1 DEF IdOf, i
    <3>2. ~(i > Len(bodies))  BY <1>0, <3>1
    <3>3. bodies' = bodies  BY <1>9, <3>2
    <3> QED  BY <3>1, <3>3
  <2>2. CASE ~\E k \in DOMAIN bodies : bodies[k] = body
    <3>1. i = Len(bodies) + 1  BY <2>2 DEF IdOf, i
    <3>9. i > Len(bodies)  BY <1>0, <3>1
    <3>2. bodies' = Append(bodies, body)  BY <1>9, <3>9
    <3> DEFINE S == Values(bodies) \union {body}
    <3>3. bodies \in Seq(S)  BY <1>0, SeqMonotonic DEF Values
    <3>4. /\ bodies' \in Seq(S) /\ Len(bodies') = Len(bodies) + 1
          /\ bodies'[Len(bodies) + 1] = body
          /\ \A k \in 1..Len(bodies) : bodies'[k] = bodies[k]
      BY <3>2, <3>3, AppendProperties
    <3>5. DOMAIN bodies' = 1..(Len(bodies) + 1)  BY <3>4
    <3>6. S \subseteq Values(bodies')
      <4> SUFFICES ASSUME NEW x \in S PROVE \E k \in DOMAIN bodies' : x = bodies'[k]
        BY DEF Values
      <4>1. CASE x = body  BY <1>0, <3>4, <3>5, <4>1
      <4>2. CASE x \in Values(bodies)
        <5>1. PICK k \in 1..Len(bodies) : x = bodies[k]  BY <1>0, <4>2 DEF Values
        <5> QED  BY <1>0, <3>4, <3>5, <5>1
      <4> QED  BY <4>1, <4>2
    <3>7. bodies' \in Seq(Values(bodies'))  BY <3>4, <3>6, SeqMonotonic
    <3> QED  BY <1>0, <3>1, <3>4, <3>5, <3>7
  <2> QED  BY <2>1, <2>2
<1>3. DOMAIN files' = DOMAIN files \union {i}
  BY <1>1 DEF Put, Only
<1>4. /\ DOMAIN verdict' = DOMAIN verdict \union {i} /\ verdict'[i] = v
      /\ \A k \in DOMAIN verdict : k # i => verdict'[k] = verdict[k]
  BY <1>1 DEF Put
<1> QED  BY <1>2, <1>3, <1>4 DEF i

\* What the gate lets through is not blocked.
Verdicts == {"blocked", "stale", "approve", "auto"}
LEMMA GateFacts ==
    ASSUME NEW r, NEW body, NEW stale, NEW read, Gate(r, body, stale, read)
    PROVE  /\ \E v \in Verdicts : Save(body, v)
           /\ up' = Idle \/ ( /\ ~body.blocked /\ ~stale
                              /\ DOMAIN up' = RunKeys /\ up'.pc = "write" /\ up'.id = IdOf(body)
                              /\ up'.doc = doc.work /\ up'.read = read
                              /\ up'.prior = IF Listed(IdOf(body)) THEN verdict[IdOf(body)] ELSE "none" )
<1>1. PICK v : v = Verdict(body, stale, r.dirty)  OBVIOUS
<1>2. PICK blocked : blocked = (body.blocked \/ (Dirty /\ ~r.dirty))  OBVIOUS
<1>3. v \in Verdicts /\ (v \in {"auto", "approve"} => ~blocked /\ ~stale)
  BY <1>1, <1>2 DEF Verdict, Decide, Verdicts
<1>4. PICK prior : prior = IF Listed(IdOf(body)) THEN verdict[IdOf(body)] ELSE "none"  OBVIOUS
<1>5. PICK pass : pass = (v = "auto" \/ (v = "approve" /\ r.force))  OBVIOUS
<1>6. /\ Save(body, v)
      /\ up' = IF ~pass THEN Idle
               ELSE [pc |-> "write", id |-> IdOf(body), prior |-> prior, doc |-> doc.work, read |-> read,
                     commit |-> 0, envs |-> <<>>, left |-> {}, unread |-> {}, failed |-> FALSE, built |-> {}]
  BY <1>1, <1>4, <1>5 DEF Gate
<1>7. CASE ~pass  BY <1>3, <1>6, <1>7
<1>8. CASE pass
  <2>1. ~body.blocked /\ ~stale  BY <1>2, <1>3, <1>5, <1>8
  <2>2. /\ DOMAIN up' = RunKeys /\ up'.pc = "write" /\ up'.id = IdOf(body)
        /\ up'.doc = doc.work /\ up'.read = read /\ up'.prior = prior
    BY <1>6, <1>8 DEF RunKeys
  <2> QED  BY <1>3, <1>4, <1>6, <2>1, <2>2
<1> QED  BY <1>7, <1>8

Opens(body) ==
    /\ ~body.blocked /\ DOMAIN up' = RunKeys /\ up'.pc = "write" /\ up'.id = IdOf(body)
    /\ up'.doc = doc.work
    /\ up'.prior = IF Listed(IdOf(body)) THEN verdict[IdOf(body)] ELSE "none"
Plans(body) ==
    /\ Planned(body) /\ \E v \in Verdicts : Save(body, v)
    /\ UNCHANGED <<tip, fleetVars, boxVars, tracked, history>>
    /\ up' = up \/ (up.pc = "idle" /\ (up' = Idle \/ Opens(body)))

LEMMA VerdictIn ==
    ASSUME NEW body, NEW stale, NEW skip
    PROVE  Verdict(body, stale, skip) \in Verdicts
BY DEF Verdict, Decide, Verdicts

\* A plan, or the plan bay up makes again, is a plan of this state.
LEMMA PlanningStep ==
    ASSUME Typed, MakePlan \/ Start
    PROVE  \E body : Plans(body)
<1>0. InputsOK /\ DOMAIN files \subseteq DOMAIN bodies  BY DEF Typed, BodiesOK
<1>1. CASE MakePlan
  <2>1. UNCHANGED <<tip, fleetVars, boxVars, approved, tracked, up, history>>
    BY <1>1 DEF MakePlan
  <2>2. CASE \E r \in {r \in Ups : Answers(r)} : SaveNew(PlanBody(r, tip, TRUE))
    <3>1. PICK r \in Ups : Answers(r) /\ SaveNew(PlanBody(r, tip, TRUE))  BY <2>2
    <3>2. Planned(PlanBody(r, tip, TRUE))  BY <1>0, <3>1, PlanIsPlanned
    <3> QED  BY <2>1, <3>1, <3>2, VerdictIn DEF Plans, SaveNew
  <2>3. CASE \E x \in {x \in Removals : x.of \in Members} : SaveNew(RemoveBody(x.of, TRUE, x.remote))
    <3>1. PICK x : x.of \in Members /\ SaveNew(RemoveBody(x.of, TRUE, x.remote))  BY <2>3
    <3>2. Planned(RemoveBody(x.of, TRUE, x.remote))  BY <3>1 DEF Planned
    <3> QED  BY <2>1, <3>1, <3>2, VerdictIn DEF Plans, SaveNew
  <2>4. CASE \E r \in Ups : \E i \in {i \in DOMAIN files : MayCheck(r, i)} :
               SaveAgain(i, Rechecked(r, bodies[i]))
    <3>1. PICK r \in Ups, i \in DOMAIN files : MayCheck(r, i) /\ SaveAgain(i, Rechecked(r, bodies[i]))
      BY <2>4
    <3>2. Planned(Rechecked(r, bodies[i]))  BY <1>0, <3>1, RecheckedIsPlanned
    <3> QED  BY <2>1, <3>1, <3>2, VerdictIn DEF Plans, SaveAgain
  <2> QED  BY <1>1, <2>2, <2>3, <2>4 DEF MakePlan
<1>2. ASSUME NEW r \in Ups, StartUp(r) PROVE \E body : Plans(body)
  <2>1. PICK read : Gate(r, PlanBody(r, tip, read), FALSE, read)  BY <1>2 DEF StartUp
  <2>2. Planned(PlanBody(r, tip, read))  BY <1>0, <1>2, PlanIsPlanned DEF StartUp
  <2>3. up.pc = "idle" /\ UNCHANGED <<tip, fleetVars, boxVars, approved, tracked, history>>
    BY <1>2 DEF StartUp
  <2> QED  BY <2>1, <2>2, <2>3, GateFacts DEF Plans, Opens
<1>3. ASSUME NEW r \in Ups, NEW i \in DOMAIN files, StartSaved(r, i) PROVE \E body : Plans(body)
  <2>1. Gate(r, Rechecked(r, bodies[i]), Stale(bodies[i], Rechecked(r, bodies[i])), TRUE)
    BY <1>3 DEF StartSaved, GateSaved
  <2>2. Planned(Rechecked(r, bodies[i]))  BY <1>0, <1>3, RecheckedIsPlanned DEF StartSaved
  <2>3. up.pc = "idle" /\ UNCHANGED <<tip, fleetVars, boxVars, approved, tracked, history>>
    BY <1>3 DEF StartSaved
  <2> QED  BY <2>1, <2>2, <2>3, GateFacts DEF Plans, Opens
<1> QED  BY <1>1, <1>2, <1>3 DEF Start

-----------------------------------------------------------------------------
(* The shape of the state is invariant. *)

LEMMA PlannedOf ==
    ASSUME NEW body, Planned(body)
    PROVE  body.of \subseteq Members
<1>1. CASE \E r, at, read : Asks(r) /\ r.of # {} /\ IsPins(at) /\ body = UpBody(r, at, read)
  <2>1. PICK r, at, read : body = UpBody(r, at, read)  BY <1>1
  <2>2. IsUpPlan(body, r, at, read)  BY <2>1, UpFields
  <2> QED  BY <2>2 DEF IsUpPlan
<1>2. CASE \E r, read : body = RoutesBody(r, read)
  BY <1>2, RoutesFields
<1>3. CASE \E p, read, remote : p \in Members /\ body = RemoveBody(p, read, remote)
  <2>1. PICK p, read, remote : p \in Members /\ body = RemoveBody(p, read, remote)  BY <1>3
  <2>2. body.of = {p}  BY <2>1, RemoveFields
  <2> QED  BY <2>1, <2>2
<1> QED  BY <1>1, <1>2, <1>3 DEF Planned

LEMMA TypedInit == Init => Typed
<1> SUFFICES ASSUME Init PROVE Typed  OBVIOUS
<1>1. LocksOK
  <2>1. PICK box0 : box0 = [p \in Projects |-> Toml[p][0].box]  OBVIOUS
  <2>2. rec = [p \in Projects |->
          [pin |-> 0, box |-> box0[p], result |-> "ok", plan |-> 0, prev |-> Absent,
           seen |-> Running(EnvBoxes(BoxEnv[box0[p]]), DOMAIN Toml[p][0].entries)]]
    BY <2>1 DEF Init
  <2>3. \A p \in Projects : /\ DOMAIN rec[p] = LockKeys /\ rec[p].pin = 0
                           /\ rec[p].box = box0[p] /\ rec[p].prev = Absent
    BY <2>2 DEF LockKeys
  <2>4. \A p \in Projects : IsLock(p, rec[p])
    BY <2>1, <2>3, TomlsOfProjects DEF IsLock
  <2> QED  BY <2>2, <2>4 DEF LocksOK, Members
<1>2. InputsOK
  <2>1. tip = [p \in Projects |-> 0] /\ doc = [head |-> 1, work |-> 1]  BY DEF Init
  <2> QED  BY <2>1, TomlsOfProjects, DocsOfFleet DEF InputsOK, IsPins
<1>3. BodiesOK
  <2>1. bodies = <<>> /\ files = <<>>  BY DEF Init
  <2>2. Values(bodies) = {}  BY <2>1 DEF Values
  <2> QED  BY <2>1, <2>2, EmptySeq DEF BodiesOK
<1>4. RunOK  BY DEF Init, RunOK, Run, Idle
<1> QED  BY <1>1, <1>2, <1>3, <1>4 DEF Typed

\* The lock records a run writes are of the same projects, and they are locks.
LEMMA WritesLocks ==
    ASSUME Typed, up.pc = "write", NEW d
    PROVE  LET locks == Writes(d)[1] IN
           /\ DOMAIN locks = Projects
           /\ \A p \in Projects : (locks[p] = Absent) <=> (rec[p] = Absent)
           /\ \A p \in Members : IsLock(p, locks[p])
<1> DEFINE locks == Writes(d)[1]
<1>0. /\ IsBody(Body) /\ Body.of \subseteq Members /\ DOMAIN rec = Projects
      /\ \A p \in Members : IsLock(p, rec[p]) /\ p \in Projects
  BY DEF Typed, RunOK, Run, BodiesOK, Body, LocksOK, Members
<1>1. CASE Body.kind = "up"
  <2>1. locks = [p \in Projects |-> IF p \in Body.of THEN Pending(p, Body) ELSE rec[p]]
    BY <1>1 DEF Writes, UpWrites
  <2>2. ASSUME NEW p \in Body.of PROVE IsLock(p, Pending(p, Body)) /\ Pending(p, Body) # Absent
    <3>1. PICK prev : prev = LET at == Body.at[p]
                                 same == rec[p].pin = at IN
             CASE ~same /\ Confirmed(p) -> [pin |-> rec[p].pin, plan |-> rec[p].plan]
               [] ~same /\ ~Confirmed(p) /\ rec[p].prev # Absent /\ rec[p].prev.pin = at -> Absent
               [] OTHER -> rec[p].prev
      OBVIOUS
    <3>2. prev # Absent => DOMAIN prev = {"pin", "plan"}
      BY <1>0, <3>1 DEF IsLock
    <3>3. PICK box : box = IF p \in DOMAIN Body.moves THEN Body.moves[p].to ELSE rec[p].box  OBVIOUS
    <3>4. box \in Boxes
      BY <1>0, <1>1, <3>3 DEF IsBody, IsLock
    <3>5. Pending(p, Body) = [pin |-> Body.at[p], box |-> box, result |-> "pending", plan |-> up.id,
                              seen |-> rec[p].seen, prev |-> prev]
      BY <3>1, <3>3 DEF Pending
    <3>6. Body.at[p] \in DOMAIN Toml[p]
      BY <1>0, <1>1 DEF IsBody, IsPins
    <3>7. DOMAIN Pending(p, Body) = LockKeys  BY <3>5 DEF LockKeys
    <3>8. Pending(p, Body) # Absent  BY <3>7 DEF Absent, LockKeys
    <3> QED  BY <3>2, <3>4, <3>5, <3>6, <3>7, <3>8 DEF IsLock
  <2>3. \A p \in Body.of : rec[p] # Absent /\ p \in Projects  BY <1>0 DEF Members
  <2> HIDE DEF locks
  <2>4. DOMAIN locks = Projects  BY ONLY <2>1
  <2>5. \A p \in Body.of : locks[p] # Absent /\ IsLock(p, locks[p])
    BY ONLY <2>1, <2>2, <2>3
  <2>6. \A p \in Projects : p \notin Body.of => locks[p] = rec[p]
    BY ONLY <2>1
  <2>7. \A p \in Projects : (locks[p] = Absent) <=> (rec[p] = Absent)
    BY ONLY <2>3, <2>5, <2>6
  <2>8. \A p \in Members : IsLock(p, locks[p])
    BY ONLY <1>0, <2>5, <2>6
  <2> QED  BY <2>4, <2>7, <2>8 DEF locks
<1>2. CASE Body.kind = "remove"
  <2>1. locks = [p \in Projects |-> IF p \in Body.of THEN [rec[p] EXCEPT !.result = "pending", !.plan = up.id]
                                    ELSE rec[p]]
    BY <1>2 DEF Writes, RemoveWrites
  <2>2. ASSUME NEW p \in Body.of
        PROVE  LET l == [rec[p] EXCEPT !.result = "pending", !.plan = up.id] IN IsLock(p, l) /\ l # Absent
    BY <1>0 DEF IsLock, LockKeys, Absent
  <2>3. \A p \in Body.of : rec[p] # Absent /\ p \in Projects  BY <1>0 DEF Members
  <2> HIDE DEF locks
  <2>4. DOMAIN locks = Projects  BY ONLY <2>1
  <2>5. \A p \in Body.of : locks[p] # Absent /\ IsLock(p, locks[p])
    BY ONLY <2>1, <2>2, <2>3
  <2>6. \A p \in Projects : p \notin Body.of => locks[p] = rec[p]
    BY ONLY <2>1
  <2>7. \A p \in Projects : (locks[p] = Absent) <=> (rec[p] = Absent)
    BY ONLY <2>3, <2>5, <2>6
  <2>8. \A p \in Members : IsLock(p, locks[p])
    BY ONLY <1>0, <2>5, <2>6
  <2> QED  BY <2>4, <2>7, <2>8 DEF locks
<1>3. CASE Body.kind = "routes"
  <2>1. locks = rec  BY <1>3 DEF Writes, RouteWrites
  <2> QED  BY <1>0, <2>1
<1> QED  BY <1>0, <1>1, <1>2, <1>3 DEF IsBody

\* What the last write of a run may change in a lock record.
SameLock(p, new) ==
    /\ IsLock(p, new) /\ new # Absent /\ new.pin = rec[p].pin /\ new.box = rec[p].box
    /\ new.prev = rec[p].prev /\ new.plan \in {rec[p].plan, up.id}
LEMMA SameResult ==
    ASSUME NEW p, IsLock(p, rec[p]), NEW r, NEW s, NEW i \in {rec[p].plan, up.id}
    PROVE  SameLock(p, [rec[p] EXCEPT !.result = r, !.plan = i, !.seen = s])
<1> DEFINE l == [rec[p] EXCEPT !.result = r, !.plan = i, !.seen = s]
<1>1. /\ DOMAIN l = LockKeys /\ l.pin = rec[p].pin /\ l.box = rec[p].box /\ l.prev = rec[p].prev
      /\ l.plan = i
  BY DEF IsLock, LockKeys
<1> HIDE DEF l
<1>2. l # Absent  BY <1>1 DEF LockKeys, Absent
<1> QED  BY <1>1, <1>2 DEF IsLock, SameLock, l

LEMMA RecordLocks ==
    ASSUME Typed, Record
    PROVE  /\ DOMAIN rec' = Projects
           /\ \A p \in Projects : rec[p] = Absent => rec'[p] = Absent
           /\ \A p \in Members : \/ SameLock(p, rec'[p])
                                 \/ /\ rec'[p] = Absent /\ Body.kind = "remove"
                                    /\ p \in Body.of /\ Gone(p)
<1>0. /\ IsBody(Body) /\ \A p \in Members : IsLock(p, rec[p])
  BY DEF Typed, RunOK, Run, BodiesOK, Body, LocksOK, Record
<1>1. rec' = [p \in Projects |->
                 CASE rec[p] = Absent \/ Body.kind = "routes" -> rec[p]
                   [] rec[p] # Absent /\ Body.kind = "up" -> RecordedUp(p)
                   [] OTHER -> RecordedRemove(p)]
  BY DEF Record
<1>2. ASSUME NEW p \in Members PROVE SameLock(p, rec[p])
  <2>1. IsLock(p, rec[p]) /\ rec[p] # Absent  BY <1>0 DEF Members
  <2> QED  BY <2>1 DEF SameLock
<1>3. ASSUME NEW p \in Members PROVE SameLock(p, RecordedUp(p))
  <2>0. PICK r : r = Result(rec[p].box)  OBVIOUS
  <2>1. CASE p \in Body.of
    <3>1. PICK s, x : s = Digest(p) /\ x = IF ~up.failed /\ r = "ok" THEN "ok" ELSE "failed"  OBVIOUS
    <3>2. RecordedUp(p) = [rec[p] EXCEPT !.result = x, !.seen = s]
      BY <2>0, <2>1, <3>1 DEF RecordedUp
    <3>3. SameLock(p, [rec[p] EXCEPT !.result = x, !.seen = s])
      <4> DEFINE l == [rec[p] EXCEPT !.result = x, !.seen = s]
      <4>1. /\ DOMAIN l = LockKeys /\ l.pin = rec[p].pin /\ l.box = rec[p].box /\ l.prev = rec[p].prev
            /\ l.plan = rec[p].plan
        BY <1>0 DEF IsLock, LockKeys
      <4> HIDE DEF l
      <4>2. l # Absent  BY <4>1 DEF LockKeys, Absent
      <4> QED  BY <1>0, <4>1, <4>2 DEF IsLock, SameLock, l
    <3> QED  BY <3>2, <3>3
  <2>2. CASE p \notin Body.of
    <3>1. PICK s : s = Digest(p)  OBVIOUS
    <3>2. \/ RecordedUp(p) = rec[p]
          \/ RecordedUp(p) = [rec[p] EXCEPT !.result = r, !.plan = up.id, !.seen = s]
      BY <2>0, <2>2, <3>1 DEF RecordedUp
    <3>3. SameLock(p, [rec[p] EXCEPT !.result = r, !.plan = up.id, !.seen = s])
      BY <1>0, SameResult
    <3> QED  BY <1>2, <3>2, <3>3
  <2> QED  BY <2>1, <2>2
<1>4. ASSUME NEW p \in Members, Body.kind = "remove"
      PROVE \/ SameLock(p, RecordedRemove(p))
            \/ RecordedRemove(p) = Absent /\ p \in Body.of /\ Gone(p)
  <2>1. CASE p \notin Body.of  BY <1>2, <2>1 DEF RecordedRemove
  <2>2. CASE p \in Body.of /\ Gone(p)  BY <2>2 DEF RecordedRemove
  <2>3. CASE p \in Body.of /\ ~Gone(p)
    <3>1. RecordedRemove(p) = [rec[p] EXCEPT !.result = "failed"]  BY <2>3 DEF RecordedRemove
    <3> DEFINE l == [rec[p] EXCEPT !.result = "failed"]
    <3>2. /\ DOMAIN l = LockKeys /\ l.pin = rec[p].pin /\ l.box = rec[p].box /\ l.prev = rec[p].prev
          /\ l.plan = rec[p].plan
      BY <1>0 DEF IsLock, LockKeys
    <3> HIDE DEF l
    <3>3. l # Absent  BY <3>2 DEF LockKeys, Absent
    <3>4. SameLock(p, l)  BY <1>0, <3>2, <3>3 DEF IsLock, SameLock
    <3> QED  BY <3>1, <3>4 DEF l
  <2> QED  BY <2>1, <2>2, <2>3
<1>5. ASSUME NEW p \in Members
      PROVE \/ SameLock(p, rec'[p])
            \/ rec'[p] = Absent /\ Body.kind = "remove" /\ p \in Body.of /\ Gone(p)
  <2>0. p \in Projects /\ rec[p] # Absent  BY DEF Members
  <2>1. CASE Body.kind = "up"
    <3>1. rec'[p] = RecordedUp(p)  BY <1>1, <2>0, <2>1
    <3> QED  BY <1>3, <3>1
  <2>2. CASE Body.kind = "remove"
    <3>1. rec'[p] = RecordedRemove(p)  BY <1>1, <2>0, <2>2
    <3> QED  BY <1>4, <2>2, <3>1
  <2>3. CASE Body.kind = "routes"
    <3>1. rec'[p] = rec[p]  BY <1>1, <2>0, <2>3
    <3> QED  BY <1>2, <3>1
  <2> QED  BY <1>0, <2>1, <2>2, <2>3 DEF IsBody
<1>6. DOMAIN rec' = Projects /\ \A p \in Projects : rec[p] = Absent => rec'[p] = Absent
  BY <1>1
<1> QED  BY <1>5, <1>6

\* Only Write and Record change a lock record, and only the planning steps the bodies.
LEMMA LocksFrame ==
    ASSUME Typed, [Next]_vars, ~Write, ~Record
    PROVE  rec' = rec
<1>1. CASE MakePlan \/ Start
  BY <1>1, PlanningStep DEF Plans, fleetVars
<1>2. CASE \E p \in Projects : PushApp(p) \/ HookBuild(p)
  BY <1>2 DEF PushApp, HookBuild, fleetVars
<1>3. CASE EditDoc \/ CommitDoc \/ \E i \in DOMAIN files : Approve(i)
  BY <1>3 DEF EditDoc, CommitDoc, Approve, fleetVars
<1>4. CASE Undo \/ NextEnv \/ Kill
  BY <1>4 DEF Undo, NextEnv, Kill, fleetVars
<1>5. CASE Play
  BY <1>5 DEF Play, PlayOk, PlayFails, fleetVars
<1>6. CASE UNCHANGED vars
  BY <1>6 DEF vars, fleetVars
<1> QED  BY <1>1, <1>2, <1>3, <1>4, <1>5, <1>6 DEF Next

LEMMA BodiesFrame ==
    ASSUME [Next]_vars, ~MakePlan, ~Start
    PROVE  bodies' = bodies /\ DOMAIN files' \subseteq DOMAIN files
<1>1. CASE Record
  BY <1>1 DEF Record, Only
<1>2. CASE \E p \in Projects : PushApp(p) \/ HookBuild(p)
  BY <1>2 DEF PushApp, HookBuild, planVars
<1>3. CASE EditDoc \/ CommitDoc \/ \E i \in DOMAIN files : Approve(i)
  BY <1>3 DEF EditDoc, CommitDoc, Approve, planVars
<1>4. CASE NextEnv \/ Kill \/ Write
  BY <1>4 DEF NextEnv, Kill, planVars, Write
<1>5. CASE Undo
  <2>1. files' = IF up.prior = "none" THEN Only(DOMAIN files \ {up.id}) ELSE files
    BY <1>5 DEF Undo
  <2> QED  BY <1>5, <2>1 DEF Undo, Only
<1>6. CASE Play
  BY <1>6 DEF Play, PlayOk, PlayFails, planVars
<1>7. CASE UNCHANGED vars
  BY <1>7 DEF vars, planVars
<1> QED  BY <1>1, <1>2, <1>3, <1>4, <1>5, <1>6, <1>7 DEF Next

LEMMA LocksStep ==
    ASSUME Typed, [Next]_vars
    PROVE  LocksOK'
<1>0. LocksOK  BY DEF Typed
<1>1. CASE ~Write /\ ~Record
  BY <1>0, <1>1, LocksFrame DEF LocksOK, Members
<1>2. CASE Write
  <2>1. rec' = Writes(doc.work)[1] /\ up.pc = "write"  BY <1>2 DEF Write
  <2>2. /\ DOMAIN rec' = Projects
        /\ \A p \in Projects : (rec'[p] = Absent) <=> (rec[p] = Absent)
        /\ \A p \in Members : IsLock(p, rec'[p])
    BY <2>1, WritesLocks
  <2> QED  BY <2>2 DEF LocksOK, Members
<1>3. CASE Record
  BY <1>3, RecordLocks DEF LocksOK, Members, SameLock
<1> QED  BY <1>1, <1>2, <1>3

LEMMA InputsStep ==
    ASSUME Typed, [Next]_vars
    PROVE  InputsOK'
<1>0. InputsOK  BY DEF Typed
<1>1. CASE MakePlan \/ Start
  BY <1>0, <1>1, PlanningStep DEF Plans, fleetVars, InputsOK, IsPins
<1>2. ASSUME NEW p \in Projects, PushApp(p) PROVE InputsOK'
  <2>1. PICK a \in DOMAIN Toml[p] : tip' = [tip EXCEPT ![p] = a]  BY <1>2 DEF PushApp
  <2>2. doc' = doc  BY <1>2 DEF PushApp, fleetVars
  <2> QED  BY <1>0, <2>1, <2>2 DEF InputsOK, IsPins
<1>3. ASSUME NEW p \in Projects, HookBuild(p) PROVE InputsOK'
  BY <1>0, <1>3 DEF HookBuild, fleetVars, InputsOK, IsPins
<1>4. CASE EditDoc
  <2>1. PICK d \in DOMAIN Docs : doc' = [doc EXCEPT !.work = d]  BY <1>4 DEF EditDoc
  <2> QED  BY <1>0, <1>4, <2>1 DEF EditDoc, InputsOK, IsPins
<1>5. CASE CommitDoc
  BY <1>0, <1>5 DEF CommitDoc, InputsOK, IsPins
<1>6. CASE (\E i \in DOMAIN files : Approve(i)) \/ Write \/ Record
  BY <1>0, <1>6 DEF Approve, Write, Record, fleetVars, InputsOK, IsPins
<1>7. CASE Undo \/ NextEnv \/ Kill
  BY <1>0, <1>7 DEF Undo, NextEnv, Kill, fleetVars, InputsOK, IsPins
<1>8. CASE Play
  BY <1>0, <1>8 DEF Play, PlayOk, PlayFails, fleetVars, InputsOK, IsPins
<1>9. CASE UNCHANGED vars
  BY <1>0, <1>9 DEF vars, fleetVars, InputsOK, IsPins
<1> QED  BY <1>1, <1>2, <1>3, <1>4, <1>5, <1>6, <1>7, <1>8, <1>9 DEF Next

LEMMA BodiesStep ==
    ASSUME Typed, [Next]_vars
    PROVE  BodiesOK'
<1>0. BodiesOK  BY DEF Typed
<1>1. CASE MakePlan \/ Start
  <2>1. PICK body : Plans(body)  BY <1>1, PlanningStep
  <2>2. PICK v : Save(body, v)  BY <2>1 DEF Plans
  <2>3. IsBody(body)  BY <2>1, PlannedIsBody DEF Plans
  <2>4. bodies \in Seq(Values(bodies))  BY <1>0 DEF BodiesOK
  <2>5. /\ bodies' \in Seq(Values(bodies'))
        /\ \A i \in DOMAIN bodies' : bodies'[i] = body \/ (i \in DOMAIN bodies /\ bodies'[i] = bodies[i])
        /\ DOMAIN files' = DOMAIN files \union {IdOf(body)}
        /\ IdOf(body) \in DOMAIN bodies' /\ DOMAIN bodies \subseteq DOMAIN bodies'
    BY <2>2, <2>4, SaveFacts
  <2> QED  BY <1>0, <2>3, <2>5 DEF BodiesOK, Values
<1>2. CASE ~MakePlan /\ ~Start
  BY <1>0, <1>2, BodiesFrame DEF BodiesOK, Values
<1> QED  BY <1>1, <1>2

\* While a run goes on its plan does not change, and nobody joins or leaves before Record.
LEMMA BodyFrame ==
    ASSUME Typed, [Next]_vars, Run, Run', up'.id = up.id
    PROVE  Body' = Body
<1>1. up.id \in DOMAIN bodies /\ bodies \in Seq(Values(bodies))  BY DEF Typed, RunOK, BodiesOK
<1>2. CASE MakePlan \/ Start
  <2>1. PICK body, v : Save(body, v)  BY <1>2, PlanningStep DEF Plans
  <2>2. bodies'[up.id] = bodies[up.id]  BY <1>1, <2>1, SaveFacts
  <2> QED  BY <2>2 DEF Body
<1>3. CASE ~MakePlan /\ ~Start
  BY <1>3, BodiesFrame DEF Body
<1> QED  BY <1>2, <1>3

LEMMA MembersFrame ==
    ASSUME Typed, [Next]_vars, ~Record
    PROVE  Members' = Members
<1>1. CASE Write
  <2>1. rec' = Writes(doc.work)[1] /\ up.pc = "write"  BY <1>1 DEF Write
  <2>2. \A p \in Projects : (rec'[p] = Absent) <=> (rec[p] = Absent)
    BY <2>1, WritesLocks
  <2> QED  BY <2>2 DEF Members
<1>2. CASE ~Write
  BY <1>2, LocksFrame DEF Members
<1> QED  BY <1>1, <1>2

LEMMA RunStep ==
    ASSUME Typed, [Next]_vars
    PROVE  RunOK'
<1>0. RunOK /\ BodiesOK /\ InputsOK  BY DEF Typed
<1>1. ASSUME up' = Idle PROVE RunOK'
  BY <1>1 DEF RunOK, Run, Idle
<1>2. ASSUME ~Record, Run, DOMAIN up' = RunKeys, up'.pc \in {"write", "play", "record"},
             up'.id = up.id, up'.doc = up.doc
      PROVE RunOK'
  <2>1. Run'  BY <1>2 DEF Run
  <2>2. Body' = Body  BY <1>2, <2>1, BodyFrame
  <2>3. Members' = Members  BY <1>2, MembersFrame
  <2>4. up'.id \in DOMAIN bodies'
    <3>1. CASE MakePlan \/ Start
      <4>1. PICK body, v : Save(body, v)  BY <3>1, PlanningStep DEF Plans
      <4> QED  BY <1>0, <1>2, <4>1, SaveFacts DEF BodiesOK, RunOK
    <3>2. CASE ~MakePlan /\ ~Start
      BY <1>0, <1>2, <3>2, BodiesFrame DEF RunOK
    <3> QED  BY <3>1, <3>2
  <2> QED  BY <1>0, <1>2, <2>2, <2>3, <2>4 DEF RunOK, Run
<1>3. ASSUME ~Record, up' = up PROVE RunOK'
  <2>1. CASE ~Run
    BY <1>0, <1>3, <2>1 DEF RunOK, Run
  <2>2. CASE Run
    BY <1>0, <1>2, <1>3, <2>2 DEF RunOK, Run
  <2> QED  BY <2>1, <2>2
<1>4. CASE MakePlan \/ Start
  <2>1. PICK body : Plans(body)  BY <1>4, PlanningStep
  <2>2. CASE up' = up
    <3>1. CASE ~Record  BY <1>3, <2>2, <3>1
    <3>2. CASE Record  BY <1>1, <3>2 DEF Record
    <3> QED  BY <3>1, <3>2
  <2>3. CASE up' = Idle  BY <1>1, <2>3
  <2>4. CASE Opens(body)
    <3>1. PICK v : Save(body, v)  BY <2>1 DEF Plans
    <3>2. IdOf(body) \in DOMAIN bodies' /\ bodies'[IdOf(body)] = body
      BY <1>0, <3>1, SaveFacts DEF BodiesOK
    <3>3. Body' = body  BY <2>4, <3>2 DEF Opens, Body
    <3>4. rec' = rec  BY <2>1 DEF Plans, fleetVars
    <3>5. body.of \subseteq Members'  BY <2>1, <3>4, PlannedOf DEF Plans, Members
    <3> QED  BY <1>0, <2>4, <3>2, <3>3, <3>5 DEF Opens, RunOK, Run, InputsOK
  <2> QED  BY <2>1, <2>2, <2>3, <2>4 DEF Plans
<1>5. CASE Record  BY <1>1, <1>5 DEF Record
<1> USE <1>0 DEF RunOK, Run
<1>6. ASSUME ~Record, NEW p \in Projects, HookBuild(p) PROVE RunOK'
  <2>1. up' = IF up.pc = "idle" THEN up ELSE [up EXCEPT !.built = @ \union {p}]
    BY <1>6 DEF HookBuild
  <2>2. CASE up.pc = "idle"  BY <1>3, <1>6, <2>1, <2>2
  <2>3. CASE up.pc # "idle"  BY <1>2, <1>6, <2>1, <2>3 DEF RunKeys
  <2> QED  BY <2>2, <2>3
<1>7. CASE ~Record /\ UNCHANGED up
  BY <1>3, <1>7
<1>8. CASE ~Record /\ Write
  <2>1. up.pc = "write" /\ up' = [up EXCEPT !.pc = "play", !.commit = head + 1, !.envs = EnvOrder(Body),
                                            !.left = Deployed(Body.scope, Body.env)]
    BY <1>8 DEF Write
  <2> QED  BY <1>2, <1>8, <2>1 DEF RunKeys
<1>9. CASE Undo \/ Kill
  BY <1>1, <1>9 DEF Undo, Kill
<1>10. ASSUME ~Record, Play PROVE RunOK'
  <2>1. PICK b : PlayOk(b) \/ PlayFails(b)  BY <1>10 DEF Play
  <2>2. /\ up.pc = "play"
        /\ \/ up' = [up EXCEPT !.left = @ \ {b}]
           \/ up' = [up EXCEPT !.left = @ \ {b}, !.failed = TRUE]
    BY <2>1 DEF PlayOk, PlayFails, PlayDone
  <2> QED  BY <1>2, <1>10, <2>2 DEF RunKeys
<1>11. ASSUME ~Record, NextEnv PROVE RunOK'
  <2>1. up.pc = "play"  BY <1>11 DEF NextEnv
  <2>2. PICK rest : rest = SubSeq(up.envs, 2, Len(up.envs))  OBVIOUS
  <2>3. \/ \E unread : up' = [up EXCEPT !.pc = "record", !.unread = unread]
        \/ up' = [up EXCEPT !.envs = rest, !.left = Deployed(Body.scope, rest[1])]
    BY <1>11, <2>2 DEF NextEnv
  <2> QED  BY <1>2, <1>11, <2>1, <2>3 DEF RunKeys
<1>12. CASE ~Record /\ ((\E p \in Projects : PushApp(p)) \/ EditDoc \/ CommitDoc
                        \/ \E i \in DOMAIN files : Approve(i))
  BY <1>7, <1>12 DEF PushApp, EditDoc, CommitDoc, Approve
<1>13. CASE ~Record /\ UNCHANGED vars
  BY <1>7, <1>13 DEF vars
<1> QED  BY <1>4, <1>5, <1>6, <1>8, <1>9, <1>10, <1>11, <1>12, <1>13 DEF Next

\* The shape of the lock records, plans and the run holds in every reachable
\* state: every lock is of a commit and a box that are known (lockfile.py).
THEOREM StateIsTyped == Spec => []Typed
<1>1. Typed /\ [Next]_vars => Typed'
  BY LocksStep, InputsStep, BodiesStep, RunStep DEF Typed
<1> QED  BY <1>1, TypedInit, PTL DEF Spec

-----------------------------------------------------------------------------
(* Every record a lock names is kept. *)

\* What a committed record needs: a verdict once it is saved; the run of a new
\* record has not committed it before the write, and the one that wrote it has.
Recorded ==
    /\ tracked \subseteq DOMAIN files
    /\ \A i \in DOMAIN files : i \in DOMAIN verdict /\ verdict[i] \in Verdicts
    /\ up.pc = "write" => /\ Listed(up.id) /\ up.prior \in Verdicts \union {"none"}
                          /\ up.prior = "none" => up.id \notin tracked
    /\ up.pc \in {"play", "record"} => up.id \in tracked
KeptInv == Typed /\ Recorded /\ PlanKept

NamesIn(l) == {l.plan} \union (IF l.prev = Absent THEN {} ELSE {l.prev.plan})
Holds(i) == i = 0 \/ (Listed(i) /\ i \in tracked)

LEMMA PlanKeptNames == PlanKept <=> \A p \in Members : \A i \in NamesIn(rec[p]) : Holds(i)
BY DEF PlanKept, NamesIn, Holds

LEMMA RecordedPlans ==
    ASSUME KeptInv, NEW body, Plans(body)
    PROVE  Recorded' /\ PlanKept'
<1> USE DEF Recorded
<1>0. Recorded /\ PlanKept /\ bodies \in Seq(Values(bodies)) /\ RunOK
  BY DEF KeptInv, Typed, BodiesOK
<1>1. PICK v \in Verdicts : Save(body, v)  BY DEF Plans
<1>2. /\ DOMAIN files' = DOMAIN files \union {IdOf(body)}
      /\ DOMAIN verdict' = DOMAIN verdict \union {IdOf(body)}
      /\ verdict'[IdOf(body)] = v
      /\ \A i \in DOMAIN verdict : i # IdOf(body) => verdict'[i] = verdict[i]
  BY <1>0, <1>1, SaveFacts
<1>3. tracked' = tracked /\ rec' = rec  BY DEF Plans, fleetVars
<1>4. PlanKept'
  BY <1>0, <1>2, <1>3 DEF PlanKept, Members, Listed
<1>5. tracked' \subseteq DOMAIN files' /\ \A i \in DOMAIN files' : i \in DOMAIN verdict' /\ verdict'[i] \in Verdicts
  BY <1>0, <1>2, <1>3
<1>6. CASE up' = up
  BY <1>0, <1>2, <1>3, <1>4, <1>5, <1>6 DEF Listed
<1>7. CASE up' = Idle
  BY <1>4, <1>5, <1>7 DEF Idle
<1>8. CASE Opens(body)
  <2>1. /\ up'.pc = "write" /\ up'.id = IdOf(body)
        /\ up'.prior = IF Listed(IdOf(body)) THEN verdict[IdOf(body)] ELSE "none"
    BY <1>8 DEF Opens
  <2>2. up'.prior \in Verdicts \union {"none"} /\ (up'.prior = "none" => ~Listed(IdOf(body)))
    BY <1>0, <2>1 DEF Listed, Verdicts
  <2>3. up'.prior = "none" => up'.id \notin tracked'
    BY <1>0, <1>3, <2>1, <2>2 DEF Listed
  <2> QED  BY <1>2, <1>4, <1>5, <2>1, <2>2, <2>3 DEF Listed
<1> QED  BY <1>6, <1>7, <1>8 DEF Plans

LEMMA RecordedWrite ==
    ASSUME KeptInv, Write
    PROVE  Recorded' /\ PlanKept'
<1>0. /\ Recorded /\ Typed /\ IsBody(Body) /\ Body.of \subseteq Members
      /\ \A p \in Members : (\A i \in NamesIn(rec[p]) : Holds(i)) /\ IsLock(p, rec[p])
  BY PlanKeptNames DEF KeptInv, Typed, RunOK, Run, BodiesOK, Body, Write, LocksOK
<1>1. /\ up.pc = "write" /\ rec' = Writes(doc.work)[1] /\ tracked' = tracked \union {up.id}
      /\ files' = files /\ verdict' = verdict
  BY DEF Write
<1>2. up'.pc = "play" /\ up'.id = up.id
  <2>1. up' = [up EXCEPT !.pc = "play", !.commit = head + 1, !.envs = EnvOrder(Body),
                         !.left = Deployed(Body.scope, Body.env)]
    BY DEF Write
  <2>2. DOMAIN up = RunKeys  BY <1>0, <1>1 DEF Typed, RunOK, Run
  <2> QED  BY <2>1, <2>2 DEF RunKeys
<1>3. up.id \in DOMAIN files  BY <1>0, <1>1 DEF Recorded, Listed
<1>4. ASSUME NEW p \in Members
      PROVE \A i \in NamesIn(rec'[p]) : i = up.id \/ i \in NamesIn(rec[p])
  <2>0. p \in Projects  BY DEF Members
  <2>1. CASE Body.kind = "up"
    <3>1. rec' = [q \in Projects |-> IF q \in Body.of THEN Pending(q, Body) ELSE rec[q]]
      BY <1>1, <2>1 DEF Writes, UpWrites
    <3>2. CASE p \in Body.of
      <4>1. rec'[p] = Pending(p, Body)  BY <2>0, <3>1, <3>2
      <4>2. PICK prev : prev = LET at == Body.at[p]
                                   same == rec[p].pin = at IN
               CASE ~same /\ Confirmed(p) -> [pin |-> rec[p].pin, plan |-> rec[p].plan]
                 [] ~same /\ ~Confirmed(p) /\ rec[p].prev # Absent /\ rec[p].prev.pin = at -> Absent
                 [] OTHER -> rec[p].prev
        OBVIOUS
      <4>3. Pending(p, Body).plan = up.id /\ Pending(p, Body).prev = prev
        BY <4>2 DEF Pending
      <4>4. prev # Absent => prev.plan \in NamesIn(rec[p])
        BY <4>2 DEF NamesIn
      <4> QED  BY <4>1, <4>3, <4>4 DEF NamesIn
    <3>3. CASE p \notin Body.of
      BY <2>0, <3>1, <3>3
    <3> QED  BY <3>2, <3>3
  <2>2. CASE Body.kind = "remove"
    <3>1. rec' = [q \in Projects |-> IF q \in Body.of THEN [rec[q] EXCEPT !.result = "pending", !.plan = up.id]
                                     ELSE rec[q]]
      BY <1>1, <2>2 DEF Writes, RemoveWrites
    <3>2. CASE p \in Body.of
      <4>1. rec'[p] = [rec[p] EXCEPT !.result = "pending", !.plan = up.id]  BY <2>0, <3>1, <3>2
      <4>2. rec'[p].plan = up.id /\ rec'[p].prev = rec[p].prev
        BY <1>0, <4>1 DEF IsLock, LockKeys
      <4> QED  BY <4>2 DEF NamesIn
    <3>3. CASE p \notin Body.of
      BY <2>0, <3>1, <3>3
    <3> QED  BY <3>2, <3>3
  <2>3. CASE Body.kind = "routes"
    BY <1>1, <2>3 DEF Writes, RouteWrites
  <2> QED  BY <1>0, <2>1, <2>2, <2>3 DEF IsBody
<1>5. \A i : Holds(i) => i = 0 \/ (i \in DOMAIN files' /\ i \in tracked')
  BY <1>1 DEF Holds, Listed
<1>6. Members' = Members  BY MembersFrame, <1>0 DEF Next, Write, Record
<1>7. \A p \in Members' : \A i \in NamesIn(rec'[p]) : i = 0 \/ (i \in DOMAIN files' /\ i \in tracked')
  BY <1>0, <1>1, <1>3, <1>4, <1>5, <1>6
<1>8. PlanKept'
  BY <1>7 DEF PlanKept, NamesIn, Listed
<1>9. Recorded'
  BY <1>0, <1>1, <1>2, <1>3 DEF Recorded
<1> QED  BY <1>8, <1>9

LEMMA RecordedRecord ==
    ASSUME KeptInv, Record
    PROVE  Recorded' /\ PlanKept'
<1>0. /\ Recorded /\ Typed /\ DOMAIN files \subseteq DOMAIN bodies
      /\ \A p \in Members : \A i \in NamesIn(rec[p]) : Holds(i)
  BY PlanKeptNames DEF KeptInv, Typed, BodiesOK
<1>1. PICK gone : gone = Pruned(rec')  OBVIOUS
<1>2. /\ up.pc = "record" /\ tracked' = tracked \ gone /\ DOMAIN files' = DOMAIN files \ gone
      /\ up' = Idle /\ verdict' = verdict
      /\ \A i \in DOMAIN files \ gone : i \in DOMAIN files'
  BY <1>1 DEF Record, Only
<1>3. gone \intersect NamedByLocks(rec') = {}
  BY <1>1 DEF Pruned
<1>4. up.id \in tracked  BY <1>0, <1>2 DEF Recorded
<1>5. ASSUME NEW p \in Members', NEW i \in NamesIn(rec'[p])
      PROVE i = 0 \/ (i \in DOMAIN files' /\ i \in tracked')
  <2>1. p \in Projects /\ rec'[p] # Absent  BY DEF Members
  <2>2. p \in Members /\ SameLock(p, rec'[p])
    BY <1>0, <2>1, RecordLocks DEF Members
  <2>3. i \in NamesIn(rec[p]) \union {up.id}
    BY <2>2 DEF SameLock, NamesIn
  <2>4. i \in NamedByLocks(rec')
    <3>1. i \in {rec'[p].plan} \union {x.plan : x \in {rec'[p].prev} \ {Absent}}
      BY DEF NamesIn
    <3> QED  BY <2>1, <3>1 DEF NamedByLocks
  <2>5. i = 0 \/ i \in tracked  BY <1>0, <1>4, <2>2, <2>3 DEF Holds
  <2> QED  BY <1>0, <1>2, <1>3, <2>4, <2>5 DEF Recorded
<1>6. PlanKept'
  BY <1>5 DEF PlanKept, NamesIn, Listed
<1>7. Recorded'
  BY <1>0, <1>2 DEF Recorded, Idle
<1> QED  BY <1>6, <1>7

LEMMA RecordedUndo ==
    ASSUME KeptInv, Undo
    PROVE  Recorded' /\ PlanKept'
<1>0. Recorded /\ PlanKept  BY DEF KeptInv
<1>1. /\ up.pc = "write" /\ tracked' = tracked /\ rec' = rec /\ up' = Idle
      /\ files' = IF up.prior = "none" THEN Only(DOMAIN files \ {up.id}) ELSE files
      /\ verdict' = IF up.prior = "none" THEN verdict ELSE [verdict EXCEPT ![up.id] = up.prior]
  BY DEF Undo, fleetVars
<1>2. tracked \subseteq DOMAIN files' /\ DOMAIN files' \subseteq DOMAIN files
  BY <1>0, <1>1 DEF Recorded, Only
<1>3. \A i \in DOMAIN files : i \in DOMAIN verdict' /\ verdict'[i] \in Verdicts
  BY <1>0, <1>1 DEF Recorded
<1>4. PlanKept'
  BY <1>0, <1>1, <1>2 DEF PlanKept, Members, Listed
<1> QED  BY <1>1, <1>2, <1>3, <1>4 DEF Recorded, Idle

LEMMA RecordedQuiet ==
    ASSUME KeptInv, UNCHANGED <<rec, files, verdict, tracked>>,
           \/ up' = up
           \/ up'.pc = up.pc /\ up'.id = up.id /\ up'.prior = up.prior
           \/ up.pc = "play" /\ up'.pc \in {"play", "record"} /\ up'.id = up.id
           \/ up' = Idle
    PROVE  Recorded' /\ PlanKept'
<1>0. Recorded /\ PlanKept  BY DEF KeptInv
<1>1. PlanKept'  BY <1>0 DEF PlanKept, Members, Listed
<1> QED  BY <1>0, <1>1 DEF Recorded, Listed, Idle

LEMMA RecordedStep ==
    ASSUME KeptInv, [Next]_vars
    PROVE  Recorded' /\ PlanKept'
<1>0. Typed /\ (Run => DOMAIN up = RunKeys)  BY DEF KeptInv, Typed, RunOK
<1>1. CASE MakePlan \/ Start
  BY <1>0, <1>1, PlanningStep, RecordedPlans
<1>2. ASSUME NEW p \in Projects, PushApp(p) \/ HookBuild(p) PROVE Recorded' /\ PlanKept'
  <2>1. UNCHANGED <<rec, files, verdict, tracked>>
    BY <1>2 DEF PushApp, HookBuild, fleetVars, planVars
  <2>2. up' = up \/ (Run /\ up' = [up EXCEPT !.built = @ \union {p}])
    BY <1>2 DEF PushApp, HookBuild, Run
  <2>3. up' = up \/ (up'.pc = up.pc /\ up'.id = up.id /\ up'.prior = up.prior)
    BY <1>0, <2>2 DEF RunKeys
  <2> QED  BY <2>1, <2>3, RecordedQuiet
<1>3. CASE EditDoc \/ CommitDoc \/ \E i \in DOMAIN files : Approve(i)
  <2>1. UNCHANGED <<rec, files, verdict, tracked>> /\ up' = up
    BY <1>3 DEF EditDoc, CommitDoc, Approve, planVars, fleetVars
  <2> QED  BY <2>1, RecordedQuiet
<1>4. CASE Write  BY <1>4, RecordedWrite
<1>5. CASE Undo  BY <1>5, RecordedUndo
<1>6. CASE Play
  <2>1. PICK b : PlayOk(b) \/ PlayFails(b)  BY <1>6 DEF Play
  <2>2. UNCHANGED <<rec, files, verdict, tracked>>
    BY <2>1 DEF PlayOk, PlayFails, fleetVars, planVars
  <2>3. /\ up.pc = "play"
        /\ \/ up' = [up EXCEPT !.left = @ \ {b}]
           \/ up' = [up EXCEPT !.left = @ \ {b}, !.failed = TRUE]
    BY <2>1 DEF PlayOk, PlayFails, PlayDone
  <2>4. up'.pc = "play" /\ up'.id = up.id  BY <1>0, <2>3 DEF RunKeys, Run
  <2> QED  BY <2>2, <2>3, <2>4, RecordedQuiet
<1>7. CASE NextEnv
  <2>1. UNCHANGED <<rec, files, verdict, tracked>> /\ up.pc = "play"
    BY <1>7 DEF NextEnv, fleetVars, planVars
  <2>2. PICK rest : rest = SubSeq(up.envs, 2, Len(up.envs))  OBVIOUS
  <2>3. \/ \E unread : up' = [up EXCEPT !.pc = "record", !.unread = unread]
        \/ up' = [up EXCEPT !.envs = rest, !.left = Deployed(Body.scope, rest[1])]
    BY <1>7, <2>2 DEF NextEnv
  <2>4. up'.pc \in {"play", "record"} /\ up'.id = up.id  BY <1>0, <2>1, <2>3 DEF RunKeys, Run
  <2> QED  BY <2>1, <2>4, RecordedQuiet
<1>8. CASE Kill
  BY <1>8, RecordedQuiet DEF Kill, fleetVars, planVars
<1>9. CASE Record  BY <1>9, RecordedRecord
<1>10. CASE UNCHANGED vars
  BY <1>10, RecordedQuiet DEF vars, fleetVars, planVars
<1> QED  BY <1>1, <1>2, <1>3, <1>4, <1>5, <1>6, <1>7, <1>8, <1>9, <1>10 DEF Next

\* Every plan a lock record or its previous entry names is in plans/ and committed,
\* after any pruning and any refused run (apply.py: prune_plans, _unwind).
THEOREM PlansAreKept == Spec => []PlanKept
<1>1. Init => KeptInv
  <2> SUFFICES ASSUME Init PROVE KeptInv  OBVIOUS
  <2>1. Recorded  BY DEF Init, Recorded, Idle
  <2>2. PlanKept
    <3>1. \A p \in Projects : rec[p].plan = 0 /\ rec[p].prev = Absent
      <4>1. PICK box0 : box0 = [p \in Projects |-> Toml[p][0].box]  OBVIOUS
      <4>2. rec = [p \in Projects |->
              [pin |-> 0, box |-> box0[p], result |-> "ok", plan |-> 0, prev |-> Absent,
               seen |-> Running(EnvBoxes(BoxEnv[box0[p]]), DOMAIN Toml[p][0].entries)]]
        BY <4>1 DEF Init
      <4> QED  BY <4>2
    <3> QED  BY <3>1 DEF PlanKept, Members
  <2> QED  BY <2>1, <2>2, TypedInit DEF KeptInv
<1>2. KeptInv /\ [Next]_vars => KeptInv'
  BY RecordedStep, LocksStep, InputsStep, BodiesStep, RunStep DEF KeptInv, Typed
<1>3. KeptInv => PlanKept  BY DEF KeptInv
<1> QED  BY <1>1, <1>2, <1>3, PTL DEF Spec

-----------------------------------------------------------------------------
(* What the fleet compiles to. *)

Placed(d, p, c, b) ==
    [n \in DOMAIN Toml[p][c].entries |->
       [Toml[p][c].entries[n] EXCEPT !.regions = {b},
                                     !.spec = <<@, {Docs[d].tune[x] : x \in {n} \intersect DOMAIN Docs[d].tune}>>]]

IsPlaced(f, p, c, b) ==
    /\ DOMAIN f = DOMAIN Toml[p][c].entries
    /\ \A n \in DOMAIN f : WhoOwns(n) = p /\ DOMAIN f[n] = EntryKeys /\ f[n].regions = {b}
LEMMA PlacedEntries ==
    ASSUME NEW d, NEW p \in Projects, NEW c \in DOMAIN Toml[p], NEW b
    PROVE  IsPlaced(Placed(d, p, c, b), p, c, b)
<1>1. \A n \in DOMAIN Toml[p][c].entries : WhoOwns(n) = p /\ DOMAIN Toml[p][c].entries[n] = EntryKeys
  BY TomlsOfProjects
<1> QED  BY <1>1 DEF Placed, EntryKeys, IsPlaced

PartsOf(d, pins, boxes) == {Placed(d, p, pins[p], boxes[p]) : p \in DOMAIN pins} \union {Docs[d].own}
LEMMA CompileIsMerge ==
    ASSUME NEW d, NEW pins, NEW boxes
    PROVE  CompileFleet(d, pins, boxes).entries = Merge(PartsOf(d, pins, boxes))
BY DEF CompileFleet, PartsOf, Placed

\* An entry is one of the fleet file, or of a project that is compiled, on its box.
IsEntryOf(E, n, d, pins, boxes) ==
    /\ DOMAIN E[n] = EntryKeys
    /\ \/ WhoOwns(n) = Nobody /\ n \in DOMAIN Docs[d].own
       \/ /\ WhoOwns(n) \in DOMAIN pins /\ n \in DOMAIN Toml[WhoOwns(n)][pins[WhoOwns(n)]].entries
          /\ E[n].regions = {boxes[WhoOwns(n)]}
LEMMA CompiledEntries ==
    ASSUME NEW d \in DOMAIN Docs, NEW pins, NEW boxes, DOMAIN pins \subseteq Projects,
           \A p \in DOMAIN pins : pins[p] \in DOMAIN Toml[p],
           NEW E, E = CompileFleet(d, pins, boxes).entries
    PROVE  /\ \A n \in DOMAIN E : IsEntryOf(E, n, d, pins, boxes)
           /\ \A p \in DOMAIN pins : \A n \in DOMAIN Toml[p][pins[p]].entries : n \in DOMAIN E
<1> DEFINE parts == PartsOf(d, pins, boxes)
<1>1. E = Merge(parts)  BY CompileIsMerge
<1>2. DOMAIN E = UNION {DOMAIN f : f \in parts}
  BY <1>1 DEF Merge
<1>3. \A p \in DOMAIN pins : Placed(d, p, pins[p], boxes[p]) \in parts
  BY DEF PartsOf
<1>4. ASSUME NEW p \in DOMAIN pins, NEW n \in DOMAIN Toml[p][pins[p]].entries
      PROVE n \in DOMAIN E
  <2>0. IsPlaced(Placed(d, p, pins[p], boxes[p]), p, pins[p], boxes[p])  BY PlacedEntries
  <2>1. n \in DOMAIN Placed(d, p, pins[p], boxes[p])  BY <1>4, <2>0 DEF IsPlaced
  <2> HIDE DEF parts
  <2> QED  BY <1>2, <1>3, <2>1
<1>5. ASSUME NEW n \in DOMAIN E PROVE IsEntryOf(E, n, d, pins, boxes)
  <2>1. PICK f \in parts : n \in DOMAIN f /\ E[n] = f[n]
    <3> HIDE DEF parts
    <3>1. PICK f : f = CHOOSE g \in parts : n \in DOMAIN g  OBVIOUS
    <3>2. f \in parts /\ n \in DOMAIN f  BY <1>2, <3>1
    <3>3. E[n] = f[n]  BY <1>1, <1>2, <3>1 DEF Merge
    <3> QED  BY <3>2, <3>3
  <2>2. CASE f = Docs[d].own
    BY <2>1, <2>2, DocsOfFleet DEF IsEntryOf
  <2>3. CASE \E p \in DOMAIN pins : f = Placed(d, p, pins[p], boxes[p])
    <3>1. PICK p \in DOMAIN pins : f = Placed(d, p, pins[p], boxes[p])  BY <2>3
    <3>2. /\ n \in DOMAIN Toml[p][pins[p]].entries /\ WhoOwns(n) = p /\ DOMAIN f[n] = EntryKeys
          /\ f[n].regions = {boxes[p]}
      <4>1. IsPlaced(Placed(d, p, pins[p], boxes[p]), p, pins[p], boxes[p])  BY PlacedEntries
      <4> QED  BY <2>1, <3>1, <4>1 DEF IsPlaced
    <3> QED  BY <2>1, <3>2 DEF IsEntryOf
  <2> QED  BY <2>1, <2>2, <2>3 DEF PartsOf
<1> QED  BY <1>4, <1>5

\* E is a compile of bay.fleet.toml d and the projects of S, at the locks L.
IsEntryAt(E, n, S, L) ==
    /\ DOMAIN E[n] = EntryKeys
    /\ \/ WhoOwns(n) = Nobody
       \/ /\ WhoOwns(n) \in S /\ n \in DOMAIN Toml[WhoOwns(n)][L[WhoOwns(n)].pin].entries
          /\ E[n].regions = {L[WhoOwns(n)].box}
HasAll(E, S, L) == \A p \in S : \A n \in DOMAIN Toml[p][L[p].pin].entries : n \in DOMAIN E
FileAt(E, S, L) == (\A n \in DOMAIN E : IsEntryAt(E, n, S, L)) /\ HasAll(E, S, L)

LEMMA CompiledAt ==
    ASSUME NEW d \in DOMAIN Docs, NEW S, S \subseteq Projects, NEW L,
           \A p \in S : L[p].pin \in DOMAIN Toml[p]
    PROVE  FileAt(CompileFleet(d, [p \in S |-> L[p].pin], [p \in S |-> L[p].box]).entries, S, L)
<1>1. PICK pins, boxes, E : /\ pins = [p \in S |-> L[p].pin]
                            /\ boxes = [p \in S |-> L[p].box]
                            /\ E = CompileFleet(d, pins, boxes).entries
  OBVIOUS
<1>2. /\ DOMAIN pins = S
      /\ \A p \in S : pins[p] = L[p].pin /\ boxes[p] = L[p].box
  BY <1>1
<1>3. /\ \A n \in DOMAIN E : IsEntryOf(E, n, d, pins, boxes)
      /\ \A p \in DOMAIN pins : \A n \in DOMAIN Toml[p][pins[p]].entries : n \in DOMAIN E
  BY <1>1, <1>2, CompiledEntries
<1>4. FileAt(E, S, L)
  BY <1>2, <1>3 DEF IsEntryOf, FileAt, IsEntryAt, HasAll
<1> QED  BY <1>1, <1>4

Stays == IF Body.kind = "remove" THEN Members \ Body.of ELSE Members
LEMMA WrittenFile ==
    ASSUME Typed, up.pc = "write", NEW d \in DOMAIN Docs
    PROVE  FileAt(Writes(d)[2].entries, Stays, Writes(d)[1])
<1>0. /\ IsBody(Body) /\ Body.of \subseteq Members /\ Members \subseteq Projects
      /\ \A p \in Members : IsLock(p, rec[p])
  BY DEF Typed, RunOK, Run, BodiesOK, Body, LocksOK, Members
<1>1. CASE Body.kind = "up"
  <2>1. PICK L : L = [p \in Projects |-> IF p \in Body.of THEN Pending(p, Body) ELSE rec[p]]  OBVIOUS
  <2>2. Writes(d) = <<L, CompileFleet(d, [p \in Members |-> L[p].pin], [p \in Members |-> L[p].box])>>
    BY <1>1, <2>1 DEF Writes, UpWrites
  <2>3. Writes(d)[1] = L
        /\ Writes(d)[2] = CompileFleet(d, [p \in Members |-> L[p].pin], [p \in Members |-> L[p].box])
    BY <2>2
  <2>4. \A p \in Members : L[p].pin \in DOMAIN Toml[p]
    <3>1. \A p \in Members : IsLock(p, Writes(d)[1][p])  BY WritesLocks
    <3> QED  BY <2>3, <3>1 DEF IsLock
  <2>5. FileAt(CompileFleet(d, [p \in Members |-> L[p].pin], [p \in Members |-> L[p].box]).entries, Members, L)
    BY <1>0, <2>4, CompiledAt
  <2>6. Stays = Members  BY <1>1 DEF Stays
  <2> QED  BY <2>3, <2>5, <2>6
<1>2. CASE Body.kind = "remove"
  <2>1. PICK L : L = [p \in Projects |-> IF p \in Body.of THEN [rec[p] EXCEPT !.result = "pending", !.plan = up.id]
                                         ELSE rec[p]]  OBVIOUS
  <2>2. PICK stay : stay = Members \ Body.of  OBVIOUS
  <2>3. Writes(d) = <<L, CompileFleet(d, [p \in stay |-> rec[p].pin], [p \in stay |-> rec[p].box])>>
    BY <1>2, <2>1, <2>2 DEF Writes, RemoveWrites
  <2>4. Writes(d)[1] = L
        /\ Writes(d)[2] = CompileFleet(d, [p \in stay |-> rec[p].pin], [p \in stay |-> rec[p].box])
    BY <2>3
  <2>5. FileAt(CompileFleet(d, [p \in stay |-> rec[p].pin], [p \in stay |-> rec[p].box]).entries, stay, rec)
    BY <1>0, <2>2, CompiledAt DEF IsLock
  <2>6. \A p \in stay : L[p] = rec[p]  BY <1>0, <2>1, <2>2
  <2>7. Stays = stay  BY <1>2, <2>2 DEF Stays
  <2> QED  BY <2>4, <2>5, <2>6, <2>7 DEF FileAt, IsEntryAt, HasAll
<1>3. CASE Body.kind = "routes"
  <2>1. Pins(<<>>) = [p \in Members |-> rec[p].pin] /\ BoxesOf(<<>>) = [p \in Members |-> rec[p].box]
    BY DEF Pins, BoxesOf
  <2>2. Writes(d) = <<rec, CompileFleet(d, [p \in Members |-> rec[p].pin], [p \in Members |-> rec[p].box])>>
    BY <1>3, <2>1 DEF Writes, RouteWrites
  <2>3. Writes(d)[1] = rec
        /\ Writes(d)[2] = CompileFleet(d, [p \in Members |-> rec[p].pin], [p \in Members |-> rec[p].box])
    BY <2>2
  <2>4. FileAt(CompileFleet(d, [p \in Members |-> rec[p].pin], [p \in Members |-> rec[p].box]).entries, Members, rec)
    BY <1>0, CompiledAt DEF IsLock
  <2>5. Stays = Members  BY <1>3 DEF Stays
  <2> QED  BY <2>3, <2>4, <2>5
<1> QED  BY <1>0, <1>1, <1>2, <1>3 DEF IsBody

-----------------------------------------------------------------------------
(* What a step leaves alone. *)

LEMMA UpFrame ==
    ASSUME Typed, [Next]_vars, Run', ~Write
    PROVE  \/ \E body : Plans(body) /\ Opens(body) /\ up.pc = "idle"
           \/ /\ Run /\ up'.id = up.id /\ up'.doc = up.doc
              /\ up'.pc = up.pc \/ (up.pc = "play" /\ up'.pc = "record")
<1>0. Run => DOMAIN up = RunKeys  BY DEF Typed, RunOK
<1>1. CASE MakePlan \/ Start
  <2>1. PICK body : Plans(body)  BY <1>1, PlanningStep
  <2> QED  BY <2>1 DEF Plans, Run, Idle
<1>2. CASE \E p \in Projects : HookBuild(p)
  <2>1. PICK p : up' = IF up.pc = "idle" THEN up ELSE [up EXCEPT !.built = @ \union {p}]
    BY <1>2 DEF HookBuild
  <2> QED  BY <1>0, <2>1 DEF Run, RunKeys
<1>3. CASE UNCHANGED up
  BY <1>3 DEF Run
<1>4. CASE Undo \/ Kill \/ Record
  BY <1>4 DEF Undo, Kill, Record, Run, Idle
<1>5. CASE Play
  <2>1. PICK b : PlayOk(b) \/ PlayFails(b)  BY <1>5 DEF Play
  <2>2. /\ up.pc = "play"
        /\ \/ up' = [up EXCEPT !.left = @ \ {b}]
           \/ up' = [up EXCEPT !.left = @ \ {b}, !.failed = TRUE]
    BY <2>1 DEF PlayOk, PlayFails, PlayDone
  <2> QED  BY <1>0, <2>2 DEF RunKeys, Run
<1>6. CASE NextEnv
  <2>1. up.pc = "play"  BY <1>6 DEF NextEnv
  <2>2. PICK rest : rest = SubSeq(up.envs, 2, Len(up.envs))  OBVIOUS
  <2>3. \/ \E unread : up' = [up EXCEPT !.pc = "record", !.unread = unread]
        \/ up' = [up EXCEPT !.envs = rest, !.left = Deployed(Body.scope, rest[1])]
    BY <1>6, <2>2 DEF NextEnv
  <2> QED  BY <1>0, <2>1, <2>3 DEF RunKeys, Run
<1>7. CASE \E p \in Projects : PushApp(p)
  BY <1>3, <1>7 DEF PushApp
<1>8. CASE EditDoc \/ CommitDoc \/ \E i \in DOMAIN files : Approve(i)
  BY <1>3, <1>8 DEF EditDoc, CommitDoc, Approve
<1>9. CASE UNCHANGED vars
  BY <1>3, <1>9 DEF vars
<1> QED  BY <1>1, <1>2, <1>4, <1>5, <1>6, <1>7, <1>8, <1>9 DEF Next

LEMMA ServicesFrame ==
    ASSUME Typed, [Next]_vars, ~Write
    PROVE  services' = services
<1>1. CASE MakePlan \/ Start
  BY <1>1, PlanningStep DEF Plans, fleetVars
<1>2. CASE (\E p \in Projects : PushApp(p) \/ HookBuild(p)) \/ Record
  BY <1>2 DEF PushApp, HookBuild, fleetVars, Record
<1>3. CASE EditDoc \/ CommitDoc \/ \E i \in DOMAIN files : Approve(i)
  BY <1>3 DEF EditDoc, CommitDoc, Approve, fleetVars
<1>4. CASE Undo \/ NextEnv \/ Kill
  BY <1>4 DEF Undo, NextEnv, Kill, fleetVars
<1>5. CASE Play
  BY <1>5 DEF Play, PlayOk, PlayFails, fleetVars
<1>6. CASE UNCHANGED vars
  BY <1>6 DEF vars, fleetVars
<1> QED  BY <1>1, <1>2, <1>3, <1>4, <1>5, <1>6 DEF Next

LEMMA LiveFrame ==
    ASSUME Typed, [Next]_vars, ~Play
    PROVE  live' = live
<1>1. CASE MakePlan \/ Start
  BY <1>1, PlanningStep DEF Plans, boxVars
<1>2. CASE (\E p \in Projects : PushApp(p) \/ HookBuild(p)) \/ Record \/ Write
  BY <1>2 DEF PushApp, HookBuild, boxVars, Record, Write
<1>3. CASE EditDoc \/ CommitDoc \/ \E i \in DOMAIN files : Approve(i)
  BY <1>3 DEF EditDoc, CommitDoc, Approve, boxVars
<1>4. CASE Undo \/ NextEnv \/ Kill
  BY <1>4 DEF Undo, NextEnv, Kill, boxVars
<1>5. CASE UNCHANGED vars
  BY <1>5 DEF vars, boxVars
<1> QED  BY <1>1, <1>2, <1>3, <1>4, <1>5 DEF Next

LEMMA HistoryFrame ==
    ASSUME Typed, [Next]_vars, ~Write
    PROVE  /\ granted' = granted /\ raced' = raced
           /\ ~Play /\ ~NextEnv /\ ~Kill => missed' = missed
<1>1. CASE MakePlan \/ Start
  BY <1>1, PlanningStep DEF Plans, history
<1>2. CASE (\E p \in Projects : PushApp(p) \/ HookBuild(p)) \/ Record
  BY <1>2 DEF PushApp, HookBuild, history, Record
<1>3. CASE EditDoc \/ CommitDoc \/ \E i \in DOMAIN files : Approve(i)
  BY <1>3 DEF EditDoc, CommitDoc, Approve, history
<1>4. CASE Undo \/ NextEnv \/ Kill
  BY <1>4 DEF Undo, NextEnv, Kill, history
<1>5. CASE Play
  BY <1>5 DEF Play, PlayOk, PlayFails
<1>6. CASE UNCHANGED vars
  BY <1>6 DEF vars, history
<1> QED  BY <1>1, <1>2, <1>3, <1>4, <1>5, <1>6 DEF Next

-----------------------------------------------------------------------------
(* Who the entries of the services file are of. *)

\* The projects the services file is of: while a removal deploys, not the one that goes.
Staying == IF up.pc \in {"play", "record"} /\ Body.kind = "remove" THEN Members \ Body.of ELSE Members
Owned == \A n \in DOMAIN services.entries : IsEntryAt(services.entries, n, Staying, rec)

LEMMA WriteStays ==
    ASSUME Typed, Write
    PROVE  /\ up'.pc = "play" /\ up'.id = up.id /\ Body' = Body /\ Members' = Members
           /\ Staying' = Stays
<1>1. up.pc = "write" /\ DOMAIN up = RunKeys  BY DEF Write, Typed, RunOK, Run
<1>2. up' = [up EXCEPT !.pc = "play", !.commit = head + 1, !.envs = EnvOrder(Body),
                       !.left = Deployed(Body.scope, Body.env)]
  BY DEF Write
<1>3. up'.pc = "play" /\ up'.id = up.id  BY <1>1, <1>2 DEF RunKeys
<1>4. bodies' = bodies  BY DEF Write
<1>5. Body' = Body  BY <1>3, <1>4 DEF Body
<1>6. Members' = Members  BY <1>1, MembersFrame DEF Next, Record
<1> QED  BY <1>3, <1>5, <1>6 DEF Staying, Stays

LEMMA OwnedStep ==
    ASSUME Typed, Owned, [Next]_vars
    PROVE  Owned'
<1>1. CASE Write
  <2>1. /\ up.pc = "write" /\ doc.work \in DOMAIN Docs
        /\ rec' = Writes(doc.work)[1] /\ services' = Writes(doc.work)[2]
    BY <1>1 DEF Write, Typed, InputsOK
  <2>2. FileAt(services'.entries, Stays, rec')  BY <2>1, WrittenFile
  <2>3. Staying' = Stays  BY <1>1, WriteStays
  <2> QED  BY <2>2, <2>3 DEF Owned, FileAt, IsEntryAt
<1>2. CASE Record
  <2>1. services' = services /\ up' = Idle /\ up.pc = "record"  BY <1>2 DEF Record
  <2>2. Staying' = Members'  BY <2>1 DEF Staying, Idle
  <2>3. ASSUME NEW p \in Staying
        PROVE p \in Members' /\ rec'[p].pin = rec[p].pin /\ rec'[p].box = rec[p].box
    <3>1. p \in Members /\ (Body.kind = "remove" => p \notin Body.of)  BY <2>1 DEF Staying
    <3>2. SameLock(p, rec'[p])  BY <1>2, <3>1, RecordLocks
    <3> QED  BY <3>1, <3>2 DEF SameLock, Members
  <2> QED  BY <2>1, <2>2, <2>3 DEF Owned, IsEntryAt
<1>3. CASE ~Write /\ ~Record
  <2>1. services' = services /\ rec' = rec  BY <1>3, ServicesFrame, LocksFrame
  <2>2. Members' = Members  BY <2>1 DEF Members
  <2>3. Staying \subseteq Staying'
    <3>1. CASE up'.pc \in {"play", "record"} /\ Body'.kind = "remove"
      <4>1. Run'  BY <3>1 DEF Run
      <4>2. /\ Run /\ up'.id = up.id /\ up.pc \in {"play", "record"}
        BY <1>3, <3>1, <4>1, UpFrame DEF Opens
      <4>3. Body' = Body  BY <4>1, <4>2, BodyFrame
      <4> QED  BY <2>2, <3>1, <4>2, <4>3 DEF Staying
    <3>2. CASE ~(up'.pc \in {"play", "record"} /\ Body'.kind = "remove")
      BY <2>2, <3>2 DEF Staying
    <3> QED  BY <3>1, <3>2
  <2> QED  BY <2>1, <2>3 DEF Owned, IsEntryAt
<1> QED  BY <1>1, <1>2, <1>3

LEMMA OwnedInit == Init => Owned
<1> SUFFICES ASSUME Init PROVE Owned  OBVIOUS
<1>1. PICK at0, box0 : /\ at0 = [p \in Projects |-> 0]
                       /\ box0 = [p \in Projects |-> Toml[p][0].box]
  OBVIOUS
<1>2. /\ services = CompileFleet(1, at0, box0)
      /\ rec = [p \in Projects |->
           [pin |-> 0, box |-> box0[p], result |-> "ok", plan |-> 0, prev |-> Absent,
            seen |-> Running(EnvBoxes(BoxEnv[box0[p]]), DOMAIN Toml[p][0].entries)]]
      /\ up = Idle
  BY <1>1 DEF Init
<1>3. \A p \in Projects : rec[p].pin = 0 /\ rec[p].box = box0[p] /\ rec[p] # Absent
  <2>1. \A p \in Projects : DOMAIN rec[p] = LockKeys /\ rec[p].pin = 0 /\ rec[p].box = box0[p]
    BY <1>2 DEF LockKeys
  <2> QED  BY <2>1 DEF Absent, LockKeys
<1>4. Members = Projects  BY <1>3 DEF Members
<1>5. at0 = [p \in Members |-> rec[p].pin] /\ box0 = [p \in Members |-> rec[p].box]
  BY <1>1, <1>3, <1>4
<1>6. FileAt(services.entries, Members, rec)
  BY <1>2, <1>3, <1>4, <1>5, CompiledAt, TomlsOfProjects, DocsOfFleet
<1>7. Staying = Members  BY <1>2 DEF Staying, Idle
<1> QED  BY <1>6, <1>7 DEF Owned, FileAt

-----------------------------------------------------------------------------
(* What the gate knows of a plan it lets through. *)

\* The services file the run of a body writes with bay.fleet.toml d, over the locks L.
There(L) == {p \in Projects : L[p] # Absent}
PinOf(body, L) == [p \in There(L) |-> IF p \in body.of THEN body.at[p] ELSE L[p].pin]
BoxOf(body, L) == [p \in There(L) |-> IF p \in body.of /\ p \in DOMAIN body.moves
                                     THEN body.moves[p].to ELSE L[p].box]
FileOf(body, d, L) ==
    CASE body.kind = "up" -> CompileFleet(d, PinOf(body, L), BoxOf(body, L))
      [] body.kind = "remove" -> CompileFleet(d, [p \in There(L) \ body.of |-> L[p].pin],
                                              [p \in There(L) \ body.of |-> L[p].box])
      [] OTHER -> CompileFleet(d, [p \in There(L) |-> L[p].pin], [p \in There(L) |-> L[p].box])

LEMMA WritesFile ==
    ASSUME Typed, up.pc = "write", NEW d
    PROVE  Writes(d)[2] = FileOf(Body, d, rec)
<1>0. /\ IsBody(Body) /\ Body.of \subseteq Members /\ Members \subseteq Projects
      /\ Members = There(rec)
  BY DEF Typed, RunOK, Run, BodiesOK, Body, Members, There
<1>1. CASE Body.kind = "up"
  <2>1. PICK L : L = [p \in Projects |-> IF p \in Body.of THEN Pending(p, Body) ELSE rec[p]]  OBVIOUS
  <2>2. PICK pins, boxes : pins = [p \in Members |-> L[p].pin] /\ boxes = [p \in Members |-> L[p].box]
    OBVIOUS
  <2>3. Writes(d) = <<L, CompileFleet(d, pins, boxes)>>
    BY <1>1, <2>1, <2>2 DEF Writes, UpWrites
  <2>4. ASSUME NEW p \in Body.of
        PROVE  /\ Pending(p, Body).pin = Body.at[p]
               /\ Pending(p, Body).box = IF p \in DOMAIN Body.moves THEN Body.moves[p].to ELSE rec[p].box
    BY DEF Pending
  <2>5. pins = PinOf(Body, rec)
    BY <1>0, <2>1, <2>2, <2>4 DEF PinOf
  <2>6. boxes = BoxOf(Body, rec)
    BY <1>0, <2>1, <2>2, <2>4 DEF BoxOf
  <2> QED  BY <1>1, <2>3, <2>5, <2>6 DEF FileOf
<1>2. CASE Body.kind = "remove"
  <2>1. PICK stay, L :
          /\ stay = Members \ Body.of
          /\ L = [p \in Projects |-> IF p \in Body.of THEN [rec[p] EXCEPT !.result = "pending", !.plan = up.id]
                                    ELSE rec[p]]
    OBVIOUS
  <2>3. Writes(d) = <<L, CompileFleet(d, [p \in stay |-> rec[p].pin], [p \in stay |-> rec[p].box])>>
    BY <1>2, <2>1 DEF Writes, RemoveWrites
  <2>2. Writes(d)[2] = CompileFleet(d, [p \in stay |-> rec[p].pin], [p \in stay |-> rec[p].box])
    BY <2>3
  <2> QED  BY <1>0, <1>2, <2>1, <2>2 DEF FileOf
<1>3. CASE Body.kind = "routes"
  <2>1. Pins(<<>>) = [p \in Members |-> rec[p].pin] /\ BoxesOf(<<>>) = [p \in Members |-> rec[p].box]
    BY DEF Pins, BoxesOf
  <2>2. Writes(d)[2] = CompileFleet(d, [p \in Members |-> rec[p].pin], [p \in Members |-> rec[p].box])
    BY <1>3, <2>1 DEF Writes, RouteWrites
  <2> QED  BY <1>0, <1>3, <2>2 DEF FileOf
<1> QED  BY <1>0, <1>1, <1>2, <1>3 DEF IsBody

\* The file of a plan in the state it was made in is the one the plan compared.
LEMMA UpFile ==
    ASSUME Typed, NEW r, NEW at, NEW read, NEW b, IsUpPlan(b, r, at, read)
    PROVE  FileOf(b, doc.work, rec) = FactsOf(r, at, read).want
<1>1. PICK of, f : of = r.of \intersect Members /\ f = FactsOf(r, at, read)  OBVIOUS
<1>2. /\ b.kind = "up" /\ b.of = of /\ b.at = at
      /\ b.moves = MovesOf(of, at, r.data, f.want)
  BY <1>1 DEF IsUpPlan
<1>3. f.want = WantOf(of, at)
  BY <1>1, FactsFields DEF FactsOf
<1>4. Members = There(rec) /\ of \subseteq Members  BY <1>1 DEF Members, There
<1>5. Pins([p \in of |-> at[p]]) = PinOf(b, rec)
  BY <1>2, <1>4 DEF Pins, PinOf
<1>6. DOMAIN b.moves = Moving(of, at) /\ \A p \in DOMAIN b.moves : b.moves[p].to = WantedBox(p, at)
  BY <1>2 DEF MovesOf, MoveRecord
<1>7. \A p \in of : p \notin Moving(of, at) => WantedBox(p, at) = rec[p].box
  BY DEF Moving
<1>8. BoxesOf([p \in of |-> WantedBox(p, at)]) = BoxOf(b, rec)
  BY <1>2, <1>4, <1>6, <1>7 DEF BoxesOf, BoxOf
<1> QED  BY <1>1, <1>2, <1>3, <1>5, <1>8 DEF FileOf, WantOf

LEMMA RoutesFile ==
    ASSUME NEW b, b.kind = "routes"
    PROVE  FileOf(b, doc.work, rec) = PinnedFleet(doc.work)
<1>1. Pins(<<>>) = [p \in Members |-> rec[p].pin] /\ BoxesOf(<<>>) = [p \in Members |-> rec[p].box]
  BY DEF Pins, BoxesOf
<1>2. Members = There(rec)  BY DEF Members, There
<1> QED  BY <1>1, <1>2 DEF FileOf, PinnedFleet

LEMMA RemoveFile ==
    ASSUME NEW p, NEW b, b.kind = "remove", b.of = {p}
    PROVE  FileOf(b, doc.work, rec) = FleetWithout(p, doc.work)
<1>0. Members = There(rec)  BY DEF Members, There
<1>1. Without(p, Pins(<<>>)) = [q \in Members \ {p} |-> rec[q].pin]
  BY DEF Without, Pins
<1>2. Without(p, BoxesOf(<<>>)) = [q \in Members \ {p} |-> rec[q].box]
  BY DEF Without, BoxesOf
<1> QED  BY <1>0, <1>1, <1>2 DEF FileOf, FleetWithout

-----------------------------------------------------------------------------
(* The scope of a plan. *)

\* A limited scope holds, of the environments the run is in, the box of the project,
\* the one it leaves, and every box a step of another project or of none is placed on.
Spared(c, who, box, old, steps, cur, want) ==
    \A b \in Boxes : b \notin c.boxes /\ BoxEnv[b] \in {BoxEnv[x] : x \in {box, old} \intersect Boxes} =>
        /\ b \notin {box, old}
        /\ \A s \in steps : Foreign(s, who) => b \notin StepRegions(s, cur, want)
LEMMA ComputeSpares ==
    ASSUME NEW who, NEW box, NEW old, NEW steps, NEW cur, NEW want, NEW allBoxes,
           NEW c, c = Compute(who, box, old, steps, cur, want, allBoxes), c.limited
    PROVE  Spared(c, who, box, old, steps, cur, want)
<1> DEFINE envs == {BoxEnv[b] : b \in {box, old} \intersect Boxes}
           foreign == {s \in steps : Foreign(s, who)}
           surface == ChangedBuilds(cur, want) # {} /\ (cur.hook # Nobody \/ want.hook # Nobody)
           builds == IF surface THEN Builds(cur, want) ELSE {}
           remote == \E x \in builds : x.build = "remote"
           asked == {box, old}
                    \union {b \in {Ingress} : \E s \in steps : s.kind = "route"}
                    \union UNION {StepRegions(s, cur, want) : s \in foreign}
           servers(e) == ReceiverBoxes(e, builds) \union IF remote THEN BuildServer[e] ELSE {}
           ofEnv(e) == SharedHosts((asked \union servers(e)) \intersect EnvBoxes(e), e)
           open(e) == \/ Cardinality(EnvBoxes(e)) <= 1
                      \/ NoHostMap(e)
                      \/ surface /\ e \in UnreadServer
                      \/ HostMap(ofEnv(e)) = HostMap(EnvBoxes(e))
<1>8. c = CASE allBoxes -> WholeBecause("flag")
            [] ~allBoxes /\ \E s \in steps : s.kind = "tailnet" -> WholeBecause("tailnet")
            [] ~allBoxes /\ (\A s \in steps : s.kind # "tailnet")
                 /\ \E s \in foreign : StepRegions(s, cur, want) = {} -> WholeBecause("unplaced")
            [] OTHER -> IF \A e \in envs : open(e) THEN Whole
                        ELSE [limited |-> TRUE, boxes |-> UNION {IF open(e) THEN EnvBoxes(e) ELSE ofEnv(e) : e \in envs},
                              why |-> "scope"]
  BY DEF Compute
<1> HIDE DEF envs, foreign, surface, builds, remote, asked
<1>9. c.boxes = UNION {IF open(e) THEN EnvBoxes(e) ELSE ofEnv(e) : e \in envs}
  <2> HIDE DEF open, ofEnv
  <2>1. ~Whole.limited /\ \A w : ~WholeBecause(w).limited  BY DEF Whole, WholeBecause
  <2>2. c = [limited |-> TRUE, boxes |-> UNION {IF open(e) THEN EnvBoxes(e) ELSE ofEnv(e) : e \in envs},
             why |-> "scope"]
    BY <1>8, <2>1
  <2> QED  BY <2>2
<1>10. ASSUME NEW e \in envs, NEW b \in EnvBoxes(e), b \in asked PROVE b \in c.boxes
  <2>1. b \in ofEnv(e)  BY <1>10 DEF SharedHosts
  <2> HIDE DEF open, ofEnv
  <2> QED  BY <1>9, <2>1
<1>11. ASSUME NEW b \in Boxes, b \notin c.boxes, BoxEnv[b] \in envs PROVE b \notin asked
  <2>1. b \in EnvBoxes(BoxEnv[b])  BY DEF EnvBoxes
  <2> QED  BY <1>10, <1>11, <2>1
<1> QED  BY <1>11 DEF Spared, envs, asked, foreign

\* The scope of the plan of one project.
LEMMA LimitedScope ==
    ASSUME NEW r, NEW at, NEW f, NEW scope, scope = UpScope(r, at, f), scope.limited,
           r.of \subseteq Projects
    PROVE  \E who, old : /\ r.of = {who}
                         /\ old = IF who \in Moving(f.of, at) THEN rec[who].box ELSE Nobody
                         /\ Spared(scope, who, WantedBox(who, at), old, f.diff \union TailnetSteps,
                                   services, f.want)
<1>1. PICK who : who = CHOOSE p \in r.of : TRUE  OBVIOUS
<1>2. PICK old : old = IF who \in Moving(f.of, at) THEN rec[who].box ELSE Nobody  OBVIOUS
<1>3. PICK steps : steps = f.diff \union TailnetSteps  OBVIOUS
<1>4. scope = IF Cardinality(r.of) # 1 THEN Whole
              ELSE Compute(who, WantedBox(who, at), old, steps, services, f.want, r.allBoxes)
  BY <1>1, <1>2, <1>3 DEF UpScope
<1>5. Cardinality(r.of) = 1 /\ scope = Compute(who, WantedBox(who, at), old, steps, services, f.want, r.allBoxes)
  BY <1>4 DEF Whole
<1>6. IsFiniteSet(r.of)  BY TomlsOfProjects, FS_Subset
<1>7. \E x : r.of = {x}  BY <1>5, <1>6, FS_Singleton
<1>8. r.of = {who}  BY <1>1, <1>7
<1>9. Spared(scope, who, WantedBox(who, at), old, steps, services, f.want)
  BY <1>5, ComputeSpares
<1> QED  BY <1>2, <1>3, <1>8, <1>9

-----------------------------------------------------------------------------
(* What the comparison says of an entry. *)

LEMMA EntryIsCompared ==
    ASSUME NEW want, NEW readable, NEW seen, NEW n, n \in Names(services.entries, want.entries)
    PROVE  EntrySteps(n, readable, seen, At(services.entries, n), At(want.entries, n))
             \subseteq Compared(want, readable, seen)
BY DEF Compared, DiffSteps

\* An entry that differs has a step of its own, of its owner or of nobody.
OwnStep(s, n) == /\ s.on = n /\ s.src = "compile" /\ s.kind \in {"container", "resource"}
                 /\ s.who \in {Nobody, WhoOwns(n)}
LEMMA SharedIsOwn ==
    ASSUME NEW kind \in {"container", "resource"}, NEW n, NEW old, NEW new,
           NEW s, s \in SharedStep(kind, n, old, new)
    PROVE  OwnStep(s, n) /\ s.risk \in Risky /\ s.kind = kind
BY DEF SharedStep, Step, OwnStep, Risky

LEMMA DifferenceIsSaid ==
    ASSUME NEW n, NEW readable, NEW seen, NEW old, NEW new, Differs(old, new)
    PROVE  \E s \in EntrySteps(n, readable, seen, old, new) : OwnStep(s, n)
<1>1. CASE n \in Resources
  <2>1. EntrySteps(n, readable, seen, old, new) = SharedStep("resource", n, old, new)
    BY <1>1 DEF EntrySteps
  <2>2. \E s : s \in SharedStep("resource", n, old, new)  BY DEF SharedStep
  <2> QED  BY <2>1, <2>2, SharedIsOwn
<1>2. CASE n \notin Resources /\ WhoOwns(n) # Nobody
  <2>1. EntrySteps(n, readable, seen, old, new)
          = ContainerSteps(n, WhoOwns(n), n \in readable, seen, old, new)
    BY <1>2 DEF EntrySteps
  <2>2. \/ Step("container", "create", "safe", n, n, WhoOwns(n)) \in EntrySteps(n, readable, seen, old, new)
        \/ Step("container", "remove", "destructive", n, n, WhoOwns(n)) \in EntrySteps(n, readable, seen, old, new)
        \/ Step("container", "update", "safe", n, n, WhoOwns(n)) \in EntrySteps(n, readable, seen, old, new)
    BY <2>1 DEF ContainerSteps
  <2>3. \A action, risk : OwnStep(Step("container", action, risk, n, n, WhoOwns(n)), n)
    BY DEF OwnStep, Step
  <2> QED  BY <2>2, <2>3
<1>3. CASE n \notin Resources /\ WhoOwns(n) = Nobody
  <2>1. EntrySteps(n, readable, seen, old, new) = SharedStep("container", n, old, new)
    BY <1>3 DEF EntrySteps
  <2>2. \E s : s \in SharedStep("container", n, old, new)  BY DEF SharedStep
  <2> QED  BY <2>1, <2>2, SharedIsOwn
<1> QED  BY <1>1, <1>2, <1>3

\* Two entries are told apart by all but the hold of their build.
LEMMA DiffersParts ==
    ASSUME NEW old, NEW new, DOMAIN old = EntryKeys, DOMAIN new = EntryKeys, ~Differs(old, new)
    PROVE  old.regions = new.regions /\ old.vols = new.vols /\ old.db = new.db
<1>1. CASE old = new  BY <1>1
<1>2. CASE HoldOnly(old, new)
  <2>1. PICK a, b : a = [old EXCEPT !.hold = 0] /\ b = [new EXCEPT !.hold = 0]  OBVIOUS
  <2>2. a = b  BY <1>2, <2>1 DEF HoldOnly
  <2>3. /\ a.regions = old.regions /\ a.vols = old.vols /\ a.db = old.db
        /\ b.regions = new.regions /\ b.vols = new.vols /\ b.db = new.db
    BY <2>1 DEF EntryKeys
  <2> QED  BY <2>2, <2>3
<1> QED  BY <1>1, <1>2 DEF Differs

LEMMA EntryThere ==
    ASSUME NEW e, DOMAIN e = EntryKeys
    PROVE  e # Absent
BY DEF EntryKeys, Absent

LEMMA AbsentDiffers ==
    ASSUME NEW e, e # Absent
    PROVE  Differs(e, Absent) /\ Differs(Absent, e)
BY DEF Differs

\* Where the comparison places the step of an entry.
LEMMA OwnStepRegions ==
    ASSUME NEW s, NEW n, OwnStep(s, n), NEW cur, NEW want,
           NEW e, e = IF At(want.entries, n) # Absent THEN At(want.entries, n) ELSE At(cur.entries, n),
           e # Absent
    PROVE  StepRegions(s, cur, want) = e.regions
<1>1. s.kind # "job" /\ s.kind # "fleet" /\ s.on = n  BY DEF OwnStep
<1> QED  BY <1>1 DEF StepRegions

-----------------------------------------------------------------------------
(* The file a plan writes, entry by entry. *)

\* The pin and the box a project has once the run of a body wrote its locks.
NewAt(body, L) ==
    [p \in There(L) |-> IF body.kind = "up" THEN [pin |-> PinOf(body, L)[p], box |-> BoxOf(body, L)[p]]
                        ELSE [pin |-> L[p].pin, box |-> L[p].box]]
StaysOf(body, L) == IF body.kind = "remove" THEN There(L) \ body.of ELSE There(L)

LEMMA PlannedFile ==
    ASSUME Typed, NEW b, IsBody(b), b.of \subseteq Members, NEW d \in DOMAIN Docs
    PROVE  FileAt(FileOf(b, d, rec).entries, StaysOf(b, rec), NewAt(b, rec))
<1>0. /\ Members = There(rec) /\ There(rec) \subseteq Projects
      /\ \A p \in There(rec) : rec[p].pin \in DOMAIN Toml[p]
  BY DEF Typed, LocksOK, IsLock, Members, There
<1>1. PICK L, S : L = NewAt(b, rec) /\ S = StaysOf(b, rec)  OBVIOUS
<1>2. S \subseteq There(rec)  BY <1>1 DEF StaysOf
<1>3. CASE b.kind = "up"
  <2>1. L = [p \in There(rec) |-> [pin |-> PinOf(b, rec)[p], box |-> BoxOf(b, rec)[p]]]
    BY <1>1, <1>3 DEF NewAt
  <2>2. S = There(rec)  BY <1>1, <1>3 DEF StaysOf
  <2>3. PinOf(b, rec) = [p \in S |-> L[p].pin] /\ BoxOf(b, rec) = [p \in S |-> L[p].box]
    BY <2>1, <2>2 DEF PinOf, BoxOf
  <2>4. \A p \in S : L[p].pin \in DOMAIN Toml[p]
    <3>1. \A p \in Projects : b.at[p] \in DOMAIN Toml[p]  BY <1>3 DEF IsBody, IsPins
    <3> QED  BY <1>0, <2>1, <2>2, <3>1 DEF PinOf
  <2>5. FileAt(CompileFleet(d, [p \in S |-> L[p].pin], [p \in S |-> L[p].box]).entries, S, L)
    BY <1>0, <1>2, <2>4, CompiledAt
  <2> QED  BY <1>1, <1>3, <2>3, <2>5 DEF FileOf
<1>4. CASE b.kind # "up"
  <2>1. L = [p \in There(rec) |-> [pin |-> rec[p].pin, box |-> rec[p].box]]
    BY <1>1, <1>4 DEF NewAt
  <2>2. \A p \in S : L[p].pin = rec[p].pin /\ L[p].box = rec[p].box
    BY <1>2, <2>1
  <2>3. [p \in S |-> L[p].pin] = [p \in S |-> rec[p].pin] /\ [p \in S |-> L[p].box] = [p \in S |-> rec[p].box]
    BY <2>2
  <2>4. FileAt(CompileFleet(d, [p \in S |-> L[p].pin], [p \in S |-> L[p].box]).entries, S, L)
    BY <1>0, <1>2, <2>2, CompiledAt
  <2>5. FileOf(b, d, rec) = CompileFleet(d, [p \in S |-> rec[p].pin], [p \in S |-> rec[p].box])
    BY <1>1, <1>4 DEF FileOf, StaysOf
  <2> QED  BY <1>1, <2>3, <2>4, <2>5
<1> QED  BY <1>3, <1>4

\* An entry of both files is on the box of its owner, in each.
Sides(n, S, L, T, M, cur, want) ==
    /\ n \in DOMAIN cur => IsEntryAt(cur, n, S, L)
    /\ n \in DOMAIN want => IsEntryAt(want, n, T, M)
LEMMA SidesKeys ==
    ASSUME NEW n, NEW S, NEW L, NEW T, NEW M, NEW cur, NEW want, Sides(n, S, L, T, M, cur, want)
    PROVE  /\ n \in DOMAIN cur => DOMAIN cur[n] = EntryKeys /\ At(cur, n) = cur[n] /\ At(cur, n) # Absent
           /\ n \in DOMAIN want => DOMAIN want[n] = EntryKeys /\ At(want, n) = want[n] /\ At(want, n) # Absent
           /\ n \notin DOMAIN cur => At(cur, n) = Absent
           /\ n \notin DOMAIN want => At(want, n) = Absent
BY EntryThere DEF Sides, IsEntryAt, At

\* What a box has of a file.
LEMMA SliceAt ==
    ASSUME NEW E, NEW b, NEW n
    PROVE  At(Slice(E, b), n) = IF n \in DOMAIN E /\ b \in E[n].regions THEN E[n] ELSE Absent
BY DEF Slice, At

LEMMA SliceDiffers ==
    ASSUME NEW n, NEW S, NEW L, NEW T, NEW M, NEW cur, NEW want, Sides(n, S, L, T, M, cur, want),
           NEW b, Differs(At(Slice(cur, b), n), At(Slice(want, b), n))
    PROVE  /\ Differs(At(cur, n), At(want, n))
           /\ (n \in DOMAIN cur /\ b \in cur[n].regions) \/ (n \in DOMAIN want /\ b \in want[n].regions)
<1>1. PICK old, new : old = At(Slice(cur, b), n) /\ new = At(Slice(want, b), n)  OBVIOUS
<1>2. /\ old = IF n \in DOMAIN cur /\ b \in cur[n].regions THEN cur[n] ELSE Absent
      /\ new = IF n \in DOMAIN want /\ b \in want[n].regions THEN want[n] ELSE Absent
  BY <1>1, SliceAt
<1>3. Differs(old, new) /\ (old # Absent \/ new # Absent)
  BY <1>1 DEF Differs
<1>4. (n \in DOMAIN cur /\ b \in cur[n].regions) \/ (n \in DOMAIN want /\ b \in want[n].regions)
  BY <1>2, <1>3
<1>5. Differs(At(cur, n), At(want, n))
  <2>1. CASE n \in DOMAIN cur /\ n \in DOMAIN want
    <3>1. /\ DOMAIN cur[n] = EntryKeys /\ At(cur, n) = cur[n]
          /\ DOMAIN want[n] = EntryKeys /\ At(want, n) = want[n]
      BY <2>1, SidesKeys
    <3>2. CASE ~Differs(cur[n], want[n])
      <4>1. cur[n].regions = want[n].regions  BY <3>1, <3>2, DiffersParts
      <4>2. old = cur[n] /\ new = want[n]  BY <1>2, <1>4, <2>1, <4>1
      <4> QED  BY <1>3, <3>2, <4>2
    <3> QED  BY <3>1, <3>2
  <2>2. CASE n \notin DOMAIN cur \/ n \notin DOMAIN want
    <3>1. \/ At(cur, n) = Absent /\ At(want, n) # Absent
          \/ At(cur, n) # Absent /\ At(want, n) = Absent
      BY <1>4, <2>2, SidesKeys
    <3> QED  BY <3>1, AbsentDiffers
  <2> QED  BY <2>1, <2>2
<1> QED  BY <1>4, <1>5

-----------------------------------------------------------------------------
(* The boxes out of the scope of a plan. *)

\* A box of an environment the run plays, which the run does not deploy: the project
\* is not there, and the new file gives the box nothing new but what a resource leaves.
Outside(b, x, want, L, cur) ==
    \E who : /\ b.kind = "up" /\ b.of = {who} /\ x # L[who].box
             /\ \A n : Differs(At(Slice(cur.entries, x), n), At(Slice(want.entries, x), n))
                         => x \in LeftByResources(cur.entries, want.entries)
Covers(b, want, L, cur) ==
    \A x \in Boxes : BoxEnv[x] \in Values(EnvOrder(b)) /\ x \notin Deployed(b.scope, BoxEnv[x])
                       => Outside(b, x, want, L, cur)

LEMMA PairConcat ==
    ASSUME NEW a, NEW b
    PROVE  <<a>> \o <<b>> = <<a, b>>
<1> DEFINE S == {a, b}
<1>1. <<a>> \in Seq(S) /\ <<b>> \in Seq(S) /\ <<a, b>> \in Seq(S)  OBVIOUS
<1>2. Len(<<a>>) = 1 /\ Len(<<b>>) = 1 /\ Len(<<a, b>>) = 2  OBVIOUS
<1>3. Len(<<a>>) + Len(<<b>>) = 2 /\ \A i \in 1..2 : i <= 1 \/ i - 1 = 1  BY <1>2
<1>4. /\ Len(<<a>> \o <<b>>) = 2 /\ (<<a>> \o <<b>>)[1] = a /\ (<<a>> \o <<b>>)[2] = b
      /\ <<a>> \o <<b>> \in Seq(S)
  BY <1>1, <1>2, <1>3, ConcatProperties
<1>5. \A i \in 1..2 : (<<a>> \o <<b>>)[i] = <<a, b>>[i]  BY <1>4
<1>6. PICK s, t : s = <<a>> \o <<b>> /\ t = <<a, b>>  OBVIOUS
<1>7. /\ s \in Seq(S) /\ t \in Seq(S) /\ Len(s) = Len(t)
      /\ \A i \in 1..Len(s) : s[i] = t[i]
  BY <1>1, <1>2, <1>4, <1>5, <1>6
<1>8. s = t  BY ONLY <1>7, SeqEqual
<1> QED  BY <1>6, <1>8

LEMMA PlayedEnvs ==
    ASSUME NEW b
    PROVE  /\ Values(EnvOrder(b)) \subseteq {b.env} \union {BoxEnv[m.from] : m \in Values(b.moves)}
           /\ EnvOrder(b) \in Seq(Values(EnvOrder(b))) /\ EnvOrder(b)[1] = b.env
<1>1. PICK others : others = {BoxEnv[m.from] : m \in Values(b.moves)} \ {b.env}  OBVIOUS
<1>2. EnvOrder(b) = <<b.env>> \o (IF others = {} THEN <<>> ELSE <<CHOOSE e \in others : TRUE>>)
  BY <1>1 DEF EnvOrder
<1>3. CASE others = {}
  <2>1. EnvOrder(b) = <<b.env>>  BY <1>2, <1>3
  <2> QED  BY <2>1 DEF Values
<1>4. CASE others # {}
  <2>1. PICK e : e = CHOOSE x \in others : TRUE  OBVIOUS
  <2>4. e \in others  BY <1>4, <2>1
  <2>5. EnvOrder(b) = <<b.env>> \o <<e>>  BY <1>2, <1>4, <2>1
  <2>2. EnvOrder(b) = <<b.env, e>> /\ e \in others  BY <2>4, <2>5, PairConcat
  <2>3. Values(EnvOrder(b)) = {b.env, e}  BY <2>2 DEF Values
  <2> QED  BY <1>1, <2>2, <2>3
<1> QED  BY <1>3, <1>4

\* The plan of one project plays the environment of its box and of the one it leaves.
LEMMA OneProject ==
    ASSUME NEW r, NEW at, NEW read, NEW b, IsUpPlan(b, r, at, read), NEW who,
           r.of = {who}, who \in Members, NEW old,
           old = IF who \in Moving({who}, at) THEN rec[who].box ELSE Nobody
    PROVE  /\ b.kind = "up" /\ b.of = {who} /\ b.scope = ScopeOf(r, at, read)
           /\ \A m \in Values(b.moves) : m.from = old /\ old = rec[who].box
           /\ b.env = BoxEnv[WantedBox(who, at)]
           /\ rec[who].box \in {WantedBox(who, at), old}
           /\ BoxOf(b, rec)[who] \in {WantedBox(who, at), old}
<1>1. r.of \intersect Members = {who}  OBVIOUS
<1>2. PICK f : f = FactsOf(r, at, read)  OBVIOUS
<1>3. /\ b.kind = "up" /\ b.of = {who} /\ b.scope = ScopeOf(r, at, read) /\ b.env = EnvOf({who}, at)
      /\ b.moves = MovesOf({who}, at, r.data, f.want)
  BY <1>1, <1>2 DEF IsUpPlan
<1>4. b.env = BoxEnv[WantedBox(who, at)]
  BY <1>3 DEF EnvOf, WantedEnvs
<1>5. Moving({who}, at) = IF WantedBox(who, at) # rec[who].box THEN {who} ELSE {}
  BY DEF Moving
<1>6. /\ DOMAIN b.moves = Moving({who}, at)
      /\ \A p \in DOMAIN b.moves : b.moves[p].from = rec[p].box /\ b.moves[p].to = WantedBox(p, at)
  BY <1>3 DEF MovesOf, MoveRecord
<1>7. \A m \in Values(b.moves) : m.from = old /\ old = rec[who].box
  BY <1>5, <1>6 DEF Values
<1>8. rec[who].box \in {WantedBox(who, at), old}
  BY <1>5
<1>9. who \in There(rec)  BY DEF Members, There
<1>10. BoxOf(b, rec)[who] \in {WantedBox(who, at), old}
  BY <1>3, <1>5, <1>6, <1>8, <1>9 DEF BoxOf
<1> QED  BY <1>3, <1>4, <1>7, <1>8, <1>10

LEMMA UpCovers ==
    ASSUME Typed, Owned, up.pc = "idle", NEW r, NEW at, NEW read, Asks(r), r.of # {}, IsPins(at),
           NEW b, b = UpBody(r, at, read), IsBody(b)
    PROVE  Covers(b, FileOf(b, doc.work, rec), rec, services)
<1>0. PICK f : f = FactsOf(r, at, read)  OBVIOUS
<1>1. IsUpPlan(b, r, at, read)  BY UpFields
<1>2. PICK want : want = f.want  OBVIOUS
<1>3. FileOf(b, doc.work, rec) = want  BY <1>0, <1>1, <1>2, UpFile
<1> SUFFICES ASSUME NEW x \in Boxes, BoxEnv[x] \in Values(EnvOrder(b)), x \notin Deployed(b.scope, BoxEnv[x])
             PROVE  Outside(b, x, want, rec, services)
  BY <1>3 DEF Covers
<1>4. b.scope.limited /\ x \notin b.scope.boxes
  <2>1. x \in EnvBoxes(BoxEnv[x])  BY DEF EnvBoxes
  <2> QED  BY <2>1 DEF Deployed
<1>5. b.scope = UpScope(r, at, f)  BY <1>0, <1>1 DEF IsUpPlan, ScopeOf
<1>6. f.of = r.of \intersect Members /\ \E readable, seen : f.diff = Compared(want, readable, seen)
  BY <1>0, <1>2, FactsFields DEF FactsOf
<1>7. PICK who, old : /\ r.of = {who}
                      /\ old = IF who \in Moving(f.of, at) THEN rec[who].box ELSE Nobody
                      /\ Spared(b.scope, who, WantedBox(who, at), old, f.diff \union TailnetSteps, services, want)
  <2>1. r.of \subseteq Projects  BY DEF Asks
  <2>2. PICK scope : scope = b.scope  OBVIOUS
  <2>3. scope = UpScope(r, at, f) /\ scope.limited  BY <1>4, <1>5, <2>2
  <2>4. \E who, old : /\ r.of = {who}
                      /\ old = IF who \in Moving(f.of, at) THEN rec[who].box ELSE Nobody
                      /\ Spared(scope, who, WantedBox(who, at), old, f.diff \union TailnetSteps, services, f.want)
    BY <2>1, <2>3, LimitedScope
  <2> QED  BY <1>2, <2>2, <2>4
<1>8. who \in Members /\ who \in Projects /\ f.of = {who}
  BY <1>6, <1>7 DEF Asks, Answers, Members
<1> DEFINE box == WantedBox(who, at)
<1>9. /\ b.kind = "up" /\ b.of = {who}
      /\ \A m \in Values(b.moves) : m.from = old /\ old = rec[who].box
      /\ b.env = BoxEnv[box]
      /\ rec[who].box \in {box, old} /\ BoxOf(b, rec)[who] \in {box, old}
  BY <1>1, <1>7, <1>8, OneProject
<1>10. box \in Boxes /\ rec[who].box \in Boxes
  BY <1>8, WantedInBoxes DEF Typed, LocksOK, IsLock
<1>11. BoxEnv[x] \in {BoxEnv[y] : y \in {box, old} \intersect Boxes}
  <2>1. BoxEnv[x] \in {b.env} \union {BoxEnv[m.from] : m \in Values(b.moves)}  BY PlayedEnvs
  <2>2. CASE BoxEnv[x] = b.env  BY <1>9, <1>10, <2>2
  <2>3. CASE BoxEnv[x] # b.env
    <3>1. PICK m \in Values(b.moves) : BoxEnv[x] = BoxEnv[m.from]  BY <2>1, <2>3
    <3>2. m.from = old /\ old \in Boxes  BY <1>9, <1>10, <3>1
    <3> QED  BY <3>1, <3>2
  <2> QED  BY <2>2, <2>3
<1>12. /\ x \notin {box, old}
       /\ \A s \in f.diff : Foreign(s, who) => x \notin StepRegions(s, services, want)
  BY <1>4, <1>7, <1>11 DEF Spared
<1>13. x # rec[who].box /\ x # BoxOf(b, rec)[who]  BY <1>9, <1>12
<1>14. ASSUME NEW n, Differs(At(Slice(services.entries, x), n), At(Slice(want.entries, x), n))
       PROVE  x \in LeftByResources(services.entries, want.entries)
  <2> DEFINE cur == services.entries
             new == want.entries
             M == NewAt(b, rec)
  <2>1. Members = There(rec)  BY DEF Members, There
  <2>2. Sides(n, Members, rec, Members, M, cur, new)
    <3>1. Staying = Members  BY DEF Staying
    <3>2. StaysOf(b, rec) = Members  BY <1>9, <2>1 DEF StaysOf
    <3>3. FileAt(new, Members, M)
      BY <1>3, <1>8, <1>9, <3>2, PlannedFile DEF Typed, InputsOK
    <3> QED  BY <3>1, <3>3 DEF Owned, FileAt, Sides
  <2>3. \A q \in Members : M[q].box = IF q = who THEN BoxOf(b, rec)[who] ELSE rec[q].box
    <3>1. \A q \in Members : M[q].box = BoxOf(b, rec)[q]  BY <1>9, <2>1 DEF NewAt
    <3>2. \A q \in Members : q # who => BoxOf(b, rec)[q] = rec[q].box  BY <1>9, <2>1 DEF BoxOf
    <3> QED  BY <3>1, <3>2
  <2> HIDE DEF M
  <2>4. /\ Differs(At(cur, n), At(new, n))
        /\ (n \in DOMAIN cur /\ x \in cur[n].regions) \/ (n \in DOMAIN new /\ x \in new[n].regions)
    BY <1>14, <2>2, SliceDiffers
  <2>5. PICK s \in f.diff : OwnStep(s, n)
    <3>1. PICK readable, seen : f.diff = Compared(want, readable, seen)  BY <1>6
    <3>2. n \in Names(cur, new)  BY <2>4 DEF Names
    <3>3. EntrySteps(n, readable, seen, At(cur, n), At(new, n)) \subseteq f.diff
      BY <3>1, <3>2, EntryIsCompared
    <3> QED  BY <2>4, <3>3, DifferenceIsSaid
  <2>6. /\ n \in DOMAIN cur /\ WhoOwns(n) # Nobody =>
             WhoOwns(n) \in Members /\ cur[n].regions = {rec[WhoOwns(n)].box}
        /\ n \in DOMAIN new /\ WhoOwns(n) # Nobody =>
             WhoOwns(n) \in Members /\ new[n].regions = {M[WhoOwns(n)].box}
    BY <2>2 DEF Sides, IsEntryAt
  <2>7. WhoOwns(n) # who
    <3>1. who # Nobody  BY <1>8, TomlsOfProjects
    <3> QED  BY <1>8, <1>13, <2>3, <2>4, <2>6, <3>1
  <2>8. Foreign(s, who)
    <3>1. who # Nobody  BY <1>8, TomlsOfProjects
    <3> QED  BY <2>5, <2>7, <3>1 DEF OwnStep, Foreign
  <2>9. x \notin StepRegions(s, services, want)  BY <1>12, <2>5, <2>8
  <2>10. n \in DOMAIN new /\ x \notin new[n].regions
    <3>1. CASE n \in DOMAIN new
      <4>1. At(new, n) = new[n] /\ new[n] # Absent  BY <2>2, <3>1, SidesKeys
      <4>2. StepRegions(s, services, want) = new[n].regions
        BY <2>5, <4>1, OwnStepRegions
      <4> QED  BY <2>9, <3>1, <4>2
    <3>2. CASE n \notin DOMAIN new
      <4>1. n \in DOMAIN cur /\ x \in cur[n].regions  BY <2>4, <3>2
      <4>2. At(new, n) = Absent /\ At(cur, n) = cur[n] /\ cur[n] # Absent  BY <2>2, <3>2, <4>1, SidesKeys
      <4>3. StepRegions(s, services, want) = cur[n].regions
        BY <2>5, <4>2, OwnStepRegions
      <4> QED  BY <2>9, <4>1, <4>3
    <3> QED  BY <3>1, <3>2
  <2>11. n \in DOMAIN cur /\ x \in cur[n].regions  BY <2>4, <2>10
  <2>12. WhoOwns(n) = Nobody
    BY <2>3, <2>6, <2>7, <2>10, <2>11
  <2> QED  BY <2>10, <2>11, <2>12 DEF LeftByResources
<1> QED  BY <1>9, <1>13, <1>14 DEF Outside

-----------------------------------------------------------------------------
(* What a plan names of what its file takes away. *)

LEMMA LostIsIn ==
    ASSUME NEW old, NEW new, NEW b \in Boxes, NEW n, NEW l,
           l \in LostItems(At(Slice(old, b), n), At(Slice(new, b), n))
    PROVE  <<b, n, l>> \in LostOn(old, new)
<1>1. n \in DOMAIN old
  <2>1. At(Slice(old, b), n) # Absent  BY DEF LostItems, Items
  <2> QED  BY <2>1, SliceAt
<1>2. <<b, n>> \in Boxes \X DOMAIN old  BY <1>1
<1>3. PICK x : x = <<b, n>>  OBVIOUS
<1>4. x[1] = b /\ x[2] = n /\ x \in Boxes \X DOMAIN old  BY <1>2, <1>3
<1>5. <<x[1], x[2], l>> \in {<<x[1], x[2], k>> : k \in LostItems(At(Slice(old, x[1]), x[2]), At(Slice(new, x[1]), x[2]))}
  BY <1>4
<1>6. <<x[1], x[2], l>> \in LostOn(old, new)  BY <1>4, <1>5 DEF LostOn
<1> QED  BY <1>4, <1>6

LEMMA LostIsOut ==
    ASSUME NEW old, NEW new, NEW y \in LostOn(old, new)
    PROVE  \E b \in Boxes, n \in DOMAIN old : \E l :
             y = <<b, n, l>> /\ l \in LostItems(At(Slice(old, b), n), At(Slice(new, b), n))
<1>1. PICK x \in Boxes \X DOMAIN old :
        y \in {<<x[1], x[2], l>> : l \in LostItems(At(Slice(old, x[1]), x[2]), At(Slice(new, x[1]), x[2]))}
  BY DEF LostOn
<1>2. PICK l \in LostItems(At(Slice(old, x[1]), x[2]), At(Slice(new, x[1]), x[2])) : y = <<x[1], x[2], l>>
  BY <1>1
<1> QED  BY <1>1, <1>2

\* The item an entry can lose, and what it takes to lose it.
LEMMA LostParts ==
    ASSUME NEW old, NEW new, old # Absent, new # Absent, NEW l \in LostItems(old, new)
    PROVE  \/ \E v \in DOMAIN old.vols \ DOMAIN new.vols : l[1] = "volume" /\ l[2] = v
           \/ /\ l[1] = "database" /\ l[2] = old.db.name /\ old.db # NoDb
              /\ new.db = NoDb \/ old.db.name # new.db.name \/ old.db.on # new.db.on
<1>1. /\ l \in {<<"container">>} \union {<<"volume", v>> : v \in DOMAIN old.vols}
               \union {<<"database", d.name, d.on>> : d \in {old.db} \ {NoDb}}
      /\ l \notin {<<"container">>}
      /\ l \notin {<<"volume", v>> : v \in DOMAIN new.vols}
      /\ l \notin {<<"database", d.name, d.on>> : d \in {new.db} \ {NoDb}}
  BY DEF LostItems, Items
<1>2. CASE l \in {<<"volume", v>> : v \in DOMAIN old.vols}
  <2>1. PICK v \in DOMAIN old.vols : l = <<"volume", v>>  BY <1>2
  <2>2. v \notin DOMAIN new.vols  BY <1>1, <2>1
  <2> QED  BY <2>1, <2>2
<1>3. CASE l \in {<<"database", d.name, d.on>> : d \in {old.db} \ {NoDb}}
  <2>1. old.db # NoDb /\ l = <<"database", old.db.name, old.db.on>>  BY <1>3
  <2>2. new.db # NoDb => <<"database", new.db.name, new.db.on>> # l  BY <1>1
  <2> QED  BY <2>1, <2>2
<1> QED  BY <1>1, <1>2, <1>3

\* The step of a container that names a lost volume or database.
LEMMA LostItemIsSaid ==
    ASSUME NEW n, NEW who, NEW seen, NEW running, NEW old, NEW new, old # Absent, new # Absent,
           NEW l \in LostItems(old, new)
    PROVE  \E s \in ContainerSteps(n, who, seen, running, old, new) :
             s.on = n /\ s.risk \in Risky /\ s.kind = l[1] /\ s.item = l[2]
<1>0. ContainerSteps(n, who, seen, running, old, new)
        = {Step("container", "update", "safe", n, n, who)}
          \union VolumeSteps(n, who, old, new)
          \union DatabaseSteps(n, who, old, new)
          \union SecretSteps(n, who, seen, running, old, new)
  BY DEF ContainerSteps
<1>1. CASE \E v \in DOMAIN old.vols \ DOMAIN new.vols : l[1] = "volume" /\ l[2] = v
  <2>1. PICK v \in DOMAIN old.vols \ DOMAIN new.vols : l[1] = "volume" /\ l[2] = v  BY <1>1
  <2>2. PICK action : Step("volume", action, "destructive", n, v, who) \in VolumeSteps(n, who, old, new)
    BY DEF VolumeSteps
  <2>3. PICK s : s = Step("volume", action, "destructive", n, v, who)  OBVIOUS
  <2>4. s.on = n /\ s.risk \in Risky /\ s.kind = "volume" /\ s.item = v  BY <2>3 DEF Step, Risky
  <2> QED  BY <1>0, <2>1, <2>2, <2>3, <2>4
<1>2. CASE /\ l[1] = "database" /\ l[2] = old.db.name /\ old.db # NoDb
           /\ new.db = NoDb \/ old.db.name # new.db.name \/ old.db.on # new.db.on
  <2>1. PICK action : Step("database", action, "destructive", n, old.db.name, who)
                        \in DatabaseSteps(n, who, old, new)
    BY <1>2 DEF DatabaseSteps
  <2>2. PICK s : s = Step("database", action, "destructive", n, old.db.name, who)  OBVIOUS
  <2>3. s.on = n /\ s.risk \in Risky /\ s.kind = "database" /\ s.item = old.db.name
    BY <2>2 DEF Step, Risky
  <2> QED  BY <1>0, <1>2, <2>1, <2>2, <2>3
<1> QED  BY <1>1, <1>2, LostParts

\* What a box loses of an entry is named by the steps of that entry, or the container
\* of a project moved to another box.
Moved(n, cur, new) == /\ n \in DOMAIN cur /\ n \in DOMAIN new /\ WhoOwns(n) # Nobody
                      /\ cur[n].regions # new[n].regions
LEMMA LossIsSaid ==
    ASSUME NEW n, NEW S, NEW L, NEW T, NEW M, NEW cur, NEW new, Sides(n, S, L, T, M, cur, new),
           NEW x, NEW l \in LostItems(At(Slice(cur, x), n), At(Slice(new, x), n)),
           NEW readable, NEW seen
    PROVE  \/ Named(EntrySteps(n, readable, seen, At(cur, n), At(new, n)), n, l)
           \/ Moved(n, cur, new)
<1> DEFINE E == At(cur, n)
           W == At(new, n)
           steps == EntrySteps(n, readable, seen, E, W)
<1>1. At(Slice(cur, x), n) # Absent  BY DEF LostItems, Items
<1>2. n \in DOMAIN cur /\ x \in cur[n].regions /\ At(Slice(cur, x), n) = E
  <2>1. n \in DOMAIN cur /\ x \in cur[n].regions /\ At(Slice(cur, x), n) = cur[n]
    BY <1>1, SliceAt
  <2> QED  BY <2>1, SidesKeys
<1>3. DOMAIN E = EntryKeys /\ E # Absent /\ E = cur[n]  BY <1>2, SidesKeys
<1>4. W = Absent \/ (n \in DOMAIN new /\ DOMAIN W = EntryKeys /\ W = new[n] /\ W # Absent)
  BY SidesKeys
<1>5. Differs(E, W)
  <2>1. CASE W = Absent  BY <1>3, <2>1, AbsentDiffers
  <2>2. CASE W # Absent
    <3>1. ASSUME ~Differs(E, W) PROVE FALSE
      <4>1. E.regions = W.regions /\ E.vols = W.vols /\ E.db = W.db
        BY <1>3, <1>4, <2>2, <3>1, DiffersParts
      <4>2. At(Slice(new, x), n) = W  BY <1>2, <1>3, <1>4, <2>2, <4>1, SliceAt
      <4>3. Items(W) = Items(E)  BY <1>3, <2>2, <4>1 DEF Items
      <4> QED  BY <1>2, <4>2, <4>3 DEF LostItems
    <3> QED  BY <3>1
  <2> QED  BY <2>1, <2>2
<1> HIDE DEF E, W
<1>6. CASE n \in Resources
  <2>1. steps = SharedStep("resource", n, E, W)  BY <1>5, <1>6 DEF EntrySteps
  <2>2. PICK s : s \in SharedStep("resource", n, E, W)  BY DEF SharedStep
  <2>3. s.on = n /\ s.risk \in Risky /\ s.kind = "resource"
    BY <2>2, SharedIsOwn DEF OwnStep
  <2> QED  BY <2>1, <2>2, <2>3 DEF Named, E, W
<1>7. CASE n \notin Resources /\ WhoOwns(n) = Nobody
  <2>1. steps = SharedStep("container", n, E, W)  BY <1>5, <1>7 DEF EntrySteps
  <2>2. PICK s : s \in SharedStep("container", n, E, W)  BY DEF SharedStep
  <2>3. s.on = n /\ s.risk \in Risky
    BY <2>2, SharedIsOwn DEF OwnStep
  <2> QED  BY <1>7, <2>1, <2>2, <2>3 DEF Named, E, W
<1>8. CASE n \notin Resources /\ WhoOwns(n) # Nobody
  <2>1. steps = ContainerSteps(n, WhoOwns(n), n \in readable, seen, E, W)
    BY <1>5, <1>8 DEF EntrySteps
  <2>2. CASE W = Absent
    <3>1. steps = {Step("container", "remove", "destructive", n, n, WhoOwns(n))}
      BY <1>3, <2>1, <2>2 DEF ContainerSteps
    <3>2. PICK s : s = Step("container", "remove", "destructive", n, n, WhoOwns(n))  OBVIOUS
    <3>3. s.on = n /\ s.risk \in Risky /\ s.kind = "container" /\ s.action = "remove"
      BY <3>2 DEF Step, Risky
    <3> QED  BY <3>1, <3>2, <3>3 DEF Named, E, W
  <2>3. CASE W # Absent
    <3>1. CASE x \in W.regions
      <4>1. At(Slice(new, x), n) = W  BY <1>4, <2>3, <3>1, SliceAt
      <4>2. PICK s \in steps : s.on = n /\ s.risk \in Risky /\ s.kind = l[1] /\ s.item = l[2]
        BY <1>2, <1>3, <2>1, <2>3, <4>1, LostItemIsSaid
      <4> QED  BY <4>2 DEF Named, E, W
    <3>2. CASE x \notin W.regions
      BY <1>2, <1>4, <1>8, <2>3, <3>2 DEF Moved
    <3> QED  BY <3>1, <3>2
  <2> QED  BY <2>2, <2>3
<1> QED  BY <1>6, <1>7, <1>8

LEMMA NamedMore ==
    ASSUME NEW some, NEW all, some \subseteq all, NEW n, NEW l, Named(some, n, l)
    PROVE  Named(all, n, l)
BY DEF Named

LEMMA MoveIsSaid ==
    ASSUME NEW who, NEW names, NEW fs, NEW n \in names, NEW f \in fs, n \in DOMAIN f.entries, NEW l
    PROVE  Named(MoveSteps(who, names, fs), n, l)
<1>1. PICK risk : risk = IF HasData(names, fs) THEN "destructive" ELSE "shared"  OBVIOUS
<1>2. PICK moved : moved = {c \in names : \E g \in fs : c \in DOMAIN g.entries}  OBVIOUS
<1>3. n \in moved  BY <1>2
<1>4. MoveSteps(who, names, fs) =
        {Step("move", "move", risk, who, who, who)}
        \union UNION {{Step("container", "remove", risk, c, c, who),
                       Step("container", "create", "safe", c, c, who)} : c \in moved}
  BY <1>1, <1>2 DEF MoveSteps
<1>5. PICK s : s = Step("container", "remove", risk, n, n, who)  OBVIOUS
<1>6. s \in MoveSteps(who, names, fs)  BY <1>3, <1>4, <1>5
<1>7. s.on = n /\ s.risk \in Risky /\ s.kind = "container" /\ s.action = "remove"
  BY <1>1, <1>5 DEF Step, Risky
<1> QED  BY <1>6, <1>7 DEF Named

NamesLosses(b, want, cur) ==
    \A y \in LostOn(cur.entries, want.entries) : Named(b.steps, y[2], y[3])

\* The two files a plan compares, entry by entry.
LEMMA PlanSides ==
    ASSUME Typed, Owned, up.pc = "idle", NEW b, IsBody(b), b.of \subseteq Members, NEW n
    PROVE  Sides(n, Members, rec, StaysOf(b, rec), NewAt(b, rec),
                 services.entries, FileOf(b, doc.work, rec).entries)
<1>1. Staying = Members  BY DEF Staying
<1>2. FileAt(FileOf(b, doc.work, rec).entries, StaysOf(b, rec), NewAt(b, rec))
  BY PlannedFile DEF Typed, InputsOK
<1> QED  BY <1>1, <1>2 DEF Owned, FileAt, Sides

\* Only a container of a project that moves goes to another box.
LEMMA WhoMoves ==
    ASSUME Typed, NEW b, IsBody(b), NEW n, NEW cur, NEW want,
           Sides(n, Members, rec, StaysOf(b, rec), NewAt(b, rec), cur, want), Moved(n, cur, want)
    PROVE  /\ b.kind = "up" /\ WhoOwns(n) \in DOMAIN b.moves
           /\ n \in DOMAIN Toml[WhoOwns(n)][rec[WhoOwns(n)].pin].entries
<1>1. PICK q : q = WhoOwns(n)  OBVIOUS
<1>2. Members = There(rec)  BY DEF Members, There
<1>3. /\ q \in Members /\ n \in DOMAIN Toml[q][rec[q].pin].entries /\ cur[n].regions = {rec[q].box}
      /\ q \in StaysOf(b, rec) /\ want[n].regions = {NewAt(b, rec)[q].box}
  BY <1>1 DEF Moved, Sides, IsEntryAt
<1>4. NewAt(b, rec)[q].box # rec[q].box  BY <1>3 DEF Moved
<1>5. b.kind = "up"  BY <1>2, <1>3, <1>4 DEF NewAt
<1>6. NewAt(b, rec)[q].box = BoxOf(b, rec)[q]  BY <1>2, <1>3, <1>5 DEF NewAt
<1>7. q \in DOMAIN b.moves  BY <1>2, <1>3, <1>4, <1>6 DEF BoxOf
<1> QED  BY <1>1, <1>3, <1>5, <1>7

LEMMA UpNames ==
    ASSUME Typed, Owned, up.pc = "idle", NEW r, NEW at, NEW read,
           NEW b, IsUpPlan(b, r, at, read), IsBody(b)
    PROVE  NamesLosses(b, FileOf(b, doc.work, rec), services)
<1>0. PICK f, of : f = FactsOf(r, at, read) /\ of = r.of \intersect Members  OBVIOUS
<1>1. PICK want : want = f.want  OBVIOUS
<1>2. FileOf(b, doc.work, rec) = want  BY <1>0, <1>1, UpFile
<1>3. /\ b.of = of /\ b.moves = MovesOf(of, at, r.data, want)
      /\ f.diff \subseteq b.steps /\ SaysMoves(b.steps, of, at, want)
  BY <1>0, <1>1 DEF IsUpPlan
<1>4. b.of \subseteq Members  BY <1>0, <1>3
<1>5. PICK readable, seen : f.diff = Compared(want, readable, seen)
  BY <1>0, <1>1, FactsFields DEF FactsOf
<1> SUFFICES ASSUME NEW y \in LostOn(services.entries, want.entries)
             PROVE  Named(b.steps, y[2], y[3])
  BY <1>2 DEF NamesLosses
<1>6. PICK x \in Boxes, n \in DOMAIN services.entries :
        \E l : y = <<x, n, l>> /\ l \in LostItems(At(Slice(services.entries, x), n), At(Slice(want.entries, x), n))
  BY LostIsOut
<1>7. PICK l : y = <<x, n, l>> /\ l \in LostItems(At(Slice(services.entries, x), n), At(Slice(want.entries, x), n))
  BY <1>6
<1>8. Sides(n, Members, rec, StaysOf(b, rec), NewAt(b, rec), services.entries, want.entries)
  BY <1>2, <1>4, PlanSides
<1>9. CASE Named(EntrySteps(n, readable, seen, At(services.entries, n), At(want.entries, n)), n, l)
  <2>1. n \in Names(services.entries, want.entries)  BY DEF Names
  <2>2. EntrySteps(n, readable, seen, At(services.entries, n), At(want.entries, n)) \subseteq b.steps
    BY <1>3, <1>5, <2>1, EntryIsCompared
  <2> QED  BY <1>7, <1>9, <2>2, NamedMore
<1>10. CASE Moved(n, services.entries, want.entries)
  <2>1. PICK q : q = WhoOwns(n)  OBVIOUS
  <2>2. q \in DOMAIN b.moves /\ n \in DOMAIN Toml[q][rec[q].pin].entries
    BY <1>8, <1>10, <2>1, WhoMoves
  <2>3. q \in Moving(of, at)  BY <1>3, <2>2 DEF MovesOf
  <2>4. n \in NamesOf(q, at[q])  BY <2>2 DEF NamesOf
  <2>5. Named(MoveSteps(q, NamesOf(q, at[q]), {services, want}), n, l)
    BY <2>4, MoveIsSaid
  <2>6. MoveSteps(q, NamesOf(q, at[q]), {services, want}) \subseteq b.steps
    BY <1>3, <2>3 DEF SaysMoves
  <2> QED  BY <1>7, <2>5, <2>6, NamedMore
<1> QED  BY <1>7, <1>8, <1>9, <1>10, LossIsSaid

LEMMA RoutesNames ==
    ASSUME Typed, Owned, up.pc = "idle", NEW r, NEW read, NEW b, b = RoutesBody(r, read), IsBody(b)
    PROVE  NamesLosses(b, FileOf(b, doc.work, rec), services)
<1>1. /\ b.kind = "routes" /\ b.of = {} /\ Compared(PinnedFleet(doc.work), {}, {}) \subseteq b.steps
  BY RoutesFields
<1>2. PICK want : want = PinnedFleet(doc.work)  OBVIOUS
<1>3. FileOf(b, doc.work, rec) = want  BY <1>1, <1>2, RoutesFile
<1> SUFFICES ASSUME NEW y \in LostOn(services.entries, want.entries)
             PROVE  Named(b.steps, y[2], y[3])
  BY <1>3 DEF NamesLosses
<1>6. PICK x \in Boxes, n \in DOMAIN services.entries :
        \E l : y = <<x, n, l>> /\ l \in LostItems(At(Slice(services.entries, x), n), At(Slice(want.entries, x), n))
  BY LostIsOut
<1>7. PICK l : y = <<x, n, l>> /\ l \in LostItems(At(Slice(services.entries, x), n), At(Slice(want.entries, x), n))
  BY <1>6
<1>8. Sides(n, Members, rec, StaysOf(b, rec), NewAt(b, rec), services.entries, want.entries)
  BY <1>1, <1>3, PlanSides
<1>9. ~Moved(n, services.entries, want.entries)
  BY <1>1, <1>8, WhoMoves
<1>10. Named(EntrySteps(n, {}, {}, At(services.entries, n), At(want.entries, n)), n, l)
  BY <1>7, <1>8, <1>9, LossIsSaid
<1>11. n \in Names(services.entries, want.entries)  BY DEF Names
<1>12. EntrySteps(n, {}, {}, At(services.entries, n), At(want.entries, n)) \subseteq b.steps
  BY <1>1, <1>2, <1>11, EntryIsCompared
<1> QED  BY <1>7, <1>10, <1>12, NamedMore

\* A removal that is not blocked changes no more than its containers, and names each
\* one the services file has.
LEMMA RemoveNames ==
    ASSUME Typed, Owned, up.pc = "idle", NEW p \in Members, NEW read, NEW remote,
           NEW b, b = RemoveBody(p, read, remote), IsBody(b), ~b.blocked
    PROVE  NamesLosses(b, FileOf(b, doc.work, rec), services)
<1>1. /\ b.kind = "remove" /\ b.of = {p}
      /\ \E running : RemoveSteps(p, running) \subseteq b.steps
      /\ ~ChangesMore(FleetWithout(p, doc.work), RemovedNames(p))
  BY RemoveFields
<1>2. PICK want : want = FleetWithout(p, doc.work)  OBVIOUS
<1>3. FileOf(b, doc.work, rec) = want  BY <1>1, <1>2, RemoveFile
<1>4. PICK running : RemoveSteps(p, running) \subseteq b.steps  BY <1>1
<1> SUFFICES ASSUME NEW y \in LostOn(services.entries, want.entries)
             PROVE  Named(b.steps, y[2], y[3])
  BY <1>3 DEF NamesLosses
<1>6. PICK x \in Boxes, n \in DOMAIN services.entries :
        \E l : y = <<x, n, l>> /\ l \in LostItems(At(Slice(services.entries, x), n), At(Slice(want.entries, x), n))
  BY LostIsOut
<1>7. PICK l : y = <<x, n, l>> /\ l \in LostItems(At(Slice(services.entries, x), n), At(Slice(want.entries, x), n))
  BY <1>6
<1>8. Sides(n, Members, rec, StaysOf(b, rec), NewAt(b, rec), services.entries, want.entries)
  BY <1>1, <1>3, PlanSides
<1>9. ~Moved(n, services.entries, want.entries)
  BY <1>1, <1>8, WhoMoves
<1>10. Named(EntrySteps(n, {}, {}, At(services.entries, n), At(want.entries, n)), n, l)
  BY <1>7, <1>8, <1>9, LossIsSaid
<1>11. PICK s \in EntrySteps(n, {}, {}, At(services.entries, n), At(want.entries, n)) : s.on = n
  BY <1>10 DEF Named
<1>12. s \in Compared(want, {}, {})
  <2>1. n \in Names(services.entries, want.entries)  BY DEF Names
  <2> QED  BY <1>11, <2>1, EntryIsCompared
<1>13. n \in RemovedNames(p)
  BY <1>1, <1>2, <1>11, <1>12 DEF ChangesMore
<1>14. n \in Held(RemovedNames(p), running)  BY <1>13 DEF Held
<1>15. PICK t : t = Step("container", "remove", "destructive", n, n, p)  OBVIOUS
<1>16. t \in b.steps  BY <1>4, <1>14, <1>15 DEF RemoveSteps
<1>17. t.on = n /\ t.risk \in Risky /\ t.kind = "container" /\ t.action = "remove"
  BY <1>15 DEF Step, Risky
<1> QED  BY <1>7, <1>16, <1>17 DEF Named

-----------------------------------------------------------------------------
(* What holds of the plan of a run. *)

\* Between the gate and the write nothing the plan was made of changes, but
\* bay.fleet.toml: up.doc is the one it read.
Gated(b, d, L, cur) == Covers(b, FileOf(b, d, L), L, cur) /\ NamesLosses(b, FileOf(b, d, L), cur)
GateKept == up.pc = "write" => Gated(Body, up.doc, rec, services)
\* A removal deploys the whole environment of the project it removes.
RemoveHome ==
    Run /\ Body.kind = "remove" => /\ Body.scope = Whole
                                   /\ \A p \in Body.of : Body.env = BoxEnv[rec[p].box]
PlanInv == Typed /\ Owned /\ GateKept /\ RemoveHome

LEMMA WholeCovers ==
    ASSUME NEW b, b.scope = Whole, NEW want, NEW L, NEW cur
    PROVE  Covers(b, want, L, cur)
BY DEF Covers, Whole, Deployed, EnvBoxes

LEMMA PlannedIsGated ==
    ASSUME Typed, Owned, up.pc = "idle", NEW b, Planned(b), ~b.blocked
    PROVE  Gated(b, doc.work, rec, services)
<1>0. IsBody(b)  BY PlannedIsBody
<1>1. CASE \E r, at, read : Asks(r) /\ r.of # {} /\ IsPins(at) /\ b = UpBody(r, at, read)
  <2>1. PICK r, at, read : Asks(r) /\ r.of # {} /\ IsPins(at) /\ b = UpBody(r, at, read)  BY <1>1
  <2>2. IsUpPlan(b, r, at, read)  BY <2>1, UpFields
  <2>3. Covers(b, FileOf(b, doc.work, rec), rec, services)  BY <1>0, <2>1, UpCovers
  <2>4. NamesLosses(b, FileOf(b, doc.work, rec), services)  BY <1>0, <2>2, UpNames
  <2> QED  BY <2>3, <2>4 DEF Gated
<1>2. CASE \E r, read : b = RoutesBody(r, read)
  <2>1. PICK r, read : b = RoutesBody(r, read)  BY <1>2
  <2>2. b.scope = Whole  BY <2>1, RoutesFields
  <2>3. Covers(b, FileOf(b, doc.work, rec), rec, services)  BY <2>2, WholeCovers
  <2>4. NamesLosses(b, FileOf(b, doc.work, rec), services)  BY <1>0, <2>1, RoutesNames
  <2> QED  BY <2>3, <2>4 DEF Gated
<1>3. CASE \E p, read, remote : p \in Members /\ b = RemoveBody(p, read, remote)
  <2>1. PICK p, read, remote : p \in Members /\ b = RemoveBody(p, read, remote)  BY <1>3
  <2>2. b.scope = Whole  BY <2>1, RemoveFields
  <2>3. Covers(b, FileOf(b, doc.work, rec), rec, services)  BY <2>2, WholeCovers
  <2>4. NamesLosses(b, FileOf(b, doc.work, rec), services)  BY <1>0, <2>1, RemoveNames
  <2> QED  BY <2>3, <2>4 DEF Gated
<1> QED  BY <1>1, <1>2, <1>3 DEF Planned

\* The run that starts is of the body that was saved.
LEMMA OpensBody ==
    ASSUME Typed, NEW body, Plans(body), Opens(body)
    PROVE  Body' = body /\ rec' = rec /\ services' = services
<1>1. PICK v : Save(body, v)  BY DEF Plans
<1>2. bodies'[IdOf(body)] = body  BY <1>1, SaveFacts DEF Typed, BodiesOK
<1> QED  BY <1>2 DEF Opens, Body, Plans, fleetVars

LEMMA GateStep ==
    ASSUME PlanInv, [Next]_vars
    PROVE  GateKept'
<1> SUFFICES ASSUME up'.pc = "write" PROVE Gated(Body, up.doc, rec, services)'
  BY DEF GateKept
<1>0. Typed /\ Owned /\ GateKept  BY DEF PlanInv
<1>1. Run' /\ ~Write
  <2>1. Write => up'.pc = "play"  BY <1>0, WriteStays
  <2> QED  BY <2>1 DEF Run
<1>2. CASE \E body : Plans(body) /\ Opens(body) /\ up.pc = "idle"
  <2>1. PICK body : Plans(body) /\ Opens(body) /\ up.pc = "idle"  BY <1>2
  <2>2. Body' = body /\ rec' = rec /\ services' = services  BY <1>0, <2>1, OpensBody
  <2>3. Gated(body, doc.work, rec, services)  BY <1>0, <2>1, PlannedIsGated DEF Plans, Opens
  <2>4. up'.doc = doc.work  BY <2>1 DEF Opens
  <2> QED  BY <2>2, <2>3, <2>4
<1>3. CASE /\ Run /\ up'.id = up.id /\ up'.doc = up.doc
           /\ up'.pc = up.pc \/ (up.pc = "play" /\ up'.pc = "record")
  <2>1. up.pc = "write" /\ ~Record  BY <1>3 DEF Record
  <2>2. Body' = Body  BY <1>0, <1>1, <1>3, BodyFrame
  <2>3. rec' = rec /\ services' = services  BY <1>0, <1>1, <2>1, LocksFrame, ServicesFrame
  <2>4. Gated(Body, up.doc, rec, services)  BY <1>0, <2>1 DEF GateKept
  <2> QED  BY <1>3, <2>2, <2>3, <2>4
<1> QED  BY <1>0, <1>1, <1>2, <1>3, UpFrame

LEMMA RemoveHomeStep ==
    ASSUME PlanInv, [Next]_vars
    PROVE  RemoveHome'
<1> SUFFICES ASSUME Run', Body'.kind = "remove"
             PROVE  /\ Body'.scope = Whole
                    /\ \A p \in Body'.of : Body'.env = BoxEnv[rec'[p].box]
  BY DEF RemoveHome
<1>0. Typed /\ RemoveHome  BY DEF PlanInv
<1>1. CASE Write
  <2>1. Body' = Body  BY <1>0, <1>1, WriteStays
  <2>2. up.pc = "write" /\ Run /\ rec' = Writes(doc.work)[1]  BY <1>1 DEF Write, Run
  <2>3. PICK L : L = [p \in Projects |-> IF p \in Body.of THEN [rec[p] EXCEPT !.result = "pending", !.plan = up.id]
                                         ELSE rec[p]]  OBVIOUS
  <2>4. Writes(doc.work) = RemoveWrites(doc.work)  BY <2>1 DEF Writes
  <2>5. rec' = L
    <3>1. PICK stay : stay = Members \ Body.of  OBVIOUS
    <3>2. RemoveWrites(doc.work) = <<L, CompileFleet(doc.work, [p \in stay |-> rec[p].pin], [p \in stay |-> rec[p].box])>>
      BY <2>3, <3>1 DEF RemoveWrites
    <3> QED  BY <2>2, <2>4, <3>2
  <2>6. \A p \in Body.of : p \in Members /\ IsLock(p, rec[p])
    BY <1>0, <2>2 DEF Typed, RunOK, LocksOK
  <2>7. \A p \in Body.of : rec'[p].box = rec[p].box
    BY <2>3, <2>5, <2>6 DEF IsLock, LockKeys, Members
  <2> QED  BY <1>0, <2>1, <2>2, <2>7 DEF RemoveHome
<1>2. CASE ~Write /\ \E body : Plans(body) /\ Opens(body) /\ up.pc = "idle"
  <2>1. PICK body : Plans(body) /\ Opens(body)  BY <1>2
  <2>2. Body' = body /\ rec' = rec  BY <1>0, <2>1, OpensBody
  <2>3. \E p, read, remote : p \in Members /\ body = RemoveBody(p, read, remote)
    <3>1. \A r, read : RoutesBody(r, read).kind = "routes"  BY RoutesFields
    <3>2. \A r, at, read : UpBody(r, at, read).kind = "up"
      <4>1. \A r, at, read : IsUpPlan(UpBody(r, at, read), r, at, read)  BY UpFields
      <4> QED  BY <4>1 DEF IsUpPlan
    <3>3. body.kind = "remove" /\ Planned(body)  BY <2>1, <2>2 DEF Plans
    <3> QED  BY <3>1, <3>2, <3>3 DEF Planned
  <2>4. PICK p, read, remote : body = RemoveBody(p, read, remote)  BY <2>3
  <2>5. body.of = {p} /\ body.scope = Whole /\ body.env = BoxEnv[rec[p].box]  BY <2>4, RemoveFields
  <2> QED  BY <2>2, <2>5
<1>3. CASE /\ ~Write /\ Run /\ up'.id = up.id
  <2>1. ~Record  BY DEF Record, Run, Idle
  <2>2. Body' = Body  BY <1>0, <1>3, BodyFrame
  <2>3. rec' = rec  BY <1>0, <1>3, <2>1, LocksFrame
  <2> QED  BY <1>0, <1>3, <2>2, <2>3 DEF RemoveHome
<1> QED  BY <1>0, <1>1, <1>2, <1>3, UpFrame

LEMMA PlanInvInit == Init => PlanInv
<1>1. Init => GateKept /\ RemoveHome  BY DEF Init, Idle, GateKept, RemoveHome, Run
<1> QED  BY <1>1, TypedInit, OwnedInit DEF PlanInv
LEMMA PlanInvStep == PlanInv /\ [Next]_vars => PlanInv'
<1> SUFFICES ASSUME PlanInv, [Next]_vars PROVE PlanInv'  OBVIOUS
<1>1. Typed /\ Owned  BY DEF PlanInv
<1>2. Typed'  BY <1>1, LocksStep, InputsStep, BodiesStep, RunStep DEF Typed
<1>3. Owned'  BY <1>1, OwnedStep
<1> QED  BY <1>2, <1>3, GateStep, RemoveHomeStep DEF PlanInv

-----------------------------------------------------------------------------
(* The boxes a deploy still has to reach, and those it left behind. *)

Rest == SubSeq(up.envs, 2, Len(up.envs))
Waits(b) == /\ up.pc = "play"
            /\ b \in up.left \/ \E e \in Values(Rest) : b \in Deployed(Body.scope, e)
PlaysOK == /\ up.pc = "play" => \E S : up.envs \in Seq(S)
           /\ DOMAIN live = Boxes

LEMMA RestOf ==
    ASSUME NEW S, NEW s \in Seq(S), NEW t, t = SubSeq(s, 2, Len(s))
    PROVE  /\ t \in Seq(S)
           /\ t = <<>> => Values(t) = {}
           /\ \A e \in Values(s) : e = s[1] \/ e \in Values(t)
<1>0. Len(s) \in Nat /\ DOMAIN s = 1..Len(s)  OBVIOUS
<1>1. CASE Len(s) = 0
  <2>1. t = <<>>  BY <1>1
  <2> QED  BY <1>0, <1>1, <2>1 DEF Values
<1>2. CASE Len(s) > 0
  <2>1. 2 \in 1..(Len(s) + 1) /\ Len(s) \in (2 - 1)..Len(s) /\ Len(s) - 2 + 1 = Len(s) - 1
    BY <1>0, <1>2
  <2>2. /\ t \in Seq(S) /\ Len(t) = Len(s) - 1
        /\ \A i \in 1..(Len(s) - 1) : t[i] = s[2 + i - 1]
    BY <2>1, SubSeqProperties
  <2>3. ASSUME NEW e \in Values(s) PROVE e = s[1] \/ e \in Values(t)
    <3>1. PICK i \in 1..Len(s) : e = s[i]  BY <1>0 DEF Values
    <3>2. CASE i = 1  BY <3>1, <3>2
    <3>3. CASE i # 1
      <4>1. i - 1 \in 1..(Len(s) - 1) /\ 2 + (i - 1) - 1 = i  BY <1>0, <3>3
      <4>2. t[i - 1] = s[i] /\ i - 1 \in DOMAIN t  BY <2>2, <4>1
      <4> QED  BY <3>1, <4>2 DEF Values
    <3> QED  BY <3>2, <3>3
  <2> QED  BY <2>2, <2>3 DEF Values
<1> QED  BY <1>0, <1>1, <1>2

\* Nothing but the playbook changes what a deploy has still to reach.
LEMMA PlayFrame ==
    ASSUME Typed, [Next]_vars, up.pc = "play", ~Play, ~NextEnv, ~Kill
    PROVE  /\ up'.pc = "play" /\ up'.left = up.left /\ up'.envs = up.envs /\ up'.id = up.id
           /\ Body' = Body
<1>0. Run /\ DOMAIN up = RunKeys  BY DEF Typed, RunOK, Run
<1>1. /\ up'.pc = "play" /\ up'.left = up.left /\ up'.envs = up.envs /\ up'.id = up.id
  <2>1. CASE MakePlan \/ Start
    <3>1. PICK body : Plans(body)  BY <2>1, PlanningStep
    <3>2. up' = up  BY <3>1 DEF Plans
    <3> QED  BY <3>2
  <2>2. CASE \E p \in Projects : HookBuild(p)
    <3>1. PICK p : up' = IF up.pc = "idle" THEN up ELSE [up EXCEPT !.built = @ \union {p}]
      BY <2>2 DEF HookBuild
    <3> QED  BY <1>0, <3>1 DEF RunKeys
  <2>3. ~Write /\ ~Undo /\ ~Record  BY DEF Write, Undo, Record
  <2>4. CASE (\E p \in Projects : PushApp(p)) \/ EditDoc \/ CommitDoc \/ \E i \in DOMAIN files : Approve(i)
    <3>1. up' = up  BY <2>4 DEF PushApp, EditDoc, CommitDoc, Approve
    <3> QED  BY <3>1
  <2>5. CASE UNCHANGED vars
    <3>1. up' = up  BY <2>5 DEF vars
    <3> QED  BY <3>1
  <2> QED  BY <2>1, <2>2, <2>3, <2>4, <2>5 DEF Next
<1>2. Run'  BY <1>1 DEF Run
<1> QED  BY <1>0, <1>1, <1>2, BodyFrame

\* What the playbook does to one box.
LEMMA PlayBox ==
    ASSUME Typed, PlaysOK, NEW x \in Boxes, PlayOk(x) \/ PlayFails(x)
    PROVE  /\ up.pc = "play" /\ x \in up.left
           /\ up'.pc = "play" /\ up'.left = up.left \ {x} /\ up'.envs = up.envs /\ Body' = Body
           /\ DOMAIN live' = Boxes /\ \A b \in Boxes : b # x => live'[b] = live[b]
           /\ \/ live'[x] = Slice(services.entries, x)
              \/ x \in Behind'
           /\ \A b \in Boxes : b # x /\ b \in Behind => b \in Behind'
           /\ \A n \in DOMAIN live'[x] :
                \/ n \in DOMAIN live[x] /\ live'[x][n] = live[x][n]
                \/ /\ n \in DOMAIN Slice(services.entries, x)
                   /\ live'[x][n] = Slice(services.entries, x)[n]
           /\ \A n \in DOMAIN live[x] \ DOMAIN live'[x] : n \notin DOMAIN Slice(services.entries, x)
<1> DEFINE new == Slice(services.entries, x)
<1>1. up.pc = "play" /\ x \in up.left  BY DEF PlayOk, PlayFails
<1>2. DOMAIN up = RunKeys /\ DOMAIN live = Boxes  BY <1>1 DEF Typed, RunOK, Run, PlaysOK
<1>3. /\ up'.pc = "play" /\ up'.left = up.left \ {x} /\ up'.envs = up.envs /\ up'.id = up.id
  <2>1. up' = [up EXCEPT !.left = @ \ {x}] \/ up' = [up EXCEPT !.left = @ \ {x}, !.failed = TRUE]
    BY DEF PlayOk, PlayFails, PlayDone
  <2> QED  BY <1>1, <1>2, <2>1 DEF RunKeys
<1>4. Body' = Body  BY <1>3 DEF PlayOk, PlayFails, planVars, Body
<1>5. CASE PlayOk(x)
  <2>1. live' = [live EXCEPT ![x] = new]  BY <1>5 DEF PlayOk
  <2>2. missed' = {y \in missed : y[1] # x}  BY <1>5 DEF PlayOk
  <2>3. live'[x] = new /\ DOMAIN live' = Boxes /\ \A b \in Boxes : b # x => live'[b] = live[b]
    BY <1>2, <2>1
  <2>4. \A b \in Boxes : b # x /\ b \in Behind => b \in Behind'  BY <2>2 DEF Behind
  <2> HIDE DEF new
  <2> QED  BY <1>1, <1>3, <1>4, <2>3, <2>4 DEF new
<1>6. CASE PlayFails(x)
  <2>1. PICK done : /\ done \subseteq {n \in Names(live[x], new) : At(live[x], n) # At(new, n)}
                    /\ live' = [live EXCEPT ![x] =
                         [n \in (DOMAIN live[x] \ (done \ DOMAIN new)) \union (done \intersect DOMAIN new) |->
                            IF n \in done THEN new[n] ELSE live[x][n]]]
    BY <1>6 DEF PlayFails
  <2> HIDE DEF new
  <2>2. PICK after : after = [n \in (DOMAIN live[x] \ (done \ DOMAIN new)) \union (done \intersect DOMAIN new) |->
              IF n \in done THEN new[n] ELSE live[x][n]]
    OBVIOUS
  <2>3. live'[x] = after /\ DOMAIN live' = Boxes /\ \A b \in Boxes : b # x => live'[b] = live[b]
    BY <1>2, <2>1, <2>2
  <2>4. missed' = missed \union Misses({x})  BY <1>6 DEF PlayFails
  <2>5. <<x, Body.of>> \in missed'  BY <2>4 DEF Misses
  <2>6. x \in Behind' /\ \A b \in Boxes : b \in Behind => b \in Behind'
    BY <2>4, <2>5 DEF Behind
  <2>7. \A n \in DOMAIN after : \/ n \in DOMAIN live[x] /\ after[n] = live[x][n]
                                \/ n \in DOMAIN new /\ after[n] = new[n]
    BY <2>2
  <2>8. \A n \in DOMAIN live[x] \ DOMAIN after : n \notin DOMAIN new
    BY <2>2
  <2> QED  BY <1>1, <1>3, <1>4, <2>3, <2>6, <2>7, <2>8 DEF new
<1> QED  BY <1>5, <1>6

LEMMA PlaysStep ==
    ASSUME Typed, PlaysOK, [Next]_vars
    PROVE  PlaysOK'
<1>0. DOMAIN live = Boxes  BY DEF PlaysOK
<1>1. CASE Write
  <2>1. up.pc = "write" /\ DOMAIN up = RunKeys /\ live' = live
    BY <1>1 DEF Write, Typed, RunOK, Run, boxVars
  <2>2. up' = [up EXCEPT !.pc = "play", !.commit = head + 1, !.envs = EnvOrder(Body),
                         !.left = Deployed(Body.scope, Body.env)]
    BY <1>1 DEF Write
  <2>3. up'.envs = EnvOrder(Body)  BY <2>1, <2>2 DEF RunKeys
  <2>4. EnvOrder(Body) \in Seq(Values(EnvOrder(Body)))  BY PlayedEnvs
  <2> QED  BY <1>0, <2>1, <2>3, <2>4 DEF PlaysOK
<1>2. CASE Play
  <2>1. PICK x \in Boxes : PlayOk(x) \/ PlayFails(x)  BY <1>2 DEF Play
  <2>2. up.pc = "play" /\ up'.envs = up.envs /\ DOMAIN live' = Boxes  BY <2>1, PlayBox
  <2> QED  BY <2>2 DEF PlaysOK
<1>3. CASE NextEnv
  <2>1. live' = live /\ up.pc = "play" /\ DOMAIN up = RunKeys
    BY <1>3 DEF NextEnv, boxVars, Typed, RunOK, Run
  <2>2. PICK rest : rest = SubSeq(up.envs, 2, Len(up.envs))  OBVIOUS
  <2>3. \/ \E unread : up' = [up EXCEPT !.pc = "record", !.unread = unread]
        \/ up' = [up EXCEPT !.envs = rest, !.left = Deployed(Body.scope, rest[1])]
    BY <1>3, <2>2 DEF NextEnv
  <2>4. up'.pc = "record" \/ up'.envs = rest  BY <2>1, <2>3 DEF RunKeys
  <2>5. \E S : rest \in Seq(S)  BY <2>1, <2>2, RestOf DEF PlaysOK
  <2> QED  BY <1>0, <2>1, <2>4, <2>5 DEF PlaysOK
<1>4. CASE ~Write /\ ~Play /\ ~NextEnv
  <2>1. live' = live  BY <1>4, LiveFrame
  <2>2. ASSUME up'.pc = "play" PROVE \E S : up'.envs \in Seq(S)
    <3>1. Run' /\ ~Kill  BY <2>2 DEF Run, Kill, Idle
    <3>2. up.pc = "play"  BY <1>4, <2>2, <3>1, UpFrame DEF Opens
    <3>3. up'.envs = up.envs  BY <1>4, <3>1, <3>2, PlayFrame
    <3> QED  BY <3>2, <3>3 DEF PlaysOK
  <2> QED  BY <1>0, <2>1, <2>2 DEF PlaysOK
<1> QED  BY <1>1, <1>2, <1>3, <1>4

\* After the write, every box of the scope waits for the playbook.
LEMMA WaitsWrite ==
    ASSUME Typed, Write, NEW b, ~Waits(b)', NEW e \in Values(EnvOrder(Body))
    PROVE  b \notin Deployed(Body.scope, e)
<1>1. up.pc = "write" /\ DOMAIN up = RunKeys  BY DEF Write, Typed, RunOK, Run
<1>2. up' = [up EXCEPT !.pc = "play", !.commit = head + 1, !.envs = EnvOrder(Body),
                       !.left = Deployed(Body.scope, Body.env)]
  BY DEF Write
<1>3. /\ up'.pc = "play" /\ up'.envs = EnvOrder(Body) /\ up'.left = Deployed(Body.scope, Body.env)
      /\ Body' = Body
  BY <1>1, <1>2, WriteStays DEF RunKeys
<1>4. PICK envs, rest : envs = EnvOrder(Body) /\ rest = SubSeq(envs, 2, Len(envs))  OBVIOUS
<1>5. envs \in Seq(Values(envs)) /\ envs[1] = Body.env  BY <1>4, PlayedEnvs
<1>6. e = Body.env \/ e \in Values(rest)
  <2>1. e \in Values(envs)  BY <1>4
  <2> QED  BY <1>4, <1>5, <2>1, RestOf
<1>7. Rest' = rest  BY <1>3, <1>4 DEF Rest
<1> QED  BY <1>3, <1>6, <1>7 DEF Waits

\* A box no run left behind waits for the playbook, just got its slice of the services
\* file, or is as it was.
LEMMA BehindStep ==
    ASSUME Typed, PlaysOK, [Next]_vars, ~Write, NEW b \in Boxes, b \notin Behind'
    PROVE  \/ Waits(b)'
           \/ live'[b] = Slice(services.entries, b)
           \/ b \notin Behind /\ ~Waits(b) /\ live'[b] = live[b]
<1>1. CASE Play
  <2>1. PICK x \in Boxes : PlayOk(x) \/ PlayFails(x)  BY <1>1 DEF Play
  <2>2. /\ up.pc = "play" /\ x \in up.left
        /\ up'.pc = "play" /\ up'.left = up.left \ {x} /\ up'.envs = up.envs /\ Body' = Body
        /\ b # x => live'[b] = live[b]
        /\ live'[x] = Slice(services.entries, x) \/ x \in Behind'
        /\ b # x /\ b \in Behind => b \in Behind'
    BY <2>1, PlayBox
  <2>3. Rest' = Rest  BY <2>2 DEF Rest
  <2>4. b # x /\ Waits(b) => Waits(b)'  BY <2>2, <2>3 DEF Waits
  <2> QED  BY <2>2, <2>4
<1>2. CASE NextEnv
  <2>0. DOMAIN up = RunKeys  BY <1>2 DEF NextEnv, Typed, RunOK, Run
  <2>1. live' = live /\ up.pc = "play" /\ up.left = {} /\ bodies' = bodies
    BY <1>2 DEF NextEnv, boxVars, planVars
  <2>2. PICK rest : rest = SubSeq(up.envs, 2, Len(up.envs))  OBVIOUS
  <2>3. PICK S : rest \in Seq(S)  BY <2>1, <2>2, RestOf DEF PlaysOK
  <2>4. Waits(b) => \E e \in Values(rest) : b \in Deployed(Body.scope, e)
    BY <2>1, <2>2 DEF Waits, Rest
  <2>5. CASE up.failed \/ rest = <<>>
    <3>1. missed' = missed \union Misses(UNION {Deployed(Body.scope, e) : e \in Values(rest)})
      BY <1>2, <2>2, <2>5 DEF NextEnv
    <3>2. b \notin Behind  BY <3>1 DEF Behind
    <3>3. ~Waits(b)
      <4>1. ASSUME Waits(b) PROVE FALSE
        <5>1. b \in UNION {Deployed(Body.scope, e) : e \in Values(rest)}  BY <2>4, <4>1
        <5>2. <<b, Body.of>> \in missed'  BY <3>1, <5>1 DEF Misses
        <5> QED  BY <5>2 DEF Behind
      <4> QED  BY <4>1
    <3> QED  BY <2>1, <3>2, <3>3
  <2>6. CASE ~(up.failed \/ rest = <<>>)
    <3>1. /\ up' = [up EXCEPT !.envs = rest, !.left = Deployed(Body.scope, rest[1])]
          /\ missed' = missed
      BY <1>2, <2>2, <2>6 DEF NextEnv
    <3>2. /\ up'.pc = "play" /\ up'.envs = rest /\ up'.left = Deployed(Body.scope, rest[1])
          /\ up'.id = up.id
      BY <2>0, <2>1, <3>1 DEF RunKeys
    <3>3. Body' = Body  BY <2>1, <3>2 DEF Body
    <3>4. PICK rest2 : rest2 = SubSeq(rest, 2, Len(rest))  OBVIOUS
    <3>5. Rest' = rest2  BY <3>2, <3>4 DEF Rest
    <3>6. \A e \in Values(rest) : e = rest[1] \/ e \in Values(rest2)
      BY <2>3, <3>4, RestOf
    <3>7. Waits(b) => Waits(b)'
      BY <2>4, <3>2, <3>3, <3>5, <3>6 DEF Waits
    <3> QED  BY <2>1, <3>1, <3>7 DEF Behind
  <2> QED  BY <2>5, <2>6
<1>3. CASE Kill
  <2>1. PICK rest : rest = SubSeq(up.envs, 2, Len(up.envs))  OBVIOUS
  <2>2. PICK far : far = UNION {Deployed(Body.scope, e) : e \in Values(rest)}  OBVIOUS
  <2>3. missed' = missed \union Misses(up.left \union far) /\ live' = live
    BY <1>3, <2>1, <2>2 DEF Kill, boxVars
  <2>4. b \notin Behind  BY <2>3 DEF Behind
  <2>5. ~Waits(b)
    <3>1. ASSUME Waits(b) PROVE FALSE
      <4>1. b \in up.left \union far  BY <2>1, <2>2, <3>1 DEF Waits, Rest
      <4>2. <<b, Body.of>> \in missed'  BY <2>3, <4>1 DEF Misses
      <4> QED  BY <4>2 DEF Behind
    <3> QED  BY <3>1
  <2> QED  BY <2>3, <2>4, <2>5
<1>4. CASE ~Play /\ ~NextEnv /\ ~Kill
  <2>1. missed' = missed /\ live' = live  BY <1>4, HistoryFrame, LiveFrame
  <2>2. Waits(b) => Waits(b)'
    <3>1. ASSUME Waits(b) PROVE Waits(b)'
      <4>1. up.pc = "play"  BY <3>1 DEF Waits
      <4>2. /\ up'.pc = "play" /\ up'.left = up.left /\ up'.envs = up.envs /\ Body' = Body
        BY <1>4, <4>1, PlayFrame
      <4> QED  BY <3>1, <4>2 DEF Waits, Rest
    <3> QED  BY <3>1
  <2> QED  BY <2>1, <2>2 DEF Behind
<1> QED  BY <1>1, <1>2, <1>3, <1>4

-----------------------------------------------------------------------------
(* What the boxes run. *)

\* A container of a project is only where the services file has it.
KeptTo(b) == \A n \in DOMAIN live[b] : WhoOwns(n) = Nobody \/ n \in DOMAIN Slice(services.entries, b)
NoStray == \A b \in Boxes \ Behind : Waits(b) \/ KeptTo(b)
Covered == ~raced => \A b \in Boxes \ Behind : Waits(b) \/ Runs(b)
\* What a box would lose by the services file was named.
Accounted ==
    \A b \in Boxes : \A n \in DOMAIN live[b] :
        \A l \in LostItems(live[b][n], At(Slice(services.entries, b), n)) : <<b, n, l>> \in granted

LEMMA WriteMisses ==
    ASSUME Write, NEW b \in Boxes, b \notin Behind'
    PROVE  /\ b \notin Behind
           /\ b \notin LeftByResources(services.entries, services'.entries)
           /\ \/ BoxEnv[b] \in Values(EnvOrder(Body))
              \/ Slice(services'.entries, b) = Slice(services.entries, b)
<1>1. PICK want : want = Writes(doc.work)[2]  OBVIOUS
<1>2. PICK out : out = LeftByResources(services.entries, want.entries)
         \union {x \in Boxes : BoxEnv[x] \notin Values(EnvOrder(Body))
                               /\ Slice(want.entries, x) # Slice(services.entries, x)}
  OBVIOUS
<1>3. missed' = missed \union Misses(out) /\ services' = want
  BY <1>1, <1>2 DEF Write
<1>4. b \notin Behind  BY <1>3 DEF Behind
<1>5. b \notin out
  <2>1. ASSUME b \in out PROVE FALSE
    <3>1. <<b, Body.of>> \in missed'  BY <1>3, <2>1 DEF Misses
    <3> QED  BY <3>1 DEF Behind
  <2> QED  BY <2>1
<1> QED  BY <1>2, <1>3, <1>4, <1>5

\* What the run of an up plan writes in a lock of somebody else: nothing.
LEMMA OtherLocks ==
    ASSUME Typed, Write, Body.kind = "up", NEW q \in Members, q \notin Body.of
    PROVE  rec'[q] = rec[q]
<1>1. PICK L : L = [p \in Projects |-> IF p \in Body.of THEN Pending(p, Body) ELSE rec[p]]  OBVIOUS
<1>2. Writes(doc.work) = UpWrites(doc.work) /\ rec' = Writes(doc.work)[1]  BY DEF Write, Writes
<1>3. PICK pins, boxes : pins = [p \in Members |-> L[p].pin] /\ boxes = [p \in Members |-> L[p].box]
  OBVIOUS
<1>4. UpWrites(doc.work) = <<L, CompileFleet(doc.work, pins, boxes)>>
  BY <1>1, <1>3 DEF UpWrites
<1>5. rec' = L  BY <1>2, <1>4
<1> QED  BY <1>1, <1>5 DEF Members

LEMMA NoStrayStep ==
    ASSUME PlanInv, PlaysOK, NoStray, [Next]_vars
    PROVE  NoStray'
<1>0. Typed /\ Owned /\ GateKept  BY DEF PlanInv
<1> SUFFICES ASSUME NEW b \in Boxes, b \notin Behind', ~Waits(b)'
             PROVE  KeptTo(b)'
  BY DEF NoStray
<1>1. CASE ~Write
  <2>1. services' = services  BY <1>0, <1>1, ServicesFrame
  <2>2. CASE live'[b] = Slice(services.entries, b)
    BY <2>1, <2>2 DEF KeptTo
  <2>3. CASE b \notin Behind /\ ~Waits(b) /\ live'[b] = live[b]
    <3>1. KeptTo(b)  BY <2>3 DEF NoStray
    <3> QED  BY <2>1, <2>3, <3>1 DEF KeptTo
  <2> QED  BY <1>0, <1>1, <2>2, <2>3, BehindStep
<1>2. CASE Write
  <2>1. up.pc = "write" /\ live' = live /\ doc.work \in DOMAIN Docs
    BY <1>0, <1>2 DEF Write, boxVars, Typed, InputsOK
  <2>2. KeptTo(b)
    <3>1. ~Waits(b)  BY <2>1 DEF Waits
    <3>2. b \notin Behind  BY <1>2, WriteMisses
    <3> QED  BY <3>1, <3>2 DEF NoStray
  <2>3. CASE Slice(services'.entries, b) = Slice(services.entries, b)
    BY <2>1, <2>2, <2>3 DEF KeptTo
  <2>4. CASE BoxEnv[b] \in Values(EnvOrder(Body))
    <3>1. b \notin Deployed(Body.scope, BoxEnv[b])  BY <1>0, <1>2, <2>4, WaitsWrite
    <3>2. Outside(Body, b, FileOf(Body, up.doc, rec), rec, services)
      BY <1>0, <2>1, <2>4, <3>1 DEF GateKept, Gated, Covers
    <3>3. PICK who : Body.kind = "up" /\ Body.of = {who} /\ b # rec[who].box
      BY <3>2 DEF Outside
    <3>4. FileAt(services'.entries, Members, rec')
      <4>1. rec' = Writes(doc.work)[1] /\ services' = Writes(doc.work)[2]  BY <1>2 DEF Write
      <4>2. Stays = Members  BY <3>3 DEF Stays
      <4> QED  BY <1>0, <2>1, <4>1, <4>2, WrittenFile
    <3>5. Staying = Members  BY <2>1 DEF Staying
    <3>6. ASSUME NEW n \in DOMAIN live[b], WhoOwns(n) # Nobody
          PROVE  n \in DOMAIN Slice(services'.entries, b)
      <4>1. PICK q : q = WhoOwns(n)  OBVIOUS
      <4>2. n \in DOMAIN services.entries /\ b \in services.entries[n].regions
        BY <2>2, <3>6 DEF KeptTo, Slice
      <4>3. /\ q \in Members /\ n \in DOMAIN Toml[q][rec[q].pin].entries
            /\ services.entries[n].regions = {rec[q].box}
        BY <1>0, <3>5, <3>6, <4>1, <4>2 DEF Owned, IsEntryAt
      <4>4. b = rec[q].box /\ q \notin Body.of  BY <3>3, <4>2, <4>3
      <4>5. rec'[q] = rec[q]  BY <1>0, <1>2, <3>3, <4>3, <4>4, OtherLocks
      <4>6. n \in DOMAIN services'.entries  BY <3>4, <4>3, <4>5 DEF FileAt, HasAll
      <4>7. services'.entries[n].regions = {b}
        BY <3>4, <3>6, <4>1, <4>4, <4>5, <4>6 DEF FileAt, IsEntryAt
      <4> QED  BY <4>6, <4>7 DEF Slice
    <3> QED  BY <2>1, <3>6 DEF KeptTo
  <2> QED  BY <1>2, <2>3, <2>4, WriteMisses
<1> QED  BY <1>1, <1>2

-----------------------------------------------------------------------------
(* The scope covers what a run changes. *)

\* Equal up to the hold of a build, which is transitive.
LEMMA DiffersChain ==
    ASSUME NEW x, NEW y, NEW z, ~Differs(x, y), ~Differs(y, z)
    PROVE  ~Differs(x, z)
BY DEF Differs, HoldOnly

LEMMA RunsAll ==
    ASSUME NEW b
    PROVE  Runs(b) <=> \A n : ~Differs(At(live[b], n), At(Slice(services.entries, b), n))
<1>1. ASSUME NEW n, n \notin Names(live[b], Slice(services.entries, b))
      PROVE  ~Differs(At(live[b], n), At(Slice(services.entries, b), n))
  BY <1>1 DEF Names, At, Differs
<1> QED  BY <1>1 DEF Runs

LEMMA CoveredStep ==
    ASSUME PlanInv, PlaysOK, Covered, [Next]_vars
    PROVE  Covered'
<1>0. Typed /\ Owned /\ GateKept  BY DEF PlanInv
<1> SUFFICES ASSUME ~raced', NEW b \in Boxes, b \notin Behind', ~Waits(b)'
             PROVE  Runs(b)'
  BY DEF Covered
<1> DEFINE file == Slice(services.entries, b)
<1>1. CASE ~Write
  <2>1. services' = services /\ raced' = raced  BY <1>0, <1>1, ServicesFrame, HistoryFrame
  <2>2. CASE live'[b] = file
    <3>1. \A e : ~Differs(e, e)  BY DEF Differs
    <3> QED  BY <2>1, <2>2, <3>1 DEF Runs
  <2>3. CASE b \notin Behind /\ ~Waits(b) /\ live'[b] = live[b]
    <3>1. Runs(b)  BY <2>1, <2>3 DEF Covered
    <3> QED  BY <2>1, <2>3, <3>1 DEF Runs
  <2> QED  BY <1>0, <1>1, <2>2, <2>3, BehindStep
<1>2. CASE Write
  <2>1. /\ up.pc = "write" /\ live' = live /\ ~raced /\ up.doc = doc.work
        /\ services' = Writes(doc.work)[2]
    BY <1>2 DEF Write, boxVars
  <2>2. Runs(b)
    <3>1. ~Waits(b)  BY <2>1 DEF Waits
    <3>2. b \notin Behind  BY <1>2, WriteMisses
    <3> QED  BY <2>1, <3>1, <3>2 DEF Covered
  <2>3. CASE Slice(services'.entries, b) = Slice(services.entries, b)
    BY <2>1, <2>2, <2>3 DEF Runs
  <2>4. CASE BoxEnv[b] \in Values(EnvOrder(Body))
    <3>1. b \notin Deployed(Body.scope, BoxEnv[b])  BY <1>0, <1>2, <2>4, WaitsWrite
    <3>2. services' = FileOf(Body, up.doc, rec)  BY <1>0, <2>1, WritesFile
    <3>3. Outside(Body, b, services', rec, services)
      BY <1>0, <2>1, <2>4, <3>1, <3>2 DEF GateKept, Gated, Covers
    <3>4. b \notin LeftByResources(services.entries, services'.entries)  BY <1>2, WriteMisses
    <3>5. \A n : ~Differs(At(file, n), At(Slice(services'.entries, b), n))
      BY <3>3, <3>4 DEF Outside
    <3>6. \A n : ~Differs(At(live[b], n), At(file, n))  BY <2>2, RunsAll
    <3>7. \A n : ~Differs(At(live[b], n), At(Slice(services'.entries, b), n))
      BY <3>5, <3>6, DiffersChain
    <3> QED  BY <2>1, <3>7 DEF Runs
  <2> QED  BY <1>2, <2>3, <2>4, WriteMisses
<1> QED  BY <1>1, <1>2

-----------------------------------------------------------------------------
(* What goes away was named. *)

LEMMA GrantedWrite ==
    ASSUME PlanInv, Write
    PROVE  /\ granted \ LostOn(services'.entries, services.entries) \subseteq granted'
           /\ LostOn(services.entries, services'.entries) \subseteq granted'
<1>0. Typed /\ GateKept  BY DEF PlanInv
<1>1. PICK want : want = Writes(doc.work)[2]  OBVIOUS
<1>2. PICK lost, back : /\ lost = LostOn(services.entries, want.entries)
                        /\ back = LostOn(want.entries, services.entries)
  OBVIOUS
<1>3. PICK named : named = {x \in lost : up.doc # doc.work \/ Named(Body.steps, x[2], x[3])}  OBVIOUS
<1>4. services' = want /\ granted' = (granted \ back) \union named /\ up.pc = "write"
  <2>1. services' = want /\ up.pc = "write"  BY <1>1 DEF Write
  <2>2. granted' = (granted \ back) \union {x \in lost : up.doc # doc.work \/ Named(Body.steps, x[2], x[3])}
    BY <1>1, <1>2 DEF Write
  <2> QED  BY <1>3, <2>1, <2>2
<1>5. lost \subseteq named
  <2>1. CASE up.doc # doc.work  BY <1>3, <2>1
  <2>2. CASE up.doc = doc.work
    <3>1. want = FileOf(Body, up.doc, rec)  BY <1>0, <1>1, <1>4, <2>2, WritesFile
    <3>2. NamesLosses(Body, want, services)  BY <1>0, <1>4, <3>1 DEF GateKept, Gated
    <3> QED  BY <1>2, <1>3, <3>2 DEF NamesLosses
  <2> QED  BY <2>1, <2>2
<1> QED  BY <1>2, <1>4, <1>5

LEMMA AccountedStep ==
    ASSUME PlanInv, PlaysOK, Accounted, [Next]_vars
    PROVE  Accounted'
<1>0. Typed  BY DEF PlanInv
<1> SUFFICES ASSUME NEW b \in Boxes, NEW n \in DOMAIN live'[b],
                    NEW l \in LostItems(live'[b][n], At(Slice(services'.entries, b), n))
             PROVE  <<b, n, l>> \in granted'
  BY DEF Accounted
<1>1. CASE Write
  <2>1. live' = live  BY <1>1 DEF Write, boxVars
  <2> DEFINE old == At(Slice(services.entries, b), n)
             new == At(Slice(services'.entries, b), n)
  <2>2. CASE l \in Items(old)
    <3>1. l \in LostItems(old, new)  BY <2>2 DEF LostItems
    <3>2. <<b, n, l>> \in LostOn(services.entries, services'.entries)  BY <3>1, LostIsIn
    <3> QED  BY <1>1, <3>2, GrantedWrite
  <2>3. CASE l \notin Items(old)
    <3>1. l \in LostItems(live[b][n], old)  BY <2>1, <2>3 DEF LostItems
    <3>2. <<b, n, l>> \in granted  BY <2>1, <3>1 DEF Accounted
    <3>3. <<b, n, l>> \notin LostOn(services'.entries, services.entries)
      <4>1. ASSUME <<b, n, l>> \in LostOn(services'.entries, services.entries) PROVE FALSE
        <5>1. PICK c \in Boxes, m \in DOMAIN services'.entries :
                \E k : <<b, n, l>> = <<c, m, k>>
                       /\ k \in LostItems(At(Slice(services'.entries, c), m), At(Slice(services.entries, c), m))
          BY <4>1, LostIsOut
        <5>2. l \in Items(new)  BY <5>1 DEF LostItems
        <5> QED  BY <5>2 DEF LostItems
      <4> QED  BY <4>1
    <3> QED  BY <1>1, <3>2, <3>3, GrantedWrite
  <2> QED  BY <2>2, <2>3
<1>2. CASE Play
  <2>1. PICK x \in Boxes : PlayOk(x) \/ PlayFails(x)  BY <1>2 DEF Play
  <2>2. /\ up.pc = "play"
        /\ b # x => live'[b] = live[b]
        /\ b = x => \/ n \in DOMAIN live[b] /\ live'[b][n] = live[b][n]
                    \/ /\ n \in DOMAIN Slice(services.entries, b)
                       /\ live'[b][n] = Slice(services.entries, b)[n]
    BY <1>0, <2>1, PlayBox
  <2>3. ~Write  BY <2>2 DEF Write
  <2>4. services' = services /\ granted' = granted
    BY <1>0, <2>3, ServicesFrame, HistoryFrame
  <2>5. n \in DOMAIN live[b] /\ live'[b][n] = live[b][n]
    <3>1. ASSUME n \in DOMAIN Slice(services.entries, b), live'[b][n] = Slice(services.entries, b)[n]
          PROVE FALSE
      <4>1. At(Slice(services'.entries, b), n) = live'[b][n]  BY <2>4, <3>1 DEF At
      <4> QED  BY <4>1 DEF LostItems
    <3> QED  BY <2>2, <3>1
  <2> QED  BY <2>4, <2>5 DEF Accounted
<1>3. CASE ~Write /\ ~Play
  <2>1. services' = services /\ granted' = granted /\ live' = live
    BY <1>0, <1>3, ServicesFrame, HistoryFrame, LiveFrame
  <2> QED  BY <2>1 DEF Accounted
<1> QED  BY <1>1, <1>2, <1>3

-----------------------------------------------------------------------------
(* The theorems. *)

BoxInv == PlanInv /\ PlaysOK /\ NoStray /\ Covered /\ Accounted

LEMMA BoxInvInit == Init => BoxInv
<1> SUFFICES ASSUME Init PROVE BoxInv  OBVIOUS
<1>1. /\ live = [b \in Boxes |-> Slice(services.entries, b)] /\ up = Idle
  BY DEF Init
<1>2. PlaysOK  BY <1>1 DEF PlaysOK, Idle
<1>3. \A b \in Boxes : KeptTo(b) /\ Runs(b)
  <2>1. \A e : ~Differs(e, e)  BY DEF Differs
  <2> QED  BY <1>1, <2>1 DEF KeptTo, Runs
<1>4. Accounted
  <2> SUFFICES ASSUME NEW b \in Boxes, NEW n \in DOMAIN live[b],
                      NEW l \in LostItems(live[b][n], At(Slice(services.entries, b), n))
               PROVE  FALSE
    BY DEF Accounted
  <2>1. At(Slice(services.entries, b), n) = live[b][n]  BY <1>1 DEF At
  <2> QED  BY <2>1 DEF LostItems
<1> QED  BY <1>2, <1>3, <1>4, PlanInvInit DEF BoxInv, NoStray, Covered

LEMMA BoxInvStep == BoxInv /\ [Next]_vars => BoxInv'
<1> SUFFICES ASSUME BoxInv, [Next]_vars PROVE BoxInv'  OBVIOUS
<1>1. PlanInv /\ PlaysOK /\ NoStray /\ Covered /\ Accounted /\ Typed  BY DEF BoxInv, PlanInv
<1>2. PlanInv'  BY <1>1, PlanInvStep
<1>3. PlaysOK'  BY <1>1, PlaysStep
<1>4. NoStray'  BY <1>1, NoStrayStep
<1>5. Covered'  BY <1>1, CoveredStep
<1>6. Accounted'  BY <1>1, AccountedStep
<1> QED  BY <1>2, <1>3, <1>4, <1>5, <1>6 DEF BoxInv

\* Every box that no failed run left behind runs what the services file says, for any
\* fleet, inventory and requests: the scope of a run holds every box its file changes
\* (scope.py: compute).
THEOREM ScopeIsEnough == Spec => []ScopeCovers
<1>1. BoxInv => ScopeCovers
  BY DEF BoxInv, Covered, ScopeCovers, Waits
<1> QED  BY <1>1, BoxInvInit, BoxInvStep, PTL DEF Spec

\* One step of NoUnseenLoss.
LossStep ==
    \A b \in Boxes : \A n \in DOMAIN live[b] :
        \A l \in LostItems(live[b][n], At(live'[b], n)) : <<b, n, l>> \in granted
LEMMA LossIsNamed ==
    ASSUME BoxInv, [Next]_vars
    PROVE  LossStep
<1>0. Typed /\ PlaysOK /\ Accounted  BY DEF BoxInv, PlanInv
<1> SUFFICES ASSUME NEW b \in Boxes, NEW n \in DOMAIN live[b],
                    NEW l \in LostItems(live[b][n], At(live'[b], n))
             PROVE  <<b, n, l>> \in granted
  BY DEF LossStep
<1> DEFINE file == At(Slice(services.entries, b), n)
<1>1. ASSUME live'[b] = live[b] PROVE FALSE
  BY <1>1 DEF LostItems, At
<1>2. Play
  <2>1. CASE ~Play  BY <1>0, <1>1, <2>1, LiveFrame
  <2> QED  BY <2>1
<1>3. PICK x \in Boxes : PlayOk(x) \/ PlayFails(x)  BY <1>2 DEF Play
<1>4. /\ b # x => live'[b] = live[b]
      /\ b = x => /\ \A m \in DOMAIN live'[b] :
                       \/ m \in DOMAIN live[b] /\ live'[b][m] = live[b][m]
                       \/ /\ m \in DOMAIN Slice(services.entries, b)
                          /\ live'[b][m] = Slice(services.entries, b)[m]
                  /\ \A m \in DOMAIN live[b] \ DOMAIN live'[b] : m \notin DOMAIN Slice(services.entries, b)
  BY <1>0, <1>3, PlayBox
<1>5. At(live'[b], n) = live[b][n] \/ At(live'[b], n) = file
  BY <1>1, <1>4 DEF At
<1>6. l \in LostItems(live[b][n], file)
  BY <1>5 DEF LostItems
<1> QED  BY <1>0, <1>6 DEF Accounted

\* No deploy takes a container, a volume or a database from a box unless a destructive or
\* shared step of a plan that was let through names it, for any history of pushes, edits,
\* plans, approvals, failed plays and removals (plan.py: diff_steps).
THEOREM NothingIsLostUnseen == Spec => NoUnseenLoss
<1>1. BoxInv /\ [Next]_vars => [LossStep]_vars
  BY LossIsNamed
<1>2. NoUnseenLoss <=> [][LossStep]_vars
  BY PTL DEF NoUnseenLoss, LossStep
<1> QED  BY <1>1, <1>2, BoxInvInit, BoxInvStep, PTL DEF Spec

\* One step of RemovedIsGone.
GoneStep ==
    \A p \in Projects, b \in Boxes : rec'[p] = Absent =>
        IF rec[p] = Absent THEN HasOf(b, p)' \subseteq HasOf(b, p)
        ELSE BoxEnv[b] = BoxEnv[rec[p].box] \/ b \notin Behind => HasOf(b, p)' = {}

\* A container of a project that is not in the fleet is not deployed again.
LEMMA NoneComesBack ==
    ASSUME BoxInv, [Next]_vars, NEW p \in Projects, rec[p] = Absent, NEW b \in Boxes
    PROVE  HasOf(b, p)' \subseteq HasOf(b, p)
<1>0. Typed /\ PlaysOK /\ Owned  BY DEF BoxInv, PlanInv
<1>1. CASE ~Play  BY <1>0, <1>1, LiveFrame DEF HasOf
<1>2. CASE Play
  <2>1. PICK x \in Boxes : PlayOk(x) \/ PlayFails(x)  BY <1>2 DEF Play
  <2>2. /\ b # x => live'[b] = live[b]
        /\ b = x => \A n \in DOMAIN live'[b] :
                      n \in DOMAIN live[b] \/ n \in DOMAIN Slice(services.entries, b)
    BY <1>0, <2>1, PlayBox
  <2>3. ASSUME NEW n \in DOMAIN Slice(services.entries, b) PROVE WhoOwns(n) # p
    <3>1. IsEntryAt(services.entries, n, Staying, rec)  BY <1>0 DEF Owned, Slice
    <3>2. p # Nobody /\ p \notin Staying  BY TomlsOfProjects DEF Staying, Members
    <3> QED  BY <3>1, <3>2 DEF IsEntryAt
  <2> QED  BY <2>2, <2>3 DEF HasOf
<1> QED  BY <1>1, <1>2

LEMMA RemovedStep ==
    ASSUME BoxInv, [Next]_vars
    PROVE  GoneStep
<1>0. Typed /\ Owned /\ RemoveHome /\ NoStray  BY DEF BoxInv, PlanInv
<1> SUFFICES ASSUME NEW p \in Projects, NEW b \in Boxes, rec'[p] = Absent, rec[p] # Absent,
                    BoxEnv[b] = BoxEnv[rec[p].box] \/ b \notin Behind
             PROVE  HasOf(b, p)' = {}
  BY NoneComesBack DEF GoneStep
<1>1. p \in Members  BY DEF Members
<1>2. Record
  <2>1. CASE Write
    <3>1. \A q \in Projects : (rec'[q] = Absent) <=> (rec[q] = Absent)
      BY <1>0, <2>1, WritesLocks DEF Write
    <3> QED  BY <3>1
  <2>2. CASE ~Write /\ ~Record  BY <1>0, <2>2, LocksFrame
  <2> QED  BY <2>1, <2>2
<1>3. up.pc = "record" /\ live' = live /\ Run  BY <1>2 DEF Record, boxVars, Run
<1>4. Body.kind = "remove" /\ p \in Body.of /\ Gone(p)
  <2>1. ~SameLock(p, rec'[p])  BY DEF SameLock
  <2> QED  BY <1>0, <1>1, <1>2, <2>1, RecordLocks
<1>5. Body.env = BoxEnv[rec[p].box]  BY <1>0, <1>3, <1>4 DEF RemoveHome
<1>6. CASE BoxEnv[b] = BoxEnv[rec[p].box]
  <2>1. b \in EnvBoxes(Body.env)  BY <1>5, <1>6 DEF EnvBoxes
  <2>2. {n \in DOMAIN live[b] : WhoOwns(n) = p} = {}  BY <1>4, <2>1 DEF Gone
  <2> QED  BY <1>3, <2>2 DEF HasOf
<1>7. CASE b \notin Behind
  <2>1. KeptTo(b)  BY <1>0, <1>3, <1>7 DEF NoStray, Waits
  <2>2. ASSUME NEW n \in DOMAIN live[b], WhoOwns(n) = p PROVE FALSE
    <3>1. p # Nobody /\ p \notin Staying  BY <1>3, <1>4, TomlsOfProjects DEF Staying
    <3>2. n \in DOMAIN services.entries  BY <2>1, <2>2, <3>1 DEF KeptTo, Slice
    <3>3. IsEntryAt(services.entries, n, Staying, rec)  BY <1>0, <3>2 DEF Owned
    <3> QED  BY <2>2, <3>1, <3>3 DEF IsEntryAt
  <2> QED  BY <1>3, <2>2 DEF HasOf
<1> QED  BY <1>6, <1>7

\* When bay remove drops a lock, no container of the project runs on a box of its
\* environment or on any box no failed run left behind, and none is started again
\* (remove.py: _gone).
THEOREM RemovalIsFinal == Spec => RemovedIsGone
<1>1. BoxInv /\ [Next]_vars => [GoneStep]_vars
  BY RemovedStep
<1>2. RemovedIsGone <=> [][GoneStep]_vars
  BY PTL DEF RemovedIsGone, GoneStep
<1> QED  BY <1>1, <1>2, BoxInvInit, BoxInvStep, PTL DEF Spec
=============================================================================
