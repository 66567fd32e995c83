-------------------------------- MODULE Scope --------------------------------
(***************************************************************************)
(* Which boxes a run deploys.  A run for one project has a scope: the      *)
(* boxes it needs, by five rules, and every box that shares an inventory   *)
(* host with one of them.  Other runs, and a scope that holds every host   *)
(* of its box environment, have no limit.                                  *)
(***************************************************************************)
EXTENDS PlanSteps

CONSTANTS
    Boxes,          \* [boxes] of bay.fleet.toml
    BoxEnv,         \* box -> box environment
    HostsOf,        \* box -> its inventory hosts; {}: a box the inventory does not know
    Ingress,        \* [tailnet] ingress_box
    BuildServer,    \* box environment -> the boxes on the host of build_server
    UnreadServer    \* box environments whose build_server is a Jinja value

\* The boxes of a box environment; a container runs on the boxes of its regions.
EnvBoxes(e) == {b \in Boxes : BoxEnv[b] = e}
HostMap(bs) == UNION {HostsOf[b] : b \in bs}
NoHostMap(e) == \E b \in EnvBoxes(e) : HostsOf[b] = {}

Whole == [limited |-> FALSE, boxes |-> {}, why |-> "whole"]
WholeBecause(why) == [Whole EXCEPT !.why = why]

\* changed_builds: the build surface, the whole entry compared.
ChangedBuilds(cur, want) ==
    {n \in Names(cur.entries, want.entries) :
        LET a == At(cur.entries, n)
            b == At(want.entries, n)
        IN  a # b /\ ((a # Absent /\ a.build # "no") \/ (b # Absent /\ b.build # "no"))}
Builds(cur, want) == {x \in Values(cur.entries) \union Values(want.entries) : x.build # "no"}

\* A host renders the webhook receiver when a build is active on it.
ReceiverBoxes(e, builds) == {b \in EnvBoxes(e) : \E x \in builds : x.regions = {} \/ b \in x.regions}

\* The regions of the entry a compile step changes; {} when it cannot be placed.
StepRegions(s, cur, want) ==
    LET job == IF At(want.jobs, s.on) # Absent THEN At(want.jobs, s.on) ELSE At(cur.jobs, s.on)
        n == IF s.kind = "job" THEN (IF job = Absent THEN Nobody ELSE job.of) ELSE s.on
        entry == IF At(want.entries, n) # Absent THEN At(want.entries, n) ELSE At(cur.entries, n)
    IN  IF s.kind = "fleet" \/ entry = Absent THEN {} ELSE entry.regions

\* Mutant: an entry of the fleet file is taken to be everywhere already.
ForeignOwned(s, who) == s.src = "compile" /\ s.kind \notin {"route", "move", "tailnet"} /\ s.who \notin {who, Nobody}
\* Rule 5 looks at the compile steps of other projects and of none.
Foreign(s, who) == s.src = "compile" /\ s.kind \notin {"route", "move", "tailnet"} /\ s.who # who

\* The smallest set of boxes over bs that shares no host with a box outside.
SharedHosts(bs, e) ==
    {b \in EnvBoxes(e) :
        \A S \in SUBSET EnvBoxes(e) :
            (bs \subseteq S /\ \A x \in EnvBoxes(e) \ S : HostsOf[x] \intersect HostMap(S) = {}) => b \in S}

\* compute(): who, its box, the old box of its move (or Nobody), and the steps.
Compute(who, box, old, steps, cur, want, allBoxes) ==
    LET envs == {BoxEnv[b] : b \in {box, old} \intersect Boxes}
        every == UNION {EnvBoxes(e) : e \in envs}
        foreign == {s \in steps : Foreign(s, who)}
        surface == ChangedBuilds(cur, want) # {} /\ (cur.hook # Nobody \/ want.hook # Nobody)
        builds == IF surface THEN Builds(cur, want) ELSE {}
        remote == \E x \in builds : x.build = "remote"
        servers(e) == ReceiverBoxes(e, builds) \union IF remote THEN BuildServer[e] ELSE {}
        asked == {box, old}
                 \union {b \in {Ingress} : \E s \in steps : s.kind = "route"}
                 \union UNION {StepRegions(s, cur, want) : s \in foreign}
        ofEnv(e) == SharedHosts((asked \union servers(e)) \intersect EnvBoxes(e), e)
        open(e) == \/ Cardinality(EnvBoxes(e)) <= 1
                   \/ NoHostMap(e)
                   \/ surface /\ e \in UnreadServer
                   \/ HostMap(ofEnv(e)) = HostMap(EnvBoxes(e))
    IN
    CASE allBoxes -> WholeBecause("flag")
      [] ~allBoxes /\ \E s \in steps : s.kind = "tailnet" -> WholeBecause("tailnet")
      [] ~allBoxes /\ (\A s \in steps : s.kind # "tailnet")
           /\ \E s \in foreign : StepRegions(s, cur, want) = {} -> WholeBecause("unplaced")
      [] OTHER -> IF \A e \in envs : open(e) THEN Whole
                  ELSE [limited |-> TRUE,
                        boxes |-> UNION {IF open(e) THEN EnvBoxes(e) ELSE ofEnv(e) : e \in envs},
                        why |-> "scope"]

\* limit_for: the boxes a playbook run on e reaches.
Deployed(scope, e) == IF scope.limited THEN scope.boxes \intersect EnvBoxes(e) ELSE EnvBoxes(e)
=============================================================================
