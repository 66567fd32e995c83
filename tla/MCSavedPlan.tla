----------------------------- MODULE MCSavedPlan -----------------------------
(* Two projects on two boxes of one environment, with a third in another: p   *)
(* has a built container with a volume on A, q a container on B, and pg is a  *)
(* shared resource on B.                                                      *)
EXTENDS Show

AllOwners == [pw |-> "p", qw |-> "q"]
TwoEnvs == [A |-> "prod", B |-> "prod", C |-> "stage"]
OwnHosts == [A |-> {"h1"}, B |-> {"h2"}, C |-> {"h3"}]
ServerA == [prod |-> {"A"}, stage |-> {}]

Unit(vols, spec, build) ==
    [regions |-> {}, vols |-> vols, db |-> NoDb, secrets |-> {}, spec |-> spec, hold |-> 0, build |-> build]
Code(box, track, entries) ==
    [box |-> box, track |-> track, entries |-> entries, jobs |-> <<>>, backups |-> <<>>, needs |-> {}]
WithData == [data |-> "/data"]

\* Commit 1 of p drops the volume and takes track pin; 2 is on a side branch and moves p to C.
TwoTomls ==
    [p |-> [c \in {0, 1, 2} |->
              Code(IF c = 2 THEN "C" ELSE "A", IF c = 1 THEN "pin" ELSE "branch",
                   [pw |-> Unit(IF c = 1 THEN <<>> ELSE WithData, c, "local")])],
     q |-> [c \in {0} |-> Code("B", "branch", [qw |-> Unit(<<>>, 0, "no")])]]
OneLine == [c \in {0, 1, 2} |-> IF c = 2 THEN "side" ELSE "main"]

Pg == [Unit(WithData, <<0, {}>>, "no") EXCEPT !.regions = {"B"}]
Fleet(tune, own, allow) == [tune |-> tune, own |-> own, hook |-> "on", routes |-> <<>>, allow |-> allow]
\* The fleet owner drops the resource, and may tune q as well.
ThreeDocs == <<Fleet(<<>>, [pg |-> Pg], 0), Fleet([qw |-> 1], <<>>, 0), Fleet(<<>>, <<>>, 0)>>

Ask(of, force) == [of |-> of, data |-> TRUE, force |-> force, forceCode |-> FALSE,
                   allBoxes |-> FALSE, dirty |-> FALSE, remote |-> FALSE]
Remove == {[of |-> "q", remote |-> TRUE]}
\* The second p asks the boxes, and deploys all of them; {} is a route-only run.
Requests == {Ask({"p"}, FALSE), Ask({}, TRUE),
             [Ask({"p"}, FALSE) EXCEPT !.allBoxes = TRUE, !.remote = TRUE]}

\* An approval is read by the next gate only and commutes with the steps of a run,
\* so it is enough to let it come between runs.
ApproveBetweenRuns == approved \subseteq approved' /\ approved # approved' => up.pc = "idle"

\* The instance of RetryCompletes: the resource is on the box of the other project.
PgOnA == [Pg EXCEPT !.regions = {"A"}]
RetryDocs == <<Fleet(<<>>, [pg |-> PgOnA], 0), Fleet([qw |-> 1], <<>>, 0)>>
RetryRequests == {Ask({"p"}, FALSE), Ask({"q"}, TRUE)}
==============================================================================
