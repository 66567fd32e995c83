--------------------------------- MODULE Show ---------------------------------
(***************************************************************************)
(* bay show: WANTED (the checkout), PINNED (the lock record) and RUNNING   *)
(* (the receipts) of a project side by side, one status word, and the      *)
(* drift of its box from the files of the fleet.  It reads, and changes    *)
(* nothing, so it is operators over the state of SavedPlan; what it says   *)
(* must be true of the boxes, which it does not see.                       *)
(***************************************************************************)
EXTENDS SavedPlan

\* The names of the pinned and the wanted bay.toml, and the rows of the
\* receipts of the environment that have one of them.
ShownNames(p) == NamesOf(p, tip[p])
ShownBoxes(p) == EnvBoxes(BoxEnv[rec[p].box])
Shown(p) == Running(ShownBoxes(p), ShownNames(p))
\* running_detail: the build containers the services file and a receipt know.
Detail(p) == {x[2] : x \in Shown(p)} \intersect BuiltIn(services.entries)

\* The commits the receipts name, None where they name none.
RunningCommits(p) ==
    LET e == BoxEnv[rec[p].box]
    IN  [c \in Detail(p) |-> IF Receipted(e, c) = {} THEN Absent ELSE RunningCode(e, c)]

\* A claim is "deploying" for half an hour, then HALF; the clock is in FleetRun.
Claimed(p) == rec[p].result = "pending"

\* Mutant: only a failed run is half done.
StatusOfFailed(p) ==
    CASE rec[p].result = "failed" -> "HALF"
      [] rec[p].result # "failed" /\ rec[p].seen # Shown(p) -> "drift"
      [] OTHER -> "ok"
\* env_status: the first word that applies.
EnvStatus(p) ==
    LET codes == Values(RunningCommits(p)) IN
    CASE Claimed(p) -> "deploying"
      [] rec[p].result = "failed" -> "HALF"
      [] rec[p].result = "ok" /\ rec[p].seen # Shown(p) -> "drift"
      [] rec[p].result = "ok" /\ rec[p].seen = Shown(p) /\ tip[p] # rec[p].pin ->
           IF codes = {tip[p]} THEN "ahead" ELSE "behind"
      [] OTHER -> "ok"

\* fleet_drift: the files of the fleet changed since the commit a box runs.
FleetDrift(at) == at # doc.head
\* box_receipt: with several boxes in the environment it takes a map of the hosts.
BoxReceipt(p) ==
    IF Cardinality(ShownBoxes(p)) > 1 /\ NoHostMap(BoxEnv[rec[p].box]) THEN Absent
    ELSE receipt[rec[p].box]
BoxDrift(p) == BoxReceipt(p) # Absent /\ FleetDrift(BoxReceipt(p).doc)

ShowLine(p) == [status |-> EnvStatus(p), drift |-> BoxDrift(p)]

\* What a compile of the committed state gives p on a box, and what it has there.
Due(p, b) == LET f == CompileFleet(doc.head, Pins(<<>>), BoxesOf(<<>>))
             IN  {<<n, At(f.entries, n)>> : n \in {n \in DOMAIN Slice(f.entries, b) : WhoOwns(n) = p}}
Has(p, b) == {<<n, live[b][n]>> : n \in {n \in DOMAIN live[b] : WhoOwns(n) = p}}

\* When bay show says ok and no drift of the box, the boxes of the environment
\* run of the project what its pin and the committed bay.fleet.toml compile to,
\* whatever failed, was killed or was undone before; a run for others that left
\* a box behind is no part of its record, and a box whose last play could not
\* write its receipt is judged by the one before, as the warning of that play
\* says (apply.py: env_status, _box_drift; reconcile.yml:637).
ShowIsTrue ==
    up.pc = "idle" /\ ~Dirty /\ ~raced =>
      \A p \in Members :
        ShowLine(p).status \in {"ok", "ahead"} /\ ~ShowLine(p).drift =>
          \A b \in ShownBoxes(p) \ unlisted : Has(p, b) = Due(p, b) \/ \E x \in missed : x[1] = b /\ p \notin x[2]
===============================================================================
