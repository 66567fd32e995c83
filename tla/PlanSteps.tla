------------------------------ MODULE PlanSteps ------------------------------
(***************************************************************************)
(* The steps of a plan: what a deploy would change, found by comparing the *)
(* services file of the fleet with the one the wanted commits compile to.  *)
(* Every step has a risk; destructive and shared steps need an approval.   *)
(*                                                                         *)
(* A services file is a record of partial functions: entries (a container  *)
(* or a shared resource), jobs, backups, routes, and the webhook.  Of an   *)
(* entry the comparison reads the named volumes (with the path they are    *)
(* mounted at), the database, the secrets, its regions, its kind of build   *)
(* and the hold guard of that build; spec stands for every other key.      *)
(***************************************************************************)
EXTENDS Integers, FiniteSets, Sequences

CONSTANTS
    Resources,      \* names of [resources.*]
    Owner           \* container -> project, for the containers a bay.toml declares

Nobody == "nobody"
NoDb == [on |-> "none", name |-> "none", user |-> "none"]
Absent == [absent |-> TRUE]

At(f, x) == IF x \in DOMAIN f THEN f[x] ELSE Absent
Values(f) == {f[x] : x \in DOMAIN f}
Names(f, g) == DOMAIN f \union DOMAIN g
WhoOwns(c) == IF c \in DOMAIN Owner THEN Owner[c] ELSE Nobody

Step(kind, action, risk, on, item, who) ==
    [kind |-> kind, action |-> action, risk |-> risk, on |-> on, item |-> item,
     who |-> who, src |-> "compile"]

Risky == {"destructive", "shared"}
NeedsApproval(steps) == \E s \in steps : s.risk \in Risky

\* The keys of build that only the build side reads do not count as a change.
HoldOnly(old, new) == [old EXCEPT !.hold = 0] = [new EXCEPT !.hold = 0]

-----------------------------------------------------------------------------
(* One container. *)

\* As many volumes gone as added: each is called a rename, a delete in disguise.
VolumeSteps(c, who, old, new) ==
    LET gone == DOMAIN old.vols \ DOMAIN new.vols
        added == DOMAIN new.vols \ DOMAIN old.vols
        both == DOMAIN old.vols \intersect DOMAIN new.vols
        asRename == gone # {} /\ Cardinality(gone) = Cardinality(added)
    IN
    {Step("volume", IF asRename THEN "rename" ELSE "remove", "destructive", c, v, who) : v \in gone}
    \union {Step("volume", "create", "safe", c, v, who) : v \in IF asRename THEN {} ELSE added}
    \union {Step("volume", "update", "safe", c, v, who) : v \in {x \in both : old.vols[x] # new.vols[x]}}

DatabaseSteps(c, who, old, new) ==
    LET a == old.db
        b == new.db
        taken(action, item) == {Step("database", action, "destructive", c, item, who)}
    IN
    CASE a = NoDb /\ b = NoDb -> {}
      [] a # NoDb /\ b = NoDb -> taken("remove", a.name)
      [] a = NoDb /\ b # NoDb -> {Step("database", "create", "safe", c, b.name, who)}
      [] OTHER -> (IF a.on # b.on THEN taken("move", a.name) ELSE {})
                  \union (IF a.name # b.name THEN taken("rename", a.name) ELSE {})
                  \union (IF a.user # b.user
                          THEN {Step("database_user", "rename", "destructive", c, a.user, who)}
                          ELSE {})

\* A box that was not read counts as running.
SecretSteps(c, who, seen, running, old, new) ==
    {Step("secret", "remove", IF ~seen \/ c \in running THEN "destructive" ELSE "safe", c, s, who) :
       s \in old.secrets \ new.secrets}

ContainerSteps(c, who, seen, running, old, new) ==
    CASE old = Absent -> {Step("container", "create", "safe", c, c, who)}
      [] new = Absent -> {Step("container", "remove", "destructive", c, c, who)}
      [] OTHER -> {Step("container", "update", "safe", c, c, who)}
                  \union VolumeSteps(c, who, old, new)
                  \union DatabaseSteps(c, who, old, new)
                  \union SecretSteps(c, who, seen, running, old, new)

-----------------------------------------------------------------------------
(* Two services files. *)

Verb(old, new) == CASE old = Absent -> "create" [] new = Absent -> "remove" [] OTHER -> "update"

\* A change that no bay.toml explains: a resource, or a container nobody owns.
SharedStep(kind, n, old, new) ==
    {Step(kind, Verb(old, new), IF new = Absent THEN "destructive" ELSE "shared", n, n, Nobody)}

Differs(old, new) == old # new /\ ~(old # Absent /\ new # Absent /\ HoldOnly(old, new))

EntrySteps(n, readable, running, old, new) ==
    CASE ~Differs(old, new) -> {}
      [] n \in Resources -> SharedStep("resource", n, old, new)
      [] n \notin Resources /\ WhoOwns(n) # Nobody ->
             ContainerSteps(n, WhoOwns(n), n \in readable, running, old, new)
      [] OTHER -> SharedStep("container", n, old, new)

JobSteps(cur, want) ==
    {LET new == At(want.jobs, j)
         of == IF new = Absent THEN cur.jobs[j].of ELSE new.of
     IN  Step("job", Verb(At(cur.jobs, j), new), "safe", j, j, WhoOwns(of)) :
       j \in {j \in Names(cur.jobs, want.jobs) : At(cur.jobs, j) # At(want.jobs, j)}}

BackupSteps(cur, want) ==
    {LET new == At(want.backups, v)
         of == IF new = Absent THEN cur.backups[v].of ELSE new.of
     IN  Step("backup", "update", "safe", of, v, WhoOwns(of)) :
       v \in {v \in Names(cur.backups, want.backups) : At(cur.backups, v) # At(want.backups, v)}}

HookSteps(cur, want) ==
    IF cur.hook = want.hook THEN {} ELSE {Step("fleet", "update", "shared", "webhook", "webhook", Nobody)}

RouteSteps(cur, want) ==
    {Step("route", Verb(At(cur.routes, r), At(want.routes, r)), "shared", r, r, Nobody) :
       r \in {r \in Names(cur.routes, want.routes) : At(cur.routes, r) # At(want.routes, r)}}

\* Mutant: walks the wanted entries only.
DiffStepsOfWanted(cur, want, readable, running) ==
    (UNION {EntrySteps(n, readable, running, At(cur.entries, n), At(want.entries, n)) :
              n \in DOMAIN want.entries})
    \union HookSteps(cur, want) \union JobSteps(cur, want) \union BackupSteps(cur, want)

\* diff_steps: running is what the receipts list, readable the containers it is known for.
DiffSteps(cur, want, readable, running) ==
    (UNION {EntrySteps(n, readable, running, At(cur.entries, n), At(want.entries, n)) :
              n \in Names(cur.entries, want.entries)})
    \union HookSteps(cur, want) \union JobSteps(cur, want) \union BackupSteps(cur, want)

-----------------------------------------------------------------------------
(* A project that moves. *)

\* The containers of a moving project that have something to leave behind.
HasData(names, files) ==
    \E f \in files : \E c \in names \intersect DOMAIN f.entries :
        DOMAIN f.entries[c].vols # {} \/ f.entries[c].db # NoDb

MoveSteps(who, names, files) ==
    LET risk == IF HasData(names, files) THEN "destructive" ELSE "shared"
        moved == {c \in names : \E f \in files : c \in DOMAIN f.entries}
    IN
    {Step("move", "move", risk, who, who, who)}
    \union UNION {{Step("container", "remove", risk, c, c, who),
                   Step("container", "create", "safe", c, c, who)} : c \in moved}

-----------------------------------------------------------------------------
(* The code that runs against the commit a plan wants. *)

\* code_status, per container: where what runs stands against the wanted commit.
CodeSteps(who, track, forced, where) ==
    {[Step("image", "update", IF where[c] = "unknown" /\ track # "pin" THEN "destructive" ELSE "safe",
           c, c, who) EXCEPT !.src = "box"] :
       c \in {c \in DOMAIN where :
                \/ track = "pin" /\ where[c] # "same"
                \/ track # "pin" /\ where[c] = "older"
                \/ track # "pin" /\ where[c] = "unknown" /\ forced}}
CodeBlocked(track, forced, where) ==
    track # "pin" /\ ~forced /\ \E c \in DOMAIN where : where[c] = "unknown"
\* Mutant: newer code is not kept.
KeptOnlySame(track, where) == {c \in DOMAIN where : track # "pin" /\ where[c] = "same"}
Kept(track, where) == {c \in DOMAIN where : track # "pin" /\ where[c] = "newer"}

-----------------------------------------------------------------------------
Decide(blocked, stale, steps, approval) ==
    CASE blocked -> "blocked"
      [] ~blocked /\ stale -> "stale"
      [] ~blocked /\ ~stale /\ NeedsApproval(steps) /\ ~approval -> "approve"
      [] OTHER -> "auto"

\* What a container has that can be lost, and what it loses when its entry becomes
\* the new one.
Items(e) ==
    IF e = Absent THEN {}
    ELSE {<<"container">>} \union {<<"volume", v>> : v \in DOMAIN e.vols}
         \union {<<"database", d.name, d.on>> : d \in {e.db} \ {NoDb}}
LostItems(old, new) == Items(old) \ Items(new)
=============================================================================
