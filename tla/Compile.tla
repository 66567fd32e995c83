------------------------------ MODULE Compile ------------------------------
(***************************************************************************)
(* bay compile: from the files of a fleet to its services.yml              *)
(* (src/src/bay_cli/compiler.py).  Everything is a function of the files   *)
(*                                                                         *)
(*   f.docs       project -> bay.toml                                      *)
(*   f.locks      project -> [repo, envs: env -> [box, frozen, containers, *)
(*                volumes, database]], what adoption and moves wrote down  *)
(*   f.resources  key -> [kind, boxes, port, volumes, expose]              *)
(*   f.routes     tailnet route -> its domain                              *)
(*   f.hook       the domain of the webhook receiver, or None              *)
(*   f.hand       names defined by hand in group_vars/all                  *)
(*                                                                         *)
(* A unit is one project in one environment, <<project, env>>.             *)
(* The compile is refused when a rule below fails, or when a file uses     *)
(* what the deploy cannot express (--allow-unsupported is left out).       *)
(***************************************************************************)
EXTENDS BayToml

CONSTANTS Boxes, BoxEnv, Group, HasIp, DefaultBox

Suffixes == {"vpn", "public", "health", "new", "release"}
NoLockEnv == [box |-> None, frozen |-> FALSE, containers |-> <<>>,
              volumes |-> <<>>, database |-> None]

Units(f) == UNION {{p} \X EnvsOf(f.docs[p]) : p \in DOMAIN f.docs}
Doc(f, u) == f.docs[u[1]]
Deploy(f, u) == Doc(f, u).deploy[u[2]]
Level(f, u, s) == Doc(f, u).levels[s]
LevelsOf(f, u) == DOMAIN Doc(f, u).levels
Lock(f, u) ==
  IF u[1] \in DOMAIN f.locks /\ u[2] \in DOMAIN f.locks[u[1]].envs
  THEN f.locks[u[1]].envs[u[2]] ELSE NoLockEnv
Slots(f) == UNION {{u} \X LevelsOf(f, u) : u \in Units(f)}

(***************************************************************************)
(* Names                                                                   *)
(***************************************************************************)
Base(u) == IF u[2] = Primary THEN u[1] ELSE Append(u[1], u[2])
ContainerName(f, u, s) ==
  IF s \in DOMAIN Lock(f, u).containers THEN Lock(f, u).containers[s]
  ELSE IF s = Web THEN Base(u) ELSE Base(u) \o s
JobName(f, u, j) == ContainerName(f, u, <<JobWord>> \o j)
VolumeName(f, u, v) ==
  IF v \in DOMAIN Lock(f, u).volumes THEN Lock(f, u).volumes[v] ELSE Base(u) \o v
\* The database and its role are named alike.
DbName(f, u) == IF Lock(f, u).database # None THEN Lock(f, u).database ELSE Base(u)

\* Who holds a container name: a resource, or a service of a unit.
Held(f) == {<<r, << <<>>, r>> >> : r \in DOMAIN f.resources}
             \cup {<<ContainerName(f, t[1], t[2]), t>> : t \in Slots(f)}
JobsOf(f) == UNION {{<<u, j>> : j \in Doc(f, u).jobs} : u \in Units(f)}
JobClaims(f) ==
  {<<JobName(f, t[1], t[2]), <<t[1], <<JobWord>> \o t[2]>> >> : t \in JobsOf(f)}

\* _claim_container, for resources, containers and jobs.
NamesOnce(f) ==
  LET claims == Held(f) \cup JobClaims(f)
  IN  Once(claims) /\ \A c \in claims : c[1] \notin f.hand

\* A mutant: the canary and the release container are forgotten.
DerivedFreeRouters(f) ==
  LET names == {c[1] : c \in Held(f)}
  IN  \A n \in names, x \in Suffixes \ {"new", "release"} : Append(n, x) \notin names

\* _check_derived_names, before the jobs have claimed theirs.
DerivedFree(f) ==
  LET names == {c[1] : c \in Held(f)}
  IN  \A n \in names, x \in Suffixes : Append(n, x) \notin names

(***************************************************************************)
(* Boxes                                                                   *)
(***************************************************************************)
BoxOf(f, u) ==
  IF Lock(f, u).box # None THEN Lock(f, u).box
  ELSE IF Deploy(f, u).box # None THEN Deploy(f, u).box ELSE DefaultBox
BoxesKnown(f) == \A u \in Units(f) : BoxOf(f, u) \in Boxes

\* A box without a group is fine while it is the only box of its environment.
UsedBoxes(f) ==
  {BoxOf(f, u) : u \in Units(f)}
    \cup UNION {f.resources[r].boxes : r \in DOMAIN f.resources}
RegionsGiven(f) ==
  \A b \in UsedBoxes(f) \cap Boxes :
    Group[b] = None => \A c \in Boxes \ {b} : BoxEnv[c] # BoxEnv[b]
Regions(bs) ==
  IF \E b \in bs : Group[b] = None THEN {} ELSE {Group[b] : b \in bs}

(***************************************************************************)
(* Access, domains                                                         *)
(***************************************************************************)
Routed(f, u, s) ==
  IF s = Web THEN MainMode(Doc(f, u), u[2]) # "internal"
  ELSE RoutedLevel(Level(f, u, s))
ModeOf(f, u, s) ==
  IF ~Routed(f, u, s) THEN "internal"
  ELSE IF s # Web /\ Level(f, u, s).mode # None THEN Level(f, u, s).mode
  ELSE MainMode(Doc(f, u), u[2])
ByPath(f, u, s) == Level(f, u, s).path # None
ModesGiven(f) == \A t \in Slots(f) :
  Routed(f, t[1], t[2]) => ModeOf(f, t[1], t[2]) # "internal"

\* Without a domain of its own a project answers at <project>.<default_domain>,
\* which stands here under the project's name.
MainDomains(f, u) ==
  {IF Deploy(f, u).domain # None THEN Deploy(f, u).domain ELSE u[1]}
    \cup Deploy(f, u).aliases
DomainsOf(f, u, s) ==
  IF s = Web \/ ByPath(f, u, s) THEN MainDomains(f, u)
  ELSE {SvcDomain(Doc(f, u), u[2], s)}

\* A mutant: the aliases are not claimed.
ClaimsWithoutAliases(f) ==
  UNION {{<<d, t>> : d \in DomainsOf(f, t[1], t[2]) \ Deploy(f, t[1]).aliases} :
           t \in {x \in Slots(f) : Routed(f, x[1], x[2]) /\ ~ByPath(f, x[1], x[2])}}
\* A service that routes by path does not claim its domains again.
DomainClaims(f) ==
  UNION {{<<d, t>> : d \in DomainsOf(f, t[1], t[2])} :
           t \in {x \in Slots(f) : Routed(f, x[1], x[2]) /\ ~ByPath(f, x[1], x[2])}}
RouteClaims(f) == {<<f.routes[r], << <<>>, r>> >> : r \in DOMAIN f.routes}
DomainsOnce(f) ==
  LET claims == DomainClaims(f) \cup RouteClaims(f)
  IN  Once(claims) /\ \A c \in claims : c[1] # f.hook

(***************************************************************************)
(* Needs                                                                   *)
(***************************************************************************)
Needs(f, u, s) ==
  LET own == Level(f, u, s).needs
  IN  IF s = Web THEN own
      ELSE IF Level(f, u, s).inherit THEN own \cup Level(f, u, Web).needs ELSE own

NeedUnit(f, u, n) ==
  <<n, IF u[2] \in EnvsOf(f.docs[n]) THEN u[2] ELSE Primary>>
SameBox(f, u, v) == BoxOf(f, u) = BoxOf(f, v)
ResourcesOn(f, kind, b) ==
  {r \in DOMAIN f.resources : f.resources[r].kind = kind /\ b \in f.resources[r].boxes}

ProjectNeedMet(f, u, n) ==
  LET v == NeedUnit(f, u, n) IN
  /\ f.docs[n].publish
  /\ v \in Units(f)
  /\ Level(f, v, Web).port
  /\ SameBox(f, u, v) \/ HasIp[BoxOf(f, v)]
ResourceNeedMet(f, u, n) ==
  /\ n \in ResourcesOn(f, "container", BoxOf(f, u))
  /\ f.resources[n].port
NeedMet(f, u, n) ==
  IF n = Postgres THEN Cardinality(ResourcesOn(f, "postgres", BoxOf(f, u))) = 1
  ELSE IF n \in DOMAIN f.docs THEN ProjectNeedMet(f, u, n)
  ELSE n \in DOMAIN f.resources /\ ResourceNeedMet(f, u, n)
NeedsMet(f) == \A t \in Slots(f) : \A n \in Needs(f, t[1], t[2]) : NeedMet(f, t[1], n)

\* What a container is told to call: a container by name over the box's
\* network, or a box's address over the tailnet.
Url(f, u, n) ==
  IF n \in DOMAIN f.docs
  THEN LET v == NeedUnit(f, u, n)
       IN  [to |-> ContainerName(f, v, Web), box |-> BoxOf(f, v),
            tailnet |-> ~SameBox(f, u, v)]
  ELSE [to |-> n, box |-> BoxOf(f, u), tailnet |-> FALSE]
Siblings(f, u, s) ==
  IF s = Web \/ Level(f, u, s).inherit
  THEN {x \in LevelsOf(f, u) \ {s} : Level(f, u, x).port} ELSE {}
Urls(f, u, s) ==
  {Url(f, u, n) : n \in Needs(f, u, s) \ {Postgres}}
    \cup {[to |-> ContainerName(f, u, x), box |-> BoxOf(f, u), tailnet |-> FALSE] :
            x \in Siblings(f, u, s)}
\* A mutant: only what a main container calls.
ExposedByMain(f) ==
  {x.to : x \in {y \in UNION {Urls(f, u, Web) : u \in Units(f)} : y.tailnet}}

\* tailnet_exposed: what another box calls listens on its tailnet address.
Exposed(f) ==
  {x.to : x \in {y \in UNION {Urls(f, t[1], t[2]) : t \in Slots(f)} : y.tailnet}}

\* The database container of a unit's box, where a level needs one.
UsesDb(f, u, s) == Postgres \in Needs(f, u, s)
DbOn(f, u) == CHOOSE r \in ResourcesOn(f, "postgres", BoxOf(f, u)) : TRUE
DatabasesOnce(f) ==
  Once({<< <<DbOn(f, t[1]), DbName(f, t[1])>>, t[1]>> :
          t \in {x \in Slots(f) : UsesDb(f, x[1], x[2])}})

\* A variable is set once: by a need, a sibling or the document.
VarsOnce(f) ==
  \A t \in Slots(f) :
    LET lv == Level(f, t[1], t[2])
        own == IF t[2] = Web \/ ~lv.inherit THEN lv.vars
               ELSE lv.vars \cup Level(f, t[1], Web).vars
        needs == Needs(f, t[1], t[2]) \ {Postgres}
        sibs == Siblings(f, t[1], t[2])
    IN  own \cap needs = {} /\ own \cap sibs = {} /\ needs \cap sibs = {}

VolumesOnce(f) ==
  LET units == UNION {{<<VolumeName(f, t[1], v), t[1]>> : v \in Level(f, t[1], t[2]).volumes} :
                        t \in Slots(f)}
      resources == UNION {{<<v, <<r>> >> : v \in f.resources[r].volumes} :
                            r \in DOMAIN f.resources}
  IN  Once(units \cup resources)

(***************************************************************************)
(* Images and builds                                                       *)
(***************************************************************************)
DefaultFile == "Dockerfile"
MainImage(f, u) == Level(f, u, Web).from = "image"
\* Where a container's image comes from: pulled, built from a Dockerfile of
\* its own, or the build of the main container.
Source(f, u, s) ==
  LET lv == Level(f, u, s) IN
  IF lv.from # "share" THEN lv.from
  ELSE IF ~lv.inherit THEN DefaultFile
  ELSE IF MainImage(f, u) THEN "image" ELSE "share"
Builds(f, u, s) == Source(f, u, s) # "image"
OwnBuilds(f, u) == {s \in LevelsOf(f, u) : Source(f, u, s) \notin {"image", "share"}}

\* _build_repo: an app repo builds from its own repo, whatever [build] repo says.
LockRepo(f, p) == IF p \in DOMAIN f.locks THEN f.locks[p].repo ELSE None
Repo(f, u) ==
  IF Doc(f, u).inFleet /\ Doc(f, u).repo # None THEN Doc(f, u).repo
  ELSE IF LockRepo(f, u[1]) # None THEN LockRepo(f, u[1]) ELSE Doc(f, u).repo
ReposNamed(f) ==
  \A t \in Slots(f) : Builds(f, t[1], t[2]) =>
    LET declared == Doc(f, t[1]).repo
        locked == LockRepo(f, t[1][1])
    IN  /\ Repo(f, t[1]) # None
        /\ ~Doc(f, t[1]).inFleet /\ declared # None /\ locked # None => declared = locked
\* A pin is an app repo commit.
PinsInAppRepo(f) ==
  \A t \in Slots(f) :
    Builds(f, t[1], t[2]) /\ Deploy(f, t[1]).track = "pin" => ~Doc(f, t[1]).inFleet

\* A mutant: the builds of the repository are counted, not the project's.

\* bay_project marks the builds of a fleet project that has two or more.
ProjectKey(f, u) ==
  IF Doc(f, u).inFleet /\ Cardinality(OwnBuilds(f, u)) >= 2 THEN u[1] ELSE None
Build(f, u, s) ==
  LET shared == Source(f, u, s) = "share" IN
  [repo |-> Repo(f, u), branch |-> Deploy(f, u).branch,
   file |-> IF shared THEN Source(f, u, Web) ELSE Source(f, u, s),
   shared |-> shared,
   toml |-> IF Doc(f, u).inFleet THEN None ELSE u[1],
   project |-> IF shared THEN None ELSE ProjectKey(f, u),
   held |-> Deploy(f, u).track = "pin" \/ Lock(f, u).frozen]

\* What the deploy code cannot express: an unrouted container that builds, has
\* a database, a health path or a zero-downtime swap; open paths beside a
\* password.
Supported(f) ==
  \A t \in Slots(f) :
    LET lv == Level(f, t[1], t[2]) IN
    IF Routed(f, t[1], t[2]) THEN ~(lv.open # {} /\ lv.password)
    ELSE /\ ~Builds(f, t[1], t[2])
         /\ ~UsesDb(f, t[1], t[2])
         /\ lv.health = None
         /\ ~lv.zero

(***************************************************************************)
(* The compile                                                             *)
(***************************************************************************)
\* load_inputs: every document, lock and resource is well formed, and a lock
\* knows no environment that its document lost.
LockSchema(l) ==
  /\ \A s \in DOMAIN l.containers : l.containers[s] \in Names
  /\ \A v \in DOMAIN l.volumes : l.volumes[v] \in Names
  /\ l.database \in Names \cup {None}
ResourceSchema(r) ==
  /\ r.boxes \subseteq Boxes /\ r.volumes \subseteq Names
  /\ r.expose # None => r.port
Loads(f) ==
  /\ DOMAIN f.resources \cup DOMAIN f.routes \subseteq Names
  /\ \A r \in DOMAIN f.resources : ResourceSchema(f.resources[r])
  /\ \A p \in DOMAIN f.locks : \A e \in DOMAIN f.locks[p].envs :
       LockSchema(f.locks[p].envs[e])
  /\ \A p \in DOMAIN f.docs : Valid(p, f.docs[p])
  /\ \A p \in DOMAIN f.docs \cap DOMAIN f.locks :
       DOMAIN f.locks[p].envs \subseteq EnvsOf(f.docs[p])

Accepts(f) ==
  /\ Loads(f)
  /\ BoxesKnown(f) /\ RegionsGiven(f)
  /\ NamesOnce(f) /\ DerivedFree(f)
  /\ ModesGiven(f) /\ DomainsOnce(f)
  /\ NeedsMet(f) /\ DatabasesOnce(f) /\ VarsOnce(f)
  /\ VolumesOnce(f)
  /\ ReposNamed(f) /\ PinsInAppRepo(f)
  /\ Supported(f)

Entry(f, u, s) ==
  LET lv == Level(f, u, s)
      routed == Routed(f, u, s)
      name == ContainerName(f, u, s)
  IN  [name |-> name, unit |-> u, svc |-> s, routed |-> routed,
       regions |-> Regions({BoxOf(f, u)}),
       mode |-> ModeOf(f, u, s),
       domains |-> IF routed THEN DomainsOf(f, u, s) ELSE {},
       path |-> IF routed THEN lv.path ELSE None,
       open |-> lv.open, locked |-> lv.locked,
       password |-> lv.password, health |-> IF routed THEN lv.health ELSE None,
       port |-> IF routed THEN TRUE ELSE lv.port,
       expose |-> IF routed /\ name \in Exposed(f) THEN "tailnet" ELSE lv.expose,
       zero |-> lv.zero,
       urls |-> Urls(f, u, s),
       db |-> IF UsesDb(f, u, s) THEN <<DbOn(f, u), DbName(f, u)>> ELSE <<>>,
       volumes |-> {VolumeName(f, u, v) : v \in lv.volumes},
       build |-> IF Builds(f, u, s) THEN Build(f, u, s) ELSE None]
ResourceEntry(f, r) ==
  [name |-> r, unit |-> <<>>, svc |-> r, routed |-> FALSE,
   regions |-> Regions(f.resources[r].boxes),
   mode |-> "internal", domains |-> {}, path |-> None, open |-> {}, locked |-> {},
   password |-> FALSE, health |-> None, port |-> TRUE, expose |-> f.resources[r].expose,
   zero |-> FALSE, urls |-> {}, db |-> <<>>, volumes |-> f.resources[r].volumes,
   build |-> None]

\* services.yml: one entry for each container, and the jobs beside them.
Output(f) ==
  [entries |-> {Entry(f, t[1], t[2]) : t \in Slots(f)}
                 \cup {ResourceEntry(f, r) : r \in DOMAIN f.resources},
   jobs |-> {[name |-> JobName(f, t[1], t[2]), of |-> ContainerName(f, t[1], Web)] :
               t \in JobsOf(f)},
   routes |-> DOMAIN f.routes]
=============================================================================
