---------------------------- MODULE FleetConfig ----------------------------
(***************************************************************************)
(* A fleet's files under edit, and the services.yml that bay compile last  *)
(* accepted.  Operators change one key at a time, in any project, and      *)
(* compile whenever they like; a refused compile leaves the file alone.    *)
(* What boxes run, route and rebuild follows from the accepted file.       *)
(***************************************************************************)
EXTENDS Validate, PushFan

CONSTANTS Bases,          \* fleets to start from, all of which compile
          Catalogue,      \* project -> the bay.toml it is added with
          NewLevels,      \* service -> the level it is added with
          NewEnv,         \* environment -> its [deploy] table when added
          DocValues, DeployValues, LevelValues, LockValues, ResourceValues,
                          \* key -> the values an edit may give it
          RouteDomains, HookDomains, HandNames,
          Requests,       \* request paths to ask about
          MaxEdits

ASSUME BasesCompile == \A f \in Bases : Accepts(f)
ASSUME RequestsArePaths == Requests \subseteq Paths

VARIABLES files,   \* what is on disk, services.yml aside
          src,     \* the files the last accepted compile read
          out,     \* services.yml
          edits    \* bound
vars == <<files, src, out, edits>>

Init ==
  /\ files \in Bases
  /\ src = files
  /\ out = Output(files)
  /\ edits = 0

(***************************************************************************)
(* Edits                                                                   *)
(***************************************************************************)
\* One key of a table takes another value.
OneKey(table, values) ==
  UNION {{[table EXCEPT ![k] = x] : x \in values[k] \ {table[k]}} :
           k \in DOMAIN values \cap DOMAIN table}
Without(fn, k) == [x \in DOMAIN fn \ {k} |-> fn[x]]
With(fn, k, v) == [x \in DOMAIN fn \cup {k} |-> IF x = k THEN v ELSE fn[x]]

LevelEdits(doc) ==
  (UNION {{With(doc.levels, s, lv) : lv \in OneKey(doc.levels[s], LevelValues)} :
            s \in DOMAIN doc.levels})
    \cup {With(doc.levels, s, NewLevels[s]) : s \in DOMAIN NewLevels \ DOMAIN doc.levels}
    \cup {Without(doc.levels, s) : s \in Services(doc)}
DeployEdits(doc) ==
  (UNION {{With(doc.deploy, e, d) : d \in OneKey(doc.deploy[e], DeployValues)} :
            e \in EnvsOf(doc)})
    \cup {With(doc.deploy, e, NewEnv[e]) : e \in DOMAIN NewEnv \ EnvsOf(doc)}
    \cup {Without(doc.deploy, e) : e \in EnvsOf(doc)}
DocEdits(doc) ==
  OneKey(doc, DocValues)
    \cup {[doc EXCEPT !.levels = x] : x \in LevelEdits(doc)}
    \cup {[doc EXCEPT !.deploy = x] : x \in DeployEdits(doc)}

Edit ==
  /\ edits < MaxEdits
  /\ edits' = edits + 1
  /\ UNCHANGED <<src, out>>

EditDoc(p) ==
  /\ Edit
  /\ \E d \in DocEdits(files.docs[p]) : files' = [files EXCEPT !.docs[p] = d]

\* bay freezes, moves and adopts by writing the project's lock.
EditLock(p) ==
  /\ Edit
  /\ p \in DOMAIN files.locks
  /\ \E e \in DOMAIN files.locks[p].envs :
       \E l \in OneKey(files.locks[p].envs[e], LockValues) :
         files' = [files EXCEPT !.locks[p].envs[e] = l]

AddProject(p) ==
  /\ Edit
  /\ p \in DOMAIN Catalogue \ DOMAIN files.docs
  /\ files' = [files EXCEPT !.docs = With(@, p, Catalogue[p])]

RemoveProject(p) ==
  /\ Edit
  /\ files' = [files EXCEPT !.docs = Without(@, p), !.locks = Without(@, p)]

EditResource(r) ==
  /\ Edit
  /\ \E x \in OneKey(files.resources[r], ResourceValues) :
       files' = [files EXCEPT !.resources[r] = x]

EditRoute(r) ==
  /\ Edit
  /\ \E d \in RouteDomains \ {files.routes[r]} : files' = [files EXCEPT !.routes[r] = d]

EditHook ==
  /\ Edit
  /\ \E d \in HookDomains \ {files.hook} : files' = [files EXCEPT !.hook = d]

WriteByHand ==
  /\ Edit
  /\ \E n \in HandNames \ files.hand : files' = [files EXCEPT !.hand = @ \cup {n}]

(***************************************************************************)
(* The compile                                                             *)
(***************************************************************************)
Compile ==
  /\ files # src
  /\ Accepts(files)
  /\ src' = files
  /\ out' = Output(files)
  /\ UNCHANGED <<files, edits>>

Next ==
  \/ \E p \in DOMAIN files.docs : EditDoc(p) \/ EditLock(p) \/ RemoveProject(p)
  \/ \E p \in DOMAIN Catalogue : AddProject(p)
  \/ \E r \in DOMAIN files.resources : EditResource(r)
  \/ \E r \in DOMAIN files.routes : EditRoute(r)
  \/ EditHook
  \/ WriteByHand
  \/ Compile

Spec == Init /\ [][Next]_vars

(***************************************************************************)
(* What the boxes make of services.yml                                     *)
(***************************************************************************)
\* deploy.yml: an entry without regions is active on every host.
Active(b) == {e \in out.entries : e.regions = {} \/ Group[b] \in e.regions}

\* What bay validate says of names and domains must be clear for a deploy.
Deployable == RouterNameFaults(out) = {} /\ CanaryFaults(out) = {} /\ DomainFaults(out) = {}

(***************************************************************************)
(* Properties                                                              *)
(***************************************************************************)
\* NamesApart: on an accepted file no two things of the fleet share a name or
\* data: containers, the canaries and release containers derived from them,
\* jobs, routers, and, between units, volumes and databases; whatever names,
\* environments, adopted names and hand-written names met in the files.
DerivedNames == {"new", "release"}
NamesApart ==
  /\ \A e, x \in out.entries :
       /\ e.name = x.name => e = x
       /\ e.unit # x.unit => e.volumes \cap x.volumes = {} /\ (e.db # <<>> => e.db # x.db)
       /\ \A w \in DerivedNames : x.name # Append(e.name, w)
       /\ \A r \in Routers(e), q \in Routers(x) : r.name = q.name => r = q
  /\ \A j, k \in out.jobs : j.name = k.name => j = k
  /\ \A j \in out.jobs, e \in out.entries : j.name # e.name
  /\ Deployable => \A r \in out.routes, e \in out.entries :
       \A q \in Routers(e) : q.name # Append(r, "tailnet")

\* UrlsAnswer: whatever URL the compile writes into a container is answered on
\* the box, or on the other box's tailnet address, by a container that runs
\* there and listens; and so is its database.  A published project whose main
\* container is internal and that another box needs is left out (README).
UrlsAnswer ==
  \A b \in Boxes : \A e \in Active(b) :
    /\ e.db # <<>> => \E x \in Active(b) : x.name = e.db[1]
    /\ \A u \in e.urls :
         \E x \in Active(u.box) :
           /\ x.name = u.to
           /\ u.tailnet \/ u.box = b
           /\ x.port
           /\ u.tailnet /\ x.routed => x.expose = "tailnet" /\ HasIp[u.box]

\* RequestsGoHome: on every box, a request for a host that a project claims is
\* answered by that project, and by one container of it: by the longest path
\* service over the request's path, else by the container of the host; only
\* declared health paths come first.  Hosts on which a project with an
\* internal main container routes by path are left out (README).
Serving(b, h) == {e \in Active(b) : h \in e.domains}
Longest(es) == {e \in es : \A x \in es : PathLen(x.path) =< PathLen(e.path)}
Home(es, p) ==
  LET carved == {e \in es : HasCarveOut(e) /\ e.health = p}
      paths == {e \in es : e.path # None /\ Under(p, e.path)}
  IN  IF carved # {} THEN carved
      ELSE IF paths # {} THEN Longest(paths) ELSE {e \in es : e.path = None}
HasMain(es) == \A e \in es : \E m \in es : m.path = None
RequestsGoHome ==
  Deployable => \A b \in Boxes, h \in UNION {e.domains : e \in out.entries} :
    LET es == Serving(b, h) IN
    es # {} /\ HasMain(es) =>
      /\ \A e, x \in es : e.unit = x.unit
      /\ \A p \in Requests :
           LET ws == {r.svc : r \in Winners(UNION {Routers(e) : e \in es}, h, p)}
           IN  ws # {} /\ ws \subseteq {e.name : e \in Home(es, p)}

\* LockedStaysIn: whichever router wins, a path under a locked one and every
\* path of a tailnet service outside its open ones is behind the VPN rule, an
\* open path is not, and a password is asked for on all but the health path.
\* Left out is a path beside an open one, which starts with it and goes on
\* without a slash, as /apix beside /api: Traefik's PathPrefix opens it too,
\* against rule 9 of docs/bay-toml.md:128 (OpenEndsAtSegment; README).
BesideOpen(e, p) == \E q \in e.open : Starts(p, q) /\ ~Under(p, q)
LockedStaysIn ==
  \A b \in Boxes, h \in UNION {e.domains : e \in out.entries} :
    LET es == Serving(b, h) IN
    \A p \in Requests : \A r \in Winners(UNION {Routers(e) : e \in es}, h, p) :
      \A e \in {x \in es : x.name = r.svc} :
        /\ e.mode = "public" /\ (\E q \in e.locked : Under(p, q)) => r.vpn
        /\ e.mode = "tailnet" /\ ~(\E q \in e.open : Under(p, q)) /\ ~BesideOpen(e, p) => r.vpn
        /\ e.mode = "tailnet" /\ (\E q \in e.open : Under(p, q)) => ~r.vpn
        /\ e.password /\ p # e.health => r.auth

\* OpenEndsAtSegment: docs/bay-toml.md:128: "Path lists (`open`, `locked`, `path`)
\* [...] match the exact path or a prefix on a segment boundary: `/admin` matches
\* `/admin` and `/admin/x`, not `/administrator`": what no open path covers that
\* way stays behind the VPN rule of a tailnet service.
OpenEndsAtSegment ==
  \A b \in Boxes, h \in UNION {e.domains : e \in out.entries} :
    LET es == Serving(b, h) IN
    \A p \in Requests : \A r \in Winners(UNION {Routers(e) : e \in es}, h, p) :
      \A e \in {x \in es : x.name = r.svc} :
        e.mode = "tailnet" /\ ~(\E q \in e.open : Under(p, q)) => r.vpn

\* ProbesReach: what bay healthcheck asks for a service is answered by a container
\* of that name, past the VPN rule and the password, so that a red line is the
\* service's own and a green one too.  Left out are a health path that another
\* service of the host has as well or takes by its path, one that is locked, and
\* a path service whose health path is not under its path, which is asked behind
\* its VPN rule or password (README).
TakesHealth(x, e) ==
  \/ HasCarveOut(x) /\ x.health \in {Asked(e), ProbePath(e)}
  \/ x.path # None /\ Under(Asked(e), x.path) /\ (e.path = None \/ Under(x.path, e.path))
Barred(e) ==
  \/ e.mode = "public" /\ \E q \in e.locked : StartsAny(ProbePath(e), q)
  \/ e.path # None /\ ~Under(Asked(e), e.path) /\ (e.mode = "tailnet" \/ e.password)
ProbesReach ==
  Deployable => \A b \in Boxes : \A t \in Targets(Active(b)) :
    LET es == Serving(b, t.host) IN
    ~Barred(t.of) /\ (\A x \in es \ {t.of} : ~TakesHealth(x, t.of)) =>
      \A r \in Winners(UNION {Routers(e) : e \in es}, t.host, t.path) :
        r.svc = t.of.name /\ ~r.vpn /\ ~r.auth

\* PushReachesAll: with one hook for each project, wherever it points, a push
\* restarts every container built from the repository and branch on every box
\* it runs on, if neither it nor the build whose image it takes is held.
PushReachesAll ==
  \A hs \in Hookings(out.entries), b \in Boxes :
    \A e \in Building(Active(b)) :
      ~e.build.held /\ ~PrimaryBuild(Active(b), e).build.held
        => e \in Deployed(out.entries, Active(b), hs)

\* PlacedWhereSaid: a box runs the containers that bay.toml, a lock or a
\* resource puts on it, and no others (docs/layout-scenarios.md).
PlacedWhereSaid ==
  \A b \in Boxes : \A e \in out.entries :
    e \in Active(b) <=>
      IF e.unit = <<>> THEN b \in src.resources[e.name].boxes
      ELSE BoxOf(src, e.unit) = b

\* AcceptedDeploys: what the compile accepts the validation of the deploy
\* accepts, which bay up runs after it pushed the locks and services.yml; but
\* for names that end like a router, a bare slash among the open paths, and the
\* path services of projects with an internal main container (README).
NoMain(e) == \A x \in out.entries : x.unit = e.unit /\ x.routed => x.path # None
Known(x) == x[1] \in {"router", "open"} \/ (x[1] = "domain" /\ NoMain(x[2]))
AcceptedDeploys == \A x \in RunValidation(src, out) : Known(x)
=============================================================================
