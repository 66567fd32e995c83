------------------------------- MODULE Validate -------------------------------
(***************************************************************************)
(* bay validate of a compiled fleet (src/src/bay_cli/commands/validate.py),*)
(* which every deploy runs first.  bay up commits and pushes the locks and *)
(* services.yml before it deploys, so a file that the compile accepts and  *)
(* this refuses is found out too late.  Of its checks the module has those *)
(* that the files of FleetConfig decide; f is what the compile read, o is  *)
(* services.yml, and every check gives the entries it finds fault with.    *)
(***************************************************************************)
EXTENDS Compile, Routing

\* The containers Traefik routes, and the rest.
ServiceEntries(o) == {e \in o.entries : e.routed}
Accessories(o) == o.entries \ ServiceEntries(o)

\* services.schema.json: a service has a domain and a port, an accessory is pulled.
SchemaFaults(f, o) ==
  {e \in ServiceEntries(o) : e.domains = {} \/ ~Level(f, e.unit, e.svc).port}
    \cup {e \in Accessories(o) : e.build # None}

\* The database of a service is an accessory.
DatabaseFaults(o) ==
  {e \in ServiceEntries(o) : e.db # <<>> /\ \A x \in Accessories(o) : x.name # e.db[1]}

\* depends_on, as the compile writes it: the resources among the needs.
DependsOn(f, e) ==
  IF e.unit = <<>> THEN {}
  ELSE (Needs(f, e.unit, e.svc) \ ({Postgres} \cup DOMAIN f.docs))
         \cup (IF e.db = <<>> THEN {} ELSE {e.db[1]})
DependsFaults(f, o) == {e \in o.entries : ~(DependsOn(f, e) \subseteq {x.name : x \in o.entries})}

\* One domain and path, one service on a box.
Overlap(a, b) == a.regions = {} \/ b.regions = {} \/ a.regions \cap b.regions # {}
DomainFaults(o) ==
  {e \in ServiceEntries(o) :
     \E x \in ServiceEntries(o) \ {e} :
       e.path = x.path /\ e.domains \cap x.domains # {} /\ Overlap(e, x)}

\* public_routes: a bare slash opens everything.
RouteFaults(o) == {e \in ServiceEntries(o) : e.mode = "tailnet" /\ "/" \in e.open}

\* Names that end like a router or a release container, and names that are another's canary.
RouterWords == {"vpn", "public", "health", "tailnet", "release"}
RouterNameFaults(o) ==
  {e \in ServiceEntries(o) : \E w \in RouterWords : EndsWithWord(e.name, w)}
CanaryFaults(o) ==
  {e \in o.entries : \E x \in ServiceEntries(o) : e.name = Append(x.name, "new")}

\* _source_built_repos: what a bay.toml builds, read without the compiler.
SourceBuilt(doc) ==
  LET mainBuilds == doc.levels[Web].from # "image" IN
  {s \in DOMAIN doc.levels :
     LET lv == doc.levels[s] IN
     \/ lv.from \notin {"image", "share"}
     \/ lv.from = "share" /\ (mainBuilds \/ ~lv.inherit)}
\* A project of the fleet that builds names its repository, or its lock does.
RepoFaults(f) ==
  {p \in DOMAIN f.docs :
     /\ f.docs[p].inFleet /\ SourceBuilt(f.docs[p]) # {}
     /\ f.docs[p].repo = None /\ LockRepo(f, p) = None}

\* The routes of the tailnet: what the compile of them refuses.
TailnetFaults(f) == IF Once(RouteClaims(f)) THEN {} ELSE DOMAIN f.routes

\* run_validation: what is found, with the check that finds it.
RunValidation(f, o) ==
  ({"schema"} \X SchemaFaults(f, o))
    \cup ({"database"} \X DatabaseFaults(o))
    \cup ({"depends"} \X DependsFaults(f, o))
    \cup ({"domain"} \X DomainFaults(o))
    \cup ({"open"} \X RouteFaults(o))
    \cup ({"router"} \X RouterNameFaults(o))
    \cup ({"canary"} \X CanaryFaults(o))
    \cup ({"repo"} \X RepoFaults(f))
    \cup ({"route"} \X TailnetFaults(f))
===============================================================================
