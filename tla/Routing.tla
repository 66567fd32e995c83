------------------------------ MODULE Routing ------------------------------
(***************************************************************************)
(* The Traefik routers of a compiled service, and which one answers a      *)
(* request (src/filter_plugins/bay_filters.py, bay_traefik_labels).        *)
(*                                                                         *)
(* Of a router's rule the module keeps the hosts, a prefix that ends at a  *)
(* slash (base), the routes of a split router with the way they match, and *)
(* its length, because Traefik ranks a router without a priority by it.    *)
(***************************************************************************)
EXTENDS BayToml

CONSTANTS Under(_, _),      \* first path is the second, or below it after a slash
          Starts(_, _),     \* first path starts with the second, letter for letter
          StartsAny(_, _),  \* the same, upper and lower case being one
          HostRuleLen(_),   \* characters of Host(..) || Host(..) for these domains
          PathLen(_)        \* characters of a path

\* A rule and a path have a length; what is below a path starts with it.
ASSUME RuleAssumption ==
  /\ None \notin Paths
  /\ \A ds \in SUBSET Hosts : HostRuleLen(ds) \in Nat
  /\ \A p \in Paths : PathLen(p) \in Nat
  /\ \A p, q \in Paths :
       (Under(p, q) => Starts(p, q)) /\ (Starts(p, q) => StartsAny(p, q))

HealthPriority == 1000000
SplitCatchAll == 10
SplitRoutes == 20

\* A mutant: the path counts for nothing.
HostLenOnly(ds, p) == HostRuleLen(ds)

\* Host() && (Path(`p`) || PathPrefix(`p/`)), in brackets for several hosts.
PathRuleLen(ds, p) ==
  HostRuleLen(ds) + (IF Cardinality(ds) > 1 THEN 2 ELSE 0) + 33 + 2 * PathLen(p)

Split(e) == IF e.mode = "public" THEN e.locked ELSE e.open

\* The router that takes everything the service owns.
CatchAll(e) ==
  [name |-> IF e.mode = "public" THEN e.name ELSE Append(e.name, "vpn"),
   svc |-> e.name, hosts |-> e.domains, base |-> e.path, how |-> "all", routes |-> {},
   prio |-> IF e.path # None THEN PathRuleLen(e.domains, e.path)
            ELSE IF Split(e) # {} THEN SplitCatchAll ELSE HostRuleLen(e.domains),
   vpn |-> e.mode # "public", auth |-> e.password, carve |-> FALSE]

\* The router of the locked paths of a public service, or of the open paths
\* of a tailnet service.
SplitOff(e) ==
  [name |-> Append(e.name, IF e.mode = "public" THEN "vpn" ELSE "public"),
   svc |-> e.name, hosts |-> e.domains, base |-> e.path,
   how |-> IF e.mode = "public" THEN "anycase" ELSE "prefix", routes |-> Split(e),
   prio |-> IF e.path # None THEN PathRuleLen(e.domains, e.path) + 1 ELSE SplitRoutes,
   vpn |-> e.mode = "public", auth |-> e.password, carve |-> FALSE]

\* The health path of a service with a password answers without it, behind
\* the same VPN rule as the router that would have taken it.
HasCarveOut(e) ==
  /\ e.password /\ e.health # None
  /\ e.path # None => Under(e.health, e.path)
\* (HealthIsExact is a mutant: it asks for the locked path itself.)
HealthIsExact(e) ==
  IF e.mode = "public" THEN e.health \in e.locked
  ELSE ~\E q \in e.open : Under(e.health, q)
HealthIsVpn(e) ==
  IF e.mode = "public" THEN \E q \in e.locked : StartsAny(e.health, q)
  ELSE ~\E q \in e.open : Under(e.health, q)
CarveOut(e) ==
  [name |-> Append(e.name, "health"),
   svc |-> e.name, hosts |-> e.domains, base |-> e.path, how |-> "exact",
   routes |-> {e.health}, prio |-> HealthPriority,
   vpn |-> HealthIsVpn(e), auth |-> FALSE, carve |-> TRUE]

Routers(e) ==
  IF ~e.routed THEN {}
  ELSE {CatchAll(e)}
         \cup (IF Split(e) # {} THEN {SplitOff(e)} ELSE {})
         \cup (IF HasCarveOut(e) THEN {CarveOut(e)} ELSE {})

RouteMatches(how, p, q) ==
  CASE how = "anycase" -> StartsAny(p, q)
    [] how = "prefix" -> Starts(p, q)
    [] how = "exact" -> p = q
Matches(r, h, p) ==
  /\ h \in r.hosts
  /\ r.base # None => Under(p, r.base)
  /\ r.how # "all" => \E q \in r.routes : RouteMatches(r.how, p, q)

\* Traefik takes a matching router of the highest priority.
Winners(rs, h, p) ==
  LET ms == {r \in rs : Matches(r, h, p)}
  IN  {r \in ms : \A x \in ms : x.prio =< r.prio}

(***************************************************************************)
(* What bay healthcheck and the end of a bay deploy ask over the public    *)
(* internet for a compiled service (src/src/bay_cli/healthcheck.py): which *)
(* path, and which services are left out because the VPN or a password     *)
(* would answer instead of them.  A path that leads to the wrong container *)
(* reads as its health.  Domains are literal, without region variables.    *)
(***************************************************************************)
Root == "/"

\* _path_covered_by_public_routes: at a slash.
Covered(p, routes) == \E q \in routes : Under(p, q)

\* The health path of the service, or the root.
Asked(e) == IF e.health = None THEN Root ELSE e.health

\* should_skip_vpn_only: a tailnet service is asked on an open path only.
VpnOnly(e) == e.mode = "tailnet" /\ ~Covered(Asked(e), e.open)

\* is_gated: a password with no health path to carve out of it.
Gated(e) == e.password /\ e.health = None

\* _collect_targets: a service on a path is asked under it, else it would be
\* another that answers.
\* Mutant: the health path alone decides.
PathOfHealth(e) == Asked(e)
ProbePath(e) == IF e.path # None /\ ~Under(Asked(e), e.path) THEN e.path ELSE Asked(e)
Probed(es) == {e \in es : e.routed /\ ~VpnOnly(e) /\ ~Gated(e)}
Targets(es) == UNION {{[of |-> e, host |-> h, path |-> ProbePath(e)] : h \in e.domains} : e \in Probed(es)}
=============================================================================
