--------------------------------- MODULE Acl ---------------------------------
(* The headscale policy as bay reads it: bay gateway acl audit sets each live *)
(* node against the accept rules, and bay validate looks for a rule that lets *)
(* the ingress box reach the upstream of each tailnet route.                  *)
(*                                                                            *)
(* A policy is [hosts, acls]: hosts maps an alias to a set of addresses, a    *)
(* rule is [src, dst] with sets of targets and of <<target, ports>>.  A       *)
(* target is [kind, of]: "any" for *, "host" for an alias or an address       *)
(* written out, "tag", or "group" for every form without an address.          *)
EXTENDS Integers, FiniteSets

CONSTANTS Addresses, Ports

Wild == [kind |-> "any", of |-> "*"]
Host(x) == [kind |-> "host", of |-> x]
Tag(x) == [kind |-> "tag", of |-> x]
Group(x) == [kind |-> "group", of |-> x]

-----------------------------------------------------------------------------
(* bay gateway acl audit; a node is [ip, tags, ...].                          *)

\* _build_tag_index
TagIndex(nodes) ==
    [t \in UNION {nodes[n].tags : n \in DOMAIN nodes} |->
        {nodes[n].ip : n \in {m \in DOMAIN nodes : t \in nodes[m].tags}}]

Resolves(target) == target.kind # "group"
\* Mutant: only an alias is looked up; an address written out has no answer.
AliasIps(name, hosts) == IF name \in DOMAIN hosts THEN hosts[name] ELSE {}
HostIps(name, hosts) == IF name \in DOMAIN hosts THEN hosts[name] ELSE {name} \cap Addresses
\* _resolve_acl_target: a tag nobody carries resolves, to nothing.
Resolve(target, hosts, tags) ==
    CASE target.kind = "any" -> Addresses
      [] target.kind = "tag" -> IF target.of \in DOMAIN tags THEN tags[target.of] ELSE {}
      [] OTHER -> HostIps(target.of, hosts)

Sources(policy) == (UNION {r.src : r \in policy.acls}) \ {Wild}
Targets(policy) == UNION {{d[1] : d \in r.dst} : r \in policy.acls}
\* _audit_acl_reachability
Covered(targets, policy, nodes) ==
    UNION {Resolve(t, policy.hosts, TagIndex(nodes)) : t \in {x \in targets : Resolves(x)}}
Audit(policy, nodes) ==
    [n \in DOMAIN nodes |->
        IF nodes[n].ip \in Covered(Targets(policy), policy, nodes) THEN "reachable"
        ELSE IF nodes[n].ip \in Covered(Sources(policy), policy, nodes) THEN "client-only"
        ELSE "unknown"]
Unresolvable(policy) == {t \in Sources(policy) \union Targets(policy) : ~Resolves(t)}
Inert(policy, nodes) ==
    {t \in Sources(policy) \union Targets(policy) :
        t.kind = "tag" /\ Resolve(t, policy.hosts, TagIndex(nodes)) = {}}

-----------------------------------------------------------------------------
(* bay validate, acl_warnings: a route goes to a host and a port.             *)

Aliases(ip, policy) == {a \in DOMAIN policy.hosts : ip \in policy.hosts[a]}
Single(aliases, policy) == {a \in aliases : Cardinality(policy.hosts[a]) = 1}
\* _names_for_host: an upstream is an address or a name.
NamesForHost(host, policy) ==
    {Host(host)} \union
        {Host(x) : x \in IF host \in Addresses THEN Aliases(host, policy)
                         ELSE UNION {policy.hosts[a] : a \in Single({host} \cap DOMAIN policy.hosts, policy)}}
\* _names_for_box
NamesForBox(box, policy) ==
    {Host(x) : x \in {box.name, box.ip} \union Single(Aliases(box.ip, policy), policy)}
Granting(policy, targets, port) ==
    {r \in policy.acls : \E d \in r.dst : d[1] \in targets /\ port \in d[2]}
Sole(rules, me) == \E r \in rules : r.src # {} /\ r.src \subseteq me
Reached(rules, me) == \E r \in rules : r.src \cap (me \union {Wild}) # {}
\* "shared": others may reach the upstream past the ingress box.
AclWarning(policy, route, box) ==
    LET me == NamesForBox(box, policy)
        rules == Granting(policy, NamesForHost(route.host, policy) \union {Wild}, route.port)
    IN  IF Sole(rules, me) THEN "none"
        ELSE IF Reached(rules, me) THEN "shared"
        ELSE "unreached"

-----------------------------------------------------------------------------
(* What the policy means, for a reference.                                    *)

Means(target, node, policy) ==
    CASE target.kind = "any" -> TRUE
      [] target.kind = "tag" -> target.of \in node.tags
      [] target.kind = "group" -> target.of = node.shown
      [] OTHER -> \/ target.of = node.ip
                  \/ target.of \in DOMAIN policy.hosts /\ node.ip \in policy.hosts[target.of]
ByTag(policy, node) ==
    \E t \in Sources(policy) \union Targets(policy) : t.kind = "tag" /\ Means(t, node, policy)
Permits(policy, from, to, ports) ==
    \E r \in policy.acls :
        /\ \E s \in r.src : Means(s, from, policy)
        /\ \E d \in r.dst : Means(d[1], to, policy) /\ d[2] \cap ports # {}
=============================================================================
