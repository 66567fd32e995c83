------------------------------- MODULE Gateway -------------------------------
(* bay gateway (src/bay_cli/commands/gateway.py) against the headscale of the *)
(* control host.  A command is a script of calls over Ansible, each of which  *)
(* headscale takes whole; between two calls other operators' commands, joins  *)
(* of devices and headscale's own caching go on, and any call may fail.       *)
(*                                                                            *)
(* A name is a sequence of words, joined by dashes in the program.            *)
EXTENDS Acl, Sequences, SequencesExt

CONSTANTS
    Operators,      \* shells running bay gateway
    Requests,       \* the commands they may run
    Routes,         \* subnet routes a node may offer
    Region,         \* the control region of the fleet, <<>> for none
    Policies,       \* headscale_acl_policy: the ones looked at
    Ingress,        \* the ingress box, and a tailnet route of bay.fleet.toml with
    Route, Upstream, \* the node it goes to
    FirstUsers, FirstNodes, MaxCommands, MaxFaults, MaxEvents

\* The servers of a tailnet before the first command: each node has a user of
\* its own or none, and an address no other node has.
ASSUME TailnetBegins ==
    \A n \in DOMAIN FirstNodes :
        /\ DOMAIN FirstNodes[n] = {"name", "owner", "shown", "tags", "ip", "offered", "approved"}
        /\ FirstNodes[n].owner \in DOMAIN FirstUsers \union {0}
        /\ FirstNodes[n].ip \in Addresses
        /\ \A m \in DOMAIN FirstNodes : FirstNodes[m].ip = FirstNodes[n].ip => m = n
\* A policy headscale accepts: an alias is no address, and a target is * or an
\* alias or an address, or a tag, or has no address.
ASSUME PoliciesAreValid ==
    \A policy \in Policies :
        /\ DOMAIN policy = {"hosts", "acls"}
        /\ DOMAIN policy.hosts \cap Addresses = {}
        /\ \A a \in DOMAIN policy.hosts : IsFiniteSet(policy.hosts[a])
        /\ \A r \in policy.acls : \A t \in r.src \union {d[1] : d \in r.dst} :
              /\ t = Wild \/ t.kind \in {"host", "tag", "group"}
              /\ t.kind = "host" => t.of \in Addresses \union DOMAIN policy.hosts
\* The route's host and the ingress box's name are what the policy has them for.
ASSUME RouteIsKnown ==
    /\ Ingress.ip \in Addresses /\ Ingress.name \notin Addresses
    /\ Upstream.ip \in Addresses /\ (Route.host \in Addresses => Route.host = Upstream.ip)
    /\ \A policy \in Policies :
          /\ Ingress.name \in DOMAIN policy.hosts => Ingress.ip \in policy.hosts[Ingress.name]
          /\ Route.host \in DOMAIN policy.hosts => Upstream.ip \in policy.hosts[Route.host]

VARIABLES
    users,          \* headscale: id -> name
    nodes,          \* headscale: id -> node
    keys,           \* headscale: pre-auth keys that can still be used
    last,           \* headscale: the last id it gave
    mem,            \* operator -> the command it runs and what it has read
    out,            \* how the command that has just ended went
    history,        \* approvals asked for; who ran alone so far; the names a
                    \* user has had
    count
hs == <<users, nodes, keys, last>>
vars == <<hs, mem, out, history, count>>

Nobody == 0
TaggedDevices == <<"tagged", "devices">>
Idle == [pc |-> "idle", req |-> [op |-> "none"], id |-> Nobody, todo |-> <<>>, csv |-> {}, rename |-> FALSE]
IsUser(name, us) == \E i \in DOMAIN us : us[i] = name
Known(name) == IsUser(name, users)
IdOf(name) == CHOOSE i \in DOMAIN users : users[i] = name
NameOf(owner) == IF owner = Nobody THEN TaggedDevices ELSE users[owner]
Put(f, id, x) == [i \in DOMAIN f \union {id} |-> IF i = id THEN x ELSE f[i]]
Drop(f, id) == [i \in DOMAIN f \ {id} |-> f[i]]
Spend(what, bound) == count[what] < bound /\ count' = [count EXCEPT ![what] = @ + 1]

\* The nodes of a user, by the owner name the node list carries: headscale
\* goes on showing the name a user had.
Listed(name) == {n \in DOMAIN nodes : nodes[n].shown = name}
Named(name) == {n \in DOMAIN nodes : nodes[n].name = name}

-----------------------------------------------------------------------------
(* The lists an operator reads.                                               *)

\* bay gateway nodes takes the owner's name from the list of users, and from
\* the node's record where that list could not be read.
NodeRows(read) ==
    [n \in DOMAIN nodes |->
        IF read /\ nodes[n].owner \in DOMAIN users THEN users[nodes[n].owner] ELSE nodes[n].shown]
\* bay gateway users, user-info
UserRows == [i \in DOMAIN users |-> Listed(users[i])]
\* bay gateway routes
RouteRows ==
    {[node |-> n, route |-> r, approved |-> r \in nodes[n].approved] :
        n \in DOMAIN nodes, r \in Routes}

-----------------------------------------------------------------------------
(* One call of a command.                                                     *)

FirstPc(op) ==
    CASE op = "add-user" -> "create"
      [] op \in {"enroll", "migrate"} -> "users"
      [] op \in {"key", "rename-user"} -> "lookup"
      [] op = "delete-user" -> "nodes"
      [] OTHER -> "node"
At(o, pc, ops) == mem[o].pc = pc /\ mem[o].req.op \in ops
Req(o) == mem[o].req
Goes(o, m) == mem' = [mem EXCEPT ![o] = m] /\ out' = "none" /\ UNCHANGED count
Stops(o, how) == mem' = [mem EXCEPT ![o] = Idle] /\ out' = how /\ UNCHANGED count
Goto(o, m) == Goes(o, m) /\ UNCHANGED history
End(o, how) == Stops(o, how) /\ UNCHANGED history
Reading == UNCHANGED hs

Start(o) ==
    /\ mem[o] = Idle
    /\ Spend("commands", MaxCommands)
    /\ \E r \in Requests :
        /\ mem' = [mem EXCEPT ![o] = [Idle EXCEPT !.pc = FirstPc(r.op), !.req = r]]
    /\ history' = [history EXCEPT !.alone =
            [x \in Operators |-> x = o /\ \A y \in Operators \ {o} : mem[y] = Idle]]
    /\ out' = "none"
    /\ UNCHANGED hs

\* enroll: an existing user is taken as it is.
FindUser(o) ==
    /\ At(o, "users", {"enroll"})
    /\ IF Known(Req(o).user) THEN Goto(o, [mem[o] EXCEPT !.pc = "mint", !.id = IdOf(Req(o).user)])
                             ELSE Goto(o, [mem[o] EXCEPT !.pc = "create"])
    /\ Reading
Bears(id, name) == history' = [history EXCEPT !.names = @ \union {<<id, name>>}]
CreateUser(o) ==
    /\ At(o, "create", {"add-user", "enroll"})
    /\ IF Known(Req(o).user) THEN End(o, "error") /\ UNCHANGED <<users, last>>
       ELSE /\ users' = Put(users, last + 1, Req(o).user) /\ last' = last + 1
            /\ Bears(last + 1, Req(o).user)
            /\ IF Req(o).op = "enroll" THEN Goes(o, [mem[o] EXCEPT !.pc = "lookup"]) ELSE Stops(o, "ok")
    /\ UNCHANGED <<nodes, keys>>
AfterLookup(op) ==
    CASE op \in {"enroll", "key"} -> "mint"
      [] op = "rename-user" -> "again"
      [] OTHER -> "destroy"
\* get_user_id
LookUp(o) ==
    /\ At(o, "lookup", {"enroll", "key", "rename-user", "delete-user"})
    /\ IF Known(Req(o).user)
       THEN Goto(o, [mem[o] EXCEPT !.pc = AfterLookup(Req(o).op), !.id = IdOf(Req(o).user)])
       ELSE End(o, "error")
    /\ Reading
Mint(o) ==
    /\ At(o, "mint", {"enroll", "key"})
    /\ IF mem[o].id \in DOMAIN users
       THEN /\ keys' = keys \union {[user |-> mem[o].id, tags |-> Req(o).tags,
                                     host |-> Req(o).host, reusable |-> Req(o).reusable]}
            /\ End(o, "ok")
       ELSE End(o, "error") /\ UNCHANGED keys
    /\ UNCHANGED <<users, nodes, last>>

\* rename_user of the backend looks the name up once more.
Again(o) ==
    /\ At(o, "again", {"rename-user", "migrate"})
    /\ IF Known(Req(o).user) THEN Goto(o, [mem[o] EXCEPT !.pc = "rename", !.id = IdOf(Req(o).user)])
                             ELSE End(o, "error")
    /\ Reading
RenameUser(o) ==
    /\ At(o, "rename", {"rename-user", "migrate"})
    /\ IF mem[o].id \in DOMAIN users /\ ~Known(Req(o).to)
       THEN /\ users' = [users EXCEPT ![mem[o].id] = Req(o).to]
            /\ Bears(mem[o].id, Req(o).to)
            /\ IF Req(o).op = "migrate" THEN Goes(o, [mem[o] EXCEPT !.pc = "names"]) ELSE Stops(o, "ok")
       ELSE End(o, "error") /\ UNCHANGED users
    /\ UNCHANGED <<nodes, keys, last>>

InOrder(ids) == SetToSortSeq(ids, <)
\* delete-user: the nodes first, by the list, with --force only.
FindNodes(o) ==
    /\ At(o, "nodes", {"delete-user"})
    /\ LET found == InOrder(Listed(Req(o).user))
       IN  IF found # <<>> /\ ~Req(o).force THEN End(o, "error")
           ELSE Goto(o, [mem[o] EXCEPT !.pc = "drop", !.todo = found])
    /\ Reading
DropNext(o) ==
    /\ At(o, "drop", {"delete-user"})
    /\ LET todo == mem[o].todo IN
       IF todo = <<>> THEN Goto(o, [mem[o] EXCEPT !.pc = "lookup"]) /\ UNCHANGED nodes
       ELSE IF Head(todo) \in DOMAIN nodes
            THEN nodes' = Drop(nodes, Head(todo)) /\ Goto(o, [mem[o] EXCEPT !.todo = Tail(todo)])
       ELSE End(o, "error") /\ UNCHANGED nodes
    /\ UNCHANGED <<users, keys, last>>
\* headscale keeps a user that has nodes, and drops its keys with it.
Destroy(o) ==
    /\ At(o, "destroy", {"delete-user"})
    /\ LET id == mem[o].id IN
       IF id \in DOMAIN users /\ \A n \in DOMAIN nodes : nodes[n].owner # id
       THEN /\ users' = Drop(users, id)
            /\ keys' = {k \in keys : k.user # id}
            /\ End(o, "ok")
       ELSE End(o, "error") /\ UNCHANGED <<users, keys>>
    /\ UNCHANGED <<nodes, last>>

\* _get_node_by_name
FindNode(o) ==
    /\ At(o, "node", {"delete-node", "rename-node", "approve", "revoke"})
    /\ LET found == Named(Req(o).name)
           id == CHOOSE n \in found : TRUE
       IN  IF Cardinality(found) # 1 THEN End(o, "error")
           ELSE IF Req(o).op \in {"approve", "revoke"}
           THEN /\ Goes(o, [mem[o] EXCEPT !.pc = "routes", !.id = id])
                /\ history' = [history EXCEPT !.asked =
                      @ \union IF Req(o).op = "approve" THEN {<<id, Req(o).route>>} ELSE {}]
           ELSE Goto(o, [mem[o] EXCEPT !.pc = "act", !.id = id])
    /\ Reading
DeleteNode(o) ==
    /\ At(o, "act", {"delete-node"})
    /\ IF mem[o].id \in DOMAIN nodes THEN nodes' = Drop(nodes, mem[o].id) /\ End(o, "ok")
                                     ELSE UNCHANGED nodes /\ End(o, "error")
    /\ UNCHANGED <<users, keys, last>>
\* headscale gives no name twice.
Renamed(id, name) ==
    id \in DOMAIN nodes /\ Named(name) = {} /\ nodes' = [nodes EXCEPT ![id].name = name]
RenameNode(o) ==
    /\ At(o, "act", {"rename-node"})
    /\ \/ Renamed(mem[o].id, Req(o).to) /\ End(o, "ok")
       \/ ~(mem[o].id \in DOMAIN nodes /\ Named(Req(o).to) = {}) /\ UNCHANGED nodes /\ End(o, "error")
    /\ UNCHANGED <<users, keys, last>>

\* Mutant: what the node offers is approved with it.
ApprovedAll(seen, route) == seen.approved \union seen.offered
\* route-approve writes the whole list back, with one route more or less.
Approved(seen, route) == seen.approved \union {route}
ReadRoutes(o) ==
    /\ At(o, "routes", {"approve", "revoke"})
    /\ LET route == Req(o).route
           seen == IF mem[o].id \in DOMAIN nodes THEN nodes[mem[o].id] ELSE [approved |-> {}, offered |-> {}]
       IN  IF Req(o).op = "approve"
           THEN IF route \notin seen.offered THEN End(o, "error")
                ELSE IF route \in seen.approved THEN End(o, "nothing")
                ELSE Goto(o, [mem[o] EXCEPT !.pc = "write", !.csv = Approved(seen, route)])
           ELSE IF route \notin seen.approved THEN End(o, "nothing")
                ELSE Goto(o, [mem[o] EXCEPT !.pc = "write", !.csv = seen.approved \ {route}])
    /\ Reading
\* An empty list leaves the -r option of headscale without its value.
WriteRoutes(o) ==
    /\ At(o, "write", {"approve", "revoke"})
    /\ IF mem[o].id \in DOMAIN nodes /\ mem[o].csv # {}
       THEN nodes' = [nodes EXCEPT ![mem[o].id].approved = mem[o].csv] /\ End(o, "ok")
       ELSE UNCHANGED nodes /\ End(o, "error")
    /\ UNCHANGED <<users, keys, last>>

-----------------------------------------------------------------------------
(* migrate-namespace.                                                         *)

\* The region of a node is the last word of its name.
Target(to, name) ==
    IF Len(name) > 1 THEN Append(to, Last(name)) ELSE to \o Region
\* Mutant: only the nodes listed under the old name.
MatchingOld(from, to) == Listed(from)
\* A node may still be listed under the name its user had before.
Matching(from, to) == Listed(from) \union Listed(to)
\* The user: renamed only when the new name is free.
PlanUser(o) ==
    /\ At(o, "users", {"migrate"})
    /\ Goto(o, [mem[o] EXCEPT !.pc = "nodes", !.rename = Known(Req(o).user) /\ ~Known(Req(o).to)])
    /\ Reading
PlanNodes(o) ==
    /\ At(o, "nodes", {"migrate"})
    /\ LET to == Req(o).to
           found == InOrder({n \in Matching(Req(o).user, to) : nodes[n].name # Target(to, nodes[n].name)})
           todo == [i \in DOMAIN found |-> <<found[i], Target(to, nodes[found[i]].name)>>]
       IN  IF ~mem[o].rename /\ todo = <<>> THEN End(o, "nothing")
           ELSE Goto(o, [mem[o] EXCEPT !.todo = todo, !.pc = IF mem[o].rename THEN "again" ELSE "names"])
    /\ Reading
RenameNext(o) ==
    /\ At(o, "names", {"migrate"})
    /\ LET todo == mem[o].todo IN
       IF todo = <<>> THEN End(o, "ok") /\ UNCHANGED nodes
       ELSE \/ Renamed(todo[1][1], todo[1][2]) /\ Goto(o, [mem[o] EXCEPT !.todo = Tail(todo)])
            \/ /\ ~(todo[1][1] \in DOMAIN nodes /\ Named(todo[1][2]) = {})
               /\ End(o, "error") /\ UNCHANGED nodes
    /\ UNCHANGED <<users, keys, last>>

-----------------------------------------------------------------------------
(* What happens around the commands.                                          *)

\* A call over Ansible fails, or the operator stops the command.
CallFails(o) ==
    /\ mem[o] # Idle
    /\ Spend("faults", MaxFaults)
    /\ mem' = [mem EXCEPT ![o] = Idle]
    /\ out' = "error"
    /\ UNCHANGED <<hs, history>>
Event == Spend("events", MaxEvents) /\ out' = "none" /\ UNCHANGED <<users, mem>>
Meddle == history' = [history EXCEPT !.alone = [o \in Operators |-> FALSE]]
\* A device joins with a key; with tags it belongs to no user.
Join ==
    /\ Event /\ Meddle
    /\ \E k \in keys :
        LET owner == IF k.tags = {} THEN k.user ELSE Nobody
            free == Addresses \ {nodes[n].ip : n \in DOMAIN nodes}
        IN  /\ Named(k.host) = {} /\ free # {} /\ last' = last + 1
            /\ nodes' = Put(nodes, last + 1,
                  [name |-> k.host, owner |-> owner, shown |-> NameOf(owner), tags |-> k.tags,
                   ip |-> CHOOSE a \in free : TRUE, offered |-> {}, approved |-> {}])
            /\ keys' = IF k.reusable THEN keys ELSE keys \ {k}
Expire == Event /\ (\E k \in keys : keys' = keys \ {k}) /\ UNCHANGED <<nodes, last, history>>
Advertise ==
    /\ Event
    /\ \E n \in DOMAIN nodes, r \in Routes :
        nodes' = [nodes EXCEPT ![n].offered = IF r \in @ THEN @ \ {r} ELSE @ \union {r}]
    /\ UNCHANGED <<keys, last, history>>
\* headscale shows the name the owner has now.
Refresh ==
    /\ \E n \in DOMAIN nodes : nodes[n].shown # NameOf(nodes[n].owner)
                               /\ nodes' = [nodes EXCEPT ![n].shown = NameOf(nodes[n].owner)]
    /\ out' = "none"
    /\ UNCHANGED <<users, keys, last, mem, history, count>>

-----------------------------------------------------------------------------
Init ==
    /\ users = FirstUsers /\ nodes = FirstNodes /\ keys = {}
    /\ last = Cardinality(DOMAIN FirstNodes)
    /\ mem = [o \in Operators |-> Idle]
    /\ out = "none"
    /\ history = [alone |-> [o \in Operators |-> FALSE], asked |-> {},
                  names |-> {<<i, FirstUsers[i]>> : i \in DOMAIN FirstUsers}
                      \union {<<FirstNodes[n].owner, FirstNodes[n].shown>> : n \in DOMAIN FirstNodes}]
    /\ count = [commands |-> 0, faults |-> 0, events |-> 0]
UserCommand(o) ==
    \/ FindUser(o) \/ CreateUser(o) \/ LookUp(o) \/ Mint(o) \/ Again(o) \/ RenameUser(o)
    \/ FindNodes(o) \/ DropNext(o) \/ Destroy(o)
NodeCommand(o) ==
    \/ FindNode(o) \/ DeleteNode(o) \/ RenameNode(o) \/ ReadRoutes(o) \/ WriteRoutes(o)
    \/ PlanUser(o) \/ PlanNodes(o) \/ RenameNext(o)
Next ==
    \/ \E o \in Operators : Start(o) \/ UserCommand(o) \/ NodeCommand(o) \/ CallFails(o)
    \/ Join \/ Expire \/ Advertise \/ Refresh
Spec == Init /\ [][Next]_vars

-----------------------------------------------------------------------------
(* Properties.                                                                *)

\* What the lists of bay gateway say: nodes names the owner a node has, while
\* headscale still shows an older name in the node's record (gateway.py:739), and
\* where the list of users cannot be read (gateway.py:757) at least a name that
\* owner has had; routes shows no route as approved that nobody asked for,
\* whatever two operators approve and revoke at once (gateway.py:1793).
RowsAreTrue ==
    /\ \A n \in DOMAIN nodes : nodes[n].owner # Nobody =>
          /\ NodeRows(TRUE)[n] = users[nodes[n].owner]
          /\ <<nodes[n].owner, NodeRows(FALSE)[n]>> \in history.names
    /\ \A row \in {x \in RouteRows : x.approved} :
          \/ row.node \in DOMAIN FirstNodes /\ row.route \in FirstNodes[row.node].approved
          \/ <<row.node, row.route>> \in history.asked

\* gateway.py:1858: migrate-namespace may run again after it was cut short, at
\* any call.  When it ends well, with no other command meanwhile, the old user
\* is gone or both exist, and no node that headscale lists under either name
\* is left with a name of its own.
MigratedMeansAll ==
    [][\A o \in Operators :
         (mem[o] # Idle /\ mem'[o] = Idle /\ Req(o).op = "migrate"
              /\ out' \in {"ok", "nothing"} /\ history.alone[o]) =>
            LET to == Req(o).to IN
            /\ IsUser(Req(o).user, users') => IsUser(to, users')
            /\ \A n \in DOMAIN nodes' :
                 nodes'[n].owner \in DOMAIN users' /\ users'[nodes'[n].owner] = to
                   /\ nodes'[n].shown \in {Req(o).user, to}
                 => IsPrefix(to, nodes'[n].name)]_vars

\* What bay says of a policy is what the policy means.  Where the audit could
\* resolve every target, and of a node no tag of the policy names: it is called
\* reachable exactly when it is the dst of some rule; called not in policy, it is
\* granted to nobody, and granted nothing but by rules with the source *.  A tag
\* called inert names no node; and a tailnet route without a 502 warning is one
\* that the ingress box may reach (gateway.py:490, routes.py:691).
PolicyIsRead ==
    \A policy \in Policies :
        /\ AclWarning(policy, Route, Ingress) # "unreached" =>
              Permits(policy, Ingress, Upstream, {Route.port})
        /\ \A t \in Inert(policy, nodes), n \in DOMAIN nodes : ~Means(t, nodes[n], policy)
        /\ Unresolvable(policy) = {} => \A n \in DOMAIN nodes : ~ByTag(policy, nodes[n]) =>
              LET said == Audit(policy, nodes)[n]
              IN  /\ (said = "reachable") = \E d \in Targets(policy) : Means(d, nodes[n], policy)
                  /\ said = "unknown" => \A m \in DOMAIN nodes :
                        /\ ~Permits(policy, nodes[m], nodes[n], Ports)
                        /\ Permits(policy, nodes[n], nodes[m], Ports) =>
                             Permits([policy EXCEPT !.acls = {r \in @ : Wild \in r.src}], nodes[n], nodes[m], Ports)

\* docs/access-gateways.md:308: acl audit "deliberately does not resolve `tag:`
\* targets [...] so a tag-granted node reads as `unknown` there".
TagsReadUnknown ==
    \A policy \in Policies : \A n \in DOMAIN nodes :
        (\E t \in Sources(policy) \union Targets(policy) : Means(t, nodes[n], policy))
            /\ (\A t \in Sources(policy) \union Targets(policy) :
                    Means(t, nodes[n], policy) => t.kind = "tag")
          => Audit(policy, nodes)[n] = "unknown"

\* docs/access-gateways.md:269: bay gateway users "lists all users with node counts".
CountsAreTrue ==
    \A i \in DOMAIN users : UserRows[i] = {n \in DOMAIN nodes : nodes[n].owner = i}

\* docs/access-gateways.md:267: delete-user --force deletes "an entire user and
\* their devices", no other user's, when no other command runs.
ForceDeletesOwn ==
    [][\A o \in Operators :
         (mem[o] # mem'[o] /\ mem[o] # Idle /\ Req(o).op = "delete-user" /\ history.alone[o]) =>
            \A n \in DOMAIN nodes \ DOMAIN nodes' : NameOf(nodes[n].owner) = Req(o).user]_vars

\* gateway.py:1858: migrate-namespace is "Safe to run multiple times -- skips
\* resources that already match the target": where one ended well, alone, a
\* second one finds nothing to rename.
MigratedIsDone ==
    [][\A o \in Operators :
         (mem[o] # Idle /\ mem'[o] = Idle /\ Req(o).op = "migrate" /\ out' = "ok" /\ history.alone[o]) =>
            \A n \in DOMAIN nodes' : nodes'[n].shown \in {Req(o).user, Req(o).to} =>
                nodes'[n].name = Target(Req(o).to, nodes'[n].name)]_vars
=============================================================================
