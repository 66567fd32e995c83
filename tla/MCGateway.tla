------------------------------ MODULE MCGateway ------------------------------
(* Two operators on a tailnet with the two servers of a stack and a laptop.   *)
EXTENDS Gateway

Server == <<"server">>
Stack == <<"shop">>
Dashed == <<"my", "shop">>
Alice == <<"alice">>
Bob == <<"bob">>
Laptop == <<"laptop">>
Eu == <<"eu">>
NoRegion == <<>>

Ips == {"ip1", "ip2", "ip3", "ip4"}
Web == {"443", "8080"}
Node(name, owner, shown, ip) ==
    [name |-> name, owner |-> owner, shown |-> shown, tags |-> {}, ip |-> ip,
     offered |-> {}, approved |-> {}]
TwoUsers == (1 :> Server) @@ (2 :> Alice)
ThreeNodes ==
    (1 :> [Node(<<"server", "eu">>, 1, Server, "ip1")
                EXCEPT !.offered = {"r1", "r2", "r3"}, !.approved = {"r2"}])
        @@ (2 :> Node(<<"server", "na">>, 1, Server, "ip2"))
        @@ (3 :> Node(Laptop, 2, Alice, "ip3"))

Rule(src, dst) == [src |-> src, dst |-> dst]
Hosts == [laptop |-> {"ip3"}, app |-> {"ip2"}]
ThreePolicies ==
    {[hosts |-> Hosts, acls |-> {Rule({Host("laptop")}, {<<Host("app"), {"443"}>>}),
                                 Rule({Tag("agent")}, {<<Host("ip1"), Web>>})}],
     [hosts |-> Hosts, acls |-> {Rule({Wild}, {<<Tag("agent"), Web>>, <<Host("app"), Web>>})}],
     [hosts |-> Hosts, acls |-> {Rule({Host("app")}, {<<Host("laptop"), {"8080"}>>}),
                                 Rule({Group(Alice)}, {<<Host("ip1"), Web>>})}]}

\* The ingress box is the second server; the route goes to the laptop.
Box == [name |-> "app", ip |-> "ip2", tags |-> {}, shown |-> Server]
ToLaptop == [host |-> "laptop", port |-> "8080"]
Behind == ThreeNodes[3]

OnUser(op, user) == [op |-> op, user |-> user]
Enroll(user, host, tags, reusable) ==
    [op |-> "enroll", user |-> user, host |-> host, tags |-> tags, reusable |-> reusable]
ForNode(op, name, route) == [op |-> op, name |-> name, route |-> route]
Migrate == [op |-> "migrate", user |-> Server, to |-> Stack]
Commands ==
    {Migrate, OnUser("add-user", Server), Enroll(Bob, <<"bob", "eu">>, {"agent"}, TRUE),
     [op |-> "rename-user", user |-> Alice, to |-> Bob],
     [op |-> "delete-user", user |-> Alice, force |-> TRUE],
     [op |-> "delete-node", name |-> Laptop],
     [op |-> "rename-node", name |-> Laptop, to |-> <<"shop", "na">>],
     ForNode("approve", <<"server", "eu">>, "r1"), ForNode("revoke", <<"server", "eu">>, "r2")}

\* A stack name with a dash, on one server, without a region.
OneUser == 1 :> Server
OneNode == 1 :> Node(Server, 1, Server, "ip1")
MigrateOnly == {[Migrate EXCEPT !.to = Dashed]}
OwnersOnly ==
    {[op |-> "rename-user", user |-> Alice, to |-> Bob], OnUser("add-user", Alice),
     [op |-> "delete-user", user |-> Alice, force |-> TRUE]}
==============================================================================
