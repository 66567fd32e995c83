---------------------------- MODULE GatewayProofs ----------------------------
(* Proofs about Gateway: what the lists of bay gateway show and what its       *)
(* audit says of a policy, for any tailnet, operators, commands and policies.  *)
EXTENDS Gateway, FiniteSetTheorems, TLAPS

(* A command in flight and a node are records of known fields.                 *)
NodeFields == {"name", "owner", "shown", "tags", "ip", "offered", "approved"}
Shaped ==
    /\ DOMAIN mem = Operators
    /\ \A o \in Operators : DOMAIN mem[o] = DOMAIN Idle
    /\ DOMAIN history = {"alone", "asked", "names"}
    /\ \A n \in DOMAIN nodes : DOMAIN nodes[n] = NodeFields
(* Nobody's user is gone while a node or a key of it is left.                  *)
Owned ==
    /\ \A n \in DOMAIN nodes : nodes[n].owner \in DOMAIN users \union {Nobody}
    /\ \A k \in keys : k.user \in DOMAIN users
(* Two nodes never share an address.                                           *)
Apart ==
    \A n \in DOMAIN nodes :
        /\ nodes[n].ip \in Addresses
        /\ \A m \in DOMAIN nodes : nodes[m].ip = nodes[n].ip => m = n
(* What was approved before the first command, or asked for since.             *)
Granted(n, r) ==
    \/ n \in DOMAIN FirstNodes /\ r \in FirstNodes[n].approved
    \/ <<n, r>> \in history.asked
Justified == \A n \in DOMAIN nodes : \A r \in nodes[n].approved : Granted(n, r)
(* A list of routes an operator is about to write back, however old it is, has *)
(* been approved or asked for, one by one.                                     *)
Writes ==
    \A o \in Operators :
        /\ mem[o].pc = "routes" /\ Req(o).op = "approve" => <<mem[o].id, Req(o).route>> \in history.asked
        /\ mem[o].pc = "write" => \A r \in mem[o].csv : Granted(mem[o].id, r)
(* The record has every name a user or a node record shows.                    *)
Recorded ==
    /\ \A i \in DOMAIN users : <<i, users[i]>> \in history.names
    /\ \A n \in DOMAIN nodes :
          nodes[n].owner # Nobody => <<nodes[n].owner, nodes[n].shown>> \in history.names
IInv == Shaped /\ Recorded /\ Owned /\ Apart /\ Justified /\ Writes

-----------------------------------------------------------------------------
(* What a step of a command leaves alone.                                      *)

Keeps ==
    /\ history.asked \subseteq history'.asked /\ history.names \subseteq history'.names
    /\ DOMAIN history' = DOMAIN history
(* The command of o goes on, and is neither at routes nor at write.            *)
Elsewhere(o) ==
    /\ DOMAIN mem' = Operators /\ DOMAIN mem'[o] = DOMAIN Idle
    /\ mem'[o].pc \notin {"routes", "write"}
    /\ \A x \in Operators \ {o} : mem'[x] = mem[x]

(* The end of a command, or a step to any other call, brings it elsewhere.     *)
LEMMA Ends == ASSUME NEW o \in Operators, NEW how, Shaped, End(o, how)
              PROVE  Elsewhere(o) /\ Keeps
BY DEF End, Stops, Elsewhere, Keeps, Shaped, Idle
LEMMA Goes1 == ASSUME NEW o \in Operators, NEW m, Shaped, Goto(o, m),
                      DOMAIN m = DOMAIN Idle, m.pc \notin {"routes", "write"}
              PROVE  Elsewhere(o) /\ Keeps
BY DEF Goto, Goes, Elsewhere, Keeps, Shaped
(* ... also where a user gets a name with it.                                  *)
LEMMA Calls == ASSUME NEW o \in Operators, NEW id, NEW name, Shaped, Bears(id, name),
                      \/ \E how : Stops(o, how)
                      \/ \E m : Goes(o, m) /\ DOMAIN m = DOMAIN Idle /\ m.pc \notin {"routes", "write"}
               PROVE  Elsewhere(o) /\ Keeps /\ <<id, name>> \in history'.names
<1>1. Keeps /\ <<id, name>> \in history'.names
  BY DEF Bears, Keeps, Shaped
<1>2. Elsewhere(o)
  BY DEF Stops, Goes, Elsewhere, Shaped, Idle
<1> QED  BY <1>1, <1>2

(* The list an operator holds stays granted, while the command of another      *)
(* operator goes on.                                                           *)
LEMMA WritesStay == ASSUME NEW o \in Operators, IInv, Elsewhere(o), Keeps
                    PROVE  Writes'
BY DEF IInv, Writes, Elsewhere, Keeps, Granted, Req
(* ... and the approved routes stay granted when none is added.                *)
LEMMA NodesStay == ASSUME IInv, Keeps,
                          \A n \in DOMAIN nodes' : n \in DOMAIN nodes /\ nodes'[n].approved = nodes[n].approved
                   PROVE  Justified'
BY DEF IInv, Justified, Keeps, Granted
(* A step of one command that changes the users, nodes and keys in one of the  *)
(* ways headscale does keeps the invariant: what is left to show of it is      *)
(* about users, nodes and keys alone.                                          *)
LEMMA OneMoves ==
    ASSUME NEW o \in Operators, IInv, Elsewhere(o), Keeps, Owned', Apart', Recorded',
           \A n \in DOMAIN nodes' : DOMAIN nodes'[n] = NodeFields,
           \A n \in DOMAIN nodes' : \A r \in nodes'[n].approved : Granted(n, r)
    PROVE  IInv'
<1>1. Shaped'
  BY DEF IInv, Shaped, Elsewhere, Keeps
<1>2. Justified'
  BY DEF Justified, Granted, Keeps
<1> QED  BY <1>1, <1>2, WritesStay DEF IInv

LEMMA Reads ==
    ASSUME NEW o \in Operators, IInv, Elsewhere(o), Keeps, hs' = hs
    PROVE  IInv'
<1>1. Owned' /\ Apart' /\ Recorded'
  BY DEF IInv, Owned, Apart, Recorded, Keeps, hs
<1>2. \A n \in DOMAIN nodes' : DOMAIN nodes'[n] = NodeFields
  BY DEF IInv, Shaped, hs
<1>3. \A n \in DOMAIN nodes' : \A r \in nodes'[n].approved : Granted(n, r)
  BY DEF IInv, Justified, hs
<1> QED  BY <1>1, <1>2, <1>3, OneMoves

(* The commands of a user: users come and go, nodes only go.                   *)
LEMMA UserSteps ==
    ASSUME NEW o \in Operators, IInv, UserCommand(o)
    PROVE  IInv'
<1> USE DEF IInv
<1>a. DOMAIN mem[o] = DOMAIN Idle /\ "pc" \in DOMAIN Idle
  BY DEF Shaped, Idle
<1>f. ASSUME nodes' = nodes
      PROVE  /\ \A n \in DOMAIN nodes' : DOMAIN nodes'[n] = NodeFields
             /\ \A n \in DOMAIN nodes' : \A r \in nodes'[n].approved : Granted(n, r)
             /\ Apart'
  BY <1>f DEF Shaped, Justified, Apart
<1>g. ASSUME Keeps, nodes' = nodes, \A i \in DOMAIN users' : <<i, users'[i]>> \in history'.names
      PROVE  Recorded'
  BY <1>g DEF Recorded, Keeps
<1>h. ASSUME Keeps, nodes' = nodes, \A i \in DOMAIN users' : i \in DOMAIN users /\ users'[i] = users[i]
      PROVE  Recorded'
  BY <1>h DEF Recorded, Keeps
<1>1. CASE FindUser(o)
  <2>1. Elsewhere(o) /\ Keeps
    BY <1>1, <1>a, Ends, Goes1 DEF FindUser
  <2> QED  BY <2>1, <1>1, Reads DEF FindUser, Reading
<1>2. CASE CreateUser(o)
  <2> DEFINE on == [mem[o] EXCEPT !.pc = "lookup"]
  <2>0. nodes' = nodes /\ keys' = keys
    BY <1>2 DEF CreateUser
  <2>1. CASE Known(Req(o).user)
    <3>1. Elsewhere(o) /\ Keeps /\ users' = users
      BY <1>2, <2>1, Ends DEF CreateUser
    <3>2. Owned'
      BY <2>0, <3>1 DEF Owned
    <3> QED  BY <2>0, <3>1, <3>2, <1>f, <1>h, OneMoves
  <2>2. CASE ~Known(Req(o).user)
    <3>1. DOMAIN on = DOMAIN Idle /\ on.pc = "lookup"
      BY <1>a
    <3>2. /\ users' = Put(users, last + 1, Req(o).user) /\ Bears(last + 1, Req(o).user)
          /\ Goes(o, on) \/ Stops(o, "ok")
      BY <1>2, <2>2 DEF CreateUser
    <3>3. Elsewhere(o) /\ Keeps /\ <<last + 1, Req(o).user>> \in history'.names
      <4> HIDE DEF on
      <4> QED  BY <3>1, <3>2, Calls
    <3>4. DOMAIN users \subseteq DOMAIN users'
      BY <3>2 DEF Put
    <3>5. \A i \in DOMAIN users' : <<i, users'[i]>> \in history'.names
      BY <3>2, <3>3 DEF Put, Recorded, Keeps
    <3>6. Owned'
      BY <2>0, <3>4 DEF Owned
    <3> QED  BY <2>0, <3>3, <3>5, <3>6, <1>f, <1>g, OneMoves
  <2> QED  BY <2>1, <2>2
<1>3. CASE LookUp(o)
  <2>1. AfterLookup(Req(o).op) \notin {"routes", "write"}
    BY DEF AfterLookup
  <2>2. Elsewhere(o) /\ Keeps
    BY <1>3, <1>a, <2>1, Ends, Goes1 DEF LookUp
  <2> QED  BY <2>2, <1>3, Reads DEF LookUp, Reading
<1>4. CASE Mint(o)
  <2>1. Elsewhere(o) /\ Keeps
    BY <1>4, <1>a, Ends DEF Mint
  <2>2. nodes' = nodes /\ users' = users
    BY <1>4 DEF Mint
  <2>3. \A k \in keys' : k \in keys \/ k.user \in DOMAIN users
    BY <1>4 DEF Mint
  <2>4. Owned'
    BY <2>2, <2>3 DEF Owned
  <2> QED  BY <2>1, <2>2, <2>4, <1>f, <1>h, OneMoves
<1>5. CASE Again(o)
  <2>1. Elsewhere(o) /\ Keeps
    BY <1>5, <1>a, Ends, Goes1 DEF Again
  <2> QED  BY <2>1, <1>5, Reads DEF Again, Reading
<1>6. CASE RenameUser(o)
  <2> DEFINE on == [mem[o] EXCEPT !.pc = "names"]
             id == mem[o].id
  <2>0. nodes' = nodes /\ keys' = keys /\ DOMAIN users' = DOMAIN users
    BY <1>6 DEF RenameUser
  <2>1. Owned'
    BY <2>0 DEF Owned
  <2>2. CASE id \in DOMAIN users /\ ~Known(Req(o).to)
    <3>1. DOMAIN on = DOMAIN Idle /\ on.pc = "names"
      BY <1>a
    <3>2. /\ users' = [users EXCEPT ![id] = Req(o).to] /\ Bears(id, Req(o).to)
          /\ Goes(o, on) \/ Stops(o, "ok")
      BY <1>6, <2>2 DEF RenameUser
    <3>3. Elsewhere(o) /\ Keeps /\ <<id, Req(o).to>> \in history'.names
      <4> HIDE DEF on, id
      <4> QED  BY <3>1, <3>2, Calls
    <3>4. \A i \in DOMAIN users' : <<i, users'[i]>> \in history'.names
      <4> HIDE DEF on, id
      <4> QED  BY <3>2, <3>3 DEF Recorded, Keeps
    <3> QED  BY <2>0, <2>1, <3>3, <3>4, <1>f, <1>g, OneMoves
  <2>3. CASE ~(id \in DOMAIN users /\ ~Known(Req(o).to))
    <3>1. Elsewhere(o) /\ Keeps /\ users' = users
      BY <1>6, <2>3, Ends DEF RenameUser
    <3> QED  BY <2>0, <2>1, <3>1, <1>f, <1>h, OneMoves
  <2> QED  BY <2>2, <2>3
<1>7. CASE FindNodes(o)
  <2>1. Elsewhere(o) /\ Keeps
    <3> DEFINE found == InOrder(Listed(Req(o).user))
               m == [mem[o] EXCEPT !.pc = "drop", !.todo = found]
    <3>1. DOMAIN m = DOMAIN Idle /\ m.pc = "drop"
      BY <1>a
    <3>2. End(o, "error") \/ Goto(o, m)
      BY <1>7 DEF FindNodes
    <3> HIDE DEF m
    <3> QED  BY <3>1, <3>2, Ends, Goes1
  <2> QED  BY <2>1, <1>7, Reads DEF FindNodes, Reading
<1>8. CASE DropNext(o)
  <2> DEFINE todo == mem[o].todo
             on == [mem[o] EXCEPT !.pc = "lookup"]
             next == [mem[o] EXCEPT !.todo = Tail(todo)]
  <2>1. DOMAIN on = DOMAIN Idle /\ on.pc = "lookup" /\ DOMAIN next = DOMAIN Idle /\ next.pc = "drop"
    BY <1>8, <1>a DEF DropNext, At, Idle
  <2>2. /\ \/ Goto(o, on) /\ nodes' = nodes
           \/ Goto(o, next) /\ nodes' = Drop(nodes, Head(todo))
           \/ End(o, "error") /\ nodes' = nodes
        /\ users' = users /\ keys' = keys
    BY <1>8 DEF DropNext
  <2>3. Elsewhere(o) /\ Keeps
    <3> HIDE DEF on, next
    <3> QED  BY <2>1, <2>2, Ends, Goes1
  <2>4. \A n \in DOMAIN nodes' : n \in DOMAIN nodes /\ nodes'[n] = nodes[n]
    BY <2>2 DEF Drop
  <2>5. Owned' /\ Apart' /\ Recorded'
    BY <2>2, <2>3, <2>4 DEF Owned, Apart, Recorded, Keeps
  <2>6. \A n \in DOMAIN nodes' : DOMAIN nodes'[n] = NodeFields
    BY <2>4 DEF Shaped
  <2>7. \A n \in DOMAIN nodes' : \A r \in nodes'[n].approved : Granted(n, r)
    BY <2>4 DEF Justified
  <2> QED  BY <2>3, <2>5, <2>6, <2>7, OneMoves
<1>9. CASE Destroy(o)
  <2>1. Elsewhere(o) /\ Keeps
    BY <1>9, <1>a, Ends DEF Destroy
  <2>2. nodes' = nodes
    BY <1>9 DEF Destroy
  <2>3. \/ users' = users /\ keys' = keys
        \/ /\ users' = Drop(users, mem[o].id) /\ keys' = {k \in keys : k.user # mem[o].id}
           /\ \A n \in DOMAIN nodes : nodes[n].owner # mem[o].id
    BY <1>9 DEF Destroy
  <2>4. Owned'
    BY <2>2, <2>3 DEF Owned, Drop
  <2>5. \A i \in DOMAIN users' : i \in DOMAIN users /\ users'[i] = users[i]
    BY <2>3 DEF Drop
  <2> QED  BY <2>1, <2>2, <2>4, <2>5, <1>f, <1>h, OneMoves
<1> QED  BY <1>1, <1>2, <1>3, <1>4, <1>5, <1>6, <1>7, <1>8, <1>9 DEF UserCommand
(* The commands of a node: its name and approved routes change.                *)
LEMMA NodeSteps ==
    ASSUME NEW o \in Operators, IInv, NodeCommand(o)
    PROVE  IInv'
<1> USE DEF IInv
<1>a. DOMAIN mem[o] = DOMAIN Idle /\ "pc" \in DOMAIN Idle
  BY DEF Shaped, Idle
<1>r. ASSUME NEW id, NEW name, Renamed(id, name)
      PROVE  \A n \in DOMAIN nodes' :
                /\ n \in DOMAIN nodes /\ DOMAIN nodes'[n] = NodeFields
                /\ nodes'[n].owner = nodes[n].owner /\ nodes'[n].ip = nodes[n].ip
                /\ nodes'[n].shown = nodes[n].shown /\ nodes'[n].approved = nodes[n].approved
  BY <1>r DEF Renamed, Shaped, NodeFields
<1>s. ASSUME users' = users, keys' = keys, Elsewhere(o), Keeps,
             \A n \in DOMAIN nodes' :
                /\ n \in DOMAIN nodes /\ DOMAIN nodes'[n] = NodeFields
                /\ nodes'[n].owner = nodes[n].owner /\ nodes'[n].ip = nodes[n].ip
                /\ nodes'[n].shown = nodes[n].shown /\ nodes'[n].approved = nodes[n].approved
      PROVE  IInv'
  <2>1. Owned' /\ Apart' /\ Recorded'
    BY <1>s DEF Owned, Apart, Recorded, Keeps
  <2>2. \A n \in DOMAIN nodes' : \A r \in nodes'[n].approved : Granted(n, r)
    BY <1>s DEF Justified
  <2> QED  BY <1>s, <2>1, <2>2, OneMoves
<1>t. \A n \in DOMAIN nodes : DOMAIN nodes[n] = NodeFields
  BY DEF Shaped
<1>1. CASE FindNode(o)
  <2> DEFINE found == Named(Req(o).name)
             id == CHOOSE n \in found : TRUE
             act == [mem[o] EXCEPT !.pc = "act", !.id = id]
             routes == [mem[o] EXCEPT !.pc = "routes", !.id = id]
  <2>1. CASE End(o, "error")
    BY <2>1, <1>1, Ends, Reads DEF FindNode, Reading
  <2>2. CASE Goto(o, act)
    <3>1. DOMAIN act = DOMAIN Idle /\ act.pc = "act"
      BY <1>a
    <3> HIDE DEF act
    <3> QED  BY <3>1, <2>2, <1>1, Goes1, Reads DEF FindNode, Reading
  <2>3. CASE /\ Goes(o, routes)
             /\ history' = [history EXCEPT !.asked =
                  @ \union IF Req(o).op = "approve" THEN {<<id, Req(o).route>>} ELSE {}]
    <3>1. /\ DOMAIN routes = DOMAIN Idle /\ routes.pc = "routes" /\ routes.id = id /\ routes.req = mem[o].req
      BY <1>a DEF Idle
    <3>2. Keeps /\ (Req(o).op = "approve" => <<id, Req(o).route>> \in history'.asked)
      <4> HIDE DEF id
      <4> QED  BY <2>3 DEF Shaped, Keeps
    <3> HIDE DEF routes, id
    <3>3. /\ DOMAIN mem' = Operators /\ mem'[o] = routes
          /\ \A x \in Operators \ {o} : mem'[x] = mem[x]
      BY <2>3 DEF Goes, Shaped
    <3>4. hs' = hs
      BY <1>1 DEF FindNode, Reading
    <3>5. Shaped'
      BY <3>1, <3>2, <3>3, <3>4 DEF Shaped, Keeps, hs
    <3>6. Owned' /\ Apart' /\ Justified' /\ Recorded'
      BY <3>2, <3>4 DEF Owned, Apart, Justified, Recorded, Keeps, Granted, hs
    <3>7. ASSUME NEW x \in Operators
          PROVE  /\ mem'[x].pc = "routes" /\ Req(x)'.op = "approve"
                       => <<mem'[x].id, Req(x)'.route>> \in history'.asked
                 /\ mem'[x].pc = "write" => \A r \in mem'[x].csv : Granted(mem[x].id, r)'
      <4>1. CASE x = o
        BY <4>1, <3>1, <3>2, <3>3 DEF Req
      <4>2. CASE x # o
        BY <4>2, <3>2, <3>3 DEF Writes, Req, Granted, Keeps
      <4> QED  BY <4>1, <4>2
    <3>8. Writes'
      BY <3>7 DEF Writes, Granted, Req
    <3> QED  BY <3>5, <3>6, <3>8
  <2> QED  BY <1>1, <2>1, <2>2, <2>3 DEF FindNode
<1>2. CASE DeleteNode(o)
  <2>1. Elsewhere(o) /\ Keeps
    BY <1>2, Ends DEF DeleteNode
  <2> QED  BY <1>2, <2>1, <1>s, <1>t DEF DeleteNode, Drop
<1>3. CASE RenameNode(o)
  <2>1. Elsewhere(o) /\ Keeps
    BY <1>3, Ends DEF RenameNode
  <2> QED  BY <1>3, <2>1, <1>s, <1>t, <1>r DEF RenameNode
<1>4. CASE ReadRoutes(o)
  <2> DEFINE route == Req(o).route
             id == mem[o].id
             seen == IF id \in DOMAIN nodes THEN nodes[id] ELSE [approved |-> {}, offered |-> {}]
             more == [mem[o] EXCEPT !.pc = "write", !.csv = Approved(seen, route)]
             less == [mem[o] EXCEPT !.pc = "write", !.csv = seen.approved \ {route}]
  <2>1. CASE End(o, "error") \/ End(o, "nothing")
    BY <2>1, <1>4, Ends, Reads DEF ReadRoutes, Reading
  <2>2. CASE (Req(o).op = "approve" /\ Goto(o, more)) \/ Goto(o, less)
    <3>1. \A r \in seen.approved : Granted(id, r)
      BY DEF Justified
    <3>2. Req(o).op = "approve" => Granted(id, route)
      BY <1>4 DEF ReadRoutes, At, Writes, Req, Granted
    <3>3. PICK m : /\ Goto(o, m) /\ DOMAIN m = DOMAIN Idle /\ m.id = id /\ m.pc = "write"
                   /\ \A r \in m.csv : Granted(id, r)
      <4>1. CASE Goto(o, less)
        <5>1. DOMAIN less = DOMAIN Idle /\ less.id = id /\ less.pc = "write" /\ less.csv = seen.approved \ {route}
          BY <1>a DEF Idle
        <5> HIDE DEF less, seen, id, route
        <5> QED  BY <5>1, <4>1, <3>1
      <4>2. CASE Req(o).op = "approve" /\ Goto(o, more)
        <5>1. DOMAIN more = DOMAIN Idle /\ more.id = id /\ more.pc = "write" /\ more.csv = seen.approved \union {route}
          BY <1>a DEF Idle, Approved
        <5> HIDE DEF more, seen, id, route
        <5> QED  BY <5>1, <4>2, <3>1, <3>2
      <4> QED  BY <2>2, <4>1, <4>2
    <3>4. /\ DOMAIN mem' = Operators /\ mem'[o] = m /\ history' = history
          /\ \A x \in Operators \ {o} : mem'[x] = mem[x]
      BY <3>3 DEF Goto, Goes, Shaped
    <3>5. hs' = hs
      BY <1>4 DEF ReadRoutes, Reading
    <3>6. Shaped'
      BY <3>3, <3>4, <3>5 DEF Shaped, hs
    <3>7. Owned' /\ Apart' /\ Justified' /\ Recorded'
      BY <3>4, <3>5 DEF Owned, Apart, Justified, Recorded, Granted, hs
    <3>8. Writes'
      BY <3>3, <3>4 DEF Writes, Req, Granted
    <3> QED  BY <3>6, <3>7, <3>8
  <2>3. \/ End(o, "error") \/ End(o, "nothing")
        \/ Req(o).op = "approve" /\ Goto(o, more)
        \/ Goto(o, less)
    <3> HIDE DEF more, less
    <3> QED  BY <1>4 DEF ReadRoutes, more, less
  <2> QED  BY <2>1, <2>2, <2>3
<1>5. CASE WriteRoutes(o)
  <2>1. Elsewhere(o) /\ Keeps
    BY <1>5, Ends DEF WriteRoutes
  <2>2. users' = users /\ keys' = keys
    BY <1>5 DEF WriteRoutes
  <2>3. \A r \in mem[o].csv : Granted(mem[o].id, r)
    BY <1>5 DEF WriteRoutes, At, Writes
  <2>4. nodes' = nodes \/ nodes' = [nodes EXCEPT ![mem[o].id].approved = mem[o].csv]
    BY <1>5 DEF WriteRoutes
  <2>5. \A n \in DOMAIN nodes' :
            /\ n \in DOMAIN nodes /\ DOMAIN nodes'[n] = NodeFields
            /\ nodes'[n].owner = nodes[n].owner /\ nodes'[n].ip = nodes[n].ip
            /\ nodes'[n].shown = nodes[n].shown
            /\ \/ nodes'[n].approved = nodes[n].approved
               \/ n = mem[o].id /\ nodes'[n].approved = mem[o].csv
    BY <2>4, <1>t DEF NodeFields
  <2>6. \A n \in DOMAIN nodes' : \A r \in nodes'[n].approved : Granted(n, r)
    BY <2>5, <2>3 DEF Justified
  <2>7. Owned' /\ Apart' /\ Recorded'
    BY <2>1, <2>2, <2>5 DEF Owned, Apart, Recorded, Keeps
  <2> QED  BY <2>1, <2>5, <2>6, <2>7, OneMoves
<1>6. CASE PlanUser(o)
  <2>1. Elsewhere(o) /\ Keeps
    BY <1>6, <1>a, Goes1 DEF PlanUser
  <2> QED  BY <2>1, <1>6, Reads DEF PlanUser, Reading
<1>7. CASE PlanNodes(o)
  <2>1. Elsewhere(o) /\ Keeps
    <3>1. PICK todo, pc : /\ pc \in {"again", "names"}
                          /\ End(o, "nothing") \/ Goto(o, [mem[o] EXCEPT !.todo = todo, !.pc = pc])
      BY <1>7 DEF PlanNodes
    <3> DEFINE m == [mem[o] EXCEPT !.todo = todo, !.pc = pc]
    <3>2. DOMAIN m = DOMAIN Idle /\ m.pc = pc
      BY <1>a
    <3> HIDE DEF m
    <3> QED  BY <3>1, <3>2, Ends, Goes1 DEF m
  <2> QED  BY <2>1, <1>7, Reads DEF PlanNodes, Reading
<1>8. CASE RenameNext(o)
  <2> DEFINE todo == mem[o].todo
             next == [mem[o] EXCEPT !.todo = Tail(todo)]
  <2>1. DOMAIN next = DOMAIN Idle /\ next.pc = "names"
    BY <1>8, <1>a DEF RenameNext, At, Idle
  <2>2. /\ \/ End(o, "ok") /\ nodes' = nodes
           \/ Renamed(todo[1][1], todo[1][2]) /\ Goto(o, next)
           \/ End(o, "error") /\ nodes' = nodes
        /\ users' = users /\ keys' = keys
    BY <1>8 DEF RenameNext
  <2>3. Elsewhere(o) /\ Keeps
    <3> HIDE DEF next
    <3> QED  BY <2>1, <2>2, Ends, Goes1
  <2> QED  BY <2>2, <2>3, <1>s, <1>t, <1>r
<1> QED  BY <1>1, <1>2, <1>3, <1>4, <1>5, <1>6, <1>7, <1>8 DEF NodeCommand
-----------------------------------------------------------------------------
(* A command begins or is cut short, and what goes on around the commands.     *)
LEMMA Begins == ASSUME NEW o \in Operators, IInv, Start(o) \/ CallFails(o) PROVE IInv'
<1>1. CASE Start(o)
  <2>1. PICK r \in Requests : mem' = [mem EXCEPT ![o] = [Idle EXCEPT !.pc = FirstPc(r.op), !.req = r]]
    BY <1>1 DEF Start
  <2>2. FirstPc(r.op) \notin {"routes", "write"}
    BY DEF FirstPc
  <2>3. hs' = hs /\ Keeps
    BY <1>1 DEF Start, IInv, Shaped, Keeps
  <2>4. Elsewhere(o)
    BY <2>1, <2>2 DEF IInv, Shaped, Elsewhere, Idle
  <2> QED  BY <2>3, <2>4, Reads
<1>2. CASE CallFails(o)
  <2>1. hs' = hs /\ Keeps /\ Elsewhere(o)
    BY <1>2 DEF CallFails, IInv, Shaped, Keeps, Elsewhere, Idle
  <2> QED  BY <2>1, Reads
<1> QED  BY <1>1, <1>2

(* Nothing of a command moves, and no route is approved.                       *)
LEMMA Around ==
    ASSUME IInv, mem' = mem, Keeps, Owned', Apart', Recorded',
           \A n \in DOMAIN nodes' : DOMAIN nodes'[n] = NodeFields,
           \A n \in DOMAIN nodes' : \A r \in nodes'[n].approved : Granted(n, r)
    PROVE  IInv'
<1>1. Shaped' /\ Writes'
  BY DEF IInv, Shaped, Writes, Keeps, Req, Granted
<1>2. Justified'
  BY DEF Justified, Granted, Keeps
<1> QED  BY <1>1, <1>2 DEF IInv

LEMMA Outside == ASSUME IInv, Join \/ Expire \/ Advertise \/ Refresh PROVE IInv'
<1> USE DEF IInv
<1>k. mem' = mem /\ users' = users /\ Keeps
  BY DEF Join, Expire, Advertise, Refresh, Event, Meddle, Keeps, Shaped
<1>1. CASE Join
  <2> DEFINE free == Addresses \ {nodes[n].ip : n \in DOMAIN nodes}
             ip == CHOOSE a \in free : TRUE
  <2>1. PICK k \in keys :
            /\ free # {} /\ keys' \subseteq keys
            /\ nodes' = Put(nodes, last + 1,
                  [name |-> k.host, owner |-> IF k.tags = {} THEN k.user ELSE Nobody,
                   shown |-> NameOf(IF k.tags = {} THEN k.user ELSE Nobody), tags |-> k.tags,
                   ip |-> ip, offered |-> {}, approved |-> {}])
    BY <1>1 DEF Join
  <2>2. ip \in free
    BY <2>1
  <2>3. ip \in Addresses /\ \A n \in DOMAIN nodes : nodes[n].ip # ip
    BY <2>2
  <2> HIDE DEF ip, free
  <2>4. k.user \in DOMAIN users
    BY DEF Owned
  <2>5. \A n \in DOMAIN nodes' :
            \/ /\ n # last + 1 /\ n \in DOMAIN nodes /\ nodes'[n] = nodes[n]
            \/ /\ n = last + 1 /\ DOMAIN nodes'[n] = NodeFields
               /\ nodes'[n].owner \in {k.user, Nobody} /\ nodes'[n].ip = ip /\ nodes'[n].approved = {}
               /\ nodes'[n].owner # Nobody => nodes'[n].shown = users[nodes'[n].owner]
    BY <2>1 DEF Put, NodeFields, NameOf
  <2>6. Owned'
    BY <1>k, <2>1, <2>4, <2>5 DEF Owned
  <2>7. Apart'
    BY <2>3, <2>5 DEF Apart
  <2>8. \A n \in DOMAIN nodes' : DOMAIN nodes'[n] = NodeFields
    BY <2>5 DEF Shaped
  <2>9. \A n \in DOMAIN nodes' : \A r \in nodes'[n].approved : Granted(n, r)
    BY <2>5 DEF Justified
  <2>10. Recorded'
    BY <1>k, <2>4, <2>5 DEF Recorded, Keeps
  <2> QED  BY <1>k, <2>6, <2>7, <2>8, <2>9, <2>10, Around
<1>s. ASSUME keys' \subseteq keys,
             \A n \in DOMAIN nodes' :
                /\ n \in DOMAIN nodes /\ DOMAIN nodes'[n] = NodeFields
                /\ nodes'[n].owner = nodes[n].owner /\ nodes'[n].ip = nodes[n].ip
                /\ nodes'[n].approved = nodes[n].approved
                /\ nodes'[n].shown \in {nodes[n].shown, NameOf(nodes[n].owner)}
      PROVE  IInv'
  <2>1. Owned' /\ Apart'
    BY <1>s, <1>k DEF Owned, Apart
  <2>3. Recorded'
    BY <1>s, <1>k DEF Owned, Recorded, Keeps, NameOf
  <2>2. \A n \in DOMAIN nodes' : \A r \in nodes'[n].approved : Granted(n, r)
    BY <1>s DEF Justified
  <2> QED  BY <1>s, <1>k, <2>1, <2>2, <2>3, Around
<1>t. \A n \in DOMAIN nodes : DOMAIN nodes[n] = NodeFields
  BY DEF Shaped
<1>2. CASE Expire
  BY <1>2, <1>s, <1>t DEF Expire
<1>3. CASE Advertise
  <2>1. PICK n \in DOMAIN nodes, r \in Routes :
            nodes' = [nodes EXCEPT ![n].offered = IF r \in @ THEN @ \ {r} ELSE @ \union {r}]
    BY <1>3 DEF Advertise
  <2> DEFINE offers == IF r \in nodes[n].offered THEN nodes[n].offered \ {r} ELSE nodes[n].offered \union {r}
  <2>2. nodes' = [nodes EXCEPT ![n].offered = offers]
    BY <2>1
  <2> HIDE DEF offers
  <2>3. keys' = keys
    BY <1>3 DEF Advertise
  <2> QED  BY <2>2, <2>3, <1>s, <1>t DEF NodeFields
<1>4. CASE Refresh
  <2>1. PICK n \in DOMAIN nodes : nodes' = [nodes EXCEPT ![n].shown = NameOf(nodes[n].owner)]
    BY <1>4 DEF Refresh
  <2>3. keys' = keys
    BY <1>4 DEF Refresh
  <2> QED  BY <2>1, <2>3, <1>s, <1>t DEF NodeFields
<1> QED  BY <1>1, <1>2, <1>3, <1>4

-----------------------------------------------------------------------------
LEMMA Begin == Init => IInv
<1> SUFFICES ASSUME Init PROVE IInv
  OBVIOUS
<1>1. Shaped
  BY TailnetBegins DEF Init, Shaped, NodeFields
<1>2. Owned
  BY TailnetBegins DEF Init, Owned, Nobody
<1>3. Apart
  BY TailnetBegins DEF Init, Apart
<1>4. Justified
  BY DEF Init, Justified, Granted
<1>5. Writes
  BY DEF Init, Writes, Idle
<1>6. Recorded
  BY DEF Init, Recorded
<1> QED  BY <1>1, <1>2, <1>3, <1>4, <1>5, <1>6 DEF IInv

LEMMA Invariant == Spec => []IInv
<1>1. ASSUME IInv, [Next]_vars PROVE IInv'
  <2>1. CASE UNCHANGED vars
    BY <1>1, <2>1 DEF vars, hs, IInv, Shaped, Recorded, Owned, Apart, Justified, Granted, Writes, Req
  <2>2. CASE Next
    BY <1>1, <2>2, Begins, UserSteps, NodeSteps, Outside DEF Next
  <2> QED  BY <1>1, <2>1, <2>2
<1> QED  BY Begin, <1>1, PTL DEF Spec

(* bay gateway nodes names the owner a node has, where it could not read the   *)
(* users at least by a name the owner has had, and routes shows no route as    *)
(* approved that nobody asked for: whoever runs which commands at once, each   *)
(* writing back a list it read before, and whatever headscale shows.           *)
THEOREM ListsAreTrue == Spec => []RowsAreTrue
<1>1. IInv => RowsAreTrue
  <2> SUFFICES ASSUME IInv PROVE RowsAreTrue
    OBVIOUS
  <2>1. \A n \in DOMAIN nodes : nodes[n].owner # Nobody =>
            /\ NodeRows(TRUE)[n] = users[nodes[n].owner]
            /\ <<nodes[n].owner, NodeRows(FALSE)[n]>> \in history.names
    BY DEF IInv, Owned, Recorded, NodeRows
  <2>2. ASSUME NEW row \in RouteRows, row.approved
        PROVE  \/ row.node \in DOMAIN FirstNodes /\ row.route \in FirstNodes[row.node].approved
               \/ <<row.node, row.route>> \in history.asked
    <3>1. PICK n \in DOMAIN nodes, r \in Routes :
              row = [node |-> n, route |-> r, approved |-> r \in nodes[n].approved]
      BY DEF RouteRows
    <3>2. row.node = n /\ row.route = r /\ r \in nodes[n].approved
      BY <3>1, <2>2
    <3> QED  BY <3>2 DEF IInv, Justified, Granted
  <2> QED  BY <2>1, <2>2 DEF RowsAreTrue
<1> QED  BY Invariant, <1>1, PTL

-----------------------------------------------------------------------------
(* The policy.                                                                 *)

(* A host is an alias or an address.                                           *)
LEMMA HostMeans ==
    ASSUME NEW t, t.kind = "host", NEW node, NEW policy
    PROVE  Means(t, node, policy) <=>
              \/ t.of = node.ip
              \/ t.of \in DOMAIN policy.hosts /\ node.ip \in policy.hosts[t.of]
BY Zenon DEF Means

(* What a target resolves to is where the nodes it means are.                  *)
LEMMA ResolveIsMeaning ==
    ASSUME Apart, NEW policy \in Policies, NEW n \in DOMAIN nodes,
           NEW t, t = Wild \/ t.kind \in {"host", "tag"}
    PROVE  nodes[n].ip \in Resolve(t, policy.hosts, TagIndex(nodes)) <=> Means(t, nodes[n], policy)
<1>0. nodes[n].ip \in Addresses /\ DOMAIN policy.hosts \cap Addresses = {}
  BY PoliciesAreValid DEF Apart
<1>1. CASE t = Wild
  BY <1>0, <1>1 DEF Resolve, Means, Wild
<1>2. CASE t.kind = "tag"
  <2> DEFINE tags == TagIndex(nodes)
  <2>1. t.of \in DOMAIN tags <=> \E m \in DOMAIN nodes : t.of \in nodes[m].tags
    BY DEF TagIndex
  <2>2. t.of \in DOMAIN tags => tags[t.of] = {nodes[m].ip : m \in {x \in DOMAIN nodes : t.of \in nodes[x].tags}}
    BY DEF TagIndex
  <2> HIDE DEF tags
  <2>3. Resolve(t, policy.hosts, tags) = IF t.of \in DOMAIN tags THEN tags[t.of] ELSE {}
    BY <1>2 DEF Resolve
  <2>4. Means(t, nodes[n], policy) <=> t.of \in nodes[n].tags
    BY <1>2 DEF Means
  <2>5. nodes[n].ip \in Resolve(t, policy.hosts, tags) <=> t.of \in nodes[n].tags
    BY <2>1, <2>2, <2>3 DEF Apart
  <2> QED  BY <2>4, <2>5 DEF tags
<1>3. CASE t.kind = "host"
  <2>1. Resolve(t, policy.hosts, TagIndex(nodes)) = HostIps(t.of, policy.hosts)
    BY <1>3 DEF Resolve
  <2>2. Means(t, nodes[n], policy) <=>
            t.of = nodes[n].ip \/ (t.of \in DOMAIN policy.hosts /\ nodes[n].ip \in policy.hosts[t.of])
    BY <1>3, HostMeans
  <2> QED  BY <1>0, <2>1, <2>2 DEF HostIps
<1> QED  BY <1>1, <1>2, <1>3

LEMMA CoveredIsMeant ==
    ASSUME Apart, NEW policy \in Policies, NEW n \in DOMAIN nodes,
           NEW targets, \A t \in targets : t = Wild \/ t.kind \in {"host", "tag"}
    PROVE  nodes[n].ip \in Covered(targets, policy, nodes) <=> \E t \in targets : Means(t, nodes[n], policy)
<1>1. \A t \in targets : Resolves(t)
  BY DEF Resolves, Wild
<1>2. nodes[n].ip \in Covered(targets, policy, nodes)
        <=> \E t \in targets : nodes[n].ip \in Resolve(t, policy.hosts, TagIndex(nodes))
  BY <1>1 DEF Covered
<1>3. \A t \in targets :
        nodes[n].ip \in Resolve(t, policy.hosts, TagIndex(nodes)) <=> Means(t, nodes[n], policy)
  BY ResolveIsMeaning
<1> QED  BY <1>2, <1>3

(* Every target of a policy whose targets all resolve is *, a host or a tag.   *)
LEMMA Kinds ==
    ASSUME NEW policy \in Policies, Unresolvable(policy) = {}
    PROVE  /\ \A t \in Targets(policy) : t = Wild \/ t.kind \in {"host", "tag"}
           /\ \A t \in Sources(policy) : t = Wild \/ t.kind \in {"host", "tag"}
<1>1. ASSUME NEW t \in Sources(policy) \union Targets(policy)
      PROVE  t = Wild \/ t.kind \in {"host", "tag"}
  <2>1. Resolves(t)
    BY DEF Unresolvable
  <2>2. \E r \in policy.acls : t \in r.src \union {d[1] : d \in r.dst}
    BY DEF Sources, Targets
  <2>3. t = Wild \/ t.kind \in {"host", "tag", "group"}
    BY <2>2, PoliciesAreValid
  <2> QED  BY <2>1, <2>3 DEF Resolves
<1> QED  BY <1>1

(* bay gateway acl audit.                                                      *)
LEMMA AuditIsRight ==
    ASSUME Apart, NEW policy \in Policies, Unresolvable(policy) = {}, NEW n \in DOMAIN nodes
    PROVE  LET said == Audit(policy, nodes)[n]
           IN  /\ (said = "reachable") = \E d \in Targets(policy) : Means(d, nodes[n], policy)
               /\ said = "unknown" => \A m \in DOMAIN nodes :
                     /\ ~Permits(policy, nodes[m], nodes[n], Ports)
                     /\ Permits(policy, nodes[n], nodes[m], Ports) =>
                          Permits([policy EXCEPT !.acls = {r \in @ : Wild \in r.src}], nodes[n], nodes[m], Ports)
<1> DEFINE said == Audit(policy, nodes)[n]
           wild == [policy EXCEPT !.acls = {r \in @ : Wild \in r.src}]
<1>1. /\ nodes[n].ip \in Covered(Targets(policy), policy, nodes)
             <=> \E t \in Targets(policy) : Means(t, nodes[n], policy)
      /\ nodes[n].ip \in Covered(Sources(policy), policy, nodes)
             <=> \E t \in Sources(policy) : Means(t, nodes[n], policy)
  BY Kinds, CoveredIsMeant
<1>2. /\ said = "reachable" <=> \E t \in Targets(policy) : Means(t, nodes[n], policy)
      /\ said = "unknown" => /\ ~\E t \in Targets(policy) : Means(t, nodes[n], policy)
                             /\ ~\E t \in Sources(policy) : Means(t, nodes[n], policy)
  BY <1>1 DEF Audit
<1>3. wild.acls = {r \in policy.acls : Wild \in r.src} /\ wild.hosts = policy.hosts
  BY PoliciesAreValid
<1> HIDE DEF said, wild
<1>4. ASSUME said = "unknown", NEW m \in DOMAIN nodes
      PROVE  ~Permits(policy, nodes[m], nodes[n], Ports)
  <2>1. \A r \in policy.acls : \A d \in r.dst : d[1] \in Targets(policy)
    BY DEF Targets
  <2> QED  BY <1>2, <1>4, <2>1 DEF Permits
<1>5. ASSUME said = "unknown", NEW m \in DOMAIN nodes, Permits(policy, nodes[n], nodes[m], Ports)
      PROVE  Permits(wild, nodes[n], nodes[m], Ports)
  <2>1. PICK r \in policy.acls : /\ \E s \in r.src : Means(s, nodes[n], policy)
                                 /\ \E d \in r.dst : Means(d[1], nodes[m], policy) /\ d[2] \cap Ports # {}
    BY <1>5 DEF Permits
  <2>2. \A s \in r.src : s # Wild => s \in Sources(policy)
    BY <2>1 DEF Sources
  <2>3. Wild \in r.src /\ Means(Wild, nodes[n], wild)
    BY <2>1, <2>2, <1>2, <1>5 DEF Means, Wild
  <2>4. \A d : Means(d, nodes[m], policy) <=> Means(d, nodes[m], wild)
    BY <1>3 DEF Means
  <2> QED  BY <1>3, <2>1, <2>3, <2>4 DEF Permits
<1> QED  BY <1>2, <1>4, <1>5 DEF said, wild

(* A tag bay calls inert names no node.                                        *)
LEMMA InertIsInert ==
    ASSUME NEW policy \in Policies, NEW t \in Inert(policy, nodes), NEW n \in DOMAIN nodes
    PROVE  ~Means(t, nodes[n], policy)
<1> DEFINE tags == TagIndex(nodes)
<1>1. t.kind = "tag" /\ Resolve(t, policy.hosts, tags) = {}
  BY DEF Inert
<1>2. t.of \in nodes[n].tags => t.of \in DOMAIN tags /\ nodes[n].ip \in tags[t.of]
  BY DEF TagIndex
<1> HIDE DEF tags
<1>3. t.of \notin nodes[n].tags
  BY <1>1, <1>2 DEF Resolve
<1> QED  BY <1>1, <1>3 DEF Means

LEMMA OneMember ==
    ASSUME NEW S, IsFiniteSet(S), Cardinality(S) = 1, NEW x \in S, NEW y \in S
    PROVE  x = y
<1>1. IsFiniteSet(S \ {x}) /\ Cardinality(S \ {x}) = 0
  BY FS_RemoveElement
<1>2. S \ {x} = {}
  BY <1>1, FS_EmptySet
<1> QED  BY <1>2

(* bay validate: the names it gives the ingress box and the upstream mean them.*)
LEMMA WarnsOfUnreached ==
    ASSUME NEW policy \in Policies, AclWarning(policy, Route, Ingress) # "unreached"
    PROVE  Permits(policy, Ingress, Upstream, {Route.port})
<1> DEFINE me == NamesForBox(Ingress, policy)
           upstream == NamesForHost(Route.host, policy) \union {Wild}
           rules == Granting(policy, upstream, Route.port)
<1>0. \A r \in policy.acls : \A t \in r.src \union {d[1] : d \in r.dst} :
          t.kind = "host" => t.of \in Addresses \union DOMAIN policy.hosts
  BY PoliciesAreValid
<1>1. PICK r \in rules : r.src \cap (me \union {Wild}) # {}
  BY DEF AclWarning, Sole, Reached
<1>2. r \in policy.acls /\ \E d \in r.dst : d[1] \in upstream /\ Route.port \in d[2]
  BY DEF Granting
<1>3. PICK d \in r.dst : d[1] \in upstream /\ Route.port \in d[2]
  BY <1>2
<1>4. PICK s \in r.src : s \in me \union {Wild}
  BY <1>1
<1> HIDE DEF rules
<1>5. Means(s, Ingress, policy)
  <2>1. CASE s = Wild
    BY <2>1 DEF Means, Wild
  <2>2. CASE s \in me
    <3>1. PICK x : s = Host(x) /\ (x \in {Ingress.name, Ingress.ip} \/ x \in Aliases(Ingress.ip, policy))
      BY <2>2 DEF NamesForBox, Single
    <3>2. s.kind = "host" /\ s.of = x
      BY <3>1 DEF Host
    <3>3. x \in Addresses \union DOMAIN policy.hosts
      BY <1>0, <1>2, <3>2
    <3>4. x = Ingress.ip \/ (x \in DOMAIN policy.hosts /\ Ingress.ip \in policy.hosts[x])
      BY <3>1, <3>3, RouteIsKnown DEF Aliases
    <3> QED  BY <3>2, <3>4, HostMeans
  <2> QED  BY <1>4, <2>1, <2>2
<1>6. Means(d[1], Upstream, policy)
  <2>1. CASE d[1] = Wild
    BY <2>1 DEF Means, Wild
  <2>2. CASE d[1] \in NamesForHost(Route.host, policy)
    <3>1. PICK x : /\ d[1] = Host(x)
                   /\ \/ x = Route.host
                      \/ Route.host \in Addresses /\ x \in Aliases(Route.host, policy)
                      \/ /\ Route.host \notin Addresses
                         /\ x \in UNION {policy.hosts[a] : a \in Single({Route.host} \cap DOMAIN policy.hosts, policy)}
      BY <2>2 DEF NamesForHost
    <3>2. d[1].kind = "host" /\ d[1].of = x
      BY <3>1 DEF Host
    <3>3. x \in Addresses \union DOMAIN policy.hosts
      BY <1>0, <1>2, <3>2
    <3>4. x = Upstream.ip \/ (x \in DOMAIN policy.hosts /\ Upstream.ip \in policy.hosts[x])
      <4>1. CASE x = Route.host
        BY <4>1, <3>3, RouteIsKnown
      <4>2. CASE Route.host \in Addresses /\ x \in Aliases(Route.host, policy)
        BY <4>2, RouteIsKnown DEF Aliases
      <4>3. CASE x \in UNION {policy.hosts[a] : a \in Single({Route.host} \cap DOMAIN policy.hosts, policy)}
        <5>1. Route.host \in DOMAIN policy.hosts /\ Cardinality(policy.hosts[Route.host]) = 1 /\ x \in policy.hosts[Route.host]
          BY <4>3 DEF Single
        <5>2. Upstream.ip \in policy.hosts[Route.host]
          BY <5>1, RouteIsKnown
        <5>3. IsFiniteSet(policy.hosts[Route.host])
          BY <5>1, PoliciesAreValid
        <5> QED  BY <5>1, <5>2, <5>3, OneMember
      <4> QED  BY <3>1, <4>1, <4>2, <4>3
    <3> QED  BY <3>2, <3>4, HostMeans
  <2> QED  BY <1>3, <2>1, <2>2
<1> QED  BY <1>2, <1>3, <1>4, <1>5, <1>6 DEF Permits

(* What bay says of a policy is what the policy means, whoever has joined.     *)
THEOREM PoliciesAreRead == Spec => []PolicyIsRead
<1>1. IInv => PolicyIsRead
  BY AuditIsRight, InertIsInert, WarnsOfUnreached DEF IInv, PolicyIsRead
<1> QED  BY Invariant, <1>1, PTL
=============================================================================
