--------------------------- MODULE MCFleetConfig ---------------------------
(* Small fleets for FleetConfig: two projects of three containers, their    *)
(* environments and a second project from the same repository.             *)
EXTENDS FleetConfig, TLC

CONSTANTS Grouped   \* does each box have a group

MCBoxes == {"east", "west"}
MCBoxEnv == [b \in MCBoxes |-> IF Grouped THEN "prod" ELSE b]
MCGroup == [b \in MCBoxes |-> IF Grouped THEN b ELSE None]
MCHasIp == [b \in MCBoxes |-> b = "east"]

a == <<"a">>
b == <<"b">>
api == <<"api">>
www == <<"www">>
pg == <<"pg">>
cache == <<"cache">>
data == <<"data">>

Lv == [path |-> None, domain |-> None, mode |-> None, open |-> {}, locked |-> {},
       password |-> FALSE, from |-> "image", inherit |-> TRUE, port |-> TRUE,
       expose |-> None, health |-> None, zero |-> FALSE, needs |-> {}, vars |-> {},
       volumes |-> {}]
Dep == [box |-> None, domain |-> None, aliases |-> {}, mode |-> None,
        branch |-> "main", track |-> "branch", own |-> <<>>]
NoLock == [box |-> None, frozen |-> FALSE, containers |-> <<>>, volumes |-> <<>>,
           database |-> None]

DocA == [repo |-> None, inFleet |-> FALSE, publish |-> FALSE, jobs |-> {<<"tidy">>},
         deploy |-> (Primary :> Dep),
         levels |-> (Web :> [Lv EXCEPT !.mode = "public", !.from = "Dockerfile"])
                 @@ (api :> [Lv EXCEPT !.path = "/api", !.from = "Dockerfile.api"])]
DocB == [repo |-> "one", inFleet |-> TRUE, publish |-> TRUE, jobs |-> {},
         deploy |-> (Primary :> Dep),
         levels |-> (Web :> [Lv EXCEPT !.mode = "tailnet", !.from = "Dockerfile"])]
LockA == [repo |-> "one", envs |-> (Primary :> NoLock)]

Plain == [docs |-> (a :> DocA) @@ (b :> DocB), locks |-> (a :> LockA),
          resources |-> (pg :> [kind |-> "postgres", boxes |-> {"east"}, port |-> TRUE,
                                volumes |-> {pg}, expose |-> None])
                     @@ (cache :> [kind |-> "container", boxes |-> {"west"}, port |-> TRUE,
                                   volumes |-> {}, expose |-> None]),
          routes |-> (<<"r">> :> <<"r">>), hook |-> <<"hook">>, hand |-> {}]

\* Two environments on two boxes, with a service that shares the main build.
Staged == [Plain EXCEPT
  !.docs[a].deploy = @ @@ ("staging" :> [Dep EXCEPT !.box = "west", !.domain = <<"s">>,
                                           !.own = (www :> <<"ws">>)]),
  !.docs[a].levels = @ @@ (www :> [Lv EXCEPT !.domain = www, !.from = "share"]),
  !.locks[a].envs = @ @@ ("staging" :> NoLock)]
\* Two projects of the fleet that build one repository.
Shared == [Plain EXCEPT
  !.docs[a].inFleet = TRUE, !.docs[a].repo = "one",
  !.docs[a].levels[Web].password = TRUE, !.docs[a].levels[Web].health = "/api/x",
  !.docs[b].levels = @ @@ (www :> [Lv EXCEPT !.path = "/api", !.from = "share"])]

MCBases == {Plain, Staged, Shared}
MCCatalogue == (<<"a", "api">> :> [DocB EXCEPT !.publish = FALSE])
            @@ (<<"a", "staging">> :> [DocB EXCEPT !.repo = None, !.levels[Web].from = "image"])
MCNewLevels == (www :> [Lv EXCEPT !.domain = www, !.from = "share"])
MCNewEnv == ("staging" :> [Dep EXCEPT !.domain = <<"s">>, !.box = "west"])
MCDocValues == [publish |-> BOOLEAN, inFleet |-> BOOLEAN]
MCDeployValues ==
  [box |-> MCBoxes, domain |-> {None, <<"x">>}, aliases |-> {{}, {b}},
   mode |-> {None, "tailnet", "internal"}, branch |-> {"main", "dev"},
   track |-> {"branch", "pin"}]
MCLevelValues ==
  [path |-> {"/api/x"}, domain |-> {<<"x">>}, mode |-> {None, "public", "tailnet", "internal"},
   open |-> {{}, {"/api"}}, locked |-> {{}, {"/api"}}, password |-> BOOLEAN,
   from |-> {"image", "share", "Dockerfile"}, inherit |-> BOOLEAN, port |-> BOOLEAN,
   health |-> {None, "/api/x"}, zero |-> BOOLEAN,
   needs |-> {{}, {b}, {cache}, {Postgres}}, vars |-> {{}, {b}}, volumes |-> {{}, {data}}]
MCLockValues ==
  [box |-> {None, "west"}, frozen |-> BOOLEAN,
   containers |-> {<<>>, Web :> b, Web :> <<"a", "vpn">>, api :> <<"a", "new">>},
   volumes |-> {<<>>, data :> pg}, database |-> {None, b}]
MCResourceValues == [boxes |-> {{"east"}, {"east", "west"}}, volumes |-> {{}, {<<"a", "data">>}}]
MCRouteDomains == {<<"r">>, a}
MCHookDomains == {<<"hook">>, <<"x">>}
MCHandNames == {<<"a", "api">>, <<"a", "www">>}
MCHosts == {a, b, www, <<"s">>, <<"ws">>, <<"x">>, <<"a", "api">>, <<"a", "staging">>}
MCRequests == {"/", "/api", "/api/x", "/apix", "/API"}
MCUnder(p, q) == <<p, q>> \in {<<x, x>> : x \in MCRequests} \cup {<<"/api/x", "/api">>}
MCStarts(p, q) == MCUnder(p, q) \/ <<p, q>> = <<"/apix", "/api">>
MCStartsAny(p, q) == MCStarts(p, q) \/ <<p, q>> = <<"/API", "/api">>
MCPathLen(p) == CASE p = "/" -> 1 [] p = "/api/x" -> 6 [] p = "/apix" -> 5 [] OTHER -> 4
MCHostRuleLen(ds) == 20 * Cardinality(ds)
MCRank == "a" :> 1 @@ "api" :> 2 @@ "b" :> 3 @@ "cache" :> 4 @@ "new" :> 5 @@ "pg" :> 6
       @@ "staging" :> 7 @@ "vpn" :> 8 @@ "web" :> 9 @@ "www" :> 10
=============================================================================
