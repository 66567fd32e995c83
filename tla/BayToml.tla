------------------------------ MODULE BayToml ------------------------------
(***************************************************************************)
(* The rules a bay.toml must meet before the fleet compiles               *)
(* (src/src/bay_cli/bay_toml.py).                                          *)
(*                                                                         *)
(* A document keeps what the rules and the compiler tell apart:            *)
(*   repo, inFleet, publish, jobs;                                         *)
(*   deploy: environment -> [box, domain, aliases, mode, branch, track,    *)
(*           own], own being the services' domains in that environment;    *)
(*   levels: service -> a level.  Web is the main container.               *)
(* A level has path, domain, mode, open, locked, password, from, inherit,  *)
(* port, expose, health, zero, needs, vars, volumes.  from is "image",     *)
(* "share" or a Dockerfile.                                                *)
(*                                                                         *)
(* Every name (project, service, job, volume, resource, domain, variable)  *)
(* is a sequence of words, the parts between its dashes: a-staging-api is  *)
(* <<"a", "staging", "api">>.  So names made by gluing parts together can  *)
(* meet, as the strings do.                                                *)
(***************************************************************************)
EXTENDS Naturals, Sequences, FiniteSets

CONSTANTS Primary,   \* primary_env of bay.fleet.toml
          None,      \* an absent key
          Hosts,     \* the domains, a project's name standing for its default one
          Paths      \* the paths of routes, access rules and requests

Names == Seq(STRING) \ {<<>>}
Modes == {"public", "tailnet", "internal"}

Web == <<"web">>
Postgres == <<"postgres">>
JobWord == "job"

Services(doc) == DOMAIN doc.levels \ {Web}
EnvsOf(doc) == DOMAIN doc.deploy
RoutedLevel(lv) == lv.path # None \/ lv.domain # None

\* The access mode of the main container in one environment.
MainMode(doc, e) ==
  IF doc.deploy[e].mode # None THEN doc.deploy[e].mode ELSE doc.levels[Web].mode

StartsWithWord(name, w) == Len(name) > 1 /\ name[1] = w
EndsWithWord(name, w) == Len(name) > 1 /\ name[Len(name)] = w

\* No two members of a set of <<key, owner>> pairs give one key two owners.
Once(claims) == \A c, d \in claims : c[1] = d[1] => c[2] = d[2]

\* The schema: every key has its type, and the main container has an access mode.
LevelSchema(lv) ==
  /\ lv.path \in Paths \cup {None} /\ lv.domain \in Hosts \cup {None}
  /\ lv.mode \in Modes \cup {None}
  /\ lv.open \subseteq Paths /\ lv.locked \subseteq Paths
  /\ lv.health \in Paths \cup {None}
  /\ {lv.password, lv.inherit, lv.port, lv.zero} \subseteq BOOLEAN
  /\ lv.needs \cup lv.vars \cup lv.volumes \subseteq Names
DeploySchema(d) ==
  /\ d.domain \in Hosts \cup {None} /\ d.aliases \subseteq Hosts
  /\ d.mode \in Modes \cup {None}
  /\ \A s \in DOMAIN d.own : d.own[s] \in Hosts
Schema(p, doc) ==
  /\ p \in Names \cap Hosts
  /\ doc.jobs \cup DOMAIN doc.levels \subseteq Names
  /\ \A s \in DOMAIN doc.levels : LevelSchema(doc.levels[s])
  /\ Web \in DOMAIN doc.levels /\ doc.levels[Web].mode # None
  /\ doc.levels[Web].path = None /\ doc.levels[Web].domain = None
  /\ doc.levels[Web].from # "share"
  /\ EnvsOf(doc) # {} /\ EnvsOf(doc) \subseteq STRING
  /\ \A e \in EnvsOf(doc) : DeploySchema(doc.deploy[e])

NameRules(p, doc) ==
  /\ \A e \in EnvsOf(doc) : ~EndsWithWord(p, e)
  /\ \A s \in Services(doc), e \in EnvsOf(doc) : ~StartsWithWord(s, e)
  /\ \A s \in Services(doc) : ~StartsWithWord(s, JobWord)
  /\ \A s \in DOMAIN doc.levels, e \in EnvsOf(doc) :
       \A v \in doc.levels[s].volumes : ~StartsWithWord(v, e)
  /\ doc.jobs \cap DOMAIN doc.levels = {}

NeedsRules(p, doc) == \A s \in DOMAIN doc.levels : p \notin doc.levels[s].needs

\* A container that inherits gets a variable for every sibling with a port:
\* it may not declare one of the same name.  The variable of a need or of a
\* sibling is named after it.
LevelVars(lv) == lv.vars \cup (lv.needs \ {Postgres})
SiblingUrlRule(doc) ==
  \A r \in {t \in DOMAIN doc.levels : t = Web \/ doc.levels[t].inherit} :
    LET declared == LevelVars(doc.levels[Web]) \cup LevelVars(doc.levels[r])
    IN  \A s \in DOMAIN doc.levels \ {r} : doc.levels[s].port => s \notin declared

AccessRules(doc) ==
  /\ \A s \in DOMAIN doc.levels : doc.levels[s].open \cap doc.levels[s].locked = {}
  /\ \A s \in Services(doc) :
       LET lv == doc.levels[s] IN
       /\ RoutedLevel(lv) => lv.mode # "internal"
       /\ ~RoutedLevel(lv) =>
            /\ lv.open = {} /\ lv.locked = {} /\ ~lv.password
            /\ lv.mode \in {None, "internal"}
       /\ lv.path # None /\ lv.mode = None =>
            \A e \in EnvsOf(doc) : MainMode(doc, e) # "internal"
  /\ (\E e \in EnvsOf(doc) : MainMode(doc, e) = "internal") =>
       LET lv == doc.levels[Web] IN lv.open = {} /\ lv.locked = {} /\ ~lv.password

\* One path, one service.  A trailing slash is dropped before the comparison.
PathRules(doc) ==
  \A s, t \in Services(doc) :
    doc.levels[s].path # None /\ doc.levels[s].path = doc.levels[t].path => s = t

\* An override names a service that has no path of its own; what is routed or
\* probed has a port.
DeployRules(doc) ==
  /\ \A e \in EnvsOf(doc) : \A s \in DOMAIN doc.deploy[e].own :
       s \in Services(doc) /\ doc.levels[s].path = None
  /\ (\E e \in EnvsOf(doc) : MainMode(doc, e) # "internal") => doc.levels[Web].port
  /\ \A s \in DOMAIN doc.levels :
       doc.levels[s].health # None \/ RoutedLevel(doc.levels[s]) => doc.levels[s].port

\* No domain twice in one file, and at most one environment without a domain
\* of its own.
SvcDomain(doc, e, s) ==
  IF s \in DOMAIN doc.deploy[e].own THEN doc.deploy[e].own[s] ELSE doc.levels[s].domain
FileDomains(doc, e) ==
  {<<d, <<e, Web>> >> : d \in {doc.deploy[e].domain} \cup doc.deploy[e].aliases}
    \cup {<<SvcDomain(doc, e, s), <<e, s>> >> : s \in Services(doc)}
DomainRules(doc) ==
  /\ Once({c \in UNION {FileDomains(doc, e) : e \in EnvsOf(doc)} : c[1] # None})
  /\ \A e \in EnvsOf(doc) : doc.deploy[e].domain \notin doc.deploy[e].aliases
  /\ Cardinality({e \in EnvsOf(doc) :
                    doc.deploy[e].domain = None /\ MainMode(doc, e) # "internal"}) =< 1

Valid(p, doc) ==
  /\ Schema(p, doc)
  /\ NameRules(p, doc)
  /\ NeedsRules(p, doc)
  /\ SiblingUrlRule(doc)
  /\ AccessRules(doc)
  /\ PathRules(doc)
  /\ DeployRules(doc)
  /\ DomainRules(doc)
=============================================================================
