------------------------------ MODULE PushFan ------------------------------
(***************************************************************************)
(* Which containers one push rebuilds: the siblings the webhook receiver   *)
(* triggers beside the service of the hook, and the aliases a build        *)
(* triggers on its own box when it is done                                 *)
(* (src/filter_plugins/bay_filters.py; rebuild.sh.j2, the fan-out).        *)
(* es is a set of compiled entries.  Every build is local here.            *)
(***************************************************************************)
EXTENDS BayToml

CONSTANT Rank   \* the words of names in alphabetical order

\* services.yml is sorted by name; a dash sorts before any letter.
Before(m, n) ==
  \E k \in 0 .. Len(m) :
    /\ k < Len(n)
    /\ \A i \in 1 .. k : m[i] = n[i]
    /\ k < Len(m) => Rank[m[k + 1]] < Rank[n[k + 1]]
First(es) == CHOOSE e \in es : \A x \in es \ {e} : Before(e.name, x.name)

Building(es) == {e \in es : e.build # None}
Own(es) == {e \in Building(es) : ~e.build.shared}
Identity(bd) == <<bd.repo, bd.branch, bd.file>>

\* bay_build_dedup_map: the first member that is not shared builds, the others
\* re-tag its image.
PrimaryBuild(es, e) ==
  LET group == {x \in Building(es) : Identity(x.build) = Identity(e.build)}
      owners == Own(group)
  IN  First(IF owners # {} THEN owners ELSE group)

\* _push_project: what makes two builds one project.
PushKey(bd) ==
  IF bd.toml # None THEN <<"toml", bd.toml>>
  ELSE IF bd.project # None THEN <<"project", bd.project>> ELSE <<>>
SamePush(a, b) ==
  /\ PushKey(a) # <<>> /\ PushKey(a) = PushKey(b)
  /\ a.repo = b.repo /\ a.branch = b.branch

\* A mutant: an alias counts as covered wherever its primary runs.
PushSiblingsAnywhere(es, h) ==
  LET mates == {e \in Own(es) \ {h} : SamePush(e.build, h.build)}
  IN  {e \in mates :
         LET first == PrimaryBuild(es, e)
         IN  ~(first # e /\ first \in mates \cup {h})}

\* bay_push_siblings: not the aliases that their primary triggers on its boxes.
PushSiblings(es, h) ==
  LET mates == {e \in Own(es) \ {h} : SamePush(e.build, h.build)}
  IN  {e \in mates :
         LET first == PrimaryBuild(es, e)
         IN  ~(/\ first # e
               /\ first \in mates \cup {h}
               /\ first.regions = e.regions)}

\* What runs on a box: rebuild.sh knows the entries of the box only.  A held
\* run ends before it moves an image or triggers an alias.
Direct(es, hooks) == UNION {{h} \cup PushSiblings(es, h) : h \in hooks}
FanOut(here, runs) ==
  {e \in Building(here) :
     LET first == PrimaryBuild(here, e)
     IN  first # e /\ first \in runs /\ ~first.build.held}
Deployed(es, here, hooks) ==
  LET direct == Direct(es, hooks) \cap here
  IN  {e \in direct \cup FanOut(here, direct) : ~e.build.held}

\* One hook for each project, repository and branch, at any build of its own.
\* A project without a key has a hook at each build.
OneHook(a, b) == a = b \/ SamePush(a.build, b.build)
Hookings(es) ==
  {hs \in SUBSET Own(es) :
     /\ \A a, b \in hs : OneHook(a, b) => a = b
     /\ \A e \in Own(es) : \E h \in hs : OneHook(e, h)}
=============================================================================
