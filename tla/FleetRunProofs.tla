---------------------------- MODULE FleetRunProofs ----------------------------
EXTENDS FleetRun, FiniteSetTheorems, SequenceTheorems, WellFoundedInduction, TLAPS

USE FleetConstants

Places == {"idle", "start", "pulled", "planned", "written", "committed", "pushed",
           "claimed", "playing", "played", "push", "deploy", "off"}
Plays == {"no", "wait", "clear", "held", "done", "broken", "ok", "failed"}
Ends == {None, "ok", "failed", "blocked", "refused", "unreachable", "undone",
         "kept", "stopped", "killed", "unpushed"}
Trees == [Projects -> Records]
Receipts == [commit : Commits, result : {"ok", "failed"}]

Typed ==
    /\ remote \in Seq(Commits) /\ remote # <<>>
    /\ head \in [Checkouts -> Seq(Commits)] /\ \A c \in Checkouts : head[c] # <<>>
    /\ work \in [Checkouts -> Trees]
    /\ pc \in [Runs -> Places]
    /\ job \in [Runs -> JobSet \cup {NoJob}]
    /\ base \in [Runs -> Nat]
    /\ claimed \in [Runs -> Commits] /\ ship \in [Runs -> Commits]
    /\ tries \in [Runs -> 0..Rebases]
    /\ play \in [Runs -> [Boxes -> Plays]]
    /\ running \in [Projects -> Pins]
    /\ receipt \in [Boxes -> Receipts]
    /\ boxLock \in SUBSET Boxes /\ old \in SUBSET Runs
    /\ outcome \in [Runs -> Ends]

\* One live run in a checkout; what it did not do yet and where it stands.
Alone == \A r, q \in Runs : Live(r) /\ Live(q) /\ At[r] = At[q] => r = q
PlacedAt(r) ==
    /\ outcome[r] # None => pc[r] = "off"
    /\ pc[r] = "planned" => \A p \in job[r].members : WantedPin(r, p) # NoPin
    /\ pc[r] \notin {"idle", "off"} => job[r] \in JobSet
    /\ pc[r] = "deploy" => job[r].kind = "deploy"
    /\ pc[r] \in {"written", "committed", "pushed"} => base[r] \in 1..Len(head[At[r]])
Placed == \A r \in Runs : PlacedAt(r)

By(log, r) == \E i \in DOMAIN log : log[i].by = r
GoneAt(r) ==
    /\ (pc[r] \in {"idle", "start", "pulled", "planned", "written", "deploy"}
           \/ outcome[r] \in {"refused", "undone"}) =>
         ~By(remote, r) /\ \A c \in Checkouts : ~By(head[c], r)
    /\ pc[r] \in {"committed", "pushed"} =>
         /\ \A c \in Checkouts \ {At[r]} : By(head[c], r) => By(remote, r)
         /\ By(remote, r) => Holds(remote, claimed[r])
         /\ Holds(head[At[r]], claimed[r])
         /\ \A i \in DOMAIN head[At[r]] : head[At[r]][i].by = r => i > base[r]
    /\ pc[r] = "committed" => ~By(remote, r)
Gone == \A r \in Runs : GoneAt(r)

OnRemote(tree) == \E i \in DOMAIN remote : remote[i].tree = tree
PublicAt(r) ==
    /\ pc[r] \in {"committed", "pushed"} => Tree(head[At[r]]) = claimed[r].tree
    /\ pc[r] = "claimed" => OnRemote(Tree(head[At[r]]))
    /\ Playing(r) => OnRemote(ship[r].tree)
Public == \A r \in Runs : PublicAt(r)

GoodRecord(p, record, done) ==
    /\ record.prev # NoPin => <<p, record.prev>> \in done
    /\ record.result = "ok" => <<p, record.pin>> \in done
    /\ record.claim # None => record.result = "pending" /\ record.plan = record.claim
GoodTree(tree, done) == \A p \in Projects : GoodRecord(p, tree[p], done)
GoodLog(log, done) == \A i \in DOMAIN log : GoodTree(log[i].tree, done)
AsClaimed(r) ==
    (\/ pc[r] \in {"committed", "pushed", "claimed", "playing"} /\ job[r].kind # "deploy"
     \/ pc[r] = "played") => work[At[r]] = claimed[r].tree
Truthful ==
    /\ GoodLog(remote, ran)
    /\ \A c \in Checkouts : GoodTree(work[c], ran) /\ GoodLog(head[c], ran)
    /\ \A b \in Boxes : receipt[b].result = "ok" =>
         \A p \in On_(b) : <<p, receipt[b].commit.tree[p].pin>> \in ran
    /\ \A r \in Runs : AsClaimed(r)

-----------------------------------------------------------------------------
(* Induction over data, by the least element of a set of numbers.            *)

Less == OpToRel(<, Nat)
LEMMA LessIsWellFounded == IsWellFoundedOn(Less, Nat)
  BY NatLessThanWellFounded DEF Less
LEMMA LessMeans == ASSUME NEW a \in Nat, NEW b \in Nat, a < b PROVE <<a, b>> \in Less
  BY DEF Less, OpToRel

\* Every set of numbers that is not empty has a least element.
LEMMA LeastNumber == ASSUME NEW T, T \subseteq Nat, T # {} PROVE \E m \in T : \A k \in T : m <= k
  <1>1. PICK m \in T : \A k \in T : ~(<<k, m>> \in Less)
    BY WFMin, LessIsWellFounded
  <1>2. \A k \in T : ~(k < m)
    BY <1>1, LessMeans
  <1> QED
    BY <1>1, <1>2

\* What holds of 0 and passes from a number to the next holds of every number up to N.
LEMMA CountUp ==
    ASSUME NEW N \in Nat, NEW T, 0 \in T, \A m \in 0..(N-1) : m \in T => m + 1 \in T
    PROVE  \A m \in 0..N : m \in T
  <1> DEFINE Bad == {m \in 0..N : m \notin T}
  <1> SUFFICES ASSUME Bad # {} PROVE FALSE
    OBVIOUS
  <1>1. PICK m \in Bad : \A k \in Bad : m <= k
    <2>1. Bad \subseteq Nat
      OBVIOUS
    <2> HIDE DEF Bad
    <2> QED
      BY <2>1, LeastNumber
  <1>2. m \in 0..N /\ m # 0 /\ m \notin T
    BY <1>1
  <1>3. m - 1 \in 0..(N-1) /\ m - 1 \in 0..N /\ ~(m <= m - 1) /\ (m - 1) + 1 = m
    BY <1>2
  <1>4. m - 1 \in T
    BY <1>1, <1>3
  <1>5. (m - 1) + 1 \in T
    BY <1>3, <1>4
  <1> QED
    BY <1>2, <1>3, <1>5

-----------------------------------------------------------------------------
(* Logs.                                                                     *)

Pre(s, t) == Len(s) <= Len(t) /\ \A i \in 1..Len(s) : s[i] = t[i]
LEMMA PrefixMeans ==
    ASSUME NEW S, NEW s \in Seq(S), NEW t \in Seq(S)
    PROVE  IsPrefix(s, t) <=> Pre(s, t)
  <1>1. Len(s) \in Nat /\ Len(t) \in Nat
    OBVIOUS
  <1>2. ASSUME IsPrefix(s, t) PROVE Pre(s, t)
    <2>1. Len(s) <= Len(t) /\ SubSeq(s, 1, Len(s)) = SubSeq(t, 1, Len(s))
      BY <1>2 DEF IsPrefix
    <2>2. ASSUME NEW i \in 1..Len(s) PROVE s[i] = t[i]
      <3>1. SubSeq(s, 1, Len(s))[i] = s[i] /\ SubSeq(t, 1, Len(s))[i] = t[i]
        BY <1>1, <2>1
      <3> QED
        BY <3>1, <2>1
    <2> QED
      BY <2>1, <2>2 DEF Pre
  <1>3. ASSUME Pre(s, t) PROVE IsPrefix(s, t)
    <2>1. SubSeq(s, 1, Len(s)) = s
      BY SubSeqFull
    <2>2. SubSeq(t, 1, Len(s)) \in Seq(S) /\ Len(SubSeq(t, 1, Len(s))) = Len(s)
      BY <1>1, <1>3 DEF Pre
    <2>3. \A i \in 1..Len(s) : s[i] = SubSeq(t, 1, Len(s))[i]
      BY <1>1, <1>3 DEF Pre
    <2>4. s = SubSeq(t, 1, Len(s))
      BY <2>2, <2>3, SeqEqual
    <2> QED
      BY <2>1, <2>4, <1>3 DEF IsPrefix, Pre
  <1> QED
    BY <1>2, <1>3

\* What stays of a log when it is cut, and when a commit is added.
LEMMA CutLog ==
    ASSUME NEW S, NEW s \in Seq(S), NEW n \in 1..Len(s)
    PROVE  /\ SubSeq(s, 1, n) \in Seq(S) /\ Len(SubSeq(s, 1, n)) = n
           /\ \A i \in 1..n : SubSeq(s, 1, n)[i] = s[i]
  OBVIOUS
LEMMA AddLog ==
    ASSUME NEW S, NEW s \in Seq(S), NEW e \in S
    PROVE  /\ Append(s, e) \in Seq(S) /\ Len(Append(s, e)) = Len(s) + 1
           /\ Append(s, e) # <<>> /\ Append(s, e)[Len(s) + 1] = e
           /\ \A i \in 1..Len(s) : Append(s, e)[i] = s[i]
  OBVIOUS

\* Every log begins with the first commit of the fleet.
Rooted ==
    /\ Len(remote) >= 1 /\ remote[1] = Root
    /\ \A c \in Checkouts : Len(head[c]) >= 1 /\ head[c][1] = Root

\* Two logs that are the same up to an entry.
Agree(s, t, i) == i \in DOMAIN s /\ i \in DOMAIN t /\ \A k \in 1..i : s[k] = t[k]

\* What a rebase hands to the replay: the end of the branch, from the last commit
\* it shares with the remote.
LEMMA LocalCommits ==
    ASSUME Typed, Rooted, NEW c \in Checkouts
    PROVE  \E n \in 1..Len(head[c]) :
             /\ n <= Len(remote) /\ (\A k \in 1..n : remote[k] = head[c][k])
             /\ \A k \in 1..Len(head[c]) : Agree(remote, head[c], k) => k <= n
             /\ Local(c) \in Seq(Commits) /\ Len(Local(c)) = Len(head[c]) - n + 1
             /\ \A i \in 1..Len(Local(c)) : Local(c)[i] = head[c][n + i - 1]
  <1> DEFINE T == {Len(remote) - n : n \in Common(c)}
  <1>1. remote \in Seq(Commits) /\ head[c] \in Seq(Commits) /\ Len(remote) \in Nat /\ Len(head[c]) \in Nat
    BY DEF Typed
  <1>2. 1 \in Common(c)
    BY <1>1 DEF Rooted, Common
  <1>3. \A n \in Common(c) : n \in Nat /\ Len(remote) - n \in Nat
    BY <1>1 DEF Common
  <1>4. PICK m \in T : \A k \in T : m <= k
    <2>1. T \subseteq Nat /\ T # {}
      BY <1>2, <1>3
    <2> HIDE DEF T
    <2> QED
      BY <2>1, LeastNumber
  <1>5. \E n \in Common(c) : \A k \in Common(c) : n >= k
    <2>1. PICK n \in Common(c) : m = Len(remote) - n
      BY <1>4
    <2>2. \A k \in Common(c) : m <= Len(remote) - k
      BY <1>4
    <2> QED
      BY <2>1, <2>2, <1>1, <1>3
  <1> DEFINE n == Max(Common(c))
  <1>6. n \in Common(c) /\ \A k \in Common(c) : n >= k
    BY <1>5 DEF Max
  <1>8. Local(c) = SubSeq(head[c], n, Len(head[c]))
    BY DEF Local
  <1> HIDE DEF n
  <1>7. n \in 1..Len(head[c]) /\ n <= Len(remote) /\ \A k \in 1..n : remote[k] = head[c][k]
    BY <1>6, <1>1 DEF Common
  <1>9. \A k \in 1..Len(head[c]) : Agree(remote, head[c], k) => k <= n
    <2> SUFFICES ASSUME NEW k \in 1..Len(head[c]), Agree(remote, head[c], k) PROVE k <= n
      OBVIOUS
    <2>1. k \in Common(c)
      BY <1>1 DEF Agree, Common
    <2> QED
      BY <1>1, <1>6, <1>7, <2>1
  <1> QED
    BY <1>1, <1>7, <1>8, <1>9

\* The replay is a function of the number of commits replayed.
LEMMA ReplayIsAFunction ==
    ASSUME NEW commits, Len(commits) \in Nat \ {0}
    PROVE  \E f : /\ f[0] = remote
                  /\ \A i \in 1..(Len(commits) - 1) : f[i] = ReplayOne(commits, i, f[i-1])
                  /\ Replay(commits) = f[Len(commits) - 1]
  <1> DEFINE Good(m) == \E f : f = [i \in 0..m |-> IF i = 0 THEN remote ELSE ReplayOne(commits, i, f[i-1])]
             T == {m \in Nat : Good(m)}
             N == Len(commits) - 1
  <1>1. Good(0)
    <2> DEFINE f == [i \in 0..0 |-> remote]
    <2>1. f = [i \in 0..0 |-> IF i = 0 THEN remote ELSE ReplayOne(commits, i, f[i-1])]
      OBVIOUS
    <2> QED
      BY <2>1
  <1>2. ASSUME NEW m \in Nat, Good(m) PROVE Good(m + 1)
    <2>1. PICK f : f = [i \in 0..m |-> IF i = 0 THEN remote ELSE ReplayOne(commits, i, f[i-1])]
      BY <1>2
    <2> DEFINE g == [i \in 0..(m+1) |-> IF i = m + 1 THEN ReplayOne(commits, i, f[m]) ELSE f[i]]
    <2>2. \A i \in 0..(m+1) : g[i] = IF i = 0 THEN remote ELSE ReplayOne(commits, i, g[i-1])
      BY <2>1
    <2>3. g = [i \in 0..(m+1) |-> IF i = 0 THEN remote ELSE ReplayOne(commits, i, g[i-1])]
      BY <2>2
    <2> QED
      BY <2>3
  <1>3. N \in Nat /\ 0 \in T /\ \A m \in 0..(N-1) : m \in T => m + 1 \in T
    <2>1. N \in Nat
      OBVIOUS
    <2>2. \A m \in 0..(N-1) : m \in Nat /\ m + 1 \in Nat
      BY <2>1
    <2> HIDE DEF Good, N
    <2> QED
      BY <1>1, <1>2, <2>1, <2>2
  <1>4. Good(N)
    <2>1. N \in 0..N
      BY <1>3
    <2>2. N \in T
      <3> HIDE DEF T, N
      <3> QED
        BY <1>3, <2>1, CountUp
    <2> QED
      BY <2>2
  <1> DEFINE F == CHOOSE f : f = [i \in 0..(Len(commits) - 1) |->
                                   IF i = 0 THEN remote ELSE ReplayOne(commits, i, f[i-1])]
  <1>5. Replay(commits) = F[Len(commits) - 1]
    BY DEF Replay
  <1>6. F = [i \in 0..(Len(commits) - 1) |-> IF i = 0 THEN remote ELSE ReplayOne(commits, i, F[i-1])]
    BY <1>4
  <1> HIDE DEF F
  <1>7. F[0] = remote /\ \A i \in 1..(Len(commits) - 1) : F[i] = ReplayOne(commits, i, F[i-1])
    <2>1. \A i \in 0..(Len(commits) - 1) : F[i] = IF i = 0 THEN remote ELSE ReplayOne(commits, i, F[i-1])
      BY <1>6
    <2>2. \A i \in 1..(Len(commits) - 1) : i \in 0..(Len(commits) - 1) /\ i # 0
      OBVIOUS
    <2>3. 0 \in 0..(Len(commits) - 1)
      OBVIOUS
    <2> QED
      BY <2>1, <2>2, <2>3, Zenon
  <1> QED
    BY <1>5, <1>7

LEMMA ACopy ==
    ASSUME NEW a \in Commits, NEW tree \in Trees
    PROVE  LET new == [by |-> a.by, kind |-> a.kind, tree |-> tree, copy |-> a.copy + 1]
           IN  new \in Commits /\ new.tree = tree /\ new.by = a.by /\ new.kind = a.kind
  BY DEF Commits, Trees

\* What replaying the commit that turns the records of `from` into its own makes of
\* a log: a log that is the same, or longer by one entry of that commit.  A record it
\* changes was not changed on the log: that would be a conflict.
Replays(from, commit, log, new) ==
    /\ new \in Seq(Commits)
    /\ \A p \in Projects : Tree(new)[p] = IF commit.tree[p] # from.tree[p] THEN commit.tree[p] ELSE Tree(log)[p]
    /\ \A p \in Projects : commit.tree[p] # from.tree[p] => Tree(log)[p] \in {from.tree[p], commit.tree[p]}
    /\ \/ new = log
       \/ /\ Len(new) = Len(log) + 1
          /\ \A k \in 1..Len(log) : new[k] = log[k]
          /\ new[Len(log) + 1].by = commit.by
          /\ new[Len(log) + 1].kind = commit.kind

\* One commit replayed on a log: dropped, or added with the records it changed.
LEMMA ReplayStep ==
    ASSUME NEW commits \in Seq(Commits), NEW i \in 1..(Len(commits) - 1),
           NEW log \in Seq(Commits), log # <<>>, ReplayOne(commits, i, log) # <<>>
    PROVE  Replays(commits[i], commits[i+1], log, ReplayOne(commits, i, log))
  <1> DEFINE parent == commits[i].tree
             commit == commits[i+1]
             changed == {p \in Projects : commit.tree[p] # parent[p]}
             tree == [p \in Projects |-> IF p \in changed THEN commit.tree[p] ELSE Tree(log)[p]]
             new == [by |-> commit.by, kind |-> commit.kind, tree |-> tree, copy |-> commit.copy + 1]
             out == ReplayOne(commits, i, log)
  <1>1. Len(commits) \in Nat /\ i \in Nat /\ i + 1 \in 1..Len(commits) /\ i \in 1..Len(commits)
    OBVIOUS
  <1>2. commits[i] \in Commits /\ commit \in Commits
    BY <1>1
  <1>3. Len(log) \in Nat \ {0} /\ Last(log) \in Commits
    BY DEF Last
  <1>4. tree \in [Projects -> Records]
    BY <1>2, <1>3 DEF Tree, Commits
  <1>5. new \in Commits /\ new.tree = tree /\ new.by = commit.by /\ new.kind = commit.kind
    <2>1. commit \in Commits /\ tree \in Trees
      BY <1>2, <1>4 DEF Trees
    <2> HIDE DEF commit, tree
    <2> QED
      BY <2>1, ACopy
  <1>6. (out = log /\ tree = Tree(log)) \/ out = Append(log, new)
    BY DEF ReplayOne
  <1>9. \A p \in Projects : commit.tree[p] # parent[p] => Tree(log)[p] \in {parent[p], commit.tree[p]}
    BY DEF ReplayOne
  <1> HIDE DEF out, new
  <1>7. CASE out = log /\ tree = Tree(log)
    <2>1. \A p \in Projects : tree[p] = IF commit.tree[p] # parent[p] THEN commit.tree[p] ELSE Tree(log)[p]
      OBVIOUS
    <2> HIDE DEF tree
    <2> QED
      BY <1>7, <1>9, <2>1 DEF out, Replays
  <1>8. CASE out = Append(log, new)
    <2>1. out \in Seq(Commits) /\ Len(out) = Len(log) + 1 /\ out[Len(log) + 1] = new
          /\ \A k \in 1..Len(log) : out[k] = log[k]
      BY <1>5, <1>8, AddLog
    <2>2. Tree(out) = tree
      BY <2>1, <1>5 DEF Tree, Last
    <2>3. \A p \in Projects : tree[p] = IF commit.tree[p] # parent[p] THEN commit.tree[p] ELSE Tree(log)[p]
      OBVIOUS
    <2> HIDE DEF tree
    <2> QED
      BY <2>1, <2>2, <2>3, <1>5, <1>9 DEF out, Replays
  <1> QED
    BY <1>6, <1>7, <1>8

\* The fleet commits of a run; one of a branch is replayed once.
FleetBy(log, i, q) == log[i].by = q /\ log[i].kind = "fleet"
OneFleet(log, q, k) == \A i, j \in k..Len(log) : FleetBy(log, i, q) /\ FleetBy(log, j, q) => i = j
Singly(c, log) == \A q : OneFleet(head[c], q, 1) => OneFleet(log, q, Len(remote) + 1)

\* A log after the commits n + 1 .. n + m of a checkout were replayed on the remote.
Replayed(c, n, m, log) ==
    /\ log \in Seq(Commits) /\ Pre(remote, log) /\ Singly(c, log)
    /\ \A i \in (Len(remote) + 1)..Len(log) : \E j \in (n + 1)..(n + m) :
         /\ log[i].by = head[c][j].by /\ log[i].kind = head[c][j].kind
         /\ \A p \in Projects :
              \/ log[i].tree[p] = log[i-1].tree[p]
              \/ /\ log[i].tree[p] = head[c][j].tree[p]
                 /\ head[c][j].tree[p] # head[c][j-1].tree[p]
                 /\ log[i-1].tree[p] \in {head[c][j-1].tree[p], head[c][j].tree[p]}
    /\ \A p \in Projects :
         \/ Tree(log)[p] = head[c][n + m].tree[p]
         \/ Tree(log)[p] = Tree(remote)[p] /\ head[c][n + m].tree[p] = head[c][n].tree[p]

LEMMA ReplayedNone ==
    ASSUME Typed, NEW c \in Checkouts, NEW n \in 1..Len(head[c])
    PROVE  Replayed(c, n, 0, remote)
  <1>1. remote \in Seq(Commits) /\ Len(remote) \in Nat /\ n + 0 = n
    BY DEF Typed
  <1>2. Pre(remote, remote)
    BY <1>1 DEF Pre
  <1>3. Singly(c, remote)
    BY <1>1 DEF Singly, OneFleet
  <1> QED
    BY <1>1, <1>2, <1>3 DEF Replayed

LEMMA ReplayedOne ==
    ASSUME Typed, NEW c \in Checkouts, NEW n \in 1..Len(head[c]),
           NEW commits \in Seq(Commits), Len(commits) = Len(head[c]) - n + 1,
           \A i \in 1..Len(commits) : commits[i] = head[c][n + i - 1],
           NEW m \in Nat, m + 1 \in 1..(Len(commits) - 1),
           NEW log, log # <<>>, Replayed(c, n, m, log),
           ReplayOne(commits, m + 1, log) # <<>>
    PROVE  Replayed(c, n, m + 1, ReplayOne(commits, m + 1, log))
  <1> DEFINE new == ReplayOne(commits, m + 1, log)
             a == head[c][n + m + 1]
             b == head[c][n + m]
  <1>1. /\ Len(remote) \in Nat /\ Len(head[c]) \in Nat /\ n \in Nat
        /\ log \in Seq(Commits) /\ Len(log) \in Nat /\ Len(remote) <= Len(log)
    BY DEF Typed, Replayed, Pre
  <1>2. commits[(m + 1) + 1] = a /\ commits[m + 1] = b
    <2>1. m + 1 \in 1..Len(commits) /\ (m + 1) + 1 \in 1..Len(commits)
      BY <1>1
    <2>2. n + (m + 1) - 1 = n + m /\ n + ((m + 1) + 1) - 1 = n + m + 1
      BY <1>1
    <2>3. commits[m + 1] = head[c][n + (m + 1) - 1] /\ commits[(m + 1) + 1] = head[c][n + ((m + 1) + 1) - 1]
      BY <2>1
    <2> QED
      BY <2>2, <2>3
  <1>3. /\ new \in Seq(Commits)
        /\ \A p \in Projects : Tree(new)[p] = IF a.tree[p] # b.tree[p] THEN a.tree[p] ELSE Tree(log)[p]
        /\ \A p \in Projects : a.tree[p] # b.tree[p] => Tree(log)[p] \in {b.tree[p], a.tree[p]}
        /\ \/ new = log
           \/ /\ Len(new) = Len(log) + 1 /\ \A k \in 1..Len(log) : new[k] = log[k]
              /\ new[Len(log) + 1].by = a.by /\ new[Len(log) + 1].kind = a.kind
    <2>1. log \in Seq(Commits) /\ m + 1 \in 1..(Len(commits) - 1)
      BY <1>1
    <2>2. Replays(commits[m + 1], commits[(m + 1) + 1], log, new)
      BY ONLY <2>1, ReplayStep, commits \in Seq(Commits), log # <<>>, ReplayOne(commits, m + 1, log) # <<>>
    <2>3. Replays(b, a, log, new)
      BY <1>2, <2>2
    <2> HIDE DEF new, a, b
    <2> QED
      BY <2>3 DEF Replays
  <1> HIDE DEF new
  <1>4. Len(new) \in Nat /\ Len(log) <= Len(new) /\ \A k \in 1..Len(log) : new[k] = log[k]
    <2>1. CASE new = log
      BY <1>1, <2>1
    <2>2. CASE new # log
      BY <1>1, <1>3, <2>2
    <2> QED
      BY <2>1, <2>2
  <1>5. Pre(remote, new)
    BY <1>1, <1>4 DEF Replayed, Pre
  <1>6. ASSUME NEW i \in (Len(remote) + 1)..Len(new)
        PROVE  \E j \in (n + 1)..(n + (m + 1)) :
                 /\ new[i].by = head[c][j].by /\ new[i].kind = head[c][j].kind
                 /\ \A p \in Projects :
                      \/ new[i].tree[p] = new[i-1].tree[p]
                      \/ /\ new[i].tree[p] = head[c][j].tree[p]
                         /\ head[c][j].tree[p] # head[c][j-1].tree[p]
                         /\ new[i-1].tree[p] \in {head[c][j-1].tree[p], head[c][j].tree[p]}
    <2>1. CASE i <= Len(log)
      <3>1. i \in (Len(remote) + 1)..Len(log) /\ new[i] = log[i]
        BY <1>1, <1>4, <2>1
      <3>2. Len(remote) >= 1
        BY DEF Typed
      <3>3. new[i-1] = log[i-1]
        BY <1>1, <1>4, <2>1, <3>2
      <3>4. PICK j \in (n + 1)..(n + m) :
                 /\ log[i].by = head[c][j].by /\ log[i].kind = head[c][j].kind
                 /\ \A p \in Projects :
                      \/ log[i].tree[p] = log[i-1].tree[p]
                      \/ /\ log[i].tree[p] = head[c][j].tree[p]
                         /\ head[c][j].tree[p] # head[c][j-1].tree[p]
                         /\ log[i-1].tree[p] \in {head[c][j-1].tree[p], head[c][j].tree[p]}
        BY <3>1 DEF Replayed
      <3>5. j \in (n + 1)..(n + (m + 1))
        BY <1>1
      <3> QED
        BY <3>1, <3>3, <3>4, <3>5
    <2>2. CASE i > Len(log)
      <3>1. i = Len(log) + 1 /\ Len(new) = i /\ i - 1 = Len(log) /\ Len(log) \in 1..Len(log)
        BY <1>1, <1>3, <2>2
      <3>2. new[i].tree = Tree(new) /\ new[i-1].tree = Tree(log)
        BY <3>1, <1>4 DEF Tree, Last
      <3>3. n + m + 1 \in (n + 1)..(n + (m + 1)) /\ (n + m + 1) - 1 = n + m
        BY <1>1
      <3>4. new[i].by = a.by /\ new[i].kind = a.kind
        BY <1>1, <1>3, <3>1
      <3>5. \A p \in Projects : \/ new[i].tree[p] = new[i-1].tree[p]
                                \/ /\ new[i].tree[p] = a.tree[p] /\ a.tree[p] # b.tree[p]
                                   /\ new[i-1].tree[p] \in {b.tree[p], a.tree[p]}
        BY <1>3, <3>2
      <3> DEFINE j == n + m + 1
      <3>6. j \in (n + 1)..(n + (m + 1)) /\ head[c][j] = a /\ head[c][j-1] = b
        BY <3>3
      <3> HIDE DEF j, a, b
      <3>7. /\ new[i].by = head[c][j].by /\ new[i].kind = head[c][j].kind
            /\ \A p \in Projects :
                 \/ new[i].tree[p] = new[i-1].tree[p]
                 \/ /\ new[i].tree[p] = head[c][j].tree[p]
                    /\ head[c][j].tree[p] # head[c][j-1].tree[p]
                    /\ new[i-1].tree[p] \in {head[c][j-1].tree[p], head[c][j].tree[p]}
        BY ONLY <3>4, <3>5, <3>6
      <3> QED
        BY ONLY <3>6, <3>7
    <2> QED
      BY <2>1, <2>2, <1>1
  <1>7. ASSUME NEW p \in Projects
        PROVE  \/ Tree(new)[p] = a.tree[p]
               \/ Tree(new)[p] = Tree(remote)[p] /\ a.tree[p] = head[c][n].tree[p]
    <2>1. \/ Tree(log)[p] = b.tree[p]
          \/ Tree(log)[p] = Tree(remote)[p] /\ b.tree[p] = head[c][n].tree[p]
      BY DEF Replayed
    <2> QED
      BY <2>1, <1>3
  <1>8. n + (m + 1) = n + m + 1
    BY <1>1
  <1>9. \A p \in Projects :
          \/ Tree(new)[p] = head[c][n + (m + 1)].tree[p]
          \/ Tree(new)[p] = Tree(remote)[p] /\ head[c][n + (m + 1)].tree[p] = head[c][n].tree[p]
    BY <1>7, <1>8
  <1>10. new \in Seq(Commits)
    BY <1>3
  <1>12. Singly(c, new)
    <2> SUFFICES ASSUME NEW q, OneFleet(head[c], q, 1) PROVE OneFleet(new, q, Len(remote) + 1)
      BY DEF Singly
    <2>1. OneFleet(log, q, Len(remote) + 1)
      BY DEF Replayed, Singly
    <2>2. \A h \in (Len(remote) + 1)..Len(log) : ~(FleetBy(log, h, q) /\ a.by = q /\ a.kind = "fleet")
      <3> SUFFICES ASSUME NEW h \in (Len(remote) + 1)..Len(log), FleetBy(log, h, q), a.by = q, a.kind = "fleet"
                   PROVE  FALSE
        OBVIOUS
      <3>1. PICK k \in (n + 1)..(n + m) : log[h].by = head[c][k].by /\ log[h].kind = head[c][k].kind
        BY DEF Replayed
      <3>2. n + m + 1 \in 1..Len(head[c]) /\ k \in 1..Len(head[c]) /\ k # n + m + 1
        BY <1>1
      <3> QED
        BY <3>1, <3>2 DEF OneFleet, FleetBy
    <2>3. CASE new = log
      BY <2>1, <2>3
    <2>4. CASE new # log
      <3> SUFFICES ASSUME NEW i \in (Len(remote) + 1)..Len(new), NEW j \in (Len(remote) + 1)..Len(new),
                          FleetBy(new, i, q), FleetBy(new, j, q)
                   PROVE  i = j
        BY DEF OneFleet
      <3>1. /\ Len(new) = Len(log) + 1 /\ new[Len(log) + 1].by = a.by /\ new[Len(log) + 1].kind = a.kind
            /\ \A k \in 1..Len(log) : new[k] = log[k]
        BY <1>3, <2>4
      <3> HIDE DEF a
      <3>2. \A k \in (Len(remote) + 1)..Len(log) : FleetBy(new, k, q) => FleetBy(log, k, q)
        <4> SUFFICES ASSUME NEW k \in (Len(remote) + 1)..Len(log) PROVE new[k] = log[k]
          BY DEF FleetBy
        <4>1. k \in 1..Len(log)
          BY <1>1
        <4> QED
          BY <3>1, <4>1
      <3>3. FleetBy(new, Len(log) + 1, q) => a.by = q /\ a.kind = "fleet"
        BY <3>1 DEF FleetBy
      <3>4. /\ i \in (Len(remote) + 1)..Len(log) \/ i = Len(log) + 1
            /\ j \in (Len(remote) + 1)..Len(log) \/ j = Len(log) + 1
        BY <1>1, <3>1
      <3> QED
        BY <2>1, <2>2, <3>2, <3>3, <3>4 DEF OneFleet
    <2> QED
      BY <2>3, <2>4
  <1>11. Replayed(c, n, m + 1, new)
    BY ONLY <1>5, <1>6, <1>9, <1>10, <1>12, Zenon DEF Replayed
  <1> QED
    BY <1>11 DEF new

\* A rebase that succeeds: the remote, then the local commits with what they changed.
LEMMA Rebased ==
    ASSUME Typed, Rooted, NEW c \in Checkouts, Replay(Local(c)) # <<>>
    PROVE  \E n \in 1..Len(head[c]) :
             /\ n <= Len(remote) /\ (\A k \in 1..n : remote[k] = head[c][k])
             /\ \A k \in 1..Len(head[c]) : Agree(remote, head[c], k) => k <= n
             /\ Replayed(c, n, Len(head[c]) - n, Replay(Local(c)))
  <1> DEFINE commits == Local(c)
  <1>1. PICK n \in 1..Len(head[c]) :
             /\ n <= Len(remote) /\ (\A k \in 1..n : remote[k] = head[c][k])
             /\ \A k \in 1..Len(head[c]) : Agree(remote, head[c], k) => k <= n
             /\ commits \in Seq(Commits) /\ Len(commits) = Len(head[c]) - n + 1
             /\ \A i \in 1..Len(commits) : commits[i] = head[c][n + i - 1]
    BY LocalCommits
  <1>2. Len(head[c]) \in Nat /\ Len(commits) \in Nat \ {0} /\ Len(commits) - 1 = Len(head[c]) - n
        /\ Len(commits) - 1 \in Nat
    BY <1>1 DEF Typed
  <1> HIDE DEF commits
  <1>3. PICK f : /\ f[0] = remote
                 /\ \A i \in 1..(Len(commits) - 1) : f[i] = ReplayOne(commits, i, f[i-1])
                 /\ Replay(commits) = f[Len(commits) - 1]
    BY <1>2, ReplayIsAFunction
  <1> DEFINE T == {m \in 0..(Len(commits) - 1) : f[m] # <<>> => Replayed(c, n, m, f[m])}
  <1>4. 0 \in T
    BY <1>2, <1>3, ReplayedNone
  <1>5. ASSUME NEW m \in 0..(Len(commits) - 2), m \in T PROVE m + 1 \in T
    <2>1. m \in Nat /\ m + 1 \in 1..(Len(commits) - 1) /\ (m + 1) - 1 = m /\ m + 1 \in 0..(Len(commits) - 1)
      BY <1>2
    <2>2. f[m + 1] = ReplayOne(commits, m + 1, f[m])
      BY <1>3, <2>1
    <2> SUFFICES ASSUME f[m + 1] # <<>> PROVE Replayed(c, n, m + 1, f[m + 1])
      BY <2>1
    <2>3. f[m] # <<>>
      BY <2>2 DEF ReplayOne
    <2>4. Replayed(c, n, m, f[m])
      BY <1>5, <2>3
    <2>5. commits \in Seq(Commits) /\ Len(commits) = Len(head[c]) - n + 1
          /\ \A i \in 1..Len(commits) : commits[i] = head[c][n + i - 1]
      BY <1>1
    <2>6. ReplayOne(commits, m + 1, f[m]) # <<>>
      BY <2>2
    <2>7. Replayed(c, n, m + 1, ReplayOne(commits, m + 1, f[m]))
      BY <2>1, <2>3, <2>4, <2>5, <2>6, ReplayedOne
    <2> QED
      BY <2>2, <2>7
  <1>6. Len(commits) - 1 \in T
    <2>1. (Len(commits) - 1) - 1 = Len(commits) - 2 /\ Len(commits) - 1 \in 0..(Len(commits) - 1)
      BY <1>2
    <2> HIDE DEF T
    <2>2. \A m \in 0..((Len(commits) - 1) - 1) : m \in T => m + 1 \in T
      BY <1>5, <2>1
    <2>3. \A m \in 0..(Len(commits) - 1) : m \in T
      BY <1>2, <1>4, <2>2, CountUp
    <2> QED
      BY <2>1, <2>3
  <1>7. Replayed(c, n, Len(head[c]) - n, Replay(commits))
    BY <1>2, <1>3, <1>6 DEF commits
  <1> QED
    BY <1>1, <1>7 DEF commits

\* A set of records that holds those of the remote and of a branch holds those of the
\* branch after a rebase; its authors are authors of one of the two.
LEMMA RebasedRecords ==
    ASSUME Typed, NEW c \in Checkouts, NEW n \in 1..Len(head[c]), NEW log,
           Replayed(c, n, Len(head[c]) - n, log),
           NEW G,
           \A i \in DOMAIN remote : \A p \in Projects : <<p, remote[i].tree[p]>> \in G,
           \A i \in DOMAIN head[c] : \A p \in Projects : <<p, head[c][i].tree[p]>> \in G
    PROVE  \A i \in DOMAIN log : \A p \in Projects : <<p, log[i].tree[p]>> \in G
  <1>1. /\ Len(remote) \in Nat \ {0} /\ Len(head[c]) \in Nat /\ log \in Seq(Commits) /\ Len(log) \in Nat
        /\ DOMAIN remote = 1..Len(remote) /\ DOMAIN head[c] = 1..Len(head[c])
        /\ n + (Len(head[c]) - n) = Len(head[c])
        /\ Len(remote) <= Len(log) /\ \A i \in 1..Len(remote) : log[i] = remote[i]
    BY DEF Typed, Replayed, Pre
  <1> DEFINE T == {m \in 0..Len(log) : \A i \in 1..m : \A p \in Projects : <<p, log[i].tree[p]>> \in G}
  <1>2. 0 \in T
    BY <1>1
  <1>3. ASSUME NEW m \in 0..(Len(log) - 1), m \in T PROVE m + 1 \in T
    <2>1. m + 1 \in 0..Len(log) /\ \A i \in 1..(m + 1) : i \in 1..m \/ i = m + 1
      BY <1>1
    <2> SUFFICES ASSUME NEW p \in Projects PROVE <<p, log[m+1].tree[p]>> \in G
      BY <1>3, <2>1
    <2>2. CASE m + 1 <= Len(remote)
      <3>1. m + 1 \in 1..Len(remote)
        BY <1>1, <2>2
      <3> QED
        BY <3>1, <1>1
    <2>3. CASE m + 1 > Len(remote)
      <3>1. m + 1 \in (Len(remote) + 1)..Len(log) /\ (m + 1) - 1 = m /\ m \in 1..m
        BY <1>1, <2>3
      <3>2. PICK j \in (n + 1)..Len(head[c]) :
              \/ log[m+1].tree[p] = log[(m+1)-1].tree[p]
              \/ log[m+1].tree[p] = head[c][j].tree[p]
        BY <3>1, <1>1 DEF Replayed
      <3>3. j \in DOMAIN head[c]
        BY <1>1
      <3>4. <<p, log[m].tree[p]>> \in G
        BY <1>3, <3>1
      <3> QED
        BY <3>1, <3>2, <3>3, <3>4
    <2> QED
      BY <2>2, <2>3, <1>1
  <1>4. Len(log) \in T
    <2> HIDE DEF T
    <2>1. \A m \in 0..(Len(log) - 1) : m \in T => m + 1 \in T
      BY <1>3
    <2>2. \A m \in 0..Len(log) : m \in T
      BY <1>1, <1>2, <2>1, CountUp
    <2> QED
      BY <1>1, <2>2
  <1> QED
    BY <1>1, <1>4

LEMMA RebasedAuthors ==
    ASSUME Typed, NEW c \in Checkouts, NEW n \in 1..Len(head[c]), NEW log,
           Replayed(c, n, Len(head[c]) - n, log), NEW r, By(log, r)
    PROVE  By(remote, r) \/ By(head[c], r)
  <1>1. /\ Len(remote) \in Nat \ {0} /\ Len(head[c]) \in Nat /\ log \in Seq(Commits) /\ Len(log) \in Nat
        /\ DOMAIN remote = 1..Len(remote) /\ DOMAIN head[c] = 1..Len(head[c]) /\ DOMAIN log = 1..Len(log)
        /\ n + (Len(head[c]) - n) = Len(head[c])
        /\ Len(remote) <= Len(log) /\ \A i \in 1..Len(remote) : log[i] = remote[i]
    BY DEF Typed, Replayed, Pre
  <1>2. PICK i \in 1..Len(log) : log[i].by = r
    BY <1>1 DEF By
  <1>3. CASE i <= Len(remote)
    BY <1>1, <1>2, <1>3 DEF By
  <1>4. CASE i > Len(remote)
    <2>1. i \in (Len(remote) + 1)..Len(log)
      BY <1>1, <1>4
    <2>2. PICK j \in (n + 1)..Len(head[c]) : log[i].by = head[c][j].by
      BY <2>1, <1>1 DEF Replayed
    <2>3. j \in DOMAIN head[c]
      BY <1>1
    <2> QED
      BY <1>2, <2>2, <2>3 DEF By
  <1> QED
    BY <1>1, <1>3, <1>4

-----------------------------------------------------------------------------
(* Types.                                                                    *)

Shape == Typed /\ Rooted /\ Alone /\ Placed

LEMMA TreeTyped ==
    ASSUME NEW s \in Seq(Commits), s # <<>>
    PROVE  Last(s) \in Commits /\ Last(s) = s[Len(s)] /\ Len(s) \in 1..Len(s) /\ Tree(s) \in Trees
  <1>1. Len(s) \in 1..Len(s) /\ s[Len(s)] \in Commits
    OBVIOUS
  <1>2. Last(s) = s[Len(s)]
    BY DEF Last
  <1>3. Last(s).tree \in Trees
    BY <1>1, <1>2 DEF Commits, Trees
  <1> QED
    BY <1>1, <1>2, <1>3 DEF Tree

LEMMA CutTyped ==
    ASSUME NEW s \in Seq(Commits), NEW n \in 1..Len(s)
    PROVE  SubSeq(s, 1, n) \in Seq(Commits) /\ SubSeq(s, 1, n) # <<>> /\ Last(SubSeq(s, 1, n)) = s[n]
           /\ Tree(SubSeq(s, 1, n)) \in Trees /\ Tree(SubSeq(s, 1, n)) = s[n].tree
  <1>1. SubSeq(s, 1, n) \in Seq(Commits) /\ Len(SubSeq(s, 1, n)) = n /\ SubSeq(s, 1, n)[n] = s[n]
    BY CutLog
  <1>2. SubSeq(s, 1, n) # <<>>
    BY <1>1
  <1> QED
    BY <1>1, <1>2, TreeTyped DEF Tree

LEMMA PendingTyped ==
    ASSUME NEW r \in Runs, NEW record \in Records, NEW pin \in Pins
    PROVE  Pending(r, record, pin) \in Records
  BY DEF Pending, Previous, Records

LEMMA ResultTyped ==
    ASSUME NEW r \in Runs, NEW record \in Records, NEW word \in {"ok", "failed"}
    PROVE  Result(r, record, word) \in Records
  BY DEF Result, Records

LEMMA CommitTyped ==
    ASSUME NEW r \in Runs \cup Checkouts, NEW kind \in {"fleet", "receipt", "hand"}, NEW tree \in Trees
    PROVE  Commit(r, kind, tree) \in Commits
  BY DEF Commit, Commits, Trees

LEMMA InitTyped == Init => Typed
  <1> SUFFICES ASSUME Init PROVE Typed
    OBVIOUS
  <1>1. FirstRecord \in Records
    BY DEF FirstRecord, Records
  <1>2. Root \in Commits
    BY <1>1 DEF Root, Commits
  <1>3. Root.tree \in Trees
    BY <1>1 DEF Root, Trees
  <1> QED
    BY <1>2, <1>3 DEF Init, Typed, Receipts, Places, Plays, Ends
LEMMA StartTyped == ASSUME Typed, NEW r \in Runs, Start(r) PROVE Typed'
  BY DEF Typed, Start, Goto, gitVars, boxVars, history, Places, JobSet

LEMMA ForwardTyped ==
    ASSUME Typed, NEW c \in Checkouts, Forward(c)
    PROVE  /\ head' \in [Checkouts -> Seq(Commits)] /\ \A d \in Checkouts : head'[d] # <<>>
           /\ work' \in [Checkouts -> Trees]
  <1>1. Tree(remote) \in Trees /\ work[c] \in Trees
    BY TreeTyped DEF Typed
  <1> DEFINE tree == [p \in Projects |-> IF Tree(remote)[p] # Tree(head[c])[p] THEN Tree(remote)[p] ELSE work[c][p]]
  <1>2. tree \in Trees
    BY <1>1 DEF Trees
  <1>3. head' = [head EXCEPT ![c] = remote] /\ work' = [work EXCEPT ![c] = tree]
    BY DEF Forward
  <1> HIDE DEF tree
  <1> QED
    BY <1>2, <1>3 DEF Typed
LEMMA PullTyped == ASSUME Typed, NEW r \in Runs, Pull(r) PROVE Typed'
  <1>1. /\ head' \in [Checkouts -> Seq(Commits)] /\ \A d \in Checkouts : head'[d] # <<>>
        /\ work' \in [Checkouts -> Trees]
    <2>1. At[r] \in Checkouts
      OBVIOUS
    <2>2. Forward(At[r]) \/ UNCHANGED <<head, work>>
      BY DEF Pull
    <2> QED
      BY <2>1, <2>2, ForwardTyped DEF Typed
  <1> QED
    BY <1>1 DEF Typed, Pull, Goto, Exit, runVars, boxVars, Places, Ends
LEMMA PlanTyped == ASSUME Typed, NEW r \in Runs, Plan(r) PROVE Typed'
  <1>1. UNCHANGED <<gitVars, runVars, play, boxVars, old>>
    BY DEF Plan
  <1>2. \/ pc' = [pc EXCEPT ![r] = "planned"] /\ outcome' = outcome
        \/ pc' = [pc EXCEPT ![r] = "off"] /\ outcome' = [outcome EXCEPT ![r] = "blocked"]
    BY DEF Plan, Goto, Exit
  <1>3. pc \in [Runs -> Places] /\ outcome \in [Runs -> Ends] /\ {"planned", "off"} \subseteq Places /\ "blocked" \in Ends
    BY DEF Typed, Places, Ends
  <1>4. pc' \in [Runs -> Places] /\ outcome' \in [Runs -> Ends]
    BY ONLY <1>2, <1>3
  <1> QED
    BY <1>1, <1>4 DEF Typed, gitVars, runVars, boxVars
\* A run that is to write its locks has a pin to write.
LEMMA WantedTyped ==
    ASSUME Typed, Placed, NEW r \in Runs, pc[r] = "planned", NEW p \in job[r].members
    PROVE  WantedPin(r, p) \in Pins
  <1>1. WantedPin(r, p) # NoPin /\ job[r] \in JobSet
    BY DEF Placed, PlacedAt
  <1>2. p \in Projects /\ job[r].pin \in Pins
    BY <1>1 DEF JobSet
  <1>3. At[r] \in Checkouts /\ work[At[r]][p] \in Records
    BY <1>2 DEF Typed, Trees
  <1>4. work[At[r]][p].prev \in Pins \cup {NoPin}
    BY <1>3 DEF Records
  <1> QED
    BY <1>1, <1>2, <1>4 DEF WantedPin
LEMMA WriteLocksTyped == ASSUME Typed, Placed, NEW r \in Runs, WriteLocks(r) PROVE Typed'
  <1> DEFINE c == At[r]
             tree == [p \in Projects |-> IF p \in job[r].members THEN Pending(r, work[c][p], WantedPin(r, p))
                                                                 ELSE work[c][p]]
  <1>1. c \in Checkouts /\ work[c] \in Trees /\ job[r] \in JobSet
    BY DEF Typed, WriteLocks, Placed, PlacedAt
  <1>2. \A p \in job[r].members : WantedPin(r, p) \in Pins
    BY WantedTyped DEF WriteLocks
  <1>3. tree \in Trees
    BY <1>1, <1>2, PendingTyped DEF Trees
  <1>4. work' = [work EXCEPT ![c] = tree]
    BY DEF WriteLocks
  <1>5. Len(head[c]) \in Nat
    BY <1>1 DEF Typed
  <1> HIDE DEF tree, c
  <1>6. work' \in [Checkouts -> Trees]
    BY <1>1, <1>3, <1>4 DEF Typed
  <1> QED
    BY <1>5, <1>6 DEF Typed, WriteLocks, Goto, boxVars, Places, c
LEMMA CommitLocksTyped == ASSUME Typed, NEW r \in Runs, CommitLocks(r) PROVE Typed'
  <1>1. At[r] \in Checkouts /\ work[At[r]] \in Trees /\ head[At[r]] \in Seq(Commits)
    BY DEF Typed
  <1>2. Commit(r, "fleet", work[At[r]]) \in Commits
    BY <1>1, CommitTyped
  <1> DEFINE fleet == Commit(r, "fleet", work[At[r]])
             log == Append(head[At[r]], fleet)
  <1>3. log \in Seq(Commits) /\ log # <<>>
    BY <1>1, <1>2, AddLog
  <1>4. head' = [head EXCEPT ![At[r]] = log] /\ claimed' = [claimed EXCEPT ![r] = fleet]
    BY DEF CommitLocks
  <1> HIDE DEF fleet, log
  <1>5. /\ head' \in [Checkouts -> Seq(Commits)] /\ \A d \in Checkouts : head'[d] # <<>>
        /\ claimed' \in [Runs -> Commits]
    BY <1>1, <1>2, <1>3, <1>4 DEF Typed, fleet
  <1> QED
    BY <1>5 DEF Typed, CommitLocks, Goto, boxVars, Places
LEMMA PushToTyped ==
    ASSUME Typed, NEW c \in Checkouts, NEW sent, PushTo(c, sent)
    PROVE  remote' \in Seq(Commits) /\ remote' # <<>>
  BY DEF Typed, PushTo
LEMMA PushClaimTyped == ASSUME Typed, NEW r \in Runs, PushClaim(r) PROVE Typed'
  <1>1. remote' \in Seq(Commits) /\ remote' # <<>>
    BY PushToTyped DEF PushClaim
  <1> QED
    BY <1>1 DEF Typed, PushClaim, Goto, runVars, boxVars, Places
LEMMA UndoTyped ==
    ASSUME Typed, NEW r \in Runs, NEW last, NEW how \in {"refused", "unreachable", "undone"},
           UndoFrom(r, last, how), base[r] \in 1..Len(head[At[r]])
    PROVE  /\ head' \in [Checkouts -> Seq(Commits)] /\ \A d \in Checkouts : head'[d] # <<>>
           /\ work' \in [Checkouts -> Trees]
           /\ pc' \in [Runs -> Places] /\ outcome' \in [Runs -> Ends]
  <1> DEFINE c == At[r]
             before == SubSeq(head[c], 1, base[r])
             tree == [p \in Projects |-> IF p \in job[r].members THEN Tree(before)[p] ELSE work[c][p]]
  <1>1. c \in Checkouts /\ work[c] \in Trees /\ head[c] \in Seq(Commits)
    BY DEF Typed
  <1>2. before \in Seq(Commits) /\ before # <<>> /\ Tree(before) \in Trees
    BY <1>1, CutTyped
  <1>3. tree \in Trees
    BY <1>1, <1>2 DEF Trees
  <1>4. \/ UNCHANGED <<head, work>>
        \/ head' = [head EXCEPT ![c] = before] /\ work' = [work EXCEPT ![c] = tree]
    BY DEF UndoFrom
  <1>5. Exit(r, "kept") \/ Exit(r, how)
    BY DEF UndoFrom
  <1>6. pc' \in [Runs -> Places] /\ outcome' \in [Runs -> Ends]
    BY <1>5 DEF Typed, Exit, Goto, Places, Ends
  <1> HIDE DEF tree, before, c
  <1>7. head \in [Checkouts -> Seq(Commits)] /\ (\A d \in Checkouts : head[d] # <<>>)
        /\ work \in [Checkouts -> Trees]
    BY DEF Typed
  <1>8. CASE UNCHANGED <<head, work>>
    BY <1>6, <1>7, <1>8
  <1>9. CASE head' = [head EXCEPT ![c] = before] /\ work' = [work EXCEPT ![c] = tree]
    BY <1>1, <1>2, <1>3, <1>6, <1>7, <1>9
  <1> QED
    BY <1>4, <1>8, <1>9
LEMMA CheckClaimTyped == ASSUME Typed, Placed, NEW r \in Runs, CheckClaim(r) PROVE Typed'
  <1>1. /\ head' \in [Checkouts -> Seq(Commits)] /\ \A d \in Checkouts : head'[d] # <<>>
        /\ work' \in [Checkouts -> Trees]
        /\ pc' \in [Runs -> Places] /\ outcome' \in [Runs -> Ends]
    <2>1. base[r] \in 1..Len(head[At[r]])
      BY DEF Placed, PlacedAt, CheckClaim
    <2>2. \/ Undo(r, "refused") \/ Undo(r, "unreachable")
          \/ Goto(r, "claimed") /\ UNCHANGED <<head, work, outcome>>
      BY DEF CheckClaim
    <2> QED
      BY <2>1, <2>2, UndoTyped DEF Undo, Typed, Goto, Places
  <1> QED
    BY <1>1 DEF Typed, CheckClaim, runVars, boxVars
LEMMA UnwindTyped == ASSUME Typed, Placed, NEW r \in Runs, Unwind(r) PROVE Typed'
  <1>1. /\ head' \in [Checkouts -> Seq(Commits)] /\ \A d \in Checkouts : head'[d] # <<>>
        /\ work' \in [Checkouts -> Trees]
        /\ pc' \in [Runs -> Places] /\ outcome' \in [Runs -> Ends]
    <2>1. CASE pc[r] = "written" /\ UndoWrites(r)
      BY <2>1, UndoTyped DEF Placed, PlacedAt, UndoWrites
    <2>2. CASE pc[r] \in {"committed", "pushed"} /\ Undo(r, "undone")
      BY <2>2, UndoTyped DEF Placed, PlacedAt, Undo
    <2>3. CASE (Exit(r, "undone") \/ Exit(r, "stopped")) /\ UNCHANGED <<head, work>>
      BY <2>3 DEF Typed, Exit, Goto, Places, Ends
    <2> QED
      BY <2>1, <2>2, <2>3 DEF Unwind
  <1> QED
    BY <1>1 DEF Typed, Unwind, runVars, boxVars
LEMMA StartPlayTyped == ASSUME Typed, NEW r \in Runs, StartPlay(r) PROVE Typed'
  <1>1. Last(head[At[r]]) \in Commits
    BY TreeTyped DEF Typed
  <1>2. play' \in [Runs -> [Boxes -> Plays]]
    <2>1. \A word \in {"wait", "failed"} :
            [b \in Boxes |-> IF b \in Scope(r) THEN word ELSE "no"] \in [Boxes -> Plays]
      BY DEF Plays
    <2>2. \E word \in {"wait", "failed"} :
            play' = [play EXCEPT ![r] = [b \in Boxes |-> IF b \in Scope(r) THEN word ELSE "no"]]
      BY DEF StartPlay
    <2>3. play \in [Runs -> [Boxes -> Plays]]
      BY DEF Typed
    <2> QED
      BY <2>1, <2>2, <2>3
  <1> QED
    BY <1>1, <1>2 DEF Typed, StartPlay, Goto, gitVars, boxVars, Places
LEMMA PlayStepTyped == ASSUME Typed, NEW r \in Runs, NEW b \in Boxes, PlayStep(r, b) PROVE Typed'
  <1>1. /\ UNCHANGED <<remote, head, work, pc, job, base, claimed, tries, ship, old, outcome>>
        /\ play' \in [Runs -> [Boxes -> Plays]]
        /\ boxLock' \in SUBSET Boxes
    <2>1. UNCHANGED <<remote, head, work, pc, job, base, claimed, tries, ship, old, outcome>>
      BY DEF PlayStep, Look, Take, Reconcile, ReconcileFails, Release, gitVars, runVars
    <2>2. \E place \in Plays : play' = [play EXCEPT ![r][b] = place]
      BY DEF PlayStep, Look, Take, Reconcile, ReconcileFails, Release, On, Plays
    <2>3. boxLock' \in {boxLock, boxLock \cup {b}, boxLock \ {b}}
      BY DEF PlayStep, Look, Take, Reconcile, ReconcileFails, Release, boxVars
    <2>4. play \in [Runs -> [Boxes -> Plays]] /\ boxLock \in SUBSET Boxes
      BY DEF Typed
    <2> QED
      BY <2>1, <2>2, <2>3, <2>4
  <1>2. /\ ship[r] \in Commits /\ running \in [Projects -> Pins]
        /\ \A p \in Projects : ship[r].tree[p].pin \in Pins
    BY DEF Typed, Commits, Records
  <1>3. Moved(r, b) \in [Projects -> Pins]
    BY <1>2 DEF Moved
  <1>4. running' \in [Projects -> Pins]
    BY <1>2, <1>3 DEF PlayStep, Look, Take, Reconcile, ReconcileFails, Release, gitVars, runVars, boxVars
  <1>5. receipt' \in [Boxes -> Receipts]
    <2>1. \A word \in {"ok", "failed"} : [commit |-> ship[r], result |-> word] \in Receipts
      BY <1>2 DEF Receipts
    <2>2. receipt' \in {receipt, [receipt EXCEPT ![b] = [commit |-> ship[r], result |-> "ok"]],
                        [receipt EXCEPT ![b] = [commit |-> ship[r], result |-> "failed"]]}
      BY DEF PlayStep, Look, Take, Reconcile, ReconcileFails, Release, gitVars, runVars, boxVars
    <2>3. receipt \in [Boxes -> Receipts]
      BY DEF Typed
    <2> QED
      BY <2>1, <2>2, <2>3
  <1> QED
    BY <1>1, <1>4, <1>5 DEF Typed
LEMMA LockExpiresTyped == ASSUME Typed, NEW b \in Boxes, LockExpires(b) PROVE Typed'
  BY DEF Typed, LockExpires, gitVars, runVars
LEMMA EndPlayTyped == ASSUME Typed, NEW r \in Runs, EndPlay(r) PROVE Typed'
  <1>1. CASE job[r].kind = "deploy"
    BY <1>1, ZenonT(60) DEF Typed, EndPlay, Exit, Goto, gitVars, runVars, boxVars, Places, Ends
  <1>2. CASE job[r].kind # "deploy"
    BY <1>2 DEF Typed, EndPlay, Goto, gitVars, runVars, boxVars, Places
  <1> QED
    BY <1>1, <1>2

\* The records written after the play.
LEMMA RecordedTyped ==
    ASSUME Typed, NEW r \in Runs, NEW p \in Projects, NEW read
    PROVE  Recorded(r, p, read) \in Records
  <1> DEFINE record == work[At[r]][p]
             word == BoxResult(r, BoxOf[p], read)
  <1>1. record \in Records
    BY DEF Typed, Trees
  <1>2. word \in {None, "ok", "failed"}
    BY DEF Typed, BoxResult, Receipts
  <1>3. \A w \in {"ok", "failed"} : Result(r, record, w) \in Records
    BY <1>1, ResultTyped
  <1>4. Recorded(r, p, read) \in {record, Result(r, record, "ok"), Result(r, record, "failed"),
                                   Result(r, record, word)}
    BY DEF Recorded
  <1>5. Recorded(r, p, read) = Result(r, record, word) => word # None \/ Recorded(r, p, read) = record
                                                          \/ p \in job[r].members
    BY DEF Recorded
  <1> HIDE DEF record
  <1>6. CASE word = None
    <2>1. Recorded(r, p, read) \in {record, Result(r, record, "ok"), Result(r, record, "failed")}
      BY <1>6 DEF Recorded, record
    <2> QED
      BY <2>1, <1>1, <1>3
  <1>7. CASE word # None
    <2> HIDE DEF word
    <2> QED
      BY <1>1, <1>2, <1>3, <1>4, <1>7
  <1> QED
    BY <1>6, <1>7

LEMMA ReportMeans ==
    ASSUME Typed, NEW r \in Runs, Report(r)
    PROVE  \E read \in SUBSET Scope(r), tree \in Trees :
             /\ \A p \in Projects : tree[p] = IF job[r].members = {} THEN work[At[r]][p] ELSE Recorded(r, p, read)
             /\ work' = [work EXCEPT ![At[r]] = tree]
             /\ \/ tree = Tree(head[At[r]]) /\ head' = head
                \/ /\ tree # Tree(head[At[r]])
                   /\ head' = [head EXCEPT ![At[r]] = Append(head[At[r]], Commit(r, "receipt", tree))]
  <1> DEFINE c == At[r]
             tree(read) == [p \in Projects |-> IF job[r].members = {} THEN work[c][p] ELSE Recorded(r, p, read)]
  <1>1. c \in Checkouts /\ work[c] \in Trees /\ head \in [Checkouts -> Seq(Commits)] /\ work \in [Checkouts -> Trees]
    BY DEF Typed
  <1>2. PICK read \in SUBSET Scope(r) :
          /\ work' = [work EXCEPT ![c] = tree(read)]
          /\ head' = [head EXCEPT ![c] = IF work'[c] = Tree(head[c]) THEN head[c]
                                         ELSE Append(head[c], Commit(r, "receipt", work'[c]))]
    BY DEF Report
  <1>3. tree(read) \in Trees
    BY <1>1, RecordedTyped DEF Trees
  <1>4. \A p \in Projects : tree(read)[p] = IF job[r].members = {} THEN work[c][p] ELSE Recorded(r, p, read)
    OBVIOUS
  <1> HIDE DEF tree, c
  <1>5. work'[c] = tree(read)
    BY <1>1, <1>2
  <1>6. \/ tree(read) = Tree(head[c]) /\ head' = head
        \/ /\ tree(read) # Tree(head[c])
           /\ head' = [head EXCEPT ![c] = Append(head[c], Commit(r, "receipt", tree(read)))]
    BY <1>1, <1>2, <1>5
  <1> QED
    BY <1>2, <1>3, <1>4, <1>6 DEF c
LEMMA ReportTyped == ASSUME Typed, NEW r \in Runs, Report(r) PROVE Typed'
  <1> DEFINE c == At[r]
  <1>1. PICK tree \in Trees :
             /\ work' = [work EXCEPT ![c] = tree]
             /\ \/ head' = head
                \/ head' = [head EXCEPT ![c] = Append(head[c], Commit(r, "receipt", tree))]
    BY ReportMeans
  <1>2. c \in Checkouts /\ head \in [Checkouts -> Seq(Commits)] /\ work \in [Checkouts -> Trees]
        /\ \A d \in Checkouts : head[d] # <<>>
    BY DEF Typed
  <1> DEFINE log == Append(head[c], Commit(r, "receipt", tree))
  <1>3. log \in Seq(Commits) /\ log # <<>>
    BY <1>2, CommitTyped, AddLog
  <1> HIDE DEF log, c
  <1>4. head' = head \/ head' = [head EXCEPT ![c] = log]
    BY <1>1 DEF log
  <1>5. /\ head' \in [Checkouts -> Seq(Commits)] /\ \A d \in Checkouts : head'[d] # <<>>
        /\ work' \in [Checkouts -> Trees]
    BY ONLY <1>1, <1>2, <1>3, <1>4
  <1>6. pc' \in [Runs -> Places]
    BY DEF Typed, Report, Goto, Places
  <1> QED
    BY <1>5, <1>6 DEF Typed, Report, runVars, boxVars

LEMMA PushReceiptTyped == ASSUME Typed, Rooted, NEW r \in Runs, PushReceipt(r) PROVE Typed'
  <1> DEFINE c == At[r]
             log == Replay(Local(c))
  <1>1. c \in Checkouts /\ head \in [Checkouts -> Seq(Commits)] /\ work \in [Checkouts -> Trees]
        /\ \A d \in Checkouts : head[d] # <<>>
    BY DEF Typed
  <1>4. tries' \in [Runs -> 0..Rebases] /\ pc' \in [Runs -> Places] /\ outcome' \in [Runs -> Ends]
    <2>1. tries' = tries \/ (tries[r] > 0 /\ tries' = [tries EXCEPT ![r] = tries[r] - 1])
      BY DEF PushReceipt
    <2>2. UNCHANGED <<pc, outcome>> \/ Exit(r, Word(r)) \/ Exit(r, "unpushed")
      BY DEF PushReceipt
    <2>3. tries \in [Runs -> 0..Rebases]
      BY DEF Typed
    <2>4. tries' \in [Runs -> 0..Rebases]
      BY <2>1, <2>3
    <2>5. Word(r) \in {"ok", "failed"}
      BY DEF Word
    <2>6. pc' \in [Runs -> Places] /\ outcome' \in [Runs -> Ends]
      BY <2>2, <2>5 DEF Typed, Exit, Goto, Places, Ends
    <2> QED
      BY <2>4, <2>6
  <1>2. CASE log # <<>> /\ head' = [head EXCEPT ![c] = log] /\ work' = [work EXCEPT ![c] = Tree(log)]
             /\ UNCHANGED remote
    <2>1. log \in Seq(Commits)
      BY <1>1, <1>2, Rebased DEF Replayed
    <2>2. Tree(log) \in Trees
      BY <2>1, <1>2, TreeTyped
    <2> HIDE DEF log, c
    <2>3. /\ head' \in [Checkouts -> Seq(Commits)] /\ \A d \in Checkouts : head'[d] # <<>>
          /\ work' \in [Checkouts -> Trees]
      BY <1>1, <1>2, <2>1, <2>2
    <2>4. UNCHANGED <<job, base, claimed, ship, play, boxVars, old>>
      BY DEF PushReceipt
    <2> QED
      BY <2>3, <2>4, <1>2, <1>4 DEF Typed, boxVars
  <1>3. CASE UNCHANGED <<head, work>>
    <2>1. remote' = remote \/ remote' = head[c]
      BY <1>3 DEF PushReceipt, PushTo, gitVars
    <2>2. remote' \in Seq(Commits) /\ remote' # <<>>
      BY <2>1, <1>1 DEF Typed
    <2>4. UNCHANGED <<job, base, claimed, ship, play, boxVars, old>>
      BY DEF PushReceipt
    <2> QED
      BY <1>3, <1>4, <2>2, <2>4 DEF Typed, boxVars
  <1> QED
    BY <1>2, <1>3 DEF PushReceipt, gitVars
LEMMA PrepareTyped == ASSUME Typed, NEW r \in Runs, Prepare(r) PROVE Typed'
  <1>1. At[r] \in Checkouts
    OBVIOUS
  <1>2. remote' \in Seq(Commits) /\ remote' # <<>>
    BY <1>1, PushToTyped DEF Prepare, Typed, gitVars
  <1>3. /\ head' \in [Checkouts -> Seq(Commits)] /\ \A d \in Checkouts : head'[d] # <<>>
        /\ work' \in [Checkouts -> Trees]
    <2>1. Forward(At[r]) \/ UNCHANGED <<head, work>>
      BY DEF Prepare, gitVars
    <2> QED
      BY <1>1, <2>1, ForwardTyped DEF Typed
  <1> QED
    BY <1>2, <1>3 DEF Typed, Prepare, Goto, Exit, runVars, boxVars, Places, Ends
LEMMA InterruptTyped == ASSUME Typed, NEW r \in Runs, Interrupt(r) PROVE Typed'
  BY DEF Typed, Interrupt, Exit, Goto, Stopped, gitVars, runVars, boxVars, Places, Plays, Ends
LEMMA DieTyped == ASSUME Typed, NEW r \in Runs, Die(r) PROVE Typed'
  <1>1. play' \in [Runs -> [Boxes -> Plays]]
    <2>1. play \in [Runs -> [Boxes -> Plays]] /\ [b \in Boxes |-> "no"] \in [Boxes -> Plays]
      BY DEF Typed, Plays
    <2> QED
      BY <2>1 DEF Die, Stopped
  <1>2. pc' \in [Runs -> Places] /\ outcome' \in [Runs -> Ends]
    BY DEF Typed, Die, Exit, Goto, Places, Ends
  <1> QED
    BY <1>1, <1>2 DEF Typed, Die, gitVars, runVars, boxVars
LEMMA ExpireTyped == ASSUME Typed, NEW r \in Runs, Expire(r) PROVE Typed'
  BY DEF Typed, Expire, gitVars, runVars, boxVars
LEMMA HandCommitTyped == ASSUME Typed, NEW c \in Checkouts, HandCommit(c) PROVE Typed'
  <1> DEFINE log == Append(head[c], Commit(c, "hand", Tree(head[c])))
  <1>1. head \in [Checkouts -> Seq(Commits)] /\ \A d \in Checkouts : head[d] # <<>>
    BY DEF Typed
  <1>2. log \in Seq(Commits) /\ log # <<>>
    BY <1>1, TreeTyped, CommitTyped, AddLog
  <1>3. head' = [head EXCEPT ![c] = log]
    BY DEF HandCommit
  <1> HIDE DEF log
  <1>4. head' \in [Checkouts -> Seq(Commits)] /\ \A d \in Checkouts : head'[d] # <<>>
    BY <1>1, <1>2, <1>3
  <1> QED
    BY <1>4 DEF Typed, HandCommit, runVars, boxVars
LEMMA RestoreTyped == ASSUME Typed, NEW c \in Checkouts, Restore(c) PROVE Typed'
  <1>1. Tree(head[c]) \in Trees
    BY TreeTyped DEF Typed
  <1> QED
    BY <1>1 DEF Typed, Restore, runVars, boxVars

LEMMA NextTyped == ASSUME Shape, Next PROVE Typed'
  <1> USE DEF Shape
  <1>1. ASSUME NEW r \in Runs, Start(r) \/ RunStep(r) \/ Unwind(r) \/ Interrupt(r) \/ Die(r) \/ Expire(r)
        PROVE Typed'
    BY <1>1, StartTyped, PullTyped, PlanTyped, WriteLocksTyped, CommitLocksTyped, PushClaimTyped,
       CheckClaimTyped, StartPlayTyped, EndPlayTyped, ReportTyped, PushReceiptTyped, PrepareTyped,
       UnwindTyped, InterruptTyped, DieTyped, ExpireTyped DEF RunStep
  <1>2. ASSUME NEW r \in Runs, NEW b \in Boxes, PlayStep(r, b) PROVE Typed'
    BY <1>2, PlayStepTyped
  <1>3. ASSUME NEW b \in Boxes, LockExpires(b) PROVE Typed'
    BY <1>3, LockExpiresTyped
  <1>4. ASSUME NEW c \in Checkouts, HandCommit(c) \/ Restore(c) PROVE Typed'
    BY <1>4, HandCommitTyped, RestoreTyped
  <1> QED
    BY <1>1, <1>2, <1>3, <1>4 DEF Next

-----------------------------------------------------------------------------
(* Whose state a step changes.                                               *)

Mine(r) == RunStep(r) \/ Unwind(r) \/ Interrupt(r) \/ Die(r)

\* A step of a run leaves the other runs and the other checkouts as they are.
Aside(r) ==
    /\ \A q \in Runs \ {r} : /\ pc'[q] = pc[q] /\ job'[q] = job[q] /\ outcome'[q] = outcome[q]
                             /\ base'[q] = base[q] /\ claimed'[q] = claimed[q] /\ ship'[q] = ship[q]
    /\ \A d \in Checkouts \ {At[r]} : head'[d] = head[d] /\ work'[d] = work[d]
LEMMA StartAside == ASSUME Typed, NEW r \in Runs, Start(r)
                    PROVE  Aside(r) /\ UNCHANGED gitVars /\ ~Live(r) /\ ~Busy(At[r])
  BY DEF Typed, Start, Goto, Aside, Live, gitVars
LEMMA UndoAside == ASSUME Typed, NEW r \in Runs, NEW last, NEW how, UndoFrom(r, last, how)
                   PROVE  /\ \A q \in Runs \ {r} : pc'[q] = pc[q] /\ outcome'[q] = outcome[q]
                          /\ \A d \in Checkouts \ {At[r]} : head'[d] = head[d] /\ work'[d] = work[d]
  BY DEF Typed, UndoFrom, Exit, Goto
LEMMA MineAside == ASSUME Typed, NEW r \in Runs, Mine(r) PROVE Aside(r) /\ Live(r)
  <1>1. CASE Pull(r)
    BY <1>1 DEF Typed, Pull, Forward, Goto, Exit, Aside, Live, runVars
  <1>2. CASE Plan(r)
    BY <1>2 DEF Typed, Plan, Goto, Exit, Aside, Live, runVars, gitVars
  <1>3. CASE WriteLocks(r)
    BY <1>3 DEF Typed, WriteLocks, Goto, Aside, Live
  <1>4. CASE CommitLocks(r)
    BY <1>4 DEF Typed, CommitLocks, Goto, Aside, Live
  <1>5. CASE PushClaim(r)
    BY <1>5 DEF Typed, PushClaim, Goto, Aside, Live, runVars
  <1>6. CASE CheckClaim(r)
    <2>1. /\ \A q \in Runs \ {r} : pc'[q] = pc[q] /\ outcome'[q] = outcome[q]
          /\ \A d \in Checkouts \ {At[r]} : head'[d] = head[d] /\ work'[d] = work[d]
      BY <1>6, UndoAside DEF CheckClaim, Undo, Typed, Goto
    <2> QED
      BY <1>6, <2>1 DEF CheckClaim, runVars, Aside, Live
  <1>7. CASE StartPlay(r)
    BY <1>7 DEF Typed, StartPlay, Goto, Aside, Live, gitVars
  <1>8. CASE EndPlay(r)
    BY <1>8 DEF Typed, EndPlay, Exit, Goto, Aside, Live, gitVars, runVars
  <1>9. CASE Report(r)
    BY <1>9 DEF Typed, Report, Goto, Aside, Live, runVars
  <1>10. CASE PushReceipt(r)
    BY <1>10 DEF Typed, PushReceipt, Goto, Exit, Aside, Live, gitVars
  <1>11. CASE Prepare(r)
    BY <1>11 DEF Typed, Prepare, Forward, Goto, Exit, Aside, Live, runVars, gitVars
  <1>12. CASE Unwind(r)
    <2>1. /\ \A q \in Runs \ {r} : pc'[q] = pc[q] /\ outcome'[q] = outcome[q]
          /\ \A d \in Checkouts \ {At[r]} : head'[d] = head[d] /\ work'[d] = work[d]
      BY <1>12, UndoAside DEF Unwind, Undo, UndoWrites, Typed, Exit, Goto
    <2> QED
      BY <1>12, <2>1 DEF Unwind, runVars, Aside, Live
  <1>13. CASE Interrupt(r)
    BY <1>13 DEF Typed, Interrupt, Exit, Goto, Aside, Live, gitVars, runVars
  <1>14. CASE Die(r)
    BY <1>14 DEF Typed, Die, Exit, Goto, Aside, Live, gitVars, runVars
  <1> QED
    BY <1>1, <1>2, <1>3, <1>4, <1>5, <1>6, <1>7, <1>8, <1>9, <1>10, <1>11, <1>12, <1>13, <1>14 DEF Mine, RunStep

\* A step of nobody's run changes no run and, but for the two of a checkout, no log.
Nobodys == \/ \E r \in Runs, b \in Boxes : PlayStep(r, b)
           \/ \E b \in Boxes : LockExpires(b)
           \/ \E r \in Runs : Expire(r)
Sessions(c) == HandCommit(c) \/ Restore(c)
LEMMA NobodysMeans == Nobodys => UNCHANGED <<gitVars, pc, runVars, outcome>>
  BY DEF Nobodys, PlayStep, Look, Take, Reconcile, ReconcileFails, Release, LockExpires, Expire
LEMMA SessionsMeans ==
    ASSUME Typed, NEW c \in Checkouts, Sessions(c)
    PROVE  /\ UNCHANGED <<remote, pc, runVars, outcome>>
           /\ \A d \in Checkouts \ {c} : head'[d] = head[d] /\ work'[d] = work[d]
  BY DEF Typed, Sessions, HandCommit, Restore
LEMMA NextMeans ==
    Next <=> \/ \E r \in Runs : Start(r) \/ Mine(r)
             \/ Nobodys
             \/ \E c \in Checkouts : Sessions(c)
  BY DEF Next, Mine, Nobodys, Sessions

LEMMA NextAlone == ASSUME Typed, Alone, Next PROVE Alone'
  <1>1. CASE \E r \in Runs : Start(r)
    <2>1. PICK r \in Runs : Start(r)
      BY <1>1
    <2>2. Aside(r) /\ ~Busy(At[r])
      BY <2>1, StartAside
    <2>3. \A q \in Runs \ {r} : Live(q)' => Live(q) /\ At[q] # At[r]
      <3> SUFFICES ASSUME NEW q \in Runs \ {r}, Live(q)' PROVE Live(q) /\ At[q] # At[r]
        OBVIOUS
      <3>1. Live(q)
        BY <2>2 DEF Aside, Live
      <3> QED
        BY <2>2, <3>1 DEF Busy
    <2> QED
      BY <2>3 DEF Alone
  <1>2. CASE \E r \in Runs : Mine(r)
    <2>1. PICK r \in Runs : Mine(r)
      BY <1>2
    <2>2. \A q \in Runs : Live(q)' => Live(q)
      BY <2>1, MineAside DEF Aside, Live
    <2> QED
      BY <2>2 DEF Alone
  <1>3. CASE UNCHANGED pc
    BY <1>3 DEF Alone, Live
  <1> QED
    BY <1>1, <1>2, <1>3, NextMeans, NobodysMeans, SessionsMeans

\* What a step of a run does to the logs: at most one push, forward, commit, cut or
\* rebase, of its own checkout.
Pushes(r) == /\ pc[r] \in {"committed", "push", "deploy"} /\ Accepts(At[r])
             /\ remote' = head[At[r]] /\ UNCHANGED head
Forwards(r) == /\ pc[r] \in {"start", "deploy"} /\ IsPrefix(head[At[r]], remote) /\ Forward(At[r])
               /\ UNCHANGED remote
Adds(r) == \E tree \in Trees :
    /\ head' = [head EXCEPT ![At[r]] = Append(head[At[r]], IF pc[r] = "written" THEN Commit(r, "fleet", tree)
                                                                               ELSE Commit(r, "receipt", tree))]
    /\ \/ CommitLocks(r) /\ tree = work[At[r]]
       \/ Report(r)
    /\ UNCHANGED remote
Cuts(r) ==
    /\ pc[r] \in {"written", "committed", "pushed"} /\ base[r] \in 1..Len(head[At[r]])
    /\ head' = [head EXCEPT ![At[r]] = SubSeq(head[At[r]], 1, base[r])]
    /\ UNCHANGED remote
Rebase(r) ==
    /\ pc[r] = "push" /\ ~Accepts(At[r]) /\ Clean(At[r])
    /\ Replay(Local(At[r])) # <<>>
    /\ head' = [head EXCEPT ![At[r]] = Replay(Local(At[r]))]
    /\ work' = [work EXCEPT ![At[r]] = Tree(Replay(Local(At[r])))]
    /\ UNCHANGED <<remote, pc, outcome>>
LogsStay == UNCHANGED <<remote, head>>

LEMMA UndoLogs ==
    ASSUME NEW r \in Runs, NEW last, NEW how, UndoFrom(r, last, how), UNCHANGED remote,
           pc[r] \in {"written", "committed", "pushed"}, base[r] \in 1..Len(head[At[r]])
    PROVE  LogsStay \/ Cuts(r)
  BY DEF UndoFrom, LogsStay, Cuts
LEMMA MineLogs ==
    ASSUME Typed, Placed, NEW r \in Runs, Mine(r)
    PROVE  LogsStay \/ Pushes(r) \/ Forwards(r) \/ Adds(r) \/ Cuts(r) \/ Rebase(r)
  <1>1. CASE Pull(r)
    BY <1>1 DEF Pull, Forwards, LogsStay, BehindOnly
  <1>2. CASE Plan(r) \/ WriteLocks(r) \/ StartPlay(r) \/ EndPlay(r) \/ Interrupt(r) \/ Die(r)
    BY <1>2 DEF Plan, WriteLocks, StartPlay, EndPlay, Interrupt, Die, gitVars, LogsStay
  <1>3. CASE CommitLocks(r)
    <2>1. work[At[r]] \in Trees
      BY DEF Typed
    <2> QED
      BY <1>3, <2>1 DEF CommitLocks, Adds
  <1>4. CASE PushClaim(r)
    BY <1>4 DEF PushClaim, PushTo, Pushes, LogsStay
  <1>5. CASE CheckClaim(r)
    <2>1. base[r] \in 1..Len(head[At[r]]) /\ pc[r] = "pushed"
      BY <1>5 DEF CheckClaim, Placed, PlacedAt
    <2> QED
      BY <1>5, <2>1, UndoLogs DEF CheckClaim, Undo, LogsStay
  <1>6. CASE Report(r)
    <2>1. PICK tree \in Trees :
             \/ head' = head
             \/ head' = [head EXCEPT ![At[r]] = Append(head[At[r]], Commit(r, "receipt", tree))]
      BY <1>6, ReportMeans
    <2>2. pc[r] = "played" /\ UNCHANGED remote
      BY <1>6 DEF Report
    <2> QED
      BY <1>6, <2>1, <2>2 DEF Adds, LogsStay
  <1>7. CASE PushReceipt(r)
    BY <1>7 DEF PushReceipt, PushTo, Pushes, Rebase, LogsStay, gitVars
  <1>8. CASE Prepare(r)
    BY <1>8 DEF Prepare, PushTo, Pushes, Forwards, LogsStay, gitVars
  <1>9. CASE Unwind(r)
    <2>1. UNCHANGED remote
      BY <1>9 DEF Unwind
    <2>2. CASE pc[r] = "written" /\ UndoWrites(r)
      <3>1. base[r] \in 1..Len(head[At[r]])
        BY <2>2 DEF Placed, PlacedAt
      <3> QED
        BY <2>1, <2>2, <3>1, UndoLogs DEF UndoWrites
    <2>3. CASE pc[r] \in {"committed", "pushed"} /\ Undo(r, "undone")
      <3>1. base[r] \in 1..Len(head[At[r]])
        BY <2>3 DEF Placed, PlacedAt
      <3> QED
        BY <2>1, <2>3, <3>1, UndoLogs DEF Undo
    <2>4. CASE UNCHANGED <<head, work>>
      BY <2>1, <2>4 DEF LogsStay
    <2> QED
      BY <1>9, <2>2, <2>3, <2>4 DEF Unwind
  <1> QED
    BY <1>1, <1>2, <1>3, <1>4, <1>5, <1>6, <1>7, <1>8, <1>9 DEF Mine, RunStep

LEMMA RebaseMeans ==
    ASSUME Typed, Rooted, NEW r \in Runs, Rebase(r)
    PROVE  \E n \in 1..Len(head[At[r]]) : \E log :
             /\ n <= Len(remote) /\ (\A k \in 1..n : remote[k] = head[At[r]][k])
             /\ \A k \in 1..Len(head[At[r]]) : Agree(remote, head[At[r]], k) => k <= n
             /\ Replayed(At[r], n, Len(head[At[r]]) - n, log) /\ log # <<>>
             /\ head' = [head EXCEPT ![At[r]] = log] /\ work' = [work EXCEPT ![At[r]] = Tree(log)]
  <1>1. At[r] \in Checkouts
    OBVIOUS
  <1> QED
    BY <1>1, Rebased DEF Rebase

LEMMA NextRooted == ASSUME Shape, Next PROVE Rooted'
  <1>0. /\ remote \in Seq(Commits) /\ head \in [Checkouts -> Seq(Commits)] /\ Rooted /\ Len(remote) \in Nat
        /\ \A c \in Checkouts : Len(head[c]) \in Nat
    BY DEF Shape, Typed
  <1>1. ASSUME NEW r \in Runs, Mine(r) PROVE Rooted'
    <2> DEFINE c == At[r]
    <2>0. c \in Checkouts
      OBVIOUS
    <2>1. CASE LogsStay
      BY <2>1, <1>0 DEF LogsStay, Rooted
    <2>2. CASE Pushes(r)
      BY <2>0, <2>2, <1>0 DEF Pushes, Rooted
    <2>3. CASE Forwards(r)
      BY <2>0, <2>3, <1>0 DEF Forwards, Forward, Rooted
    <2>4. CASE Adds(r)
      <3>1. PICK e \in Commits : head' = [head EXCEPT ![c] = Append(head[c], e)]
        <4>1. PICK tree \in Trees : head' = [head EXCEPT ![c] = Append(head[c],
                  IF pc[r] = "written" THEN Commit(r, "fleet", tree) ELSE Commit(r, "receipt", tree))]
          BY <2>4 DEF Adds
        <4> QED
          BY <4>1, CommitTyped
      <3>2. UNCHANGED remote
        BY <2>4 DEF Adds
      <3>3. Len(Append(head[c], e)) >= 1 /\ Append(head[c], e)[1] = Root
        BY <2>0, <1>0, AddLog DEF Rooted
      <3> HIDE DEF c
      <3> QED
        BY <2>0, <3>1, <3>2, <3>3, <1>0 DEF Rooted
    <2>5. CASE Cuts(r)
      <3> DEFINE cut == SubSeq(head[c], 1, base[r])
      <3>1. Len(cut) >= 1 /\ cut[1] = Root
        BY <2>0, <2>5, <1>0, CutLog DEF Rooted, Cuts
      <3>2. head' = [head EXCEPT ![c] = cut] /\ UNCHANGED remote
        BY <2>5 DEF Cuts
      <3> HIDE DEF cut, c
      <3> QED
        BY <2>0, <3>1, <3>2, <1>0 DEF Rooted
    <2>6. CASE Rebase(r)
      <3>n. PICK n \in 1..Len(head[c]) : \E log :
              Replayed(c, n, Len(head[c]) - n, log) /\ head' = [head EXCEPT ![c] = log]
        BY <2>6, RebaseMeans DEF Shape
      <3>1. PICK log :
              Replayed(c, n, Len(head[c]) - n, log) /\ head' = [head EXCEPT ![c] = log]
        BY <3>n
      <3>2. Len(log) >= 1 /\ log[1] = Root
        BY <3>1, <1>0 DEF Replayed, Pre, Rooted
      <3>3. UNCHANGED remote
        BY <2>6 DEF Rebase
      <3> HIDE DEF c
      <3> QED
        BY <2>0, <3>1, <3>2, <3>3, <1>0 DEF Rooted
    <2> QED
      BY <1>1, <2>1, <2>2, <2>3, <2>4, <2>5, <2>6, MineLogs DEF Shape
  <1>2. ASSUME NEW c \in Checkouts, HandCommit(c) PROVE Rooted'
    <2> DEFINE e == Commit(c, "hand", Tree(head[c]))
    <2>1. e \in Commits
      BY <1>0, TreeTyped, CommitTyped DEF Shape, Typed
    <2>2. Len(Append(head[c], e)) >= 1 /\ Append(head[c], e)[1] = Root
      BY <1>0, <2>1, AddLog DEF Rooted
    <2>3. head' = [head EXCEPT ![c] = Append(head[c], e)] /\ UNCHANGED remote
      BY <1>2 DEF HandCommit
    <2> HIDE DEF e
    <2> QED
      BY <2>2, <2>3, <1>0 DEF Rooted
  <1>3. CASE LogsStay
    BY <1>0, <1>3 DEF LogsStay, Rooted
  <1>4. ASSUME NEW r \in Runs, Start(r) PROVE LogsStay
    BY <1>4 DEF Start, gitVars, LogsStay
  <1>5. ASSUME NEW c \in Checkouts, Restore(c) PROVE LogsStay
    BY <1>5 DEF Restore, LogsStay
  <1>6. ASSUME Nobodys PROVE LogsStay
    BY <1>6, NobodysMeans DEF LogsStay, gitVars
  <1> QED
    BY <1>1, <1>2, <1>3, <1>4, <1>5, <1>6, NextMeans DEF Sessions

\* Whoever else is at work has its checkout to itself.
LEMMA OthersKeep ==
    ASSUME Typed, Alone, NEW r \in Runs, Mine(r) \/ Start(r), NEW q \in Runs \ {r}
    PROVE  /\ pc'[q] = pc[q] /\ job'[q] = job[q] /\ outcome'[q] = outcome[q]
           /\ base'[q] = base[q] /\ claimed'[q] = claimed[q] /\ ship'[q] = ship[q]
           /\ Live(q) => head'[At[q]] = head[At[q]] /\ work'[At[q]] = work[At[q]]
  <1>1. CASE Mine(r)
    <2>1. Aside(r) /\ Live(r)
      BY <1>1, MineAside
    <2>2. Live(q) => At[q] \in Checkouts \ {At[r]}
      BY <2>1 DEF Alone
    <2> QED
      BY <2>1, <2>2 DEF Aside
  <1>2. CASE Start(r)
    BY <1>2, StartAside DEF Aside, gitVars
  <1> QED
    BY <1>1, <1>2

LEMMA PlacedStays ==
    ASSUME NEW q \in Runs, PlacedAt(q), pc'[q] = pc[q], job'[q] = job[q], outcome'[q] = outcome[q],
           base'[q] = base[q],
           Live(q) => work'[At[q]] = work[At[q]] /\ Len(head'[At[q]]) >= Len(head[At[q]]),
           Len(head[At[q]]) \in Nat, Len(head'[At[q]]) \in Nat
    PROVE  PlacedAt(q)'
  BY DEF PlacedAt, Live, WantedPin

LEMMA MinePlaced == ASSUME Shape, NEW r \in Runs, Mine(r), Typed' PROVE PlacedAt(r)'
  <1>0. /\ PlacedAt(r) /\ At[r] \in Checkouts /\ outcome[r] = None
        /\ Len(head[At[r]]) \in 1..Len(head[At[r]]) /\ Len(head'[At[r]]) \in Nat
        /\ pc \in [Runs -> Places] /\ outcome \in [Runs -> Ends] /\ base \in [Runs -> Nat]
    <2>1. Live(r)
      BY MineAside DEF Shape
    <2> QED
      BY <2>1 DEF Shape, Typed, Placed, PlacedAt, Rooted, Live
  <1>1. CASE pc'[r] = "off"
    BY <1>1 DEF PlacedAt
  <1>2. CASE Pull(r) \/ Plan(r) \/ StartPlay(r) \/ EndPlay(r) \/ Report(r) \/ Prepare(r)
    <2>1. \/ pc'[r] = "off"
          \/ /\ pc'[r] \in {"pulled", "planned", "claimed", "playing", "played", "push"}
             /\ UNCHANGED <<job, outcome>>
             /\ pc[r] \notin {"idle", "off"}
      BY <1>0, <1>2 DEF Pull, Plan, StartPlay, EndPlay, Report, Prepare, Goto, Exit, runVars
    <2>2. pc'[r] = "planned" => /\ \A p \in job[r].members : WantedPin(r, p) # NoPin
                                /\ UNCHANGED work
      BY <1>0, <1>2 DEF Pull, Plan, StartPlay, EndPlay, Report, Prepare, Goto, Exit, Blocked, gitVars
    <2> QED
      BY <1>0, <1>1, <2>1, <2>2 DEF PlacedAt, WantedPin
  <1>3. CASE WriteLocks(r)
    BY <1>0, <1>3 DEF WriteLocks, PlacedAt, Goto
  <1>4. CASE CommitLocks(r)
    <2>1. Len(head'[At[r]]) = Len(head[At[r]]) + 1 /\ base' = base
      BY <1>0, <1>4, CommitTyped, AddLog DEF CommitLocks, Shape, Typed
    <2> QED
      BY <1>0, <1>4, <2>1 DEF CommitLocks, PlacedAt, Goto
  <1>5. CASE PushClaim(r)
    BY <1>0, <1>5 DEF PushClaim, PlacedAt, Goto, runVars
  <1>6. CASE CheckClaim(r)
    BY <1>0, <1>1, <1>6 DEF CheckClaim, PlacedAt, Goto, Undo, UndoFrom, Exit, runVars
  <1>7. CASE PushReceipt(r)
    BY <1>0, <1>1, <1>7 DEF PushReceipt, PlacedAt, Goto, Exit
  <1>8. CASE Unwind(r)
    BY <1>0, <1>1, <1>8 DEF Unwind, Undo, UndoWrites, UndoFrom, Exit, Goto
  <1>9. CASE Interrupt(r) \/ Die(r)
    BY <1>0, <1>1, <1>9 DEF Interrupt, Die, Exit, Goto
  <1> QED
    BY <1>2, <1>3, <1>4, <1>5, <1>6, <1>7, <1>8, <1>9 DEF Mine, RunStep

LEMMA NextPlaced == ASSUME Shape, Next, Typed' PROVE Placed'
  <1>0. \A q \in Runs : /\ PlacedAt(q) /\ At[q] \in Checkouts
                        /\ Len(head[At[q]]) \in Nat /\ Len(head'[At[q]]) \in Nat
    BY DEF Shape, Typed, Placed
  <1> SUFFICES ASSUME NEW q \in Runs PROVE PlacedAt(q)'
    BY DEF Placed
  <1>1. ASSUME NEW r \in Runs, r # q, Mine(r) \/ Start(r) PROVE PlacedAt(q)'
    BY <1>0, <1>1, OthersKeep, PlacedStays DEF Shape
  <1>2. CASE Mine(q)
    BY <1>2, MinePlaced
  <1>3. CASE Start(q)
    <2>1. PICK j \in Jobs[q] : /\ job' = [job EXCEPT ![q] = j]
                               /\ Goto(q, IF j.kind \in {"deploy", "push"} THEN j.kind ELSE "start")
      BY <1>3 DEF Start
    <2>2. outcome'[q] = None
      BY <1>0, <1>3 DEF Start, PlacedAt
    <2>3. j \in JobSet
      OBVIOUS
    <2> QED
      BY <2>1, <2>2, <2>3 DEF PlacedAt, Goto, Shape, Typed
  <1>4. CASE Nobodys
    BY <1>0, <1>4, NobodysMeans, PlacedStays DEF gitVars, runVars
  <1>5. ASSUME NEW c \in Checkouts, Sessions(c) PROVE PlacedAt(q)'
    <2>1. UNCHANGED <<pc, runVars, outcome>>
      BY <1>5, SessionsMeans DEF Shape
    <2>2. Live(q) => work'[At[q]] = work[At[q]] /\ Len(head'[At[q]]) >= Len(head[At[q]])
      <3>1. CASE c # At[q]
        BY <1>0, <1>5, <3>1, SessionsMeans DEF Shape
      <3>2. CASE c = At[q] /\ HandCommit(c)
        <4> DEFINE e == Commit(c, "hand", Tree(head[c]))
        <4>1. e \in Commits /\ head[c] \in Seq(Commits)
          BY TreeTyped, CommitTyped DEF Shape, Typed
        <4>2. head' = [head EXCEPT ![c] = Append(head[c], e)] /\ UNCHANGED work
          BY <3>2 DEF HandCommit
        <4> HIDE DEF e
        <4> QED
          BY <1>0, <3>2, <4>1, <4>2 DEF Shape, Typed
      <3>3. CASE c = At[q] /\ Restore(c)
        BY <3>3 DEF Restore, Busy
      <3> QED
        BY <1>5, <3>1, <3>2, <3>3 DEF Sessions
    <2> QED
      BY <1>0, <2>1, <2>2, PlacedStays DEF runVars
  <1> QED
    BY <1>1, <1>2, <1>3, <1>4, <1>5, NextMeans

LEMMA ShapeHolds == Spec => []Shape
  <1>1. Init => Shape
    <2> SUFFICES ASSUME Init PROVE Shape
      OBVIOUS
    <2>1. Rooted /\ Alone /\ Placed
      BY DEF Init, Rooted, Alone, Placed, PlacedAt, Live, Places
    <2> QED
      BY <2>1, InitTyped DEF Shape
  <1>2. Shape /\ [Next]_vars => Shape'
    <2> SUFFICES ASSUME Shape, [Next]_vars PROVE Shape'
      OBVIOUS
    <2>1. CASE Next
      BY <2>1, NextTyped, NextRooted, NextAlone, NextPlaced DEF Shape
    <2>2. CASE UNCHANGED vars
      BY <2>2 DEF vars, gitVars, runVars, boxVars, history, Shape, Typed, Rooted, Alone, Placed, PlacedAt,
                  Live, WantedPin
    <2> QED
      BY <2>1, <2>2
  <1> QED
    BY <1>1, <1>2, PTL DEF Spec

\* Every state has its types: no step writes a record, a commit or a place the code
\* does not know, and the logs stay logs.
THEOREM TypeCorrect == Spec => []TypeOK
  <1>1. Shape => TypeOK
    BY DEF Shape, Typed, TypeOK, Trees, Places, Plays, Ends, Receipts
  <1> QED
    BY <1>1, ShapeHolds, PTL

-----------------------------------------------------------------------------
(* What is refused or undone is gone.                                        *)

LEMMA PreKeeps ==
    ASSUME NEW s \in Seq(Commits), NEW t \in Seq(Commits), Pre(s, t)
    PROVE  /\ \A i \in DOMAIN s : i \in DOMAIN t /\ t[i] = s[i]
           /\ \A r : By(s, r) => By(t, r)
           /\ \A a : Holds(s, a) => Holds(t, a)
  <1>1. \A i \in DOMAIN s : i \in DOMAIN t /\ t[i] = s[i]
    BY DEF Pre
  <1> QED
    BY <1>1 DEF By, Holds

LEMMA PreSame == ASSUME NEW s \in Seq(Commits) PROVE Pre(s, s)
  BY DEF Pre

\* The remote only grows.
LEMMA RemoteGrows == ASSUME Shape, Next PROVE Pre(remote, remote')
  <1>0. remote \in Seq(Commits) /\ head \in [Checkouts -> Seq(Commits)]
    BY DEF Shape, Typed
  <1>1. CASE UNCHANGED remote
    BY <1>0, <1>1, PreSame
  <1>2. ASSUME NEW r \in Runs, Pushes(r) PROVE Pre(remote, remote')
    BY <1>0, <1>2, PrefixMeans DEF Pushes, Accepts
  <1>3. ASSUME NEW r \in Runs, Mine(r) PROVE UNCHANGED remote \/ Pushes(r)
    BY <1>3, MineLogs DEF Shape, LogsStay, Forwards, Adds, Cuts, Rebase
  <1>4. ASSUME NEW r \in Runs, Start(r) PROVE UNCHANGED remote
    BY <1>4 DEF Start, gitVars
  <1> QED
    BY <1>1, <1>2, <1>3, <1>4, NextMeans, NobodysMeans, SessionsMeans DEF Shape, gitVars

\* A step of a run brings no new author but the run itself to a log.
LEMMA Authors ==
    ASSUME Shape, NEW q \in Runs, Mine(q), NEW r \in Runs, r # q \/ ~Adds(q)
    PROVE  /\ By(remote', r) => By(remote, r) \/ By(head[At[q]], r)
           /\ \A c \in Checkouts : By(head'[c], r) => By(head[c], r) \/ (c = At[q] /\ By(remote, r))
  <1> DEFINE c == At[q]
  <1>0. /\ remote \in Seq(Commits) /\ head \in [Checkouts -> Seq(Commits)] /\ c \in Checkouts
        /\ \A d \in Checkouts \ {c} : head'[d] = head[d]
    BY MineAside DEF Shape, Typed, Aside
  <1>1. CASE LogsStay
    BY <1>1 DEF LogsStay
  <1>2. CASE Pushes(q)
    BY <1>2 DEF Pushes
  <1>3. CASE Forwards(q)
    BY <1>0, <1>3 DEF Forwards, Forward
  <1>4. CASE Adds(q) /\ r # q
    <2>1. PICK e \in Commits : head' = [head EXCEPT ![c] = Append(head[c], e)] /\ e.by = q
      <3>1. PICK tree \in Trees : head' = [head EXCEPT ![c] = Append(head[c],
                  IF pc[q] = "written" THEN Commit(q, "fleet", tree) ELSE Commit(q, "receipt", tree))]
        BY <1>4 DEF Adds
      <3>2. \A kind \in {"fleet", "receipt"} : Commit(q, kind, tree) \in Commits /\ Commit(q, kind, tree).by = q
        BY CommitTyped DEF Commit
      <3> QED
        BY <3>1, <3>2
    <2>2. UNCHANGED remote
      BY <1>4 DEF Adds
    <2>3. By(Append(head[c], e), r) => By(head[c], r)
      <3> SUFFICES ASSUME NEW i \in DOMAIN Append(head[c], e), Append(head[c], e)[i].by = r
                   PROVE  By(head[c], r)
        BY DEF By
      <3>1. i \in 1..Len(head[c]) /\ Append(head[c], e)[i] = head[c][i]
        BY <1>0, <1>4, <2>1
      <3> QED
        BY <1>0, <3>1 DEF By
    <2> HIDE DEF c
    <2> QED
      BY <1>0, <2>1, <2>2, <2>3 DEF c
  <1>5. CASE Cuts(q)
    <2>1. By(SubSeq(head[c], 1, base[q]), r) => By(head[c], r)
      <3>1. base[q] \in 1..Len(head[c])
        BY <1>5 DEF Cuts
      <3> QED
        BY <1>0, <3>1 DEF By
    <2> QED
      BY <1>0, <1>5, <2>1 DEF Cuts
  <1>6. CASE Rebase(q)
    <2>n. PICK n \in 1..Len(head[c]) : \E log :
            Replayed(c, n, Len(head[c]) - n, log) /\ head' = [head EXCEPT ![c] = log]
      BY <1>6, RebaseMeans DEF Shape
    <2>1. PICK log :
            Replayed(c, n, Len(head[c]) - n, log) /\ head' = [head EXCEPT ![c] = log]
      BY <2>n
    <2>2. By(log, r) => By(remote, r) \/ By(head[c], r)
      BY <1>0, <2>1, RebasedAuthors DEF Shape
    <2>3. UNCHANGED remote
      BY <1>6 DEF Rebase
    <2> HIDE DEF c
    <2> QED
      BY <1>0, <2>1, <2>2, <2>3 DEF c
  <1> QED
    BY <1>1, <1>2, <1>3, <1>4, <1>5, <1>6, MineLogs DEF Shape

LEMMA CutGone ==
    ASSUME Shape, Gone, NEW r \in Runs, NEW last, NEW how, how \in {"refused", "undone", "unreachable"},
           UndoFrom(r, last, how), UNCHANGED remote, outcome[r] = None,
           pc[r] \in {"written", "committed", "pushed"}, ~By(remote, r), Typed'
    PROVE  GoneAt(r)'
  <1> DEFINE c == At[r]
  <1>0. /\ head \in [Checkouts -> Seq(Commits)] /\ c \in Checkouts /\ base[r] \in 1..Len(head[c])
        /\ GoneAt(r) /\ pc \in [Runs -> Places] /\ outcome \in [Runs -> Ends]
    BY DEF Shape, Typed, Placed, PlacedAt, Gone
  <1>1. \A d \in Checkouts \ {c} : ~By(head[d], r)
    BY <1>0 DEF GoneAt
  <1>2. \A i \in DOMAIN head[c] : head[c][i].by = r => i > base[r]
    BY <1>0 DEF GoneAt, By
  <1>3. CASE last # Last(head[c])
    <2>1. pc'[r] = "off" /\ outcome'[r] = "kept"
      BY <1>0, <1>3 DEF UndoFrom, Exit, Goto
    <2> QED
      BY <2>1 DEF GoneAt
  <1>4. CASE last = Last(head[c])
    <2> DEFINE cut == SubSeq(head[c], 1, base[r])
    <2>1. ~By(cut, r)
      <3> SUFFICES ASSUME NEW i \in DOMAIN cut, cut[i].by = r PROVE FALSE
        BY DEF By
      <3>1. i \in 1..base[r] /\ i \in DOMAIN head[c] /\ cut[i] = head[c][i]
        BY <1>0
      <3> QED
        BY <1>0, <1>2, <3>1
    <2>2. head' = [head EXCEPT ![c] = cut] /\ pc'[r] = "off" /\ outcome'[r] = how
      BY <1>0, <1>4 DEF UndoFrom, Exit, Goto
    <2> HIDE DEF cut, c
    <2>3. \A d \in Checkouts : ~By(head'[d], r)
      BY <1>0, <1>1, <2>1, <2>2
    <2> QED
      BY <2>2, <2>3 DEF GoneAt
  <1> QED
    BY <1>3, <1>4

LEMMA MineGone == ASSUME Shape, Gone, NEW r \in Runs, Mine(r), Typed' PROVE GoneAt(r)'
  <1> DEFINE c == At[r]
  <1>0. /\ remote \in Seq(Commits) /\ head \in [Checkouts -> Seq(Commits)] /\ c \in Checkouts
        /\ GoneAt(r) /\ PlacedAt(r) /\ outcome[r] = None
        /\ pc \in [Runs -> Places] /\ outcome \in [Runs -> Ends]
    <2>1. Live(r)
      BY MineAside DEF Shape
    <2> QED
      BY <2>1 DEF Shape, Typed, Placed, PlacedAt, Gone, Live
  <1>1. CASE Pull(r) \/ Plan(r) \/ WriteLocks(r) \/ Prepare(r)
    <2>1. ~Adds(r)
      BY <1>0, <1>1 DEF Adds, CommitLocks, Report, Pull, Plan, WriteLocks, Prepare
    <2>2. ~By(remote, r) /\ \A d \in Checkouts : ~By(head[d], r)
      BY <1>0, <1>1 DEF Pull, Plan, WriteLocks, Prepare, GoneAt
    <2>3. ~By(remote', r) /\ \A d \in Checkouts : ~By(head'[d], r)
      BY <1>0, <2>1, <2>2, Authors
    <2>4. pc'[r] \notin {"committed", "pushed"}
      BY <1>0, <1>1 DEF Pull, Plan, WriteLocks, Prepare, Goto, Exit
    <2> QED
      BY <2>3, <2>4 DEF GoneAt
  <1>2. CASE CommitLocks(r)
    <2> DEFINE fleet == Commit(r, "fleet", work[c])
               log == Append(head[c], fleet)
    <2>1. fleet \in Commits /\ base[r] \in 1..Len(head[c])
      BY <1>0, <1>2, CommitTyped DEF Shape, Typed, CommitLocks, PlacedAt
    <2>2. ~By(remote, r) /\ \A d \in Checkouts : ~By(head[d], r)
      BY <1>0, <1>2 DEF CommitLocks, GoneAt
    <2>3. log[Len(head[c]) + 1] = fleet /\ Len(head[c]) + 1 \in DOMAIN log
      BY <1>0, <2>1
    <2>4. \A i \in DOMAIN log : log[i].by = r => i > base[r]
      <3> SUFFICES ASSUME NEW i \in DOMAIN log, ~(i > base[r]) PROVE log[i].by # r
        OBVIOUS
      <3>1. i \in DOMAIN head[c] /\ log[i] = head[c][i]
        BY <1>0, <2>1
      <3> QED
        BY <1>0, <2>2, <3>1 DEF By
    <2>5. /\ head' = [head EXCEPT ![c] = log] /\ claimed'[r] = fleet /\ base' = base /\ remote' = remote
          /\ pc'[r] = "committed" /\ outcome' = outcome
      BY <1>0, <1>2 DEF CommitLocks, Goto, Shape, Typed
    <2>6. Holds(log, fleet)
      BY <2>3 DEF Holds
    <2> HIDE DEF log, fleet
    <2>7. head'[c] = log /\ \A d \in Checkouts \ {c} : head'[d] = head[d]
      BY <1>0, <2>5
    <2> QED
      BY <1>0, <2>2, <2>4, <2>5, <2>6, <2>7 DEF GoneAt, None
  <1>3. CASE PushClaim(r)
    <2>1. /\ pc'[r] = "pushed" /\ UNCHANGED <<head, base, claimed, outcome>>
          /\ remote' = remote \/ remote' = head[c]
      BY <1>0, <1>3 DEF PushClaim, Goto, PushTo, runVars
    <2>2. /\ \A d \in Checkouts \ {c} : By(head[d], r) => By(remote, r)
          /\ Holds(head[c], claimed[r]) /\ ~By(remote, r)
          /\ \A i \in DOMAIN head[c] : head[c][i].by = r => i > base[r]
      BY <1>0, <1>3 DEF PushClaim, GoneAt
    <2> QED
      BY <1>0, <2>1, <2>2 DEF GoneAt
  <1>4. CASE CheckClaim(r)
    <2>1. pc[r] = "pushed" /\ UNCHANGED remote
      BY <1>4 DEF CheckClaim
    <2>2. CASE Holds(remote, claimed[r]) /\ Goto(r, "claimed") /\ UNCHANGED outcome
      BY <1>0, <2>2 DEF Goto, GoneAt, None
    <2>3. CASE ~Holds(remote, claimed[r]) /\ Undo(r, "refused")
      <3>1. ~By(remote, r)
        BY <1>0, <2>1, <2>3 DEF GoneAt
      <3> QED
        BY <1>0, <2>1, <2>3, <3>1, CutGone DEF Undo
    <2>4. CASE Undo(r, "unreachable")
      <3>1. pc'[r] = "off" /\ outcome'[r] \in {"kept", "unreachable"}
        BY <1>0, <2>4 DEF Undo, UndoFrom, Exit, Goto
      <3> QED
        BY <3>1 DEF GoneAt
    <2> QED
      BY <1>4, <2>2, <2>3, <2>4 DEF CheckClaim
  <1>5. CASE Unwind(r)
    <2>0. UNCHANGED remote
      BY <1>5 DEF Unwind
    <2>1. CASE pc[r] \in {"pulled", "planned"} /\ Exit(r, "undone") /\ UNCHANGED <<head, work>>
      BY <1>0, <2>0, <2>1 DEF Exit, Goto, GoneAt
    <2>2. CASE pc[r] = "written" /\ UndoWrites(r)
      <3>1. ~By(remote, r)
        BY <1>0, <2>2 DEF GoneAt
      <3> QED
        BY <1>0, <2>0, <2>2, <3>1, CutGone DEF UndoWrites
    <2>3. CASE (pc[r] = "committed" \/ (pc[r] = "pushed" /\ ~Holds(remote, claimed[r]))) /\ Undo(r, "undone")
      <3>1. ~By(remote, r)
        BY <1>0, <2>3 DEF GoneAt
      <3> QED
        BY <1>0, <2>0, <2>3, <3>1, CutGone DEF Undo
    <2>4. CASE Exit(r, "stopped")
      BY <1>0, <2>4 DEF Exit, Goto, GoneAt
    <2> QED
      BY <1>5, <2>1, <2>2, <2>3, <2>4 DEF Unwind
  <1>6. CASE StartPlay(r) \/ EndPlay(r) \/ Report(r) \/ PushReceipt(r) \/ Interrupt(r) \/ Die(r)
    <2>1. /\ pc'[r] \in {"playing", "played", "push", "off"}
          /\ outcome'[r] \in {None, "ok", "failed", "stopped", "killed", "unpushed"}
      BY <1>0, <1>6 DEF StartPlay, EndPlay, Report, PushReceipt, Interrupt, Die, Exit, Goto, Word
    <2> QED
      BY <2>1 DEF GoneAt, None
  <1> QED
    BY <1>1, <1>2, <1>3, <1>4, <1>5, <1>6 DEF Mine, RunStep

LEMMA OthersGone ==
    ASSUME Shape, Gone, Next, NEW q \in Runs, Mine(q), NEW r \in Runs \ {q}
    PROVE  GoneAt(r)'
  <1>0. /\ remote \in Seq(Commits) /\ remote' \in Seq(Commits) /\ GoneAt(r)
        /\ At[q] \in Checkouts /\ At[r] \in Checkouts
        /\ Pre(remote, remote')
    BY NextTyped, RemoteGrows DEF Shape, Typed, Gone
  <1>1. /\ By(remote', r) => By(remote, r) \/ By(head[At[q]], r)
        /\ \A c \in Checkouts : By(head'[c], r) => By(head[c], r) \/ (c = At[q] /\ By(remote, r))
    BY Authors
  <1>2. /\ pc'[r] = pc[r] /\ outcome'[r] = outcome[r] /\ base'[r] = base[r] /\ claimed'[r] = claimed[r]
        /\ Live(r) => head'[At[r]] = head[At[r]]
    BY OthersKeep DEF Shape
  <1>3. Live(r) => At[q] # At[r]
    BY MineAside DEF Shape, Alone
  <1>4. (By(remote, r) => By(remote', r)) /\ (Holds(remote, claimed[r]) => Holds(remote', claimed[r]))
    BY <1>0, PreKeeps
  <1>5. CASE pc[r] \in {"committed", "pushed"}
    <2>1. Live(r)
      BY <1>5 DEF Live
    <2>2. By(remote', r) => By(remote, r)
      BY <1>0, <1>1, <1>3, <1>5, <2>1 DEF GoneAt
    <2>3. \A c \in Checkouts \ {At[r]} : By(head'[c], r) => By(remote', r)
      BY <1>0, <1>1, <1>4, <1>5 DEF GoneAt
    <2>4. By(remote', r) => Holds(remote', claimed'[r])
      BY <1>0, <1>2, <1>4, <1>5, <2>2 DEF GoneAt
    <2>5. outcome[r] \notin {"refused", "undone"}
      BY <1>5 DEF Shape, Placed, PlacedAt, None
    <2> QED
      BY <1>0, <1>2, <1>5, <2>1, <2>2, <2>3, <2>4, <2>5 DEF GoneAt
  <1>6. CASE pc[r] \notin {"committed", "pushed"}
    BY <1>0, <1>1, <1>2, <1>6 DEF GoneAt
  <1> QED
    BY <1>5, <1>6

LEMMA SessionsGone ==
    ASSUME Shape, Gone, NEW c \in Checkouts, HandCommit(c), NEW r \in Runs
    PROVE  GoneAt(r)'
  <1> DEFINE e == Commit(c, "hand", Tree(head[c]))
             log == Append(head[c], e)
  <1>0. /\ head \in [Checkouts -> Seq(Commits)] /\ GoneAt(r) /\ PlacedAt(r) /\ At[r] \in Checkouts
        /\ UNCHANGED <<remote, pc, base, claimed, outcome>> /\ head' = [head EXCEPT ![c] = log]
    BY DEF Shape, Typed, Placed, Gone, HandCommit, runVars
  <1>1. e \in Commits /\ e.by = c /\ c # r
    BY TreeTyped, CommitTyped DEF Shape, Typed, Commit
  <1>2. /\ \A i \in DOMAIN head[c] : i \in DOMAIN log /\ log[i] = head[c][i]
        /\ \A i \in DOMAIN log : log[i].by = r => i \in DOMAIN head[c]
    BY <1>0, <1>1
  <1>3. (By(log, r) <=> By(head[c], r)) /\ (Holds(head[c], claimed[r]) => Holds(log, claimed[r]))
    BY <1>2 DEF By, Holds
  <1> HIDE DEF log
  <1>4. /\ \A d \in Checkouts : By(head'[d], r) <=> By(head[d], r)
        /\ Holds(head[At[r]], claimed[r]) => Holds(head'[At[r]], claimed[r])
    BY <1>0, <1>3
  <1>5. ASSUME \A i \in DOMAIN head[At[r]] : head[At[r]][i].by = r => i > base[r]
        PROVE  \A i \in DOMAIN head'[At[r]] : head'[At[r]][i].by = r => i > base[r]
    BY <1>0, <1>2, <1>5
  <1> QED
    BY <1>0, <1>4, <1>5 DEF GoneAt

LEMMA NextGone == ASSUME Shape, Gone, Next PROVE Gone'
  <1> SUFFICES ASSUME NEW r \in Runs PROVE GoneAt(r)'
    BY DEF Gone
  <1>1. CASE Mine(r)
    BY <1>1, MineGone, NextTyped
  <1>2. ASSUME NEW q \in Runs, q # r, Mine(q) PROVE GoneAt(r)'
    BY <1>2, OthersGone
  <1>3. ASSUME NEW q \in Runs, Start(q) PROVE GoneAt(r)'
    <2>1. /\ UNCHANGED <<gitVars, base, claimed, outcome>>
          /\ pc'[r] = pc[r] \/ (pc[r] = "idle" /\ pc'[r] \in {"start", "deploy", "push"})
      BY <1>3 DEF Start, Goto, Shape, Typed
    <2> QED
      BY <2>1 DEF Gone, GoneAt, gitVars
  <1>4. CASE Nobodys
    BY <1>4, NobodysMeans DEF Gone, GoneAt, gitVars, runVars
  <1>5. ASSUME NEW c \in Checkouts, Sessions(c) PROVE GoneAt(r)'
    <2>1. CASE HandCommit(c)
      BY <2>1, SessionsGone
    <2>2. CASE Restore(c)
      BY <2>2 DEF Restore, runVars, Gone, GoneAt
    <2> QED
      BY <1>5, <2>1, <2>2 DEF Sessions
  <1> QED
    BY <1>1, <1>2, <1>3, <1>4, <1>5, NextMeans

LEMMA GoneHolds == Spec => []Gone
  <1>1. Init => Gone
    <2> SUFFICES ASSUME Init, NEW r \in Runs PROVE GoneAt(r)
      BY DEF Gone
    <2>1. ~By(<<Root>>, r)
      BY DEF By, Root
    <2> QED
      BY <2>1 DEF Init, GoneAt
  <1>2. Shape /\ Gone /\ [Next]_vars => Gone'
    <2> SUFFICES ASSUME Shape, Gone, [Next]_vars PROVE Gone'
      OBVIOUS
    <2>1. CASE UNCHANGED vars
      BY <2>1 DEF vars, gitVars, runVars, Gone, GoneAt
    <2> QED
      BY <2>1, NextGone
  <1> QED
    BY <1>1, <1>2, ShapeHolds, PTL DEF Spec

\* No machine ever sees a commit of a run that said it was refused or undone: whatever
\* other runs push, pull and rebase meanwhile, its claim is on no branch (claim, undo).
THEOREM RefusedIsGone == Spec => []RefusedLeavesNothing
  <1>1. Gone => RefusedLeavesNothing
    BY DEF Gone, GoneAt, RefusedLeavesNothing, By
  <1> QED
    BY <1>1, GoneHolds, PTL

-----------------------------------------------------------------------------
(* Nothing is deployed that the remote does not hold.                        *)

\* Whoever plays was playing before, or starts now; what it ships is set at the start.
LEMMA PlayingStays ==
    ASSUME Typed, Next, NEW r \in Runs, ~StartPlay(r)
    PROVE  (Playing(r)' => Playing(r)) /\ ship'[r] = ship[r]
  <1>0. play \in [Runs -> [Boxes -> Plays]]
    BY DEF Typed
  <1>1. ASSUME NEW q \in Runs, Start(q) \/ Pull(q) \/ Plan(q) \/ WriteLocks(q) \/ CommitLocks(q) \/ PushClaim(q)
                 \/ CheckClaim(q) \/ EndPlay(q) \/ Report(q) \/ PushReceipt(q) \/ Prepare(q)
                 \/ Unwind(q) \/ Expire(q)
        PROVE  UNCHANGED <<play, ship>>
    BY <1>1 DEF Start, Pull, Plan, WriteLocks, CommitLocks, PushClaim, CheckClaim, EndPlay, Report,
       PushReceipt, Prepare, Unwind, Expire, runVars
  <1>2. ASSUME NEW q \in Runs, StartPlay(q) PROVE play'[r] = play[r] /\ ship'[r] = ship[r]
    <2>1. r # q
      BY <1>2
    <2> QED
      BY <1>0, <1>2, <2>1 DEF StartPlay, Typed
  <1>3. ASSUME NEW q \in Runs, Interrupt(q) \/ Die(q)
        PROVE  (Playing(r)' => Playing(r)) /\ UNCHANGED ship
    <2>1. UNCHANGED play \/ Stopped(q)
      BY <1>3 DEF Interrupt, Die
    <2>2. Stopped(q) => \A b \in Boxes : play'[r][b] = play[r][b] \/ play'[r][b] = "no"
      BY <1>0 DEF Stopped
    <2> QED
      BY <1>3, <2>1, <2>2 DEF Interrupt, Die, Playing, runVars
  <1>4. ASSUME NEW q \in Runs, NEW b \in Boxes, PlayStep(q, b)
        PROVE  (Playing(r)' => Playing(r)) /\ UNCHANGED ship
    <2>1. /\ UNCHANGED ship
          /\ \E place \in Plays : play' = [play EXCEPT ![q][b] = place] /\ play[q][b] \in {"wait", "clear", "held", "done", "broken"}
                                   /\ (play[q][b] = "broken" => place = "failed")
      BY <1>4 DEF PlayStep, Look, Take, Reconcile, ReconcileFails, Release, On, Plays, runVars
    <2>2. PICK place \in Plays : /\ play' = [play EXCEPT ![q][b] = place]
                                 /\ play[q][b] \in {"wait", "clear", "held", "done", "broken"}
                                 /\ (play[q][b] = "broken" => place = "failed")
      BY <2>1
    <2>3. \A d \in Boxes : play'[r][d] = IF r = q /\ d = b THEN place ELSE play[r][d]
      BY <1>0, <2>2
    <2> QED
      BY <2>1, <2>2, <2>3 DEF Playing
  <1>5. ASSUME UNCHANGED <<play, ship>> PROVE (Playing(r)' => Playing(r)) /\ ship'[r] = ship[r]
    BY <1>5 DEF Playing
  <1>6. ASSUME NEW q \in Runs, Mine(q) \/ Start(q) PROVE (Playing(r)' => Playing(r)) /\ ship'[r] = ship[r]
    BY <1>1, <1>2, <1>3, <1>5, <1>6 DEF Mine, RunStep, Playing
  <1>7. CASE Nobodys
    <2>1. ASSUME NEW b \in Boxes, LockExpires(b) PROVE UNCHANGED <<play, ship>>
      BY <2>1 DEF LockExpires, runVars
    <2> QED
      BY <1>1, <1>4, <1>5, <1>7, <2>1 DEF Nobodys
  <1>8. ASSUME NEW c \in Checkouts, Sessions(c) PROVE UNCHANGED <<play, ship>>
    BY <1>8 DEF Sessions, HandCommit, Restore, runVars
  <1> QED
    BY <1>5, <1>6, <1>7, <1>8, NextMeans

LEMMA MinePublic == ASSUME Shape, Public, NEW r \in Runs, Next, Mine(r) PROVE PublicAt(r)'
  <1> DEFINE c == At[r]
  <1>0. /\ remote \in Seq(Commits) /\ remote # <<>> /\ head \in [Checkouts -> Seq(Commits)] /\ c \in Checkouts
        /\ head[c] # <<>> /\ PublicAt(r) /\ pc \in [Runs -> Places] /\ work[c] \in Trees
    BY DEF Shape, Typed, Public
  <1>1. \A log \in Seq(Commits) : log # <<>> => Len(log) \in DOMAIN log /\ log[Len(log)].tree = Tree(log)
    BY TreeTyped DEF Tree
  <1>2. CASE StartPlay(r)
    <2>1. pc'[r] = "playing" /\ ship'[r].tree = Tree(head[c]) /\ UNCHANGED remote /\ OnRemote(Tree(head[c]))
      BY <1>0, <1>2 DEF StartPlay, Goto, gitVars, PublicAt, Tree, Shape, Typed
    <2> QED
      BY <2>1 DEF PublicAt, OnRemote
  <1>3. ASSUME ~StartPlay(r) PROVE Playing(r)' => OnRemote(ship[r].tree)' /\ ship'[r] = ship[r]
    <2>1. (Playing(r)' => Playing(r)) /\ ship'[r] = ship[r]
      BY <1>3, PlayingStays DEF Shape
    <2>2. Playing(r) => OnRemote(ship[r].tree)
      BY <1>0 DEF PublicAt
    <2>3. ASSUME OnRemote(ship[r].tree) PROVE OnRemote(ship[r].tree)'
      <3> DEFINE tree == ship[r].tree
      <3>1. tree' = tree
        BY <2>1
      <3>2. PICK i \in DOMAIN remote : remote[i].tree = tree
        BY <2>3 DEF OnRemote
      <3>3. remote \in Seq(Commits) /\ remote' \in Seq(Commits) /\ Pre(remote, remote')
        BY NextTyped, RemoteGrows DEF Shape, Typed
      <3>4. i \in DOMAIN remote' /\ remote'[i] = remote[i]
        BY <3>2, <3>3, PreKeeps
      <3> QED
        BY <3>1, <3>2, <3>4 DEF OnRemote
    <2> QED
      BY <2>1, <2>2, <2>3
  <1>4. CASE CommitLocks(r)
    <2> DEFINE fleet == Commit(r, "fleet", work[c])
               log == Append(head[c], fleet)
    <2>1. fleet \in Commits /\ fleet.tree = work[c]
      BY <1>0, CommitTyped DEF Commit
    <2>2. Last(log) = fleet
      BY <1>0, <2>1 DEF Last
    <2>3. head'[c] = log /\ claimed'[r] = fleet /\ pc'[r] = "committed"
      BY <1>0, <1>4 DEF CommitLocks, Goto, Shape, Typed
    <2>4. ~StartPlay(r)
      BY <1>4 DEF CommitLocks, StartPlay
    <2>5. Tree(head'[c]) = claimed'[r].tree
      BY <2>2, <2>3 DEF Tree
    <2> QED
      BY <1>3, <2>3, <2>4, <2>5 DEF PublicAt, Tree
  <1>5. CASE PushClaim(r)
    <2>1. pc[r] = "committed" /\ pc'[r] = "pushed" /\ UNCHANGED <<head, claimed>> /\ ~StartPlay(r)
      BY <1>0, <1>5 DEF PushClaim, Goto, runVars, StartPlay
    <2> QED
      BY <1>0, <1>3, <2>1 DEF PublicAt, Tree
  <1>6. CASE CheckClaim(r)
    <2>1. pc[r] = "pushed" /\ UNCHANGED <<remote, claimed>> /\ ~StartPlay(r)
      BY <1>6 DEF CheckClaim, runVars, StartPlay
    <2>2. CASE Holds(remote, claimed[r]) /\ Goto(r, "claimed") /\ UNCHANGED head
      <3>1. PICK i \in DOMAIN remote : remote[i] = claimed[r]
        BY <2>2 DEF Holds
      <3>2. OnRemote(Tree(head[c]))
        BY <1>0, <2>1, <3>1 DEF PublicAt, OnRemote
      <3>3. pc'[r] = "claimed"
        BY <1>0, <2>2 DEF Goto
      <3> QED
        BY <1>3, <2>1, <2>2, <3>2, <3>3 DEF PublicAt, OnRemote, Tree
    <2>3. CASE pc'[r] = "off"
      BY <1>3, <2>1, <2>3 DEF PublicAt
    <2>4. pc'[r] = "off" \/ (Holds(remote, claimed[r]) /\ Goto(r, "claimed") /\ UNCHANGED head)
      BY <1>0, <1>6 DEF CheckClaim, Undo, UndoFrom, Exit, Goto
    <2> QED
      BY <2>2, <2>3, <2>4
  <1>7. CASE Prepare(r)
    <2>1. pc[r] = "deploy" /\ ~StartPlay(r)
      BY <1>7 DEF Prepare, StartPlay
    <2>2. CASE pc'[r] = "off"
      BY <1>3, <2>1, <2>2 DEF PublicAt
    <2>3. CASE Forward(c) /\ pc'[r] = "claimed" /\ UNCHANGED remote
      <3>1. head'[c] = remote
        BY <1>0, <2>3 DEF Forward
      <3>2. OnRemote(Tree(remote))
        BY <1>0, <1>1 DEF OnRemote
      <3> QED
        BY <1>3, <2>1, <2>3, <3>1, <3>2 DEF PublicAt, OnRemote, Tree
    <2>4. CASE remote' = head[c] /\ pc'[r] = "claimed" /\ UNCHANGED head
      <3>1. Len(head[c]) \in DOMAIN head[c] /\ head[c][Len(head[c])].tree = Tree(head[c])
        BY <1>0, <1>1
      <3> QED
        BY <1>3, <2>1, <2>4, <3>1 DEF PublicAt, OnRemote, Tree
    <2>5. pc'[r] = "off" \/ (Forward(c) /\ pc'[r] = "claimed" /\ UNCHANGED remote)
          \/ (remote' = head[c] /\ pc'[r] = "claimed" /\ UNCHANGED head)
      BY <1>0, <1>7 DEF Prepare, PushTo, Exit, Goto
    <2> QED
      BY <2>2, <2>3, <2>4, <2>5
  <1>8. CASE Pull(r) \/ Plan(r) \/ WriteLocks(r) \/ EndPlay(r) \/ Report(r) \/ PushReceipt(r)
             \/ Unwind(r) \/ Interrupt(r) \/ Die(r)
    <2>1. ~StartPlay(r) /\ pc'[r] \notin {"committed", "pushed", "claimed"}
      <3>1. CASE Pull(r) \/ Plan(r) \/ WriteLocks(r) \/ EndPlay(r) \/ Report(r) \/ PushReceipt(r)
        BY <1>0, <3>1 DEF Pull, Plan, WriteLocks, EndPlay, Report, PushReceipt, Exit, Goto, StartPlay
      <3>2. CASE Unwind(r)
        <4>1. pc'[r] = "off"
          BY <1>0, <3>2 DEF Unwind, Undo, UndoWrites, UndoFrom, Exit, Goto
        <4> QED
          BY <1>0, <4>1 DEF StartPlay, Goto
      <3>3. CASE Interrupt(r) \/ Die(r)
        <4>1. pc'[r] = "off"
          BY <1>0, <3>3 DEF Interrupt, Die, Exit, Goto
        <4> QED
          BY <1>0, <4>1 DEF StartPlay, Goto
      <3> QED
        BY <1>8, <3>1, <3>2, <3>3
    <2> QED
      BY <1>3, <2>1 DEF PublicAt
  <1> QED
    BY <1>2, <1>4, <1>5, <1>6, <1>7, <1>8, Zenon DEF Mine, RunStep

LEMMA PublicStays ==
    ASSUME Shape, NEW r \in Runs, PublicAt(r), Next, ~StartPlay(r),
           pc'[r] = pc[r] \/ pc'[r] \notin {"committed", "pushed", "claimed"}, claimed'[r] = claimed[r],
           Live(r) => Tree(head'[At[r]]) = Tree(head[At[r]])
    PROVE  PublicAt(r)'
  <1>1. (Playing(r)' => Playing(r)) /\ ship'[r] = ship[r]
    BY PlayingStays DEF Shape
  <1>2. remote \in Seq(Commits) /\ remote' \in Seq(Commits) /\ Pre(remote, remote')
    BY NextTyped, RemoteGrows DEF Shape, Typed
  <1>3. \A tree : (\E i \in DOMAIN remote : remote[i].tree = tree) => \E i \in DOMAIN remote' : remote'[i].tree = tree
    BY <1>2, PreKeeps
  <1>4. \A tree : OnRemote(tree) => OnRemote(tree)'
    BY <1>3 DEF OnRemote
  <1>5. pc'[r] \in {"committed", "pushed"} => Tree(head'[At[r]]) = claimed'[r].tree
    BY DEF PublicAt, Live
  <1>6. pc'[r] = "claimed" => OnRemote(Tree(head[At[r]]))'
    <2>1. CASE pc'[r] = "claimed"
      <3>1. pc[r] = "claimed" /\ Tree(head'[At[r]]) = Tree(head[At[r]])
        BY <2>1 DEF Live
      <3>2. OnRemote(Tree(head[At[r]]))
        BY <3>1 DEF PublicAt
      <3> PICK tree : tree = Tree(head[At[r]])
        OBVIOUS
      <3>3. OnRemote(tree)'
        BY <3>2, <1>4
      <3> QED
        BY <3>1, <3>3 DEF OnRemote, Tree
    <2> QED
      BY <2>1
  <1>7. Playing(r)' => OnRemote(ship[r].tree)'
    <2>1. CASE Playing(r)'
      <3> PICK tree : tree = ship[r].tree
        OBVIOUS
      <3>1. OnRemote(tree)'
        BY <1>1, <1>4, <2>1 DEF PublicAt
      <3> QED
        BY <1>1, <3>1 DEF OnRemote
    <2> QED
      BY <2>1
  <1> QED
    BY <1>5, <1>6, <1>7 DEF PublicAt, Tree

LEMMA NextPublic == ASSUME Shape, Public, Next PROVE Public'
  <1> SUFFICES ASSUME NEW r \in Runs PROVE PublicAt(r)'
    BY DEF Public
  <1>0. PublicAt(r) /\ pc \in [Runs -> Places]
    BY DEF Public, Shape, Typed
  <1>1. CASE Mine(r)
    BY <1>1, MinePublic
  <1>2. ASSUME ~Mine(r) PROVE ~StartPlay(r)
    BY <1>2 DEF Mine, RunStep
  <1>3. ASSUME NEW q \in Runs, q # r, Mine(q) \/ Start(q), ~Mine(r) PROVE PublicAt(r)'
    <2>1. pc'[r] = pc[r] /\ claimed'[r] = claimed[r] /\ (Live(r) => head'[At[r]] = head[At[r]])
      BY <1>3, OthersKeep DEF Shape
    <2> QED
      BY <1>0, <1>2, <1>3, <2>1, PublicStays DEF Tree
  <1>4. CASE Start(r) /\ ~Mine(r)
    <2>1. UNCHANGED <<head, claimed>> /\ pc'[r] \in {"start", "deploy", "push"}
      BY <1>0, <1>4 DEF Start, Goto, gitVars
    <2> QED
      BY <1>0, <1>2, <1>4, <2>1, PublicStays DEF Tree
  <1>5. CASE Nobodys /\ ~Mine(r)
    <2>1. UNCHANGED <<pc, head, claimed>>
      BY <1>5, NobodysMeans DEF gitVars, runVars
    <2> QED
      BY <1>0, <1>2, <1>5, <2>1, PublicStays DEF Tree
  <1>6. ASSUME NEW c \in Checkouts, Sessions(c), ~Mine(r) PROVE PublicAt(r)'
    <2>1. UNCHANGED <<pc, claimed>> /\ \A d \in Checkouts \ {c} : head'[d] = head[d]
      BY <1>6, SessionsMeans DEF Shape, runVars
    <2>2. Tree(head'[c]) = Tree(head[c])
      <3>1. CASE HandCommit(c)
        <4> DEFINE e == Commit(c, "hand", Tree(head[c]))
        <4>1. e \in Commits /\ e.tree = Tree(head[c]) /\ head[c] \in Seq(Commits)
          BY TreeTyped, CommitTyped DEF Shape, Typed, Commit
        <4>2. head'[c] = Append(head[c], e)
          BY <3>1 DEF HandCommit, Shape, Typed
        <4> HIDE DEF e
        <4> QED
          BY <4>1, <4>2 DEF Tree, Last
      <3>2. CASE Restore(c)
        BY <3>2 DEF Restore
      <3> QED
        BY <1>6, <3>1, <3>2 DEF Sessions
    <2>3. Tree(head'[At[r]]) = Tree(head[At[r]])
      BY <2>1, <2>2
    <2> QED
      BY <1>0, <1>2, <1>6, <2>1, <2>3, PublicStays
  <1> QED
    BY <1>1, <1>3, <1>4, <1>5, <1>6, NextMeans

\* A box gets only a compile whose records the remote holds: the playbook starts after a
\* claim that the remote was seen to hold, or after a push or a pull (claim, _push_ahead).
THEOREM PlaysWhatIsPublic == Spec => []ShippedIsPublic
  <1>1. Init => Public
    BY DEF Init, Public, PublicAt, Playing
  <1>2. Shape /\ Public /\ [Next]_vars => Public'
    <2> SUFFICES ASSUME Shape, Public, [Next]_vars PROVE Public'
      OBVIOUS
    <2>1. CASE UNCHANGED vars
      BY <2>1 DEF vars, gitVars, runVars, Public, PublicAt, Playing, OnRemote, Tree
    <2> QED
      BY <2>1, NextPublic
  <1>3. Public => ShippedIsPublic
    BY DEF Public, PublicAt, OnRemote, ShippedIsPublic
  <1> QED
    BY <1>1, <1>2, <1>3, ShapeHolds, PTL DEF Spec

-----------------------------------------------------------------------------
(* Sets of records that a step does not leave.                               *)

InTree(tree, G) == \A p \in Projects : <<p, tree[p]>> \in G
InLog(log, G) == \A i \in DOMAIN log : InTree(log[i].tree, G)

LEMMA InAdd ==
    ASSUME NEW log \in Seq(Commits), NEW e \in Commits, NEW G, InLog(log, G), InTree(e.tree, G)
    PROVE  InLog(Append(log, e), G)
  <1> SUFFICES ASSUME NEW i \in DOMAIN Append(log, e) PROVE InTree(Append(log, e)[i].tree, G)
    BY DEF InLog
  <1>1. CASE i \in DOMAIN log
    BY <1>1 DEF InLog
  <1>2. CASE i \notin DOMAIN log
    <2>1. Append(log, e)[i] = e
      BY <1>2
    <2> QED
      BY <2>1
  <1> QED
    BY <1>1, <1>2

LEMMA InLast ==
    ASSUME NEW log \in Seq(Commits), log # <<>>, NEW G, InLog(log, G)
    PROVE  InTree(Tree(log), G)
  BY TreeTyped DEF InLog, Tree

LEMMA InCut ==
    ASSUME NEW log \in Seq(Commits), NEW n \in 1..Len(log), NEW G, InLog(log, G)
    PROVE  InLog(SubSeq(log, 1, n), G) /\ InTree(Tree(SubSeq(log, 1, n)), G)
  <1>1. SubSeq(log, 1, n) \in Seq(Commits) /\ SubSeq(log, 1, n) # <<>>
    BY CutTyped
  <1>2. InLog(SubSeq(log, 1, n), G)
    <2> SUFFICES ASSUME NEW i \in DOMAIN SubSeq(log, 1, n) PROVE InTree(SubSeq(log, 1, n)[i].tree, G)
      BY DEF InLog
    <2>1. i \in DOMAIN log /\ SubSeq(log, 1, n)[i] = log[i]
      OBVIOUS
    <2> QED
      BY <2>1 DEF InLog
  <1> QED
    BY <1>1, <1>2, InLast

LEMMA InRebase ==
    ASSUME Shape, NEW r \in Runs, Rebase(r), NEW G, InLog(remote, G), InLog(head[At[r]], G)
    PROVE  InLog(head'[At[r]], G) /\ InTree(work'[At[r]], G)
  <1> DEFINE c == At[r]
  <1>0. c \in Checkouts /\ head \in [Checkouts -> Seq(Commits)] /\ work \in [Checkouts -> Trees]
    BY DEF Shape, Typed
  <1>n. PICK n \in 1..Len(head[c]) : \E log :
          /\ Replayed(c, n, Len(head[c]) - n, log) /\ log # <<>>
          /\ head' = [head EXCEPT ![c] = log] /\ work' = [work EXCEPT ![c] = Tree(log)]
    BY RebaseMeans DEF Shape
  <1>1. PICK log :
          /\ Replayed(c, n, Len(head[c]) - n, log) /\ log # <<>>
          /\ head' = [head EXCEPT ![c] = log] /\ work' = [work EXCEPT ![c] = Tree(log)]
    BY <1>n
  <1>2. InLog(log, G)
    <2>1. /\ \A i \in DOMAIN remote : \A p \in Projects : <<p, remote[i].tree[p]>> \in G
          /\ \A i \in DOMAIN head[c] : \A p \in Projects : <<p, head[c][i].tree[p]>> \in G
      BY DEF InLog, InTree
    <2>2. \A i \in DOMAIN log : \A p \in Projects : <<p, log[i].tree[p]>> \in G
      BY <1>0, <1>1, <2>1, RebasedRecords DEF Shape
    <2> QED
      BY <2>2 DEF InLog, InTree
  <1>3. log \in Seq(Commits)
    BY <1>1 DEF Replayed
  <1> QED
    BY <1>0, <1>1, <1>2, <1>3, InLast

LEMMA InForward ==
    ASSUME Shape, NEW c \in Checkouts, Forward(c), NEW G, InLog(remote, G), InTree(work[c], G)
    PROVE  InLog(head'[c], G) /\ InTree(work'[c], G)
  <1>1. head'[c] = remote /\ InTree(Tree(remote), G)
    BY InLast DEF Forward, Shape, Typed
  <1>2. \A p \in Projects : work'[c][p] \in {Tree(remote)[p], work[c][p]}
    BY DEF Forward, Shape, Typed
  <1> QED
    BY <1>1, <1>2 DEF InTree

\* What the records written before the play, and after it, are made of.
Writes(r, G) == pc[r] = "planned" =>
    \A p \in job[r].members : <<p, Pending(r, work[At[r]][p], WantedPin(r, p))>> \in G
Stamps(r, G) == pc[r] = "played" /\ job[r].members # {} =>
    \A p \in Projects : \A read : <<p, Recorded(r, p, read)>> \in G

LEMMA InUndo ==
    ASSUME Shape, NEW r \in Runs, NEW last, NEW how, UndoFrom(r, last, how), UNCHANGED remote,
           pc[r] \in {"written", "committed", "pushed"}, NEW G, InLog(head[At[r]], G), InTree(work[At[r]], G)
    PROVE  InLog(head'[At[r]], G) /\ InTree(work'[At[r]], G)
  <1> DEFINE c == At[r]
             before == SubSeq(head[c], 1, base[r])
  <1>1. /\ head \in [Checkouts -> Seq(Commits)] /\ work \in [Checkouts -> Trees] /\ c \in Checkouts
        /\ base[r] \in 1..Len(head[c])
    BY DEF Shape, Typed, Placed, PlacedAt
  <1>2. InLog(before, G) /\ InTree(Tree(before), G)
    BY <1>1, InCut
  <1>3. CASE UNCHANGED <<head, work>>
    BY <1>3
  <1>4. CASE ~UNCHANGED <<head, work>>
    <2>1. /\ head' = [head EXCEPT ![c] = before]
          /\ work' = [work EXCEPT ![c] = [p \in Projects |->
                IF p \in job[r].members THEN Tree(before)[p] ELSE work[c][p]]]
      BY <1>4 DEF UndoFrom
    <2> HIDE DEF before
    <2>2. head'[c] = before /\ \A p \in Projects : work'[c][p] \in {Tree(before)[p], work[c][p]}
      BY <1>1, <2>1
    <2> QED
      BY <1>2, <2>2 DEF InTree
  <1> QED
    BY <1>3, <1>4

LEMMA InReport ==
    ASSUME Shape, NEW r \in Runs, Report(r), NEW G, InLog(head[At[r]], G), InTree(work[At[r]], G), Stamps(r, G)
    PROVE  InLog(head'[At[r]], G) /\ InTree(work'[At[r]], G)
  <1> DEFINE c == At[r]
  <1>1. head \in [Checkouts -> Seq(Commits)] /\ work \in [Checkouts -> Trees] /\ c \in Checkouts
    BY DEF Shape, Typed
  <1> DEFINE Made(read, tree) ==
               /\ \A p \in Projects : tree[p] = IF job[r].members = {} THEN work[At[r]][p] ELSE Recorded(r, p, read)
               /\ work' = [work EXCEPT ![At[r]] = tree]
               /\ \/ tree = Tree(head[At[r]]) /\ head' = head
                  \/ /\ tree # Tree(head[At[r]])
                     /\ head' = [head EXCEPT ![At[r]] = Append(head[At[r]], Commit(r, "receipt", tree))]
  <1>2. \E read \in SUBSET Scope(r), tree \in Trees : Made(read, tree)
    BY ReportMeans DEF Shape
  <1> HIDE DEF Made
  <1>3. PICK read \in SUBSET Scope(r), tree \in Trees : Made(read, tree)
    BY <1>2
  <1>4. pc[r] = "played"
    BY DEF Report
  <1>5. InTree(tree, G)
    <2> SUFFICES ASSUME NEW p \in Projects PROVE <<p, tree[p]>> \in G
      BY DEF InTree
    <2>1. tree[p] = work[c][p] \/ (job[r].members # {} /\ tree[p] = Recorded(r, p, read))
      BY <1>3 DEF Made
    <2> QED
      BY <1>4, <2>1 DEF InTree, Stamps
  <1> DEFINE e == Commit(r, "receipt", tree)
  <1>6. e \in Commits /\ e.tree = tree
    BY CommitTyped DEF Commit
  <1>7. InLog(Append(head[c], e), G)
    BY <1>1, <1>5, <1>6, InAdd
  <1>8. work'[c] = tree /\ head'[c] \in {head[c], Append(head[c], e)}
    BY <1>1, <1>3 DEF Made
  <1> QED
    BY <1>5, <1>7, <1>8

\* A step of a run writes no other record than those.
LEMMA MineRecords ==
    ASSUME Shape, NEW r \in Runs, Mine(r), NEW G, Writes(r, G), Stamps(r, G),
           InLog(remote, G), InLog(head[At[r]], G), InTree(work[At[r]], G)
    PROVE  InLog(remote', G) /\ InLog(head'[At[r]], G) /\ InTree(work'[At[r]], G)
  <1> DEFINE c == At[r]
             Goal == InLog(remote', G) /\ InLog(head'[c], G) /\ InTree(work'[c], G)
  <1>0. head \in [Checkouts -> Seq(Commits)] /\ work \in [Checkouts -> Trees] /\ c \in Checkouts
    BY DEF Shape, Typed
  <1>1. CASE UNCHANGED <<head, work>> /\ remote' \in {remote, head[c]}
    BY <1>1
  <1>2. CASE CommitLocks(r)
    <2> DEFINE fleet == Commit(r, "fleet", work[c])
    <2>1. fleet \in Commits /\ fleet.tree = work[c]
      BY <1>0, CommitTyped DEF Commit
    <2>2. InLog(Append(head[c], fleet), G)
      BY <1>0, <2>1, InAdd
    <2>3. head'[c] = Append(head[c], fleet) /\ UNCHANGED <<remote, work>>
      BY <1>0, <1>2 DEF CommitLocks
    <2> QED
      BY <2>2, <2>3
  <1>3. CASE Report(r)
    BY <1>3, InReport DEF Report
  <1>4. CASE WriteLocks(r)
    <2>1. UNCHANGED <<remote, head>> /\ pc[r] = "planned"
          /\ \A p \in Projects : work'[c][p] = IF p \in job[r].members THEN Pending(r, work[c][p], WantedPin(r, p))
                                               ELSE work[c][p]
      BY <1>0, <1>4 DEF WriteLocks
    <2>2. InTree(work'[c], G)
      BY <2>1 DEF InTree, Writes
    <2> QED
      BY <2>1, <2>2
  <1>5. CASE Unwind(r) \/ CheckClaim(r)
    <2>1. UNCHANGED remote
      BY <1>5 DEF Unwind, CheckClaim
    <2>2. \/ UNCHANGED <<head, work>>
          \/ \E last, how : UndoFrom(r, last, how) /\ pc[r] \in {"written", "committed", "pushed"}
      BY <1>5 DEF Unwind, CheckClaim, Undo, UndoWrites
    <2> QED
      BY <1>1, <2>1, <2>2, InUndo
  <1>6. CASE Pull(r) \/ Prepare(r)
    <2>1. (Forward(c) /\ UNCHANGED remote) \/ (UNCHANGED <<head, work>> /\ remote' \in {remote, head[c]})
      BY <1>6 DEF Pull, Prepare, PushTo, gitVars
    <2> QED
      BY <1>0, <1>1, <2>1, InForward
  <1>7. CASE PushReceipt(r)
    <2>1. Rebase(r) \/ (UNCHANGED <<head, work>> /\ remote' \in {remote, head[c]})
      BY <1>7 DEF PushReceipt, PushTo, gitVars, Rebase
    <2> QED
      BY <1>1, <2>1, InRebase DEF Rebase
  <1>8. CASE Plan(r) \/ PushClaim(r) \/ StartPlay(r) \/ EndPlay(r) \/ Interrupt(r) \/ Die(r)
    <2>1. UNCHANGED <<head, work>> /\ remote' \in {remote, head[c]}
      BY <1>8 DEF Plan, PushClaim, StartPlay, EndPlay, Interrupt, Die, PushTo, gitVars
    <2> QED
      BY <1>1, <2>1
  <1> HIDE DEF Goal
  <1>9. Goal
    BY <1>2, <1>3, <1>4, <1>5, <1>6, <1>7, <1>8, Zenon DEF Mine, RunStep, Goal
  <1> QED
    BY <1>9 DEF Goal

\* Nor does another session, or whoever takes the locks back from the branch.
LEMMA SessionRecords ==
    ASSUME Shape, NEW c \in Checkouts, Sessions(c), NEW G, InLog(head[c], G)
    PROVE  InLog(head'[c], G) /\ (InTree(work[c], G) => InTree(work'[c], G))
  <1>0. head[c] \in Seq(Commits) /\ head[c] # <<>> /\ head \in [Checkouts -> Seq(Commits)]
        /\ work \in [Checkouts -> Trees]
    BY DEF Shape, Typed
  <1>1. InTree(Tree(head[c]), G)
    BY <1>0, InLast
  <1>2. CASE HandCommit(c)
    <2> DEFINE e == Commit(c, "hand", Tree(head[c]))
    <2>1. e \in Commits /\ e.tree = Tree(head[c])
      BY <1>0, TreeTyped, CommitTyped DEF Commit
    <2>2. InLog(Append(head[c], e), G)
      BY <1>0, <1>1, <2>1, InAdd
    <2>3. head'[c] = Append(head[c], e) /\ UNCHANGED work
      BY <1>0, <1>2 DEF HandCommit
    <2> QED
      BY <2>2, <2>3
  <1>3. CASE Restore(c)
    BY <1>0, <1>1, <1>3 DEF Restore
  <1> QED
    BY <1>2, <1>3 DEF Sessions

-----------------------------------------------------------------------------
(* What a record says is true.                                               *)

LEMMA GoodGrows ==
    ASSUME NEW done, NEW more, done \subseteq more
    PROVE  /\ \A tree : GoodTree(tree, done) => GoodTree(tree, more)
           /\ \A log : GoodLog(log, done) => GoodLog(log, more)
  <1>1. \A tree : GoodTree(tree, done) => GoodTree(tree, more)
    BY DEF GoodTree, GoodRecord
  <1> QED
    BY <1>1 DEF GoodLog

Goods(done) == {g \in Projects \X Records : GoodRecord(g[1], g[2], done)}
LEMMA GoodMeans ==
    ASSUME NEW done
    PROVE  /\ \A tree \in Trees : GoodTree(tree, done) <=> InTree(tree, Goods(done))
           /\ \A log \in Seq(Commits) : GoodLog(log, done) <=> InLog(log, Goods(done))
  <1>1. ASSUME NEW tree \in Trees PROVE GoodTree(tree, done) <=> InTree(tree, Goods(done))
    <2>1. \A p \in Projects : tree[p] \in Records
      BY DEF Trees
    <2> QED
      BY <2>1 DEF GoodTree, InTree, Goods
  <1>2. ASSUME NEW log \in Seq(Commits) PROVE GoodLog(log, done) <=> InLog(log, Goods(done))
    <2>1. \A i \in DOMAIN log : log[i].tree \in Trees
      <3>1. \A i \in DOMAIN log : log[i] \in Commits
        OBVIOUS
      <3> QED
        BY <3>1 DEF Commits, Trees
    <2> QED
      BY <1>1, <2>1 DEF GoodLog, InLog
  <1> QED
    BY <1>1, <1>2

LEMMA GoodPending ==
    ASSUME NEW p, NEW r, NEW record \in Records, NEW pin, NEW done, GoodRecord(p, record, done)
    PROVE  GoodRecord(p, Pending(r, record, pin), done)
  <1>1. Confirmed(record) => record.result = "ok"
    BY DEF Confirmed, Records
  <1>2. Previous(record, pin) \in {record.prev, NoPin} \/ (record.result = "ok" /\ Previous(record, pin) = record.pin)
    BY <1>1 DEF Previous
  <1>3. /\ Pending(r, record, pin).prev = Previous(record, pin) /\ Pending(r, record, pin).result = "pending"
        /\ Pending(r, record, pin).plan = r /\ Pending(r, record, pin).claim = r
    BY DEF Pending
  <1> QED
    BY <1>2, <1>3 DEF GoodRecord

LEMMA GoodRecorded ==
    ASSUME Shape, Truthful, NEW r \in Runs, pc[r] = "played", NEW p \in Projects, NEW read
    PROVE  GoodRecord(p, Recorded(r, p, read), ran)
  <1> DEFINE record == work[At[r]][p]
             b == BoxOf[p]
             word == BoxResult(r, b, read)
  <1>1. At[r] \in Checkouts /\ b \in Boxes /\ p \in On_(b) /\ record \in Records
    BY DEF Shape, Typed, Trees, On_
  <1>2. GoodRecord(p, record, ran) /\ record = claimed[r].tree[p]
    BY <1>1 DEF Truthful, GoodTree, AsClaimed
  <1>3. word = "ok" => <<p, record.pin>> \in ran
    <2> SUFFICES ASSUME word = "ok" PROVE <<p, record.pin>> \in ran
      OBVIOUS
    <2>1. receipt[b].commit = claimed[r] /\ receipt[b].result = "ok"
      BY DEF BoxResult, None
    <2> QED
      BY <1>1, <1>2, <2>1 DEF Truthful
  <1>4. \A w : /\ Result(r, record, w).prev = record.prev /\ Result(r, record, w).pin = record.pin
               /\ Result(r, record, w).result = w /\ Result(r, record, w).claim = None
    BY <1>1 DEF Result, Records
  <1>5. \/ Recorded(r, p, read) = record
        \/ Recorded(r, p, read) = Result(r, record, "failed")
        \/ \E w : Recorded(r, p, read) = Result(r, record, w) /\ (w = "ok" => word = "ok")
    BY DEF Recorded
  <1> HIDE DEF record, word
  <1> QED
    BY <1>2, <1>3, <1>4, <1>5 DEF GoodRecord

LEMMA MineTrue == ASSUME Shape, Truthful, NEW r \in Runs, Mine(r), Typed'
                  PROVE  /\ GoodLog(remote', ran) /\ GoodLog(head'[At[r]], ran) /\ GoodTree(work'[At[r]], ran)
                         /\ UNCHANGED <<ran, receipt>>
  <1> DEFINE c == At[r]
             G == Goods(ran)
  <1>0. /\ c \in Checkouts /\ remote \in Seq(Commits) /\ head[c] \in Seq(Commits) /\ work[c] \in Trees
        /\ remote' \in Seq(Commits) /\ head'[c] \in Seq(Commits) /\ work'[c] \in Trees
        /\ GoodLog(remote, ran) /\ GoodLog(head[c], ran) /\ GoodTree(work[c], ran)
        /\ PlacedAt(r) /\ job[r] \in JobSet
    <2>1. Live(r)
      BY MineAside DEF Shape
    <2> QED
      BY <2>1 DEF Shape, Typed, Placed, PlacedAt, Live, Truthful
  <1>1. UNCHANGED <<ran, receipt>>
    BY DEF Mine, RunStep, Pull, Plan, WriteLocks, CommitLocks, PushClaim, CheckClaim, StartPlay, EndPlay,
       Report, PushReceipt, Prepare, Unwind, Interrupt, Die, boxVars
  <1>2. Writes(r, G)
    <2> SUFFICES ASSUME pc[r] = "planned", NEW p \in job[r].members
                 PROVE  <<p, Pending(r, work[c][p], WantedPin(r, p))>> \in G
      BY DEF Writes
    <2>1. p \in Projects /\ job[r].pin \in Pins
      BY <1>0 DEF JobSet
    <2>2. work[c][p] \in Records /\ GoodRecord(p, work[c][p], ran)
      BY <1>0, <2>1 DEF Trees, GoodTree
    <2>3. WantedPin(r, p) \in Pins
      BY WantedTyped DEF Shape
    <2> DEFINE pin == WantedPin(r, p)
               record == work[c][p]
    <2> HIDE DEF pin, record
    <2>4. GoodRecord(p, Pending(r, record, pin), ran) /\ Pending(r, record, pin) \in Records
      BY <2>2, <2>3, GoodPending, PendingTyped DEF pin, record
    <2> QED
      BY <2>1, <2>4 DEF pin, record, Goods
  <1>3. Stamps(r, G)
    <2> SUFFICES ASSUME pc[r] = "played", NEW p \in Projects, NEW read PROVE <<p, Recorded(r, p, read)>> \in G
      BY DEF Stamps
    <2>1. GoodRecord(p, Recorded(r, p, read), ran) /\ Recorded(r, p, read) \in Records
      BY GoodRecorded, RecordedTyped DEF Shape
    <2> PICK record : record = Recorded(r, p, read)
      OBVIOUS
    <2> QED
      BY <2>1 DEF Goods
  <1> HIDE DEF G
  <1>4. InLog(remote, G) /\ InLog(head[c], G) /\ InTree(work[c], G)
    BY <1>0, GoodMeans DEF G
  <1>5. InLog(remote', G) /\ InLog(head'[c], G) /\ InTree(work'[c], G)
    BY <1>2, <1>3, <1>4, MineRecords
  <1> QED
    BY <1>0, <1>1, <1>5, GoodMeans DEF G

LEMMA MineClaimed == ASSUME Shape, Truthful, NEW r \in Runs, Mine(r) PROVE AsClaimed(r)'
  <1> DEFINE c == At[r]
  <1>0. /\ pc \in [Runs -> Places] /\ AsClaimed(r) /\ PlacedAt(r) /\ job[r] \in JobSet
    <2>1. Live(r)
      BY MineAside DEF Shape
    <2> QED
      BY <2>1 DEF Shape, Typed, Placed, PlacedAt, Live, Truthful
  <1>1. CASE CommitLocks(r)
    <2>1. claimed'[r] = Commit(r, "fleet", work[c]) /\ UNCHANGED work
      BY <1>1 DEF CommitLocks, Shape, Typed
    <2> QED
      BY <2>1 DEF AsClaimed, Commit
  <1>2. CASE PushClaim(r) \/ StartPlay(r)
    BY <1>0, <1>2 DEF PushClaim, StartPlay, Goto, runVars, gitVars, AsClaimed
  <1>3. CASE CheckClaim(r)
    <2>1. pc'[r] = "off" \/ (pc[r] = "pushed" /\ pc'[r] = "claimed" /\ UNCHANGED <<work, job, claimed>>)
      BY <1>0, <1>3 DEF CheckClaim, Undo, UndoFrom, Exit, Goto, runVars
    <2> QED
      BY <1>0, <2>1 DEF AsClaimed
  <1>4. CASE EndPlay(r)
    <2>1. pc'[r] = "off" \/ (pc[r] = "playing" /\ job[r].kind # "deploy" /\ UNCHANGED <<work, job, claimed>>)
      BY <1>0, <1>4 DEF EndPlay, Exit, Goto, runVars, gitVars
    <2> QED
      BY <1>0, <2>1 DEF AsClaimed
  <1>5. CASE Prepare(r)
    <2>1. pc'[r] = "off" \/ (pc[r] = "deploy" /\ pc'[r] = "claimed" /\ UNCHANGED job)
      BY <1>0, <1>5 DEF Prepare, Exit, Goto, runVars
    <2> QED
      BY <1>0, <2>1 DEF AsClaimed, PlacedAt
  <1>6. CASE Pull(r) \/ Plan(r) \/ WriteLocks(r) \/ Report(r) \/ PushReceipt(r)
    <2>1. pc'[r] \in {"off", "pulled", "planned", "written", "push"}
      BY <1>0, <1>6 DEF Pull, Plan, WriteLocks, Report, PushReceipt, Exit, Goto
    <2> QED
      BY <2>1 DEF AsClaimed
  <1>7. CASE Unwind(r) \/ Interrupt(r) \/ Die(r)
    <2>1. pc'[r] = "off"
      BY <1>0, <1>7 DEF Unwind, Undo, UndoWrites, UndoFrom, Interrupt, Die, Exit, Goto
    <2> QED
      BY <2>1 DEF AsClaimed
  <1> QED
    BY <1>1, <1>2, <1>3, <1>4, <1>5, <1>6, <1>7, Zenon DEF Mine, RunStep

LEMMA SessionsTrue ==
    ASSUME Shape, Truthful, NEW c \in Checkouts, Sessions(c), Typed'
    PROVE  /\ GoodLog(head'[c], ran) /\ GoodTree(work'[c], ran) /\ UNCHANGED <<ran, receipt>>
           /\ \A r \in Runs : AsClaimed(r)'
  <1>0. /\ head[c] \in Seq(Commits) /\ work[c] \in Trees /\ GoodLog(head[c], ran) /\ GoodTree(work[c], ran)
        /\ head'[c] \in Seq(Commits) /\ work'[c] \in Trees /\ work \in [Checkouts -> Trees]
    BY DEF Shape, Typed, Truthful
  <1>1. UNCHANGED <<ran, receipt, pc, job, claimed>>
    BY DEF Sessions, HandCommit, Restore, boxVars, runVars
  <1>2. GoodLog(head'[c], ran) /\ GoodTree(work'[c], ran)
    <2>1. InLog(head'[c], Goods(ran)) /\ InTree(work'[c], Goods(ran))
      BY <1>0, GoodMeans, SessionRecords
    <2> QED
      BY <1>0, <2>1, GoodMeans
  <1>3. CASE HandCommit(c)
    <2>1. UNCHANGED work
      BY <1>3 DEF HandCommit
    <2> QED
      BY <1>1, <1>2, <2>1 DEF Truthful, AsClaimed
  <1>4. CASE Restore(c)
    <2>1. UNCHANGED head /\ work' = [work EXCEPT ![c] = Tree(head[c])]
      BY <1>4 DEF Restore
    <2>2. ASSUME NEW r \in Runs PROVE AsClaimed(r)'
      <3>1. Live(r) => At[r] # c
        BY <1>4 DEF Restore, Busy
      <3>2. Live(r) => work'[At[r]] = work[At[r]]
        BY <1>0, <2>1, <3>1
      <3> QED
        BY <1>1, <3>2 DEF Truthful, AsClaimed, Live
    <2> QED
      BY <1>1, <1>2, <2>2
  <1> QED
    BY <1>3, <1>4 DEF Sessions

LEMMA ReceiptsTrue ==
    ASSUME Shape, Truthful, NEW r \in Runs, NEW b \in Boxes, PlayStep(r, b)
    PROVE  /\ ran \subseteq ran'
           /\ \A d \in Boxes : receipt'[d].result = "ok" =>
                \A p \in On_(d) : <<p, receipt'[d].commit.tree[p].pin>> \in ran'
  <1>0. receipt \in [Boxes -> Receipts]
    BY DEF Shape, Typed
  <1>1. CASE Reconcile(r, b)
    <2>1. /\ receipt' = [receipt EXCEPT ![b] = [commit |-> ship[r], result |-> "ok"]]
          /\ ran' = ran \cup {<<p, ship[r].tree[p].pin>> : p \in On_(b)}
      BY <1>1 DEF Reconcile
    <2> QED
      BY <1>0, <2>1 DEF Truthful
  <1>2. CASE ReconcileFails(r, b)
    <2>1. /\ \A d \in Boxes : receipt'[d] = receipt[d] \/ receipt'[d].result = "failed"
          /\ ran' = ran
      BY <1>0, <1>2 DEF ReconcileFails
    <2> QED
      BY <2>1 DEF Truthful
  <1>3. CASE Look(r, b) \/ Take(r, b) \/ Release(r, b)
    <2>1. UNCHANGED <<receipt, ran>>
      BY <1>3 DEF Look, Take, Release, boxVars
    <2> QED
      BY <2>1 DEF Truthful
  <1> QED
    BY <1>1, <1>2, <1>3 DEF PlayStep

LEMMA NextTruthful == ASSUME Shape, Truthful, Next PROVE Truthful'
  <1>0. /\ \A r \in Runs : AsClaimed(r) /\ At[r] \in Checkouts
        /\ GoodLog(remote, ran) /\ \A c \in Checkouts : GoodTree(work[c], ran) /\ GoodLog(head[c], ran)
    BY DEF Truthful
  <1>1. ASSUME NEW r \in Runs, Mine(r) PROVE Truthful'
    <2>1. /\ GoodLog(remote', ran) /\ GoodLog(head'[At[r]], ran) /\ GoodTree(work'[At[r]], ran)
          /\ UNCHANGED <<ran, receipt>>
      BY <1>1, MineTrue, NextTyped
    <2>2. \A d \in Checkouts \ {At[r]} : head'[d] = head[d] /\ work'[d] = work[d]
      BY <1>1, MineAside DEF Shape, Aside
    <2>3. \A c \in Checkouts : GoodTree(work'[c], ran) /\ GoodLog(head'[c], ran)
      BY <1>0, <2>1, <2>2
    <2>4. ASSUME NEW q \in Runs PROVE AsClaimed(q)'
      <3>1. CASE q = r
        BY <1>1, <3>1, MineClaimed
      <3>2. CASE q # r
        <4>1. pc'[q] = pc[q] /\ job'[q] = job[q] /\ claimed'[q] = claimed[q]
              /\ (Live(q) => work'[At[q]] = work[At[q]])
          BY <1>1, <3>2, OthersKeep DEF Shape
        <4> QED
          BY <1>0, <4>1 DEF AsClaimed, Live
      <3> QED
        BY <3>1, <3>2
    <2> QED
      BY <2>1, <2>3, <2>4 DEF Truthful
  <1>2. ASSUME NEW r \in Runs, Start(r) PROVE Truthful'
    <2>1. UNCHANGED <<remote, head, work, ran, receipt, claimed>>
      BY <1>2 DEF Start, gitVars, boxVars
    <2>2. ASSUME NEW q \in Runs PROVE AsClaimed(q)'
      <3>1. (pc'[q] = pc[q] /\ job'[q] = job[q]) \/ pc'[q] \in {"start", "deploy", "push"}
        BY <1>2 DEF Start, Goto, Shape, Typed
      <3> QED
        BY <1>0, <2>1, <3>1 DEF AsClaimed
    <2> QED
      BY <2>1, <2>2 DEF Truthful
  <1>3. CASE Nobodys
    <2>1. UNCHANGED <<gitVars, pc, runVars>>
      BY <1>3, NobodysMeans
    <2>2. \A q \in Runs : AsClaimed(q)'
      BY <1>0, <2>1 DEF AsClaimed, gitVars, runVars
    <2>3. /\ ran \subseteq ran'
          /\ \A d \in Boxes : receipt'[d].result = "ok" =>
                \A p \in On_(d) : <<p, receipt'[d].commit.tree[p].pin>> \in ran'
      <3>1. CASE \E r \in Runs, b \in Boxes : PlayStep(r, b)
        BY <3>1, ReceiptsTrue
      <3>2. CASE UNCHANGED <<receipt, ran>>
        BY <3>2 DEF Truthful
      <3> QED
        BY <1>3, <3>1, <3>2 DEF Nobodys, LockExpires, Expire, boxVars
    <2>4. GoodLog(remote, ran') /\ \A c \in Checkouts : GoodTree(work[c], ran') /\ GoodLog(head[c], ran')
      BY <1>0, <2>3, GoodGrows
    <2> QED
      BY <2>1, <2>2, <2>3, <2>4 DEF Truthful, gitVars
  <1>4. ASSUME NEW c \in Checkouts, Sessions(c) PROVE Truthful'
    <2>1. /\ GoodLog(head'[c], ran) /\ GoodTree(work'[c], ran) /\ UNCHANGED <<ran, receipt>>
          /\ \A r \in Runs : AsClaimed(r)'
      BY <1>4, SessionsTrue, NextTyped
    <2>2. UNCHANGED remote /\ \A d \in Checkouts \ {c} : head'[d] = head[d] /\ work'[d] = work[d]
      BY <1>4, SessionsMeans DEF Shape
    <2>3. \A d \in Checkouts : GoodTree(work'[d], ran) /\ GoodLog(head'[d], ran)
      BY <1>0, <2>1, <2>2
    <2> QED
      BY <1>0, <2>1, <2>2, <2>3 DEF Truthful
  <1> QED
    BY <1>1, <1>2, <1>3, <1>4, NextMeans

LEMMA TruthHolds == Spec => []Truthful
  <1>1. Init => Truthful
    <2> SUFFICES ASSUME Init PROVE Truthful
      OBVIOUS
    <2>1. \A p \in Projects : <<p, 0>> \in ran
      BY DEF Init
    <2>2. GoodTree(Root.tree, ran)
      BY <2>1 DEF GoodTree, GoodRecord, Root, FirstRecord
    <2>3. GoodLog(<<Root>>, ran)
      BY <2>2 DEF GoodLog
    <2>4. \A b \in Boxes : \A p \in On_(b) : <<p, receipt[b].commit.tree[p].pin>> \in ran
      BY <2>1 DEF Init, On_, Root, FirstRecord
    <2> QED
      BY <2>2, <2>3, <2>4 DEF Init, Truthful, AsClaimed
  <1>2. Shape /\ Truthful /\ [Next]_vars => Truthful'
    <2> SUFFICES ASSUME Shape, Truthful, [Next]_vars PROVE Truthful'
      OBVIOUS
    <2>1. CASE UNCHANGED vars
      BY <2>1 DEF vars, gitVars, runVars, boxVars, Truthful, AsClaimed
    <2> QED
      BY <2>1, NextTruthful
  <1> QED
    BY <1>1, <1>2, ShapeHolds, PTL DEF Spec

\* The rollback target of every record in every checkout once ran on its box: through every
\* fault, stale receipt, take-over, rebase and undo, a record names no pin as good that no
\* box reported (Previous, box_results).
THEOREM TargetsRan == Spec => []PreviousRan
  <1>1. Truthful => PreviousRan
    BY DEF Truthful, GoodTree, GoodRecord, PreviousRan
  <1> QED
    BY <1>1, TruthHolds, PTL

-----------------------------------------------------------------------------
(* One deployer at a time.                                                   *)

Claims(record, r) == record.result = "pending" /\ record.claim = r
Free(tree, r) == \A p \in Projects : ~Claims(tree[p], r)
\* The records that name another run, or none: neither its claim nor its results.
Others(r) == Projects \X {record \in Records : ~Claims(record, r) /\ record.plan # r}

\* From its fleet commit to its report, and as long as its play goes on, a run deploys.
Deploying(r) == /\ job[r].members # {}
                /\ pc[r] \in {"committed", "pushed", "claimed", "playing", "played"} \/ Playing(r)

\* Before its commit no other checkout and no commit names a run.
UnwrittenAt(r) == pc[r] \in {"idle", "start", "pulled", "planned", "written"} =>
    /\ InLog(remote, Others(r))
    /\ \A c \in Checkouts : /\ InLog(head[c], Others(r))
                            /\ (pc[r] = "written" /\ c = At[r]) \/ InTree(work[c], Others(r))
    /\ \A q \in Runs : InTree(claimed[q].tree, Others(r))
Unwritten == \A r \in Runs : UnwrittenAt(r)

\* What a run has on disk and in its branch while it holds the checkout.
KeptAt(r) ==
    /\ pc[r] = "planned" => Clean(At[r])
    /\ pc[r] = "written" => \A p \in Projects :
         IF p \in job[r].members THEN Claims(work[At[r]][p], r)
         ELSE work[At[r]][p] = Tree(head[At[r]])[p]
    /\ (pc[r] \in {"committed", "pushed", "claimed", "playing"} /\ job[r].kind # "deploy") \/ pc[r] = "played" =>
         Tree(head[At[r]]) = claimed[r].tree
    /\ Playing(r) => pc[r] \in {"playing", "off"} /\ (job[r].members = {} => excuses # {})
    /\ job[r].kind \in {"deploy", "push"} => job[r].members = {}
Kept == \A r \in Runs : KeptAt(r)

\* The claims of a run that deploys are in its fleet commit, that commit on the remote.
HoldsAt(r) == Deploying(r) =>
    /\ \A p \in job[r].members : Claims(claimed[r].tree[p], r)
    /\ pc[r] \in {"claimed", "playing", "played"} \/ Playing(r) => Holds(remote, claimed[r])
Held == \A r \in Runs : HoldsAt(r)

\* They stay in every commit after it, on every branch.
Lasts(log, r) == \A i \in DOMAIN log : i + 1 \in DOMAIN log =>
    \A p \in Projects : Claims(log[i].tree[p], r) => Claims(log[i+1].tree[p], r)
LastsAt(r) == excuses = {} /\ Deploying(r) => Lasts(remote, r) /\ \A c \in Checkouts : Lasts(head[c], r)
Lasting == \A r \in Runs : LastsAt(r)

\* And no other run builds a commit on them.
ApartAt(q, r) == excuses = {} /\ Deploying(r) =>
    /\ Deploying(q) => Free(claimed[q].tree, r)
    /\ pc[q] \in {"planned", "written"} => Free(Tree(head[At[q]]), r)
Apart == \A q, r \in Runs : q # r => ApartAt(q, r)

LEMMA FreeMeans ==
    ASSUME NEW r, NEW tree
    PROVE  InTree(tree, Others(r)) => Free(tree, r)
  BY DEF InTree, Others, Free

\* Where a step takes the run that makes it.
LEMMA Moves ==
    ASSUME Typed, NEW r \in Runs, Mine(r)
    PROVE  /\ job' = job /\ (CommitLocks(r) \/ claimed' = claimed)
           /\ \/ pc'[r] = "off" \/ (Rebase(r) /\ pc[r] = "push" /\ pc'[r] = "push")
              \/ pc[r] = "start" /\ pc'[r] = "pulled"
              \/ Plan(r) /\ pc[r] = "pulled" /\ pc'[r] = "planned"
              \/ WriteLocks(r) /\ pc[r] = "planned" /\ pc'[r] = "written"
              \/ CommitLocks(r) /\ pc[r] = "written" /\ pc'[r] = "committed"
              \/ pc[r] = "committed" /\ pc'[r] = "pushed"
              \/ pc[r] = "pushed" /\ pc'[r] = "claimed" /\ Holds(remote, claimed[r])
              \/ pc[r] = "deploy" /\ pc'[r] = "claimed"
              \/ StartPlay(r) /\ pc[r] = "claimed" /\ pc'[r] = "playing"
              \/ pc[r] = "playing" /\ pc'[r] = "played" /\ Over(r) /\ job[r].kind # "deploy"
              \/ Report(r) /\ pc[r] = "played" /\ pc'[r] = "push"
  <1>0. pc \in [Runs -> Places]
    BY DEF Typed
  <1>1. CASE Pull(r) \/ Plan(r) \/ WriteLocks(r) \/ CommitLocks(r) \/ PushClaim(r)
    BY <1>0, <1>1 DEF Pull, Plan, WriteLocks, CommitLocks, PushClaim, Goto, Exit, runVars
  <1>2. CASE CheckClaim(r)
    BY <1>0, <1>2 DEF CheckClaim, Undo, UndoFrom, Goto, Exit, runVars
  <1>3. CASE StartPlay(r) \/ EndPlay(r) \/ Report(r) \/ Prepare(r)
    BY <1>0, <1>3 DEF StartPlay, EndPlay, Report, Prepare, Goto, Exit, runVars
  <1>4. CASE PushReceipt(r)
    <2>1. Rebase(r) \/ pc'[r] = "off"
      BY <1>0, <1>4 DEF PushReceipt, Rebase, Exit, Goto
    <2> QED
      BY <1>4, <2>1 DEF PushReceipt, Rebase
  <1>5. CASE Unwind(r)
    BY <1>0, <1>5 DEF Unwind, Undo, UndoWrites, UndoFrom, Exit, Goto, runVars
  <1>6. CASE Interrupt(r) \/ Die(r)
    BY <1>0, <1>6 DEF Interrupt, Die, Exit, Goto, runVars
  <1> QED
    BY <1>1, <1>2, <1>3, <1>4, <1>5, <1>6, Zenon DEF Mine, RunStep

LEMMA ExcusesGrow == ASSUME Next PROVE excuses \subseteq excuses'
  <1>1. ASSUME NEW r \in Runs, Mine(r) PROVE excuses \subseteq excuses'
    BY <1>1 DEF Mine, RunStep, Pull, Plan, WriteLocks, CommitLocks, PushClaim, CheckClaim, StartPlay, EndPlay,
       Report, PushReceipt, Prepare, Unwind, Interrupt, Die, history
  <1>2. ASSUME NEW r \in Runs, Start(r) PROVE excuses \subseteq excuses'
    BY <1>2 DEF Start, history
  <1>3. CASE Nobodys
    BY <1>3 DEF Nobodys, PlayStep, Look, Take, Reconcile, ReconcileFails, Release, LockExpires, Expire, history
  <1>4. ASSUME NEW c \in Checkouts, Sessions(c) PROVE excuses \subseteq excuses'
    BY <1>4 DEF Sessions, HandCommit, Restore
  <1> QED
    BY <1>1, <1>2, <1>3, <1>4, NextMeans

\* A run whose turn it is not, as far as these invariants look at it.
Still(r) ==
    /\ pc'[r] = pc[r] /\ job'[r] = job[r] /\ claimed'[r] = claimed[r]
    /\ Live(r) => work'[At[r]] = work[At[r]] /\ Tree(head'[At[r]]) = Tree(head[At[r]])
LEMMA HandTree ==
    ASSUME Shape, NEW c \in Checkouts, HandCommit(c)
    PROVE  \E e \in Commits : e.tree = Tree(head[c]) /\ head' = [head EXCEPT ![c] = Append(head[c], e)]
                              /\ Tree(head'[c]) = Tree(head[c])
  <1> DEFINE e == Commit(c, "hand", Tree(head[c]))
  <1>1. e \in Commits /\ e.tree = Tree(head[c]) /\ head[c] \in Seq(Commits)
    BY TreeTyped, CommitTyped DEF Shape, Typed, Commit
  <1>2. head' = [head EXCEPT ![c] = Append(head[c], e)] /\ head'[c] = Append(head[c], e)
    BY DEF HandCommit, Shape, Typed
  <1> HIDE DEF e
  <1>3. Tree(head'[c]) = Tree(head[c])
    BY <1>1, <1>2 DEF Tree, Last
  <1> QED
    BY <1>1, <1>2, <1>3
LEMMA StillMeans ==
    ASSUME Shape, Next, NEW r \in Runs, ~Mine(r), ~Start(r)
    PROVE  Still(r)
  <1>1. ASSUME NEW q \in Runs, Mine(q) \/ Start(q) PROVE Still(r)
    <2>1. q # r
      BY <1>1
    <2> QED
      BY <1>1, <2>1, OthersKeep DEF Shape, Still, Tree
  <1>2. CASE Nobodys
    BY <1>2, NobodysMeans DEF Still, gitVars, runVars, Tree
  <1>3. ASSUME NEW c \in Checkouts, Sessions(c) PROVE Still(r)
    <2>1. UNCHANGED <<pc, runVars>> /\ \A d \in Checkouts \ {c} : head'[d] = head[d] /\ work'[d] = work[d]
      BY <1>3, SessionsMeans DEF Shape
    <2>2. At[r] \in Checkouts
      OBVIOUS
    <2>3. CASE At[r] # c
      BY <2>1, <2>2, <2>3 DEF Still, runVars, Tree
    <2>4. CASE At[r] = c /\ HandCommit(c)
      <3>1. Tree(head'[c]) = Tree(head[c])
        BY <2>4, HandTree
      <3>2. UNCHANGED work
        BY <2>4 DEF HandCommit
      <3> QED
        BY <2>1, <2>4, <3>1, <3>2 DEF Still, runVars
    <2>5. CASE At[r] = c /\ Restore(c)
      BY <2>1, <2>5 DEF Still, runVars, Restore, Busy
    <2> QED
      BY <1>3, <2>3, <2>4, <2>5 DEF Sessions
  <1> QED
    BY <1>1, <1>2, <1>3, NextMeans

\* Who plays after a step played before it, or starts now.
LEMMA PlayingBefore ==
    ASSUME Shape, Next, NEW r \in Runs
    PROVE  Playing(r)' => Playing(r) \/ StartPlay(r)
  BY PlayingStays DEF Shape

LEMMA OneStep ==
    ASSUME NEW r \in Runs, Mine(r)
    PROVE  /\ StartPlay(r) => pc[r] = "claimed"
           /\ CommitLocks(r) => pc[r] = "written"
           /\ WriteLocks(r) => pc[r] = "planned"
           /\ Plan(r) => pc[r] = "pulled"
  BY DEF StartPlay, CommitLocks, WriteLocks, Plan

LEMMA DeployingBefore ==
    ASSUME Shape, Kept, Next, NEW r \in Runs, Deploying(r)'
    PROVE  /\ job'[r] = job[r] /\ job[r].members # {}
           /\ Deploying(r) \/ CommitLocks(r)
           /\ ~CommitLocks(r) => claimed'[r] = claimed[r]
  <1>0. KeptAt(r) /\ PlacedAt(r) /\ pc \in [Runs -> Places] /\ (Playing(r)' => Playing(r) \/ StartPlay(r))
    BY PlayingBefore DEF Kept, Shape, Placed, Typed
  <1>1. CASE ~Mine(r) /\ ~Start(r)
    <2>1. Still(r)
      BY <1>1, StillMeans
    <2>2. ~StartPlay(r) /\ ~CommitLocks(r)
      BY <1>1 DEF Mine, RunStep
    <2> QED
      BY <1>0, <2>1, <2>2 DEF Still, Deploying
  <1>2. CASE Start(r)
    <2>1. pc[r] = "idle" /\ pc'[r] \in {"start", "deploy", "push"}
      BY <1>0, <1>2 DEF Start, Goto
    <2>2. Playing(r)'
      BY <2>1 DEF Deploying
    <2>3. ~StartPlay(r)
      BY <2>1 DEF StartPlay
    <2> QED
      BY <1>0, <2>1, <2>2, <2>3 DEF KeptAt
  <1>3. CASE Mine(r)
    <2>1. job' = job /\ (CommitLocks(r) \/ claimed' = claimed)
      BY <1>3, Moves DEF Shape
    <2>2. job'[r] = job[r] /\ job[r].members # {}
      BY <2>1 DEF Deploying
    <2>3. ASSUME ~Deploying(r) PROVE CommitLocks(r)
      <3>1. ~Playing(r) /\ pc[r] \notin {"committed", "pushed", "claimed", "playing", "played"}
        BY <2>2, <2>3 DEF Deploying
      <3>2. ~StartPlay(r)
        BY <3>1 DEF StartPlay
      <3>3. pc'[r] \in {"committed", "pushed", "claimed", "playing", "played"}
        BY <1>0, <3>1, <3>2 DEF Deploying
      <3>4. pc[r] # "deploy"
        BY <1>0, <2>2 DEF KeptAt, PlacedAt
      <3> QED
        BY <1>3, <3>1, <3>2, <3>3, <3>4, Moves DEF Shape
    <2> QED
      BY <2>1, <2>2, <2>3
  <1> QED
    BY <1>1, <1>2, <1>3

LEMMA WritesLocks ==
    ASSUME Shape, NEW r \in Runs, WriteLocks(r)
    PROVE  /\ UNCHANGED <<remote, head, job, claimed>>
           /\ \A d \in Checkouts \ {At[r]} : work'[d] = work[d]
           /\ \A p \in Projects : IF p \in job[r].members THEN Claims(work'[At[r]][p], r)
                                  ELSE work'[At[r]][p] = work[At[r]][p]
  BY DEF WriteLocks, Shape, Typed, Pending, Claims

LEMMA CommitsLocks ==
    ASSUME Shape, NEW r \in Runs, CommitLocks(r)
    PROVE  /\ UNCHANGED <<remote, work, job>> /\ pc[r] = "written" /\ pc'[r] = "committed"
           /\ claimed'[r].tree = work[At[r]] /\ Tree(head'[At[r]]) = work[At[r]]
           /\ \A q \in Runs \ {r} : claimed'[q] = claimed[q]
  <1> DEFINE c == At[r]
             fleet == Commit(r, "fleet", work[c])
  <1>0. work[c] \in Trees /\ head \in [Checkouts -> Seq(Commits)] /\ c \in Checkouts
        /\ claimed \in [Runs -> Commits] /\ pc \in [Runs -> Places]
    BY DEF Shape, Typed
  <1>1. fleet \in Commits /\ fleet.tree = work[c]
    BY <1>0, CommitTyped DEF Commit
  <1>2. /\ head' = [head EXCEPT ![c] = Append(head[c], fleet)] /\ claimed' = [claimed EXCEPT ![r] = fleet]
        /\ UNCHANGED <<remote, work, job>> /\ pc[r] = "written" /\ pc' = [pc EXCEPT ![r] = "committed"]
    BY DEF CommitLocks, Goto
  <1> HIDE DEF fleet, c
  <1>3. head'[c] = Append(head[c], fleet) /\ claimed'[r] = fleet
    BY <1>0, <1>2
  <1>4. Tree(head'[c]) = fleet.tree
    BY <1>0, <1>1, <1>3 DEF Tree, Last
  <1> QED
    BY <1>0, <1>1, <1>2, <1>3, <1>4 DEF c

LEMMA KeptStays ==
    ASSUME NEW r \in Runs, KeptAt(r), Still(r), Playing(r)' => Playing(r), excuses \subseteq excuses'
    PROVE  KeptAt(r)'
  <1>1. Live(r) => (Clean(At[r]) => Clean(At[r])')
    BY DEF Still, Clean, Tree
  <1>2. pc'[r] = "planned" => Clean(At[r])'
    BY <1>1 DEF KeptAt, Still, Live
  <1>3. pc'[r] = "written" => \A p \in Projects :
          IF p \in job'[r].members THEN Claims(work'[At[r]][p], r)
          ELSE work'[At[r]][p] = Tree(head'[At[r]])[p]
    BY DEF KeptAt, Still, Live
  <1>4. (pc'[r] \in {"committed", "pushed", "claimed", "playing"} /\ job'[r].kind # "deploy") \/ pc'[r] = "played" =>
          Tree(head'[At[r]]) = claimed'[r].tree
    BY DEF KeptAt, Still, Live
  <1>5. /\ Playing(r)' => pc'[r] \in {"playing", "off"} /\ (job'[r].members = {} => excuses' # {})
        /\ job'[r].kind \in {"deploy", "push"} => job'[r].members = {}
    BY DEF KeptAt, Still
  <1> QED
    BY <1>2, <1>3, <1>4, <1>5 DEF KeptAt, Tree, Claims

LEMMA MineKept == ASSUME Shape, Kept, Next, NEW r \in Runs, Mine(r) PROVE KeptAt(r)'
  <1> DEFINE c == At[r]
  <1>0. /\ KeptAt(r) /\ PlacedAt(r) /\ pc \in [Runs -> Places] /\ (Playing(r)' => Playing(r) \/ StartPlay(r))
        /\ job' = job /\ excuses \subseteq excuses'
    BY PlayingBefore, Moves, ExcusesGrow DEF Kept, Shape, Placed, Typed
  <1>1. job'[r].kind \in {"deploy", "push"} => job'[r].members = {}
    BY <1>0 DEF KeptAt
  <1>2. Playing(r)' => pc'[r] \in {"playing", "off"} /\ (job'[r].members = {} => excuses' # {})
    <2>1. CASE StartPlay(r)
      <3>1. pc'[r] = "playing"
        BY <1>0, <2>1 DEF StartPlay, Goto
      <3>2. Playing(r)' /\ job[r].members = {} => "unclaimed" \in excuses'
        <4>1. CASE excuses' = excuses \cup IF job[r].members = {} THEN {"unclaimed"} ELSE {}
          BY <4>1
        <4>2. CASE play' = [play EXCEPT ![r] = [b \in Boxes |-> IF b \in Scope(r) THEN "failed" ELSE "no"]]
          BY <4>2 DEF Playing, Shape, Typed
        <4> QED
          BY <2>1, <4>1, <4>2 DEF StartPlay
      <3> QED
        BY <1>0, <3>1, <3>2
    <2>2. CASE ~StartPlay(r)
      <3> SUFFICES ASSUME Playing(r)' PROVE pc'[r] \in {"playing", "off"} /\ (job'[r].members = {} => excuses' # {})
        OBVIOUS
      <3>1. Playing(r)
        BY <1>0, <2>2
      <3>2. pc[r] = "playing"
        BY <1>0, <3>1, MineAside DEF KeptAt, Live, Shape
      <3>3. ~Over(r)
        BY <3>1 DEF Playing, Over
      <3>4. pc'[r] = "off" \/ pc'[r] = "playing"
        BY <3>2, <3>3, Moves DEF Shape
      <3> QED
        BY <1>0, <3>1, <3>4 DEF KeptAt
    <2> QED
      BY <2>1, <2>2
  <1>3. pc'[r] = "planned" => Clean(c)'
    <2> SUFFICES ASSUME pc'[r] = "planned" PROVE Clean(c)'
      OBVIOUS
    <2>1. Plan(r)
      BY Moves DEF Shape
    <2>2. Clean(c) /\ UNCHANGED <<head, work>>
      BY <1>0, <2>1 DEF Plan, Blocked, Exit, Goto, gitVars
    <2> QED
      BY <2>2 DEF Clean, Tree
  <1>4. pc'[r] = "written" => \A p \in Projects :
          IF p \in job'[r].members THEN Claims(work'[c][p], r) ELSE work'[c][p] = Tree(head'[c])[p]
    <2> SUFFICES ASSUME pc'[r] = "written"
                 PROVE \A p \in Projects :
                         IF p \in job'[r].members THEN Claims(work'[c][p], r) ELSE work'[c][p] = Tree(head'[c])[p]
      OBVIOUS
    <2>1. WriteLocks(r) /\ pc[r] = "planned"
      BY Moves DEF Shape
    <2>2. Clean(c)
      BY <1>0, <2>1 DEF KeptAt
    <2> QED
      BY <1>0, <2>1, <2>2, WritesLocks DEF Clean
  <1>5. (pc'[r] \in {"committed", "pushed", "claimed", "playing"} /\ job'[r].kind # "deploy") \/ pc'[r] = "played" =>
          Tree(head'[c]) = claimed'[r].tree
    <2>1. CASE CommitLocks(r)
      BY <2>1, CommitsLocks
    <2>2. CASE \/ pc[r] = "committed" /\ pc'[r] = "pushed"
               \/ pc[r] = "pushed" /\ pc'[r] = "claimed"
               \/ pc[r] = "claimed" /\ pc'[r] = "playing"
               \/ pc[r] = "playing" /\ pc'[r] = "played" /\ job[r].kind # "deploy"
      <3>1. ~CommitLocks(r)
        BY <2>2 DEF CommitLocks
      <3>2. claimed' = claimed
        BY <3>1, Moves DEF Shape
      <3>3. UNCHANGED head
        <4>1. ~Pull(r) /\ ~Prepare(r) /\ ~Report(r) /\ ~PushReceipt(r) /\ pc'[r] # "off"
          BY <2>2 DEF Pull, Prepare, Report, PushReceipt
        <4>2. ASSUME NEW last, NEW how PROVE ~UndoFrom(r, last, how)
          BY <1>0, <4>1 DEF UndoFrom, Exit, Goto
        <4> QED
          BY <3>1, <4>1, <4>2 DEF Mine, RunStep, Plan, WriteLocks, PushClaim, CheckClaim, StartPlay, EndPlay, Unwind,
             Undo, UndoWrites, Interrupt, Die, gitVars
      <3> QED
        BY <1>0, <2>2, <3>2, <3>3 DEF KeptAt
    <2>3. CASE pc[r] = "deploy"
      <3>1. job'[r].kind = "deploy" /\ pc'[r] # "played"
        BY <1>0, <2>3, Moves DEF PlacedAt, Shape
      <3> QED
        BY <3>1
    <2>4. CASE pc'[r] \notin {"committed", "pushed", "claimed", "playing", "played"}
      BY <2>4
    <2> QED
      BY <2>1, <2>2, <2>3, <2>4, Moves DEF Shape
  <1> HIDE DEF c
  <1> QED
    BY <1>1, <1>2, <1>3, <1>4, <1>5 DEF KeptAt, c, Tree, Claims

LEMMA NextKept == ASSUME Shape, Kept, Next PROVE Kept'
  <1> SUFFICES ASSUME NEW r \in Runs PROVE KeptAt(r)'
    BY DEF Kept
  <1>0. KeptAt(r) /\ PlacedAt(r) /\ pc \in [Runs -> Places] /\ (Playing(r)' => Playing(r) \/ StartPlay(r))
    BY PlayingBefore DEF Kept, Shape, Placed, Typed
  <1>1. CASE Mine(r)
    BY <1>1, MineKept
  <1>2. CASE Start(r)
    <2>1. PICK j \in Jobs[r] : job' = [job EXCEPT ![r] = j]
      BY <1>2 DEF Start
    <2>2. pc[r] = "idle" /\ pc'[r] \in {"start", "deploy", "push"}
      BY <1>0, <1>2 DEF Start, Goto
    <2>3. job'[r] = j
      BY <2>1 DEF Shape, Typed
    <2>4. j.kind \in {"deploy", "push"} => j.members = {}
      OBVIOUS
    <2>5. ~Playing(r)'
      BY <1>0, <2>2 DEF KeptAt, StartPlay
    <2> QED
      BY <2>2, <2>3, <2>4, <2>5 DEF KeptAt
  <1>3. CASE ~Mine(r) /\ ~Start(r)
    <2>1. ~StartPlay(r)
      BY <1>3 DEF Mine, RunStep
    <2> QED
      BY <1>0, <1>3, <2>1, StillMeans, ExcusesGrow, KeptStays
  <1> QED
    BY <1>1, <1>2, <1>3

LEMMA NextHeld == ASSUME Shape, Kept, Held, Next PROVE Held'
  <1> SUFFICES ASSUME NEW r \in Runs, Deploying(r)'
               PROVE  /\ \A p \in job'[r].members : Claims(claimed'[r].tree[p], r)
                      /\ pc'[r] \in {"claimed", "playing", "played"} \/ Playing(r)' => Holds(remote', claimed'[r])
    BY DEF Held, HoldsAt, Claims, Holds
  <1>0. /\ KeptAt(r) /\ PlacedAt(r) /\ pc \in [Runs -> Places] /\ (Playing(r)' => Playing(r) \/ StartPlay(r))
        /\ job'[r] = job[r] /\ job[r].members # {} /\ (Deploying(r) \/ CommitLocks(r))
        /\ ~CommitLocks(r) => claimed'[r] = claimed[r]
        /\ HoldsAt(r) /\ job[r] \in JobSet \cup {NoJob}
    BY PlayingBefore, DeployingBefore DEF Kept, Held, Shape, Placed, Typed
  <1>1. CASE CommitLocks(r)
    <2>1. claimed'[r].tree = work[At[r]] /\ pc[r] = "written" /\ pc'[r] = "committed"
      BY <1>1, CommitsLocks
    <2>2. \A p \in job[r].members : p \in Projects
      BY <1>0 DEF JobSet, NoJob
    <2>3. \A p \in job[r].members : Claims(work[At[r]][p], r)
      BY <1>0, <2>1, <2>2 DEF KeptAt
    <2>4. ~Playing(r)'
      BY <1>0, <2>1 DEF KeptAt, StartPlay
    <2> QED
      BY <1>0, <2>1, <2>3, <2>4
  <1>2. CASE ~CommitLocks(r)
    <2>1. claimed'[r] = claimed[r] /\ Deploying(r)
      BY <1>0, <1>2
    <2>2. \A p \in job[r].members : Claims(claimed[r].tree[p], r)
      BY <1>0, <2>1 DEF HoldsAt
    <2>3. Holds(remote, claimed[r]) => Holds(remote', claimed[r])
      <3>1. remote \in Seq(Commits) /\ remote' \in Seq(Commits) /\ Pre(remote, remote')
        BY NextTyped, RemoteGrows DEF Shape, Typed
      <3> QED
        BY <3>1, PreKeeps
    <2>4. pc'[r] \in {"claimed", "playing", "played"} \/ Playing(r)' => Holds(remote, claimed[r])
      <3> SUFFICES ASSUME pc'[r] \in {"claimed", "playing", "played"} \/ Playing(r)' PROVE Holds(remote, claimed[r])
        OBVIOUS
      <3>1. CASE pc[r] \in {"claimed", "playing", "played"} \/ Playing(r)
        BY <1>0, <2>1, <3>1 DEF HoldsAt
      <3>2. CASE pc[r] \notin {"claimed", "playing", "played"} /\ ~Playing(r)
        <4>1. pc'[r] \in {"claimed", "playing", "played"}
          BY <1>0, <3>2 DEF StartPlay
        <4>2. Mine(r)
          <5>1. ~Mine(r) /\ ~Start(r) => pc'[r] = pc[r]
            BY StillMeans DEF Still
          <5>2. ~Start(r)
            BY <1>0, <4>1 DEF Start, Goto
          <5> QED
            BY <3>2, <4>1, <5>1, <5>2
        <4>3. pc[r] # "deploy"
          BY <1>0 DEF KeptAt, PlacedAt
        <4> QED
          BY <3>2, <4>1, <4>2, <4>3, Moves DEF Shape
      <3> QED
        BY <3>1, <3>2
    <2> QED
      BY <1>0, <2>1, <2>2, <2>3, <2>4
  <1> QED
    BY <1>1, <1>2

-----------------------------------------------------------------------------
(* Before the fleet commit.                                                  *)

LEMMA OthersWrite ==
    ASSUME Shape, NEW q \in Runs, Mine(q), NEW r \in Runs, r # q, InTree(work[At[q]], Others(r))
    PROVE  Writes(q, Others(r)) /\ Stamps(q, Others(r))
  <1> DEFINE c == At[q]
  <1>0. c \in Checkouts /\ work[c] \in Trees /\ PlacedAt(q) /\ job[q] \in JobSet
    <2>1. Live(q)
      BY MineAside DEF Shape
    <2> QED
      BY <2>1 DEF Shape, Typed, Placed, PlacedAt, Live
  <1>1. Free(work[c], r)
    BY FreeMeans
  <1>2. Writes(q, Others(r))
    <2> SUFFICES ASSUME pc[q] = "planned", NEW p \in job[q].members
                 PROVE  <<p, Pending(q, work[c][p], WantedPin(q, p))>> \in Others(r)
      BY DEF Writes
    <2>1. p \in Projects /\ work[c][p] \in Records /\ WantedPin(q, p) \in Pins
      BY <1>0, WantedTyped DEF JobSet, Trees, Shape
    <2>2. Pending(q, work[c][p], WantedPin(q, p)) \in Records
      BY <2>1, PendingTyped
    <2>3. LET record == Pending(q, work[c][p], WantedPin(q, p)) IN record.claim = q /\ record.plan = q
      BY DEF Pending
    <2> PICK record : record = Pending(q, work[c][p], WantedPin(q, p))
      OBVIOUS
    <2> QED
      BY <2>1, <2>2, <2>3 DEF Others, Claims
  <1>3. Stamps(q, Others(r))
    <2> SUFFICES ASSUME NEW p \in Projects, NEW read PROVE <<p, Recorded(q, p, read)>> \in Others(r)
      BY DEF Stamps
    <2> PICK record : record = Recorded(q, p, read)
      OBVIOUS
    <2>1. record \in Records
      BY RecordedTyped DEF Shape
    <2>2. record = work[c][p] \/ (record.claim = None /\ record.plan = q)
      BY <1>0 DEF Recorded, Result, Trees, Records
    <2>3. ~Claims(record, r) /\ record.plan # r
      BY <1>1, <2>2 DEF Free, Claims, InTree, Others
    <2> QED
      BY <2>1, <2>3 DEF Others
  <1> QED
    BY <1>2, <1>3

LEMMA OthersUnwritten ==
    ASSUME Shape, Unwritten, NEW q \in Runs, Mine(q), NEW r \in Runs, r # q
    PROVE  UnwrittenAt(r)'
  <1> DEFINE G == Others(r)
  <1>1. pc'[r] = pc[r] /\ (Live(r) => At[q] # At[r]) /\ Aside(q) /\ (CommitLocks(q) \/ claimed' = claimed)
    BY MineAside, Moves DEF Shape, Aside, Alone
  <1>4. At[q] \in Checkouts
    OBVIOUS
  <1> SUFFICES ASSUME pc[r] \in {"idle", "start", "pulled", "planned", "written"}
               PROVE  /\ InLog(remote', G)
                      /\ \A c \in Checkouts : /\ InLog(head'[c], G)
                                              /\ (pc'[r] = "written" /\ c = At[r]) \/ InTree(work'[c], G)
                      /\ \A s \in Runs : InTree(claimed'[s].tree, G)
    BY <1>1 DEF UnwrittenAt, InLog, InTree, Others, Claims
  <1>2. /\ InLog(remote, G) /\ InLog(head[At[q]], G) /\ InTree(work[At[q]], G)
        /\ \A s \in Runs : InTree(claimed[s].tree, G)
    BY <1>1, <1>4 DEF Unwritten, UnwrittenAt, Live
  <1>3. InLog(remote', G) /\ InLog(head'[At[q]], G) /\ InTree(work'[At[q]], G)
    BY <1>2, OthersWrite, MineRecords
  <1>5. \A s \in Runs : InTree(claimed'[s].tree, G)
    <2>1. CASE CommitLocks(q)
      BY <1>2, <2>1, CommitsLocks
    <2> QED
      BY <1>1, <1>2, <2>1
  <1> HIDE DEF G
  <1>6. ASSUME NEW c \in Checkouts
        PROVE  InLog(head'[c], G) /\ ((pc'[r] = "written" /\ c = At[r]) \/ InTree(work'[c], G))
    <2>1. CASE c = At[q]
      BY <1>3, <2>1
    <2>2. CASE c # At[q]
      BY <1>1, <2>2 DEF Aside, Unwritten, UnwrittenAt, G
    <2> QED
      BY <2>1, <2>2
  <1> QED
    BY <1>3, <1>5, <1>6

LEMMA MineUnwritten ==
    ASSUME Shape, Unwritten, NEW r \in Runs, Mine(r)
    PROVE  UnwrittenAt(r)'
  <1> DEFINE G == Others(r)
  <1>0. At[r] \in Checkouts /\ Aside(r) /\ pc[r] # "off"
    BY MineAside DEF Shape, Live
  <1> SUFFICES ASSUME pc'[r] \in {"idle", "start", "pulled", "planned", "written"}
               PROVE  /\ InLog(remote', G)
                      /\ \A c \in Checkouts : /\ InLog(head'[c], G)
                                              /\ (pc'[r] = "written" /\ c = At[r]) \/ InTree(work'[c], G)
                      /\ \A s \in Runs : InTree(claimed'[s].tree, G)
    BY DEF UnwrittenAt, InLog, InTree, Others, Claims
  <1>1. /\ pc[r] \in {"start", "pulled", "planned"} /\ (pc'[r] = "written" \/ pc[r] # "planned")
        /\ (pc[r] = "planned" => WriteLocks(r))
    BY Moves DEF Shape
  <1>2. claimed' = claimed
    BY <1>1, Moves DEF Shape, CommitLocks
  <1>3. /\ InLog(remote, G) /\ InLog(head[At[r]], G) /\ InTree(work[At[r]], G)
        /\ \A s \in Runs : InTree(claimed[s].tree, G)
    BY <1>0, <1>1 DEF Unwritten, UnwrittenAt
  <1>4. /\ InLog(remote', G) /\ InLog(head'[At[r]], G)
        /\ pc'[r] = "written" \/ InTree(work'[At[r]], G)
    <2>1. CASE pc[r] = "planned"
      BY <1>1, <1>3, <2>1, WritesLocks
    <2>2. CASE pc[r] # "planned"
      <3>1. Writes(r, G) /\ Stamps(r, G)
        BY <1>1, <2>2 DEF Writes, Stamps
      <3> QED
        BY <1>3, <3>1, MineRecords
    <2> QED
      BY <2>1, <2>2
  <1> HIDE DEF G
  <1>5. ASSUME NEW c \in Checkouts
        PROVE  InLog(head'[c], G) /\ ((pc'[r] = "written" /\ c = At[r]) \/ InTree(work'[c], G))
    <2>1. CASE c = At[r]
      BY <1>4, <2>1
    <2>2. CASE c # At[r]
      BY <1>0, <1>1, <2>2 DEF Aside, Unwritten, UnwrittenAt, G
    <2> QED
      BY <2>1, <2>2
  <1> QED
    BY <1>2, <1>3, <1>4, <1>5

LEMMA NextUnwritten == ASSUME Shape, Unwritten, Next PROVE Unwritten'
  <1> SUFFICES ASSUME NEW r \in Runs PROVE UnwrittenAt(r)'
    BY DEF Unwritten
  <1>0. UnwrittenAt(r) /\ pc \in [Runs -> Places]
    BY DEF Unwritten, Shape, Typed
  <1>1. ASSUME NEW q \in Runs, Mine(q) PROVE UnwrittenAt(r)'
    BY <1>1, OthersUnwritten, MineUnwritten
  <1>2. ASSUME NEW q \in Runs, Start(q) PROVE UnwrittenAt(r)'
    <2>1. /\ UNCHANGED <<remote, head, work, claimed>>
          /\ pc'[r] = pc[r] \/ (pc[r] = "idle" /\ pc'[r] \in {"start", "deploy", "push"})
      BY <1>0, <1>2 DEF Start, Goto, gitVars
    <2> QED
      BY <1>0, <2>1 DEF UnwrittenAt, InLog, InTree, Others, Claims
  <1>3. CASE Nobodys
    <2>1. UNCHANGED <<remote, head, work, claimed, pc>>
      BY <1>3, NobodysMeans DEF gitVars, runVars
    <2> QED
      BY <1>0, <2>1 DEF UnwrittenAt, InLog, InTree, Others, Claims
  <1>4. ASSUME NEW c \in Checkouts, Sessions(c) PROVE UnwrittenAt(r)'
    <2> DEFINE G == Others(r)
    <2>1. UNCHANGED <<remote, pc, claimed>> /\ \A d \in Checkouts \ {c} : head'[d] = head[d] /\ work'[d] = work[d]
      BY <1>4, SessionsMeans DEF Shape, runVars
    <2> SUFFICES ASSUME pc[r] \in {"idle", "start", "pulled", "planned", "written"}
                 PROVE  /\ InLog(remote, G)
                        /\ \A d \in Checkouts : /\ InLog(head'[d], G)
                                                /\ (pc[r] = "written" /\ d = At[r]) \/ InTree(work'[d], G)
                        /\ \A s \in Runs : InTree(claimed[s].tree, G)
      BY <2>1 DEF UnwrittenAt, InLog, InTree, Others, Claims
    <2>2. InLog(head'[c], G) /\ (InTree(work[c], G) => InTree(work'[c], G))
      BY <1>0, <1>4, SessionRecords DEF UnwrittenAt
    <2> QED
      BY <1>0, <2>1, <2>2 DEF UnwrittenAt
  <1> QED
    BY <1>1, <1>2, <1>3, <1>4, NextMeans

-----------------------------------------------------------------------------
(* A claim stays in every later commit.                                      *)

LEMMA FreeLasts == ASSUME NEW log, NEW r, InLog(log, Others(r)) PROVE Lasts(log, r)
  BY FreeMeans DEF Lasts, InLog, Free

LEMMA LastsAdd ==
    ASSUME NEW log \in Seq(Commits), log # <<>>, NEW e \in Commits, NEW r, Lasts(log, r),
           \A p \in Projects : Claims(Tree(log)[p], r) => Claims(e.tree[p], r)
    PROVE  Lasts(Append(log, e), r)
  <1> DEFINE new == Append(log, e)
  <1> SUFFICES ASSUME NEW i \in DOMAIN new, i + 1 \in DOMAIN new, NEW p \in Projects, Claims(new[i].tree[p], r)
               PROVE  Claims(new[i+1].tree[p], r)
    BY DEF Lasts
  <1>0. /\ Len(log) \in Nat /\ new \in Seq(Commits) /\ Len(new) = Len(log) + 1 /\ DOMAIN log = 1..Len(log)
        /\ new[Len(log) + 1] = e /\ \A k \in 1..Len(log) : new[k] = log[k]
        /\ DOMAIN new = 1..Len(new)
    BY AddLog
  <1> HIDE DEF new
  <1>1. CASE i + 1 <= Len(log)
    <2>1. i \in DOMAIN log /\ i + 1 \in DOMAIN log /\ new[i] = log[i] /\ new[i+1] = log[i+1]
      BY <1>0, <1>1
    <2> QED
      BY <2>1 DEF Lasts
  <1>2. CASE i + 1 > Len(log)
    <2>1. i = Len(log) /\ i \in 1..Len(log)
      BY <1>0, <1>2
    <2>2. new[i] = log[i] /\ new[i+1] = e /\ Last(log) = log[i]
      BY <1>0, <2>1 DEF Last
    <2> QED
      BY <2>2 DEF Tree
  <1> QED
    BY <1>0, <1>1, <1>2

LEMMA LastsCut ==
    ASSUME NEW log \in Seq(Commits), NEW n \in 1..Len(log), NEW r, Lasts(log, r)
    PROVE  Lasts(SubSeq(log, 1, n), r)
  <1> DEFINE new == SubSeq(log, 1, n)
  <1> SUFFICES ASSUME NEW i \in DOMAIN new, i + 1 \in DOMAIN new, NEW p \in Projects, Claims(new[i].tree[p], r)
               PROVE  Claims(new[i+1].tree[p], r)
    BY DEF Lasts
  <1>1. i \in DOMAIN log /\ i + 1 \in DOMAIN log /\ new[i] = log[i] /\ new[i+1] = log[i+1]
    BY CutLog
  <1> QED
    BY <1>1 DEF Lasts

LEMMA LastsRebase ==
    ASSUME Shape, NEW q \in Runs, Rebase(q), NEW r, Lasts(remote, r), Lasts(head[At[q]], r)
    PROVE  Lasts(head'[At[q]], r)
  <1> DEFINE c == At[q]
  <1>0. /\ c \in Checkouts /\ head \in [Checkouts -> Seq(Commits)] /\ remote \in Seq(Commits)
        /\ Len(remote) \in Nat \ {0} /\ Len(head[c]) \in Nat
    BY DEF Shape, Typed
  <1>n. PICK n \in 1..Len(head[c]) : \E log :
          Replayed(c, n, Len(head[c]) - n, log) /\ head' = [head EXCEPT ![c] = log]
    BY RebaseMeans DEF Shape
  <1>1. PICK log : Replayed(c, n, Len(head[c]) - n, log) /\ head' = [head EXCEPT ![c] = log]
    BY <1>n
  <1>2. /\ log \in Seq(Commits) /\ Len(log) \in Nat /\ n + (Len(head[c]) - n) = Len(head[c])
        /\ Len(remote) <= Len(log) /\ \A i \in 1..Len(remote) : log[i] = remote[i]
        /\ DOMAIN log = 1..Len(log) /\ DOMAIN remote = 1..Len(remote) /\ DOMAIN head[c] = 1..Len(head[c])
    BY <1>0, <1>1 DEF Replayed, Pre
  <1>3. Lasts(log, r)
    <2> SUFFICES ASSUME NEW i \in DOMAIN log, i + 1 \in DOMAIN log, NEW p \in Projects, Claims(log[i].tree[p], r)
                 PROVE  Claims(log[i+1].tree[p], r)
      BY DEF Lasts
    <2>1. CASE i + 1 <= Len(remote)
      <3>1. i \in DOMAIN remote /\ i + 1 \in DOMAIN remote /\ log[i] = remote[i] /\ log[i+1] = remote[i+1]
        BY <1>0, <1>2, <2>1
      <3> QED
        BY <3>1 DEF Lasts
    <2>2. CASE i + 1 > Len(remote)
      <3> DEFINE k == i + 1
      <3>1. k \in (Len(remote) + 1)..Len(log) /\ k - 1 = i
        BY <1>0, <1>2, <2>2
      <3> HIDE DEF k
      <3>2. PICK j \in (n + 1)..(n + (Len(head[c]) - n)) :
              \/ log[k].tree[p] = log[k-1].tree[p]
              \/ /\ log[k].tree[p] = head[c][j].tree[p]
                 /\ log[k-1].tree[p] \in {head[c][j-1].tree[p], head[c][j].tree[p]}
        BY <1>1, <3>1 DEF Replayed
      <3>3. j - 1 \in DOMAIN head[c] /\ (j - 1) + 1 = j /\ j \in DOMAIN head[c]
        BY <1>0, <1>2
      <3>4. Claims(head[c][j-1].tree[p], r) => Claims(head[c][j].tree[p], r)
        BY <3>3 DEF Lasts
      <3>5. Claims(log[k].tree[p], r)
        BY <3>1, <3>2, <3>4
      <3> QED
        BY <3>5 DEF k
    <2> QED
      BY <1>0, <1>2, <2>1, <2>2
  <1> QED
    BY <1>0, <1>1, <1>3

\* A step of a run breaks no claim, unless it builds a commit on it.
LEMMA MineLasts ==
    ASSUME Shape, NEW q \in Runs, Mine(q), NEW r, Lasts(remote, r), \A c \in Checkouts : Lasts(head[c], r),
           Adds(q) => Free(Tree(head[At[q]]), r) \/ UNCHANGED head
    PROVE  Lasts(remote', r) /\ \A c \in Checkouts : Lasts(head'[c], r)
  <1> DEFINE d == At[q]
  <1>0. /\ d \in Checkouts /\ head \in [Checkouts -> Seq(Commits)] /\ head[d] # <<>>
        /\ \A c \in Checkouts \ {d} : head'[c] = head[c]
    BY MineAside DEF Shape, Typed, Aside
  <1>1. CASE LogsStay
    BY <1>1 DEF LogsStay
  <1>2. CASE Pushes(q)
    BY <1>0, <1>2 DEF Pushes
  <1>3. CASE Forwards(q)
    BY <1>0, <1>3 DEF Forwards, Forward
  <1>4. CASE Adds(q) /\ ~UNCHANGED head
    <2>1. PICK e \in Commits : head' = [head EXCEPT ![d] = Append(head[d], e)]
      <3>1. PICK tree \in Trees : head' = [head EXCEPT ![d] = Append(head[d],
                  IF pc[q] = "written" THEN Commit(q, "fleet", tree) ELSE Commit(q, "receipt", tree))]
        BY <1>4 DEF Adds
      <3> QED
        BY <3>1, CommitTyped
    <2>2. Lasts(Append(head[d], e), r)
      <3>1. \A p \in Projects : ~Claims(Tree(head[d])[p], r)
        BY <1>4 DEF Free
      <3> QED
        BY <1>0, <3>1, LastsAdd
    <2>3. UNCHANGED remote
      BY <1>4 DEF Adds
    <2> HIDE DEF d
    <2> QED
      BY <1>0, <2>1, <2>2, <2>3
  <1>5. CASE Cuts(q)
    <2>1. base[q] \in 1..Len(head[d]) /\ head' = [head EXCEPT ![d] = SubSeq(head[d], 1, base[q])] /\ UNCHANGED remote
      BY <1>5 DEF Cuts
    <2>2. Lasts(SubSeq(head[d], 1, base[q]), r)
      BY <1>0, <2>1, LastsCut
    <2> HIDE DEF d
    <2> QED
      BY <1>0, <2>1, <2>2
  <1>6. CASE Rebase(q)
    <2>1. UNCHANGED remote
      BY <1>6 DEF Rebase
    <2> QED
      BY <1>0, <1>6, <2>1, LastsRebase
  <1>7. CASE UNCHANGED head /\ Adds(q)
    BY <1>7 DEF Adds
  <1> QED
    BY <1>1, <1>2, <1>3, <1>4, <1>5, <1>6, <1>7, MineLogs DEF Shape

\* A report of a run that deployed nothing of its own adds no commit.
LEMMA ReportKeeps ==
    ASSUME Shape, Truthful, Kept, NEW q \in Runs, Report(q), job[q].members = {}
    PROVE  UNCHANGED head
  <1>1. pc[q] = "played" /\ At[q] \in Checkouts
    BY DEF Report
  <1>2. work[At[q]] = Tree(head[At[q]]) /\ work[At[q]] \in Trees
    BY <1>1 DEF Truthful, AsClaimed, Kept, KeptAt, Shape, Typed
  <1> DEFINE Made(read, tree) ==
               /\ \A p \in Projects : tree[p] = IF job[q].members = {} THEN work[At[q]][p] ELSE Recorded(q, p, read)
               /\ work' = [work EXCEPT ![At[q]] = tree]
               /\ \/ tree = Tree(head[At[q]]) /\ head' = head
                  \/ /\ tree # Tree(head[At[q]])
                     /\ head' = [head EXCEPT ![At[q]] = Append(head[At[q]], Commit(q, "receipt", tree))]
  <1>3. \E read \in SUBSET Scope(q), tree \in Trees : Made(read, tree)
    BY ReportMeans DEF Shape
  <1>4. PICK read \in SUBSET Scope(q), tree \in Trees : Made(read, tree)
    BY <1>3
  <1>5. \A p \in Projects : tree[p] = work[At[q]][p]
    BY <1>4
  <1>6. tree = work[At[q]]
    BY <1>2, <1>5 DEF Trees
  <1> QED
    BY <1>2, <1>4, <1>6

LEMMA NextLasting ==
    ASSUME Shape, Truthful, Unwritten, Kept, Apart, Lasting, Next
    PROVE  Lasting'
  <1> SUFFICES ASSUME NEW r \in Runs, excuses' = {}, Deploying(r)'
               PROVE  Lasts(remote', r) /\ \A c \in Checkouts : Lasts(head'[c], r)
    BY DEF Lasting, LastsAt, Lasts, Claims
  <1>0. excuses = {} /\ (Deploying(r) \/ CommitLocks(r)) /\ pc \in [Runs -> Places]
    BY ExcusesGrow, DeployingBefore DEF Shape, Typed
  <1>1. Lasts(remote, r) /\ \A c \in Checkouts : Lasts(head[c], r)
    <2>1. CASE Deploying(r)
      BY <1>0, <2>1 DEF Lasting, LastsAt
    <2>2. CASE CommitLocks(r)
      BY <2>2, CommitsLocks, FreeLasts DEF Unwritten, UnwrittenAt
    <2> QED
      BY <1>0, <2>1, <2>2
  <1>2. ASSUME NEW q \in Runs, Mine(q) PROVE Lasts(remote', r) /\ \A c \in Checkouts : Lasts(head'[c], r)
    <2>0. At[q] \in Checkouts /\ head[At[q]] \in Seq(Commits) /\ head[At[q]] # <<>>
      BY DEF Shape, Typed
    <2>1. ASSUME Adds(q) PROVE Free(Tree(head[At[q]]), r) \/ UNCHANGED head
      <3>1. CASE CommitLocks(q) /\ q = r
        <4>1. InLog(head[At[q]], Others(r))
          BY <2>0, <3>1, CommitsLocks DEF Unwritten, UnwrittenAt
        <4> QED
          BY <2>0, <4>1, InLast, FreeMeans
      <3>2. CASE CommitLocks(q) /\ q # r
        <4>1. ~CommitLocks(r)
          BY <1>2, <3>2, CommitsLocks, MineAside DEF Shape, Aside
        <4> QED
          BY <1>0, <3>2, <4>1, CommitsLocks DEF Apart, ApartAt
      <3>3. CASE Report(q) /\ q = r
        <4>1. pc[r] = "played" /\ pc'[r] = "push"
          BY <1>0, <3>3 DEF Report, Goto
        <4>2. ~Playing(r)'
          BY <4>1, PlayingBefore DEF Kept, KeptAt, StartPlay
        <4> QED
          BY <4>1, <4>2 DEF Deploying
      <3>4. CASE Report(q) /\ q # r
        <4>1. pc[q] = "played"
          BY <3>4 DEF Report
        <4>2. CASE job[q].members = {}
          BY <3>4, <4>2, ReportKeeps
        <4>3. CASE job[q].members # {}
          <5>1. Deploying(q) /\ Tree(head[At[q]]) = claimed[q].tree
            BY <4>1, <4>3 DEF Deploying, Kept, KeptAt
          <5>2. ~CommitLocks(r)
            <6>1. pc'[r] = pc[r]
              BY <1>2, <3>4, MineAside DEF Shape, Aside
            <6> QED
              BY <6>1, CommitsLocks
          <5> QED
            BY <1>0, <3>4, <5>1, <5>2 DEF Apart, ApartAt
        <4> QED
          BY <4>2, <4>3
      <3> QED
        BY <2>1, <3>1, <3>2, <3>3, <3>4 DEF Adds
    <2> QED
      BY <1>1, <1>2, <2>1, MineLasts
  <1>3. ASSUME NEW q \in Runs, Start(q) PROVE Lasts(remote', r) /\ \A c \in Checkouts : Lasts(head'[c], r)
    BY <1>1, <1>3 DEF Start, gitVars
  <1>4. CASE Nobodys
    BY <1>1, <1>4, NobodysMeans DEF gitVars
  <1>5. ASSUME NEW c \in Checkouts, Sessions(c) PROVE Lasts(remote', r) /\ \A d \in Checkouts : Lasts(head'[d], r)
    <2>0. UNCHANGED remote /\ head[c] \in Seq(Commits) /\ head[c] # <<>> /\ head \in [Checkouts -> Seq(Commits)]
      BY <1>5, SessionsMeans DEF Shape, Typed
    <2>1. CASE HandCommit(c)
      <3>1. PICK e \in Commits : e.tree = Tree(head[c]) /\ head' = [head EXCEPT ![c] = Append(head[c], e)]
        BY <2>1, HandTree
      <3>2. Lasts(Append(head[c], e), r)
        BY <1>1, <2>0, <3>1, LastsAdd
      <3> QED
        BY <1>1, <2>0, <3>1, <3>2
    <2>2. CASE Restore(c)
      BY <1>1, <2>0, <2>2 DEF Restore
    <2> QED
      BY <1>5, <2>1, <2>2 DEF Sessions
  <1> QED
    BY <1>2, <1>3, <1>4, <1>5, NextMeans

-----------------------------------------------------------------------------
(* Nobody builds on a claim.                                                 *)

\* The gate: whoever plans over the claim of a run that deploys has an excuse.
LEMMA PlansApart ==
    ASSUME Shape, NEW q \in Runs, Plan(q), pc'[q] = "planned", excuses' = {}, NEW r \in Runs, r # q, Deploying(r)
    PROVE  Free(Tree(head[At[q]]), r)
  <1>0. pc \in [Runs -> Places] /\ At[q] \in Checkouts
    BY DEF Shape, Typed
  <1>1. ~Blocked(q) /\ excuses' = excuses \cup Shares(q)
    BY <1>0 DEF Plan, Exit, Goto
  <1>2. Shares(q) = {} /\ Clean(At[q])
    BY <1>1 DEF Blocked
  <1> SUFFICES ASSUME NEW p \in Projects, Claims(work[At[q]][p], r) PROVE FALSE
    BY <1>2 DEF Free, Clean
  <1>3. Live(r) \/ Playing(r)
    BY DEF Deploying, Live
  <1>4. ~job[q].takeOver /\ r \notin old /\ Live(r)
    BY <1>2, <1>3 DEF Shares, Claims
  <1>5. Fresh(work[At[q]][p]) /\ work[At[q]][p].claim = r
    BY <1>4 DEF Fresh, Claims
  <1>6. ClaimState(q, r) = "live"
    BY <1>4 DEF ClaimState, Live
  <1>7. r \in ForeignClaims(q)
    BY <1>5, <1>6 DEF ForeignClaims
  <1> QED
    BY <1>1, <1>4, <1>7 DEF Blocked

LEMMA NextApart ==
    ASSUME Shape, Unwritten, Kept, Apart, Next
    PROVE  Apart'
  <1> SUFFICES ASSUME NEW q \in Runs, NEW r \in Runs, q # r, excuses' = {}, Deploying(r)'
               PROVE  /\ Deploying(q)' => Free(claimed'[q].tree, r)
                      /\ pc'[q] \in {"planned", "written"} => Free(Tree(head'[At[q]]), r)
    BY DEF Apart, ApartAt, Free, Claims, Tree
  <1>0. /\ excuses = {} /\ (Deploying(r) \/ CommitLocks(r)) /\ pc \in [Runs -> Places] /\ At[q] \in Checkouts
        /\ head[At[q]] \in Seq(Commits) /\ head[At[q]] # <<>>
    BY ExcusesGrow, DeployingBefore DEF Shape, Typed
  <1>1. CASE CommitLocks(r)
    <2>1. Mine(r)
      BY <1>1 DEF Mine, RunStep
    <2>2. pc'[q] = pc[q] /\ claimed'[q] = claimed[q] /\ (Live(q) => head'[At[q]] = head[At[q]])
      BY <2>1, OthersKeep DEF Shape
    <2>3. InTree(claimed[q].tree, Others(r)) /\ InLog(head[At[q]], Others(r))
      BY <1>0, <1>1, CommitsLocks DEF Unwritten, UnwrittenAt
    <2>4. Free(claimed[q].tree, r) /\ Free(Tree(head[At[q]]), r)
      BY <1>0, <2>3, InLast, FreeMeans
    <2> QED
      BY <2>2, <2>4 DEF Live
  <1>2. CASE Deploying(r)
    <2>0. /\ Deploying(q) => Free(claimed[q].tree, r)
          /\ pc[q] \in {"planned", "written"} => Free(Tree(head[At[q]]), r)
      BY <1>0, <1>2 DEF Apart, ApartAt
    <2>1. CASE CommitLocks(q)
      <3>1. Free(work[At[q]], r)
        <4>1. Free(Tree(head[At[q]]), r) /\ pc[q] = "written"
          BY <2>0, <2>1, CommitsLocks
        <4>2. \A p \in Projects : Claims(work[At[q]][p], q) \/ work[At[q]][p] = Tree(head[At[q]])[p]
          BY <4>1 DEF Kept, KeptAt
        <4> QED
          BY <4>1, <4>2 DEF Free, Claims
      <3> QED
        BY <2>1, <3>1, CommitsLocks
    <2>2. CASE ~CommitLocks(q)
      <3>1. Deploying(q)' => Free(claimed'[q].tree, r)
        BY <2>0, <2>2, DeployingBefore
      <3>2. pc'[q] \in {"planned", "written"} => Free(Tree(head'[At[q]]), r)
        <4> SUFFICES ASSUME pc'[q] \in {"planned", "written"} PROVE Free(Tree(head'[At[q]]), r)
          OBVIOUS
        <4>1. CASE Mine(q)
          <5>1. (Plan(q) /\ pc'[q] = "planned") \/ WriteLocks(q)
            BY <4>1, Moves DEF Shape
          <5>2. UNCHANGED head
            BY <5>1 DEF Plan, WriteLocks, gitVars
          <5>3. CASE Plan(q) /\ pc'[q] = "planned"
            BY <1>2, <5>2, <5>3, PlansApart
          <5>4. CASE WriteLocks(q)
            BY <2>0, <5>2, <5>4 DEF WriteLocks
          <5> QED
            BY <5>1, <5>3, <5>4
        <4>2. CASE Start(q)
          BY <1>0, <4>2 DEF Start, Goto
        <4>3. CASE ~Mine(q) /\ ~Start(q)
          <5>1. Still(q)
            BY <4>3, StillMeans
          <5> QED
            BY <2>0, <5>1 DEF Still, Live
        <4> QED
          BY <4>1, <4>2, <4>3
      <3> QED
        BY <3>1, <3>2
    <2> QED
      BY <2>1, <2>2
  <1> QED
    BY <1>0, <1>1, <1>2

Claimed == Unwritten /\ Kept /\ Held /\ Lasting /\ Apart

\* Two claims on the remote: the later commit holds the earlier claim.
OnRemoteFrom(s) == Deploying(s) /\ Holds(remote, claimed[s])
LEMMA NoTwoClaims ==
    ASSUME Shape, Claimed, excuses = {}, NEW q \in Runs, NEW r \in Runs, q # r, OnRemoteFrom(q), OnRemoteFrom(r)
    PROVE  FALSE
  <1>1. ASSUME NEW s \in Runs, OnRemoteFrom(s)
        PROVE  /\ Deploying(s) /\ \E i \in DOMAIN remote : remote[i] = claimed[s]
               /\ \E p \in Projects : Claims(claimed[s].tree[p], s)
    <2>1. job[s].members # {} /\ job[s] \in JobSet \cup {NoJob}
      BY <1>1 DEF OnRemoteFrom, Deploying, Shape, Typed
    <2>2. PICK p \in job[s].members : TRUE
      BY <2>1
    <2>3. p \in Projects
      BY <2>1 DEF JobSet, NoJob
    <2> QED
      BY <1>1, <2>2, <2>3 DEF OnRemoteFrom, Claimed, Held, HoldsAt, Holds
  <1>2. ASSUME NEW a \in Runs, NEW b \in Runs, a # b, OnRemoteFrom(a), OnRemoteFrom(b),
               NEW i \in DOMAIN remote, remote[i] = claimed[a], NEW j \in DOMAIN remote, remote[j] = claimed[b], i <= j
        PROVE  FALSE
    <2>0. remote \in Seq(Commits) /\ DOMAIN remote = 1..Len(remote) /\ Len(remote) \in Nat
      BY DEF Shape, Typed
    <2>1. Lasts(remote, a) /\ Free(claimed[b].tree, a)
      BY <1>1, <1>2 DEF Claimed, Lasting, LastsAt, Apart, ApartAt
    <2>2. PICK p \in Projects : Claims(claimed[a].tree[p], a)
      BY <1>1, <1>2
    <2> DEFINE T == {m \in 0..(j - i) : Claims(remote[i + m].tree[p], a)}
               N == j - i
    <2>3. N \in Nat /\ 0 \in T
      BY <1>2, <2>0, <2>2
    <2>4. ASSUME NEW m \in 0..(N - 1), m \in T PROVE m + 1 \in T
      <3>1. i + m \in DOMAIN remote /\ (i + m) + 1 \in DOMAIN remote /\ m + 1 \in 0..(j - i) /\ (i + m) + 1 = i + (m + 1)
        BY <1>2, <2>0, <2>3
      <3>2. Claims(remote[(i + m) + 1].tree[p], a)
        BY <2>1, <2>4, <3>1 DEF Lasts
      <3> QED
        BY <3>1, <3>2
    <2>5. N \in T
      <3>1. N \in 0..N
        BY <2>3
      <3> HIDE DEF T, N
      <3> QED
        BY <2>3, <2>4, <3>1, CountUp
    <2>6. i + (j - i) = j
      BY <2>0
    <2>7. Claims(claimed[b].tree[p], a)
      BY <1>2, <2>5, <2>6
    <2> QED
      BY <2>1, <2>7 DEF Free
  <1>3. PICK i \in DOMAIN remote : remote[i] = claimed[q]
    BY <1>1
  <1>4. PICK j \in DOMAIN remote : remote[j] = claimed[r]
    BY <1>1
  <1>5. i <= j \/ j <= i
    BY DEF Shape, Typed
  <1> QED
    BY <1>2, <1>3, <1>4, <1>5

\* Who plays has its claim there.
LEMMA PlaysClaimed ==
    ASSUME Shape, Claimed, excuses = {}, NEW s \in Runs, Playing(s)
    PROVE  job[s].members # {} /\ OnRemoteFrom(s)
  <1>1. job[s].members # {}
    BY DEF Claimed, Kept, KeptAt
  <1> QED
    BY <1>1 DEF Deploying, OnRemoteFrom, Claimed, Held, HoldsAt
LEMMA NoTwo ==
    ASSUME Shape, Claimed, excuses = {}, NEW q \in Runs, NEW r \in Runs, q # r, Playing(q), Playing(r)
    PROVE  FALSE
  BY PlaysClaimed, NoTwoClaims

LEMMA NextClaimed == ASSUME Shape, Truthful, Claimed, Next PROVE Claimed'
  BY NextUnwritten, NextKept, NextHeld, NextLasting, NextApart DEF Claimed

LEMMA InitClaimed == Init => Claimed
  <1> SUFFICES ASSUME Init PROVE Claimed
    OBVIOUS
  <1>1. ASSUME NEW r \in Runs PROVE InTree(Root.tree, Others(r)) /\ InLog(<<Root>>, Others(r))
    <2>1. FirstRecord \in Records /\ ~Claims(FirstRecord, r) /\ FirstRecord.plan # r
      BY DEF FirstRecord, Records, Claims
    <2>2. InTree(Root.tree, Others(r))
      BY <2>1 DEF Root, InTree, Others
    <2> QED
      BY <2>2 DEF InLog
  <1>2. \A r \in Runs : pc[r] = "idle" /\ job[r] = NoJob /\ ~Playing(r) /\ ~Deploying(r)
    BY DEF Init, NoJob, Playing, Deploying
  <1>3. Unwritten
    BY <1>1 DEF Init, Unwritten, UnwrittenAt
  <1>4. Kept
    BY <1>2 DEF Kept, KeptAt, NoJob, None
  <1> QED
    BY <1>2, <1>3, <1>4 DEF Claimed, Held, HoldsAt, Lasting, LastsAt, Apart, ApartAt

LEMMA ClaimedStays == Shape /\ Truthful /\ Claimed /\ [Next]_vars => Claimed'
  <1> SUFFICES ASSUME Shape, Truthful, Claimed, [Next]_vars PROVE Claimed'
    OBVIOUS
  <1>1. CASE Next
    BY <1>1, NextClaimed
  <1>2. CASE UNCHANGED vars
    <2>1. UNCHANGED <<remote, head, work, pc, job, claimed, play, excuses>>
      BY <1>2 DEF vars, gitVars, runVars, history
    <2>2. Unwritten' /\ Kept'
      BY <2>1 DEF Claimed, Unwritten, UnwrittenAt, Kept, KeptAt, Clean, Claims, Playing, Tree, InLog, InTree, Others
    <2>3. Held'
      BY <2>1 DEF Claimed, Held, HoldsAt, Deploying, Playing, Claims, Holds
    <2>4. Lasting'
      <3> SUFFICES ASSUME NEW r \in Runs PROVE LastsAt(r)'
        BY DEF Lasting
      <3>1. LastsAt(r)
        BY DEF Claimed, Lasting
      <3> QED
        BY <2>1, <3>1 DEF LastsAt, Lasts, Deploying, Playing, Claims
    <2>5. Apart'
      <3> SUFFICES ASSUME NEW q \in Runs, NEW r \in Runs, q # r PROVE ApartAt(q, r)'
        BY DEF Apart
      <3>1. ApartAt(q, r)
        BY DEF Claimed, Apart
      <3> QED
        BY <2>1, <3>1 DEF ApartAt, Deploying, Playing, Free, Tree
    <2> QED
      BY <2>2, <2>3, <2>4, <2>5 DEF Claimed
  <1> QED
    BY <1>1, <1>2

LEMMA ClaimedHolds == Spec => []Claimed
  BY InitClaimed, ClaimedStays, ShapeHolds, TruthHolds, PTL DEF Spec

\* Two runs deploy one environment at a time only when an operator took a claim over, a
\* claim expired under a slow run, a killed run left its playbook behind, or a run that
\* makes no claim took part: whatever is pushed, rebased or undone meanwhile, the claim of
\* a run that deploys is in every later commit of every branch, so the gate of the next
\* run sees it (_claim, foreign_claim, run_lock).
THEOREM OneAtATime == Spec => []OneDeployer
  <1>1. Shape /\ Claimed => OneDeployer
    <2> SUFFICES ASSUME Shape, Claimed, excuses = {} PROVE Cardinality({r \in Runs : Playing(r)}) <= 1
      BY DEF OneDeployer
    <2> PICK S : S = {r \in Runs : Playing(r)}
      OBVIOUS
    <2>1. CASE S = {}
      <3>1. Cardinality({}) = 0
        BY FS_EmptySet
      <3>2. Cardinality(S) = 0
        BY <2>1, <3>1, Zenon
      <3> QED
        BY <3>2
    <2>2. CASE S # {}
      <3>1. PICK r \in Runs : Playing(r)
        BY <2>2
      <3>2. S = {r}
        BY <3>1, NoTwo
      <3>3. Cardinality({r}) = 1
        BY FS_Singleton
      <3>4. Cardinality(S) <= 1
        BY <3>2, <3>3
      <3> QED
        BY <3>4, Zenon
    <2> QED
      BY <2>1, <2>2
  <1> QED
    BY <1>1, ShapeHolds, ClaimedHolds, PTL

-----------------------------------------------------------------------------
(* What a run said of its end, and what it left on the remote.               *)

\* A claim comes into a log with a fleet commit of the run that claims.
Builds(log, q) == \A i \in DOMAIN log : i + 1 \in DOMAIN log =>
    \A p \in Projects : Claims(log[i+1].tree[p], q) => Claims(log[i].tree[p], q) \/ FleetBy(log, i + 1, q)
Built == \A q \in Runs : Builds(remote, q) /\ \A c \in Checkouts : Builds(head[c], q)

\* Where a log holds a fleet commit of a run, the other log is the same up to it.
Within(s, t, q) == \A i \in DOMAIN t : FleetBy(t, i, q) => Agree(s, t, i)

\* How a run ends that says itself what became of it.
Told == {"ok", "failed", "blocked", "refused", "undone"}
Tells(q) == pc[q] = "off" /\ outcome[q] \in Told

EndedAt(q) == pc[q] = "off" => outcome[q] # None
\* A run claims its members and nothing else; bay deploy commits nothing.
NamesAt(q) ==
    /\ pc[q] \in {"committed", "pushed"} => claimed[q].by = q
    /\ \A p \in Projects \ job[q].members : ~Claims(claimed[q].tree[p], q)
    /\ job[q].kind = "deploy" => /\ pc[q] \in {"deploy", "claimed", "playing", "off"}
                                 /\ ~By(remote, q) /\ \A c \in Checkouts : ~By(head[c], q)
\* No other branch holds a fleet commit of a run that the remote lacks, nor does its own
\* from the claim on; and what is on the remote is in its own.
SharedAt(q) ==
    /\ pc[q] # "off" \/ Tells(q) => \A c \in Checkouts \ {At[q]} : Within(remote, head[c], q)
    /\ pc[q] # "off" => Within(head[At[q]], remote, q)
    /\ (\/ pc[q] \notin {"committed", "pushed", "off"}
        \/ pc[q] = "pushed" /\ By(remote, q)
        \/ Tells(q)) => Within(remote, head[At[q]], q)
\* No pending record of its own is in a branch it reports with, nor, once it told of its
\* end, on the remote.
SettledAt(q) ==
    /\ pc[q] = "push" => Free(Tree(head[At[q]]), q)
    /\ Tells(q) => Free(Tree(remote), q)

Explained == /\ Built
             /\ \A q \in Runs : EndedAt(q) /\ NamesAt(q) /\ SharedAt(q) /\ SettledAt(q)

LEMMA BuildsAdd ==
    ASSUME NEW log \in Seq(Commits), log # <<>>, NEW e \in Commits, NEW q, Builds(log, q),
           \A p \in Projects : Claims(e.tree[p], q) => Claims(Tree(log)[p], q) \/ (e.by = q /\ e.kind = "fleet")
    PROVE  Builds(Append(log, e), q)
  <1> DEFINE new == Append(log, e)
  <1> SUFFICES ASSUME NEW i \in DOMAIN new, i + 1 \in DOMAIN new, NEW p \in Projects, Claims(new[i+1].tree[p], q)
               PROVE  Claims(new[i].tree[p], q) \/ FleetBy(new, i + 1, q)
    BY DEF Builds
  <1>0. /\ Len(log) \in Nat /\ new \in Seq(Commits) /\ Len(new) = Len(log) + 1 /\ DOMAIN log = 1..Len(log)
        /\ new[Len(log) + 1] = e /\ \A k \in 1..Len(log) : new[k] = log[k]
        /\ DOMAIN new = 1..Len(new)
    BY AddLog
  <1> HIDE DEF new
  <1>1. CASE i + 1 <= Len(log)
    <2>1. i \in DOMAIN log /\ i + 1 \in DOMAIN log /\ new[i] = log[i] /\ new[i+1] = log[i+1]
      BY <1>0, <1>1
    <2> QED
      BY <2>1 DEF Builds, FleetBy
  <1>2. CASE i + 1 > Len(log)
    <2>1. i = Len(log) /\ i \in 1..Len(log)
      BY <1>0, <1>2
    <2>2. new[i] = log[i] /\ new[i+1] = e /\ Last(log) = log[i]
      BY <1>0, <2>1 DEF Last
    <2> QED
      BY <2>2 DEF Tree, FleetBy
  <1> QED
    BY <1>0, <1>1, <1>2

LEMMA BuildsCut ==
    ASSUME NEW log \in Seq(Commits), NEW n \in 1..Len(log), NEW q, Builds(log, q)
    PROVE  Builds(SubSeq(log, 1, n), q)
  <1> DEFINE new == SubSeq(log, 1, n)
  <1> SUFFICES ASSUME NEW i \in DOMAIN new, i + 1 \in DOMAIN new, NEW p \in Projects, Claims(new[i+1].tree[p], q)
               PROVE  Claims(new[i].tree[p], q) \/ FleetBy(new, i + 1, q)
    BY DEF Builds
  <1>1. i \in DOMAIN log /\ i + 1 \in DOMAIN log /\ new[i] = log[i] /\ new[i+1] = log[i+1]
    BY CutLog
  <1> QED
    BY <1>1 DEF Builds, FleetBy

LEMMA BuildsRebase ==
    ASSUME Shape, NEW s \in Runs, Rebase(s), NEW q, Builds(remote, q), Builds(head[At[s]], q)
    PROVE  Builds(head'[At[s]], q)
  <1> DEFINE c == At[s]
  <1>0. /\ c \in Checkouts /\ head \in [Checkouts -> Seq(Commits)] /\ remote \in Seq(Commits)
        /\ Len(remote) \in Nat \ {0} /\ Len(head[c]) \in Nat
    BY DEF Shape, Typed
  <1>n. PICK n \in 1..Len(head[c]) : \E log :
          Replayed(c, n, Len(head[c]) - n, log) /\ head' = [head EXCEPT ![c] = log]
    BY RebaseMeans DEF Shape
  <1>1. PICK log : Replayed(c, n, Len(head[c]) - n, log) /\ head' = [head EXCEPT ![c] = log]
    BY <1>n
  <1>2. /\ log \in Seq(Commits) /\ Len(log) \in Nat /\ n + (Len(head[c]) - n) = Len(head[c])
        /\ Len(remote) <= Len(log) /\ \A i \in 1..Len(remote) : log[i] = remote[i]
        /\ DOMAIN log = 1..Len(log) /\ DOMAIN remote = 1..Len(remote) /\ DOMAIN head[c] = 1..Len(head[c])
    BY <1>0, <1>1 DEF Replayed, Pre
  <1>3. Builds(log, q)
    <2> SUFFICES ASSUME NEW i \in DOMAIN log, i + 1 \in DOMAIN log, NEW p \in Projects, Claims(log[i+1].tree[p], q)
                 PROVE  Claims(log[i].tree[p], q) \/ FleetBy(log, i + 1, q)
      BY DEF Builds
    <2>1. CASE i + 1 <= Len(remote)
      <3>1. i \in DOMAIN remote /\ i + 1 \in DOMAIN remote /\ log[i] = remote[i] /\ log[i+1] = remote[i+1]
        BY <1>0, <1>2, <2>1
      <3> QED
        BY <3>1 DEF Builds, FleetBy
    <2>2. CASE i + 1 > Len(remote)
      <3> DEFINE k == i + 1
      <3>1. k \in (Len(remote) + 1)..Len(log) /\ k - 1 = i
        BY <1>0, <1>2, <2>2
      <3> HIDE DEF k
      <3>2. PICK j \in (n + 1)..(n + (Len(head[c]) - n)) :
              /\ log[k].by = head[c][j].by /\ log[k].kind = head[c][j].kind
              /\ \/ log[k].tree[p] = log[k-1].tree[p]
                 \/ /\ log[k].tree[p] = head[c][j].tree[p]
                    /\ log[k-1].tree[p] \in {head[c][j-1].tree[p], head[c][j].tree[p]}
        BY <1>1, <3>1 DEF Replayed
      <3>3. j - 1 \in DOMAIN head[c] /\ (j - 1) + 1 = j /\ j \in DOMAIN head[c]
        BY <1>0, <1>2
      <3>4. Claims(head[c][j].tree[p], q) => Claims(head[c][j-1].tree[p], q) \/ FleetBy(head[c], j, q)
        BY <3>3 DEF Builds
      <3>5. Claims(log[k].tree[p], q)
        BY DEF k
      <3>6. Claims(log[k-1].tree[p], q) \/ FleetBy(log, k, q)
        BY <3>2, <3>4, <3>5 DEF FleetBy
      <3> QED
        BY <3>1, <3>6 DEF k
    <2> QED
      BY <1>0, <1>2, <2>1, <2>2
  <1> QED
    BY <1>0, <1>1, <1>3

\* The commit of a run: its members claimed, or its results.
LEMMA AddsMeans ==
    ASSUME Shape, Truthful, Kept, NEW s \in Runs, Adds(s)
    PROVE  \E e \in Commits :
             /\ head' = [head EXCEPT ![At[s]] = Append(head[At[s]], e)] /\ UNCHANGED remote
             /\ e.by = s /\ (e.kind = "fleet" => CommitLocks(s))
             /\ \A q \in Runs : \A p \in Projects :
                  Claims(e.tree[p], q) => Claims(Tree(head[At[s]])[p], q) \/ (q = s /\ e.kind = "fleet")
  <1> DEFINE c == At[s]
  <1>0. /\ c \in Checkouts /\ head \in [Checkouts -> Seq(Commits)] /\ work[c] \in Trees /\ KeptAt(s)
        /\ job[s] \in JobSet \cup {NoJob}
    BY DEF Shape, Typed, Kept
  <1>1. CASE CommitLocks(s)
    <2> DEFINE e == Commit(s, "fleet", work[c])
    <2>1. e \in Commits /\ e.by = s /\ e.kind = "fleet" /\ e.tree = work[c]
      BY <1>0, CommitTyped DEF Commit
    <2>2. head' = [head EXCEPT ![c] = Append(head[c], e)] /\ UNCHANGED remote /\ pc[s] = "written"
      BY <1>1 DEF CommitLocks
    <2>3. ASSUME NEW q \in Runs, NEW p \in Projects, Claims(work[c][p], q)
          PROVE  Claims(Tree(head[c])[p], q) \/ q = s
      BY <1>0, <2>2, <2>3 DEF KeptAt, Claims
    <2> HIDE DEF e
    <2> QED
      BY <1>1, <2>1, <2>2, <2>3
  <1>2. CASE Report(s)
    <2> DEFINE Made(read, tree) ==
                 /\ \A p \in Projects : tree[p] = IF job[s].members = {} THEN work[c][p] ELSE Recorded(s, p, read)
                 /\ work' = [work EXCEPT ![c] = tree]
                 /\ \/ tree = Tree(head[c]) /\ head' = head
                    \/ /\ tree # Tree(head[c])
                       /\ head' = [head EXCEPT ![c] = Append(head[c], Commit(s, "receipt", tree))]
    <2>1. \E read \in SUBSET Scope(s), tree \in Trees : Made(read, tree)
      BY <1>2, ReportMeans DEF Shape
    <2> HIDE DEF Made
    <2>2. PICK read \in SUBSET Scope(s), tree \in Trees : Made(read, tree)
      BY <2>1
    <2>3. pc[s] = "played" /\ UNCHANGED remote
      BY <1>2 DEF Report
    <2>4. work[c] = Tree(head[c])
      BY <1>0, <2>3 DEF Truthful, AsClaimed, KeptAt
    <2> DEFINE e == Commit(s, "receipt", tree)
    <2>5. e \in Commits /\ e.by = s /\ e.kind = "receipt" /\ e.tree = tree
      BY CommitTyped DEF Commit
    <2>6. ASSUME NEW q \in Runs, NEW p \in Projects, Claims(tree[p], q)
          PROVE  Claims(Tree(head[c])[p], q)
      <3>1. tree[p] = work[c][p] \/ tree[p] = Recorded(s, p, read)
        BY <2>2 DEF Made
      <3>2. work[c][p] \in Records
        BY <1>0 DEF Trees
      <3>3. \A word : Result(s, work[c][p], word).claim = None
        BY <3>2 DEF Result, Records
      <3>4. tree[p] = work[c][p] \/ tree[p].claim = None
        BY <3>1, <3>3 DEF Recorded
      <3> QED
        BY <2>4, <2>6, <3>4 DEF Claims
    <2>7. head' # head
      <3>1. PICK t \in Trees : head' = [head EXCEPT ![c] = Append(head[c],
                  IF pc[s] = "written" THEN Commit(s, "fleet", t) ELSE Commit(s, "receipt", t))]
        BY DEF Adds
      <3> PICK d : d = IF pc[s] = "written" THEN Commit(s, "fleet", t) ELSE Commit(s, "receipt", t)
        OBVIOUS
      <3>2. d \in Commits
        BY CommitTyped
      <3>3. head'[c] = Append(head[c], d)
        BY <1>0, <3>1
      <3> QED
        BY <1>0, <3>2, <3>3
    <2>8. head' = [head EXCEPT ![c] = Append(head[c], e)]
      BY <2>2, <2>7 DEF Made
    <2> HIDE DEF e
    <2> QED
      BY <2>3, <2>5, <2>6, <2>8
  <1> QED
    BY <1>1, <1>2 DEF Adds

LEMMA NextBuilt == ASSUME Shape, Truthful, Kept, Built, Next PROVE Built'
  <1> SUFFICES ASSUME NEW q \in Runs PROVE Builds(remote', q) /\ \A c \in Checkouts : Builds(head'[c], q)
    BY DEF Built, Builds, Claims, FleetBy
  <1>0. Builds(remote, q) /\ \A c \in Checkouts : Builds(head[c], q)
    BY DEF Built
  <1>1. ASSUME NEW s \in Runs, Mine(s) PROVE Builds(remote', q) /\ \A c \in Checkouts : Builds(head'[c], q)
    <2> DEFINE d == At[s]
    <2>0. /\ d \in Checkouts /\ head \in [Checkouts -> Seq(Commits)] /\ head[d] # <<>>
          /\ \A c \in Checkouts \ {d} : head'[c] = head[c]
      BY <1>1, MineAside DEF Shape, Typed, Aside
    <2>1. CASE LogsStay
      BY <1>0, <2>1 DEF LogsStay
    <2>2. CASE Pushes(s)
      BY <1>0, <2>0, <2>2 DEF Pushes
    <2>3. CASE Forwards(s)
      BY <1>0, <2>0, <2>3 DEF Forwards, Forward
    <2>4. CASE Adds(s)
      <3>1. PICK e \in Commits :
             /\ head' = [head EXCEPT ![d] = Append(head[d], e)] /\ UNCHANGED remote
             /\ e.by = s
             /\ \A p \in Projects :
                  Claims(e.tree[p], q) => Claims(Tree(head[d])[p], q) \/ (q = s /\ e.kind = "fleet")
        BY <2>4, AddsMeans
      <3>2. Builds(Append(head[d], e), q)
        BY <1>0, <2>0, <3>1, BuildsAdd
      <3> HIDE DEF d
      <3> QED
        BY <1>0, <2>0, <3>1, <3>2
    <2>5. CASE Cuts(s)
      <3>1. base[s] \in 1..Len(head[d]) /\ head' = [head EXCEPT ![d] = SubSeq(head[d], 1, base[s])] /\ UNCHANGED remote
        BY <2>5 DEF Cuts
      <3>2. Builds(SubSeq(head[d], 1, base[s]), q)
        BY <1>0, <2>0, <3>1, BuildsCut
      <3> HIDE DEF d
      <3> QED
        BY <1>0, <2>0, <3>1, <3>2
    <2>6. CASE Rebase(s)
      <3>1. UNCHANGED remote
        BY <2>6 DEF Rebase
      <3> QED
        BY <1>0, <2>0, <2>6, <3>1, BuildsRebase
    <2> QED
      BY <1>1, <2>1, <2>2, <2>3, <2>4, <2>5, <2>6, MineLogs DEF Shape
  <1>2. ASSUME NEW s \in Runs, Start(s) PROVE Builds(remote', q) /\ \A c \in Checkouts : Builds(head'[c], q)
    BY <1>0, <1>2 DEF Start, gitVars
  <1>3. CASE Nobodys
    BY <1>0, <1>3, NobodysMeans DEF gitVars
  <1>4. ASSUME NEW c \in Checkouts, Sessions(c)
        PROVE  Builds(remote', q) /\ \A d \in Checkouts : Builds(head'[d], q)
    <2>0. UNCHANGED remote /\ head[c] \in Seq(Commits) /\ head[c] # <<>> /\ head \in [Checkouts -> Seq(Commits)]
      BY <1>4, SessionsMeans DEF Shape, Typed
    <2>1. CASE HandCommit(c)
      <3>1. PICK e \in Commits : e.tree = Tree(head[c]) /\ head' = [head EXCEPT ![c] = Append(head[c], e)]
        BY <2>1, HandTree
      <3>2. Builds(Append(head[c], e), q)
        BY <1>0, <2>0, <3>1, BuildsAdd
      <3> QED
        BY <1>0, <2>0, <3>1, <3>2
    <2>2. CASE Restore(c)
      BY <1>0, <2>0, <2>2 DEF Restore
    <2> QED
      BY <1>4, <2>1, <2>2 DEF Sessions
  <1> QED
    BY <1>1, <1>2, <1>3, <1>4, NextMeans

\* A claim that is in a later commit and not in an earlier one came with a fleet commit
\* between the two.
LEMMA Brought ==
    ASSUME NEW log \in Seq(Commits), NEW n \in 1..Len(log), NEW q, Builds(log, q), NEW p \in Projects,
           ~Claims(log[n].tree[p], q), \A i \in DOMAIN log : FleetBy(log, i, q) => i <= n
    PROVE  ~Claims(Tree(log)[p], q)
  <1>0. Len(log) \in Nat /\ DOMAIN log = 1..Len(log)
    OBVIOUS
  <1> DEFINE N == Len(log) - n
             T == {m \in 0..N : ~Claims(log[n + m].tree[p], q)}
  <1>1. N \in Nat /\ n + 0 = n /\ n + N = Len(log) /\ 0 \in 0..N
    BY <1>0
  <1>2. 0 \in T
    BY <1>1
  <1>3. ASSUME NEW m \in 0..(N - 1), m \in T PROVE m + 1 \in T
    <2>1. n + m \in DOMAIN log /\ (n + m) + 1 \in DOMAIN log /\ m + 1 \in 0..N /\ (n + m) + 1 = n + (m + 1)
          /\ ~((n + m) + 1 <= n)
      BY <1>0, <1>1
    <2>2. ~FleetBy(log, (n + m) + 1, q)
      BY <2>1
    <2>3. ~Claims(log[(n + m) + 1].tree[p], q)
      BY <1>3, <2>1, <2>2 DEF Builds
    <2> QED
      BY <2>1, <2>3
  <1>4. N \in T
    <2>1. N \in 0..N
      BY <1>1
    <2> HIDE DEF T, N
    <2> QED
      BY <1>1, <1>2, <1>3, <2>1, CountUp
  <1> QED
    BY <1>1, <1>4 DEF Tree, Last

\* A run that no commit is by claims nothing.
LEMMA NoClaims ==
    ASSUME NEW log \in Seq(Commits), Len(log) >= 1, log[1] = Root, NEW q \in Runs, Builds(log, q), ~By(log, q)
    PROVE  Free(Tree(log), q)
  <1> SUFFICES ASSUME NEW p \in Projects PROVE ~Claims(Tree(log)[p], q)
    BY DEF Free
  <1>1. 1 \in 1..Len(log) /\ ~Claims(log[1].tree[p], q)
    BY DEF Root, FirstRecord, Claims
  <1>2. \A i \in DOMAIN log : ~FleetBy(log, i, q)
    BY DEF By, FleetBy
  <1> QED
    BY <1>1, <1>2, Brought

-----------------------------------------------------------------------------
(* How a run ends.                                                           *)

LEMMA Exits ==
    ASSUME Shape, Gone, Kept, NEW q \in Runs, NamesAt(q), Mine(q), pc'[q] = "off", Next
    PROVE  /\ outcome'[q] # None
           /\ outcome'[q] \in Told =>
                \/ pc[q] = "push" /\ Accepts(At[q]) /\ remote' = head[At[q]] /\ UNCHANGED head
                \/ ~By(remote', q) /\ \A c \in Checkouts : ~By(head'[c], q)
  <1>0. pc \in [Runs -> Places] /\ outcome \in [Runs -> Ends] /\ GoneAt(q) /\ PlacedAt(q) /\ pc[q] # "off"
        /\ outcome[q] = None
    BY MineAside DEF Shape, Typed, Gone, Placed, PlacedAt, Live
  <1>1. GoneAt(q)'
    BY NextGone DEF Gone
  <1>2. CASE pc[q] \in {"start", "pulled", "deploy"} /\ outcome'[q] = "blocked"
    <2>1. ~Adds(q)
      BY <1>2 DEF Adds, CommitLocks, Report
    <2>2. ~By(remote, q) /\ \A c \in Checkouts : ~By(head[c], q)
      BY <1>0, <1>2 DEF GoneAt
    <2>3. ~By(remote', q) /\ \A c \in Checkouts : ~By(head'[c], q)
      BY <2>1, <2>2, Authors
    <2> QED
      BY <1>2, <2>3 DEF None
  <1>3. CASE Pull(q) \/ Plan(q) \/ Prepare(q)
    <2>1. pc[q] \in {"start", "pulled", "deploy"} /\ outcome'[q] = "blocked"
      BY <1>0, <1>3 DEF Pull, Plan, Prepare, Exit, Goto
    <2> QED
      BY <1>2, <2>1
  <1>4. CASE outcome'[q] \in {"refused", "undone"}
    BY <1>1, <1>4 DEF GoneAt, None
  <1>5. CASE outcome'[q] \in {"kept", "unreachable", "stopped", "killed", "unpushed"}
    BY <1>5 DEF None, Told
  <1>6. CASE CheckClaim(q)
    <2>1. outcome'[q] \in {"refused", "kept", "unreachable"}
      BY <1>0, <1>6 DEF CheckClaim, Undo, UndoFrom, Exit, Goto
    <2> QED
      BY <1>4, <1>5, <2>1
  <1>7. CASE Unwind(q)
    <2>1. outcome'[q] \in {"undone", "kept", "stopped"}
      BY <1>0, <1>7 DEF Unwind, Undo, UndoWrites, UndoFrom, Exit
    <2> QED
      BY <1>4, <1>5, <2>1
  <1>8. CASE Interrupt(q) \/ Die(q)
    <2>1. outcome'[q] \in {"stopped", "killed"}
      BY <1>0, <1>8 DEF Interrupt, Die, Exit
    <2> QED
      BY <1>5, <2>1
  <1>9. CASE PushReceipt(q)
    <2>1. CASE outcome'[q] = "unpushed"
      BY <1>5, <2>1
    <2>2. CASE pc[q] = "push" /\ Accepts(At[q]) /\ PushTo(At[q], TRUE) /\ Exit(q, Word(q)) /\ UNCHANGED head
      <3>1. outcome'[q] \in {"ok", "failed"}
        BY <1>0, <2>2 DEF Exit, Word
      <3> QED
        BY <2>2, <3>1 DEF PushTo, None
    <2> QED
      BY <1>0, <1>9, <2>1, <2>2 DEF PushReceipt, Exit, Goto
  <1>10. CASE EndPlay(q)
    <2>1. job[q].kind = "deploy" /\ outcome'[q] \in {"ok", "failed"} /\ UNCHANGED <<remote, head>>
      BY <1>0, <1>10 DEF EndPlay, Exit, Goto, gitVars
    <2>2. ~By(remote, q) /\ \A c \in Checkouts : ~By(head[c], q)
      BY <2>1 DEF NamesAt
    <2> QED
      BY <2>1, <2>2 DEF None
  <1>11. CASE WriteLocks(q) \/ CommitLocks(q) \/ PushClaim(q) \/ StartPlay(q) \/ Report(q)
    BY <1>0, <1>11 DEF WriteLocks, CommitLocks, PushClaim, StartPlay, Report, Goto
  <1> QED
    BY <1>3, <1>6, <1>7, <1>8, <1>9, <1>10, <1>11, Zenon DEF Mine, RunStep

\* The commit of another session is no commit of a run.
LEMMA HandCommits ==
    ASSUME Shape, NEW c \in Checkouts, HandCommit(c)
    PROVE  \E e \in Commits : /\ e.tree = Tree(head[c]) /\ e.by = c /\ e.kind = "hand" /\ e.by \notin Runs
                              /\ head' = [head EXCEPT ![c] = Append(head[c], e)] /\ UNCHANGED remote
  <1> DEFINE e == Commit(c, "hand", Tree(head[c]))
  <1>1. e \in Commits /\ e.tree = Tree(head[c]) /\ e.by = c /\ e.kind = "hand"
    BY TreeTyped, CommitTyped DEF Shape, Typed, Commit
  <1>2. head' = [head EXCEPT ![c] = Append(head[c], e)] /\ UNCHANGED remote
    BY DEF HandCommit
  <1> HIDE DEF e
  <1> QED
    BY <1>1, <1>2

LEMMA SessionAuthors ==
    ASSUME Shape, NEW c \in Checkouts, Sessions(c), NEW r \in Runs
    PROVE  \A d \in Checkouts : By(head'[d], r) => By(head[d], r)
  <1>1. CASE HandCommit(c)
    <2>1. PICK e \in Commits : e.by # r /\ head' = [head EXCEPT ![c] = Append(head[c], e)]
      BY <1>1, HandCommits
    <2>2. By(Append(head[c], e), r) => By(head[c], r)
      <3> SUFFICES ASSUME NEW i \in DOMAIN Append(head[c], e), Append(head[c], e)[i].by = r
                   PROVE  By(head[c], r)
        BY DEF By
      <3>0. head[c] \in Seq(Commits)
        BY DEF Shape, Typed
      <3>1. i \in 1..Len(head[c]) /\ Append(head[c], e)[i] = head[c][i]
        BY <3>0, <2>1
      <3> QED
        BY <3>0, <3>1 DEF By
    <2>3. head \in [Checkouts -> Seq(Commits)]
      BY DEF Shape, Typed
    <2> QED
      BY <2>1, <2>2, <2>3
  <1>2. CASE Restore(c)
    BY <1>2 DEF Restore
  <1> QED
    BY <1>1, <1>2 DEF Sessions

LEMMA MineNames ==
    ASSUME Shape, Gone, Unwritten, Kept, NEW q \in Runs, NamesAt(q), Mine(q)
    PROVE  NamesAt(q)'
  <1>0. /\ pc \in [Runs -> Places] /\ job' = job /\ KeptAt(q) /\ At[q] \in Checkouts
        /\ head[At[q]] \in Seq(Commits) /\ head[At[q]] # <<>>
    BY Moves DEF Shape, Typed, Kept
  <1>1. CASE CommitLocks(q)
    <2>1. claimed'[q].tree = work[At[q]] /\ pc[q] = "written" /\ pc'[q] = "committed"
      BY <1>1, CommitsLocks
    <2>2. claimed'[q].by = q
      BY <1>1 DEF CommitLocks, Commit, Shape, Typed
    <2>3. Free(Tree(head[At[q]]), q)
      BY <1>0, <2>1, InLast, FreeMeans DEF Unwritten, UnwrittenAt
    <2>4. \A p \in Projects \ job[q].members : work[At[q]][p] = Tree(head[At[q]])[p]
      BY <1>0, <2>1 DEF KeptAt
    <2>5. \A p \in Projects \ job'[q].members : ~Claims(claimed'[q].tree[p], q)
      BY <1>0, <2>1, <2>3, <2>4 DEF Free
    <2>6. job[q].kind # "deploy"
      BY <2>1 DEF NamesAt
    <2> QED
      BY <1>0, <2>2, <2>5, <2>6 DEF NamesAt, Claims
  <1>2. CASE ~CommitLocks(q)
    <2>1. claimed' = claimed
      BY <1>2, Moves DEF Shape
    <2>2. pc'[q] \in {"committed", "pushed"} => pc[q] \in {"committed", "pushed"}
      BY <1>2, Moves DEF Shape
    <2>3. ASSUME job[q].kind = "deploy"
          PROVE  /\ pc'[q] \in {"deploy", "claimed", "playing", "off"}
                 /\ ~By(remote', q) /\ \A c \in Checkouts : ~By(head'[c], q)
      <3>1. /\ pc[q] \in {"deploy", "claimed", "playing", "off"}
            /\ ~By(remote, q) /\ \A c \in Checkouts : ~By(head[c], q)
        BY <2>3 DEF NamesAt
      <3>2. ~Adds(q)
        BY <3>1 DEF Adds, CommitLocks, Report
      <3>3. ~By(remote', q) /\ \A c \in Checkouts : ~By(head'[c], q)
        BY <3>1, <3>2, Authors
      <3>4. pc'[q] \in {"deploy", "claimed", "playing", "off"}
        BY <2>3, <3>1, Moves DEF Shape
      <3> QED
        BY <3>3, <3>4
    <2> QED
      BY <1>0, <2>1, <2>2, <2>3 DEF NamesAt, Claims
  <1> QED
    BY <1>1, <1>2

LEMMA NextNames ==
    ASSUME Shape, Gone, Unwritten, Kept, NEW q \in Runs, NamesAt(q), Next
    PROVE  NamesAt(q)'
  <1>1. CASE Mine(q)
    BY <1>1, MineNames
  <1>2. ASSUME NEW s \in Runs, s # q, Mine(s) PROVE NamesAt(q)'
    <2>1. pc'[q] = pc[q] /\ job'[q] = job[q] /\ claimed'[q] = claimed[q]
      BY <1>2, OthersKeep DEF Shape
    <2>2. ASSUME ~By(remote, q), \A c \in Checkouts : ~By(head[c], q)
          PROVE  ~By(remote', q) /\ \A c \in Checkouts : ~By(head'[c], q)
      BY <1>2, <2>2, Authors
    <2> QED
      BY <2>1, <2>2 DEF NamesAt, Claims
  <1>3. CASE Start(q)
    <2>1. PICK j \in Jobs[q] : /\ job' = [job EXCEPT ![q] = j]
                               /\ Goto(q, IF j.kind \in {"deploy", "push"} THEN j.kind ELSE "start")
      BY <1>3 DEF Start
    <2>2. /\ pc[q] = "idle" /\ UNCHANGED <<remote, head, claimed>> /\ job'[q] = j
          /\ pc'[q] = IF j.kind \in {"deploy", "push"} THEN j.kind ELSE "start"
      BY <1>3, <2>1 DEF Start, Goto, gitVars, Shape, Typed
    <2>3. InTree(claimed[q].tree, Others(q))
      BY <2>2 DEF Unwritten, UnwrittenAt
    <2>4. \A p \in Projects : ~Claims(claimed[q].tree[p], q)
      BY <2>3, FreeMeans DEF Free
    <2>5. ~By(remote, q) /\ \A c \in Checkouts : ~By(head[c], q)
      BY <2>2 DEF Gone, GoneAt
    <2>6. pc'[q] \in {"deploy", "push", "start"} /\ (j.kind = "deploy" => pc'[q] = "deploy")
      BY <2>2
    <2> QED
      BY <2>2, <2>4, <2>5, <2>6 DEF NamesAt, Claims
  <1>4. ASSUME NEW s \in Runs, s # q, Start(s) PROVE NamesAt(q)'
    <2>1. pc'[q] = pc[q] /\ job'[q] = job[q] /\ UNCHANGED <<remote, head, claimed>>
      BY <1>4 DEF Start, Goto, gitVars, Shape, Typed
    <2> QED
      BY <2>1 DEF NamesAt, Claims
  <1>5. CASE Nobodys
    BY <1>5, NobodysMeans DEF NamesAt, gitVars, runVars, Claims
  <1>6. ASSUME NEW c \in Checkouts, Sessions(c) PROVE NamesAt(q)'
    <2>1. UNCHANGED <<remote, pc, job, claimed>>
      BY <1>6, SessionsMeans DEF Shape, runVars
    <2>2. \A d \in Checkouts : By(head'[d], q) => By(head[d], q)
      BY <1>6, SessionAuthors
    <2> QED
      BY <2>1, <2>2 DEF NamesAt, Claims
  <1> QED
    BY <1>1, <1>2, <1>3, <1>4, <1>5, <1>6, NextMeans

LEMMA NextEnded ==
    ASSUME Shape, Gone, Kept, NEW q \in Runs, NamesAt(q), EndedAt(q), Next
    PROVE  EndedAt(q)'
  <1>1. CASE Mine(q)
    BY <1>1, Exits DEF EndedAt
  <1>2. CASE ~Mine(q)
    <2>1. pc'[q] = "off" => pc[q] = "off" /\ outcome'[q] = outcome[q]
      <3>1. ASSUME NEW s \in Runs, s # q, Mine(s) \/ Start(s) PROVE pc'[q] = pc[q] /\ outcome'[q] = outcome[q]
        BY <3>1, OthersKeep DEF Shape
      <3>2. CASE Start(q)
        BY <3>2 DEF Start, Goto, Shape, Typed
      <3> QED
        BY <1>2, <3>1, <3>2, NextMeans, NobodysMeans, SessionsMeans DEF Shape
    <2> QED
      BY <2>1 DEF EndedAt
  <1> QED
    BY <1>1, <1>2

-----------------------------------------------------------------------------
(* Fleet commits that are on the remote.                                     *)

LEMMA WithinSame == ASSUME NEW s \in Seq(Commits), NEW q PROVE Within(s, s, q)
  BY DEF Within, Agree

LEMMA WithinGrows ==
    ASSUME NEW s \in Seq(Commits), NEW t \in Seq(Commits), Pre(s, t), NEW log, NEW q, Within(s, log, q)
    PROVE  Within(t, log, q)
  <1> SUFFICES ASSUME NEW i \in DOMAIN log, FleetBy(log, i, q) PROVE Agree(t, log, i)
    BY DEF Within
  <1>1. Agree(s, log, i)
    BY DEF Within
  <1> QED
    BY <1>1 DEF Agree, Pre

LEMMA WithinTrans ==
    ASSUME NEW s \in Seq(Commits), NEW t \in Seq(Commits), NEW u \in Seq(Commits), NEW q,
           Within(s, t, q), Within(u, s, q)
    PROVE  Within(u, t, q)
  <1> SUFFICES ASSUME NEW i \in DOMAIN t, FleetBy(t, i, q) PROVE Agree(u, t, i)
    BY DEF Within
  <1>1. Agree(s, t, i) /\ i \in 1..i
    BY DEF Within
  <1>2. FleetBy(s, i, q)
    BY <1>1 DEF Agree, FleetBy
  <1>3. Agree(u, s, i)
    BY <1>1, <1>2 DEF Agree, Within
  <1> QED
    BY <1>1, <1>3 DEF Agree

LEMMA WithinAdd ==
    ASSUME NEW s \in Seq(Commits), NEW log \in Seq(Commits), NEW e \in Commits, NEW q, Within(s, log, q),
           ~(e.by = q /\ e.kind = "fleet")
    PROVE  Within(s, Append(log, e), q)
  <1> DEFINE new == Append(log, e)
  <1> SUFFICES ASSUME NEW i \in DOMAIN new, FleetBy(new, i, q) PROVE Agree(s, new, i)
    BY DEF Within
  <1>0. /\ Len(log) \in Nat /\ Len(new) = Len(log) + 1 /\ DOMAIN log = 1..Len(log) /\ DOMAIN new = 1..Len(new)
        /\ new[Len(log) + 1] = e /\ \A k \in 1..Len(log) : new[k] = log[k]
    BY AddLog
  <1> HIDE DEF new
  <1>1. i # Len(log) + 1
    BY <1>0 DEF FleetBy
  <1>2. i \in DOMAIN log /\ FleetBy(log, i, q)
    BY <1>0, <1>1 DEF FleetBy
  <1>3. Agree(s, log, i)
    BY <1>2 DEF Within
  <1> QED
    BY <1>0, <1>3 DEF Agree

LEMMA WithinCut ==
    ASSUME NEW s \in Seq(Commits), NEW log \in Seq(Commits), NEW n \in 1..Len(log), NEW q, Within(s, log, q)
    PROVE  Within(s, SubSeq(log, 1, n), q)
  <1> DEFINE new == SubSeq(log, 1, n)
  <1> SUFFICES ASSUME NEW i \in DOMAIN new, FleetBy(new, i, q) PROVE Agree(s, new, i)
    BY DEF Within
  <1>0. /\ Len(log) \in Nat /\ Len(new) = n /\ DOMAIN log = 1..Len(log) /\ DOMAIN new = 1..n
        /\ \A k \in 1..n : new[k] = log[k]
    BY CutLog
  <1> HIDE DEF new
  <1>1. i \in DOMAIN log /\ FleetBy(log, i, q)
    BY <1>0 DEF FleetBy
  <1>2. Agree(s, log, i)
    BY <1>1 DEF Within
  <1> QED
    BY <1>0, <1>2 DEF Agree

\* A rebase copies no fleet commit of a run whose fleet commits the remote holds: it
\* begins after the last of them.
LEMMA WithinRebase ==
    ASSUME Shape, NEW s \in Runs, Rebase(s), NEW q, Within(remote, head[At[s]], q)
    PROVE  Within(remote, head'[At[s]], q) /\ Within(head'[At[s]], remote, q)
  <1> DEFINE c == At[s]
  <1>0. /\ c \in Checkouts /\ head \in [Checkouts -> Seq(Commits)] /\ remote \in Seq(Commits)
        /\ Len(remote) \in Nat \ {0} /\ Len(head[c]) \in Nat
    BY DEF Shape, Typed
  <1>n. PICK n \in 1..Len(head[c]) : \E log :
          /\ \A k \in 1..Len(head[c]) : Agree(remote, head[c], k) => k <= n
          /\ Replayed(c, n, Len(head[c]) - n, log) /\ head' = [head EXCEPT ![c] = log]
    BY RebaseMeans DEF Shape
  <1>1. PICK log :
          /\ \A k \in 1..Len(head[c]) : Agree(remote, head[c], k) => k <= n
          /\ Replayed(c, n, Len(head[c]) - n, log) /\ head' = [head EXCEPT ![c] = log]
    BY <1>n
  <1>2. /\ log \in Seq(Commits) /\ Len(log) \in Nat /\ n + (Len(head[c]) - n) = Len(head[c])
        /\ Len(remote) <= Len(log) /\ \A i \in 1..Len(remote) : log[i] = remote[i]
        /\ DOMAIN log = 1..Len(log) /\ DOMAIN remote = 1..Len(remote) /\ DOMAIN head[c] = 1..Len(head[c])
        /\ Pre(remote, log)
    BY <1>0, <1>1 DEF Replayed, Pre
  <1>3. Within(remote, log, q)
    <2> SUFFICES ASSUME NEW i \in DOMAIN log, FleetBy(log, i, q) PROVE Agree(remote, log, i)
      BY DEF Within
    <2>1. CASE i <= Len(remote)
      BY <1>0, <1>2, <2>1 DEF Agree
    <2>2. CASE i > Len(remote)
      <3>1. i \in (Len(remote) + 1)..Len(log)
        BY <1>0, <1>2, <2>2
      <3>2. PICK j \in (n + 1)..(n + (Len(head[c]) - n)) :
              log[i].by = head[c][j].by /\ log[i].kind = head[c][j].kind
        BY <1>1, <3>1 DEF Replayed
      <3>3. j \in 1..Len(head[c]) /\ j \in DOMAIN head[c] /\ ~(j <= n)
        BY <1>0, <1>2
      <3>4. Agree(remote, head[c], j)
        BY <3>2, <3>3 DEF Within, FleetBy
      <3> QED
        BY <1>1, <3>3, <3>4
    <2> QED
      BY <1>0, <1>2, <2>1, <2>2
  <1>4. Within(log, remote, q)
    BY <1>0, <1>2, WithinSame, WithinGrows
  <1> QED
    BY <1>0, <1>1, <1>3, <1>4

\* A step keeps the fleet commits of a run on the remote where it is not the one that
\* makes them.
LEMMA WithinMine ==
    ASSUME Shape, Truthful, Kept, NEW s \in Runs, Mine(s), NEW q \in Runs, q # s \/ ~CommitLocks(s),
           Within(remote, head[At[s]], q)
    PROVE  Within(remote', head'[At[s]], q)
  <1> DEFINE d == At[s]
  <1>0. /\ d \in Checkouts /\ head \in [Checkouts -> Seq(Commits)] /\ head[d] \in Seq(Commits)
        /\ remote \in Seq(Commits)
    BY DEF Shape, Typed
  <1>1. CASE LogsStay
    BY <1>1 DEF LogsStay
  <1>2. CASE Pushes(s)
    BY <1>0, <1>2, WithinSame DEF Pushes
  <1>3. CASE Forwards(s)
    <2>1. head'[d] = remote /\ remote' = remote
      BY <1>0, <1>3 DEF Forwards, Forward
    <2> QED
      BY <1>0, <2>1, WithinSame
  <1>4. CASE Adds(s)
    <2>1. PICK e \in Commits : /\ head' = [head EXCEPT ![d] = Append(head[d], e)] /\ UNCHANGED remote
                               /\ e.by = s /\ (e.kind = "fleet" => CommitLocks(s))
      BY <1>4, AddsMeans
    <2>2. Within(remote, Append(head[d], e), q)
      BY <1>0, <2>1, WithinAdd
    <2> HIDE DEF d
    <2> QED
      BY <1>0, <2>1, <2>2 DEF d
  <1>5. CASE Cuts(s)
    <2>1. base[s] \in 1..Len(head[d]) /\ head' = [head EXCEPT ![d] = SubSeq(head[d], 1, base[s])] /\ UNCHANGED remote
      BY <1>5 DEF Cuts
    <2>2. Within(remote, SubSeq(head[d], 1, base[s]), q)
      BY <1>0, <2>1, WithinCut
    <2> HIDE DEF d
    <2> QED
      BY <1>0, <2>1, <2>2 DEF d
  <1>6. CASE Rebase(s)
    <2>1. UNCHANGED remote
      BY <1>6 DEF Rebase
    <2> QED
      BY <1>6, <2>1, WithinRebase
  <1> QED
    BY <1>1, <1>2, <1>3, <1>4, <1>5, <1>6, MineLogs DEF Shape

LEMMA NoFleet == ASSUME NEW s, NEW t, NEW q, ~By(t, q) PROVE Within(s, t, q)
  BY DEF Within, By, FleetBy

\* The run itself.
LEMMA MineShared ==
    ASSUME Shape, Gone, Truthful, Kept, NEW q \in Runs, NamesAt(q), SharedAt(q), Mine(q), Next
    PROVE  SharedAt(q)'
  <1> DEFINE d == At[q]
  <1>0. /\ d \in Checkouts /\ head \in [Checkouts -> Seq(Commits)] /\ head[d] \in Seq(Commits)
        /\ remote \in Seq(Commits) /\ remote' \in Seq(Commits) /\ Pre(remote, remote')
        /\ \A c \in Checkouts \ {d} : head'[c] = head[c] /\ head[c] \in Seq(Commits)
        /\ pc[q] # "off" /\ GoneAt(q) /\ pc \in [Runs -> Places]
    <2>1. Typed' /\ Pre(remote, remote') /\ Aside(q) /\ Live(q) /\ Typed
      BY RemoteGrows, NextTyped, MineAside DEF Shape
    <2>2. GoneAt(q)
      BY DEF Gone
    <2> QED
      BY <2>1, <2>2 DEF Typed, Aside, Live
  <1>1. \A c \in Checkouts \ {d} : Within(remote', head'[c], q)
    BY <1>0, WithinGrows DEF SharedAt
  <1>2. pc'[q] # "off" => Within(head'[d], remote', q)
    <2> SUFFICES ASSUME pc'[q] # "off" PROVE Within(head'[d], remote', q)
      OBVIOUS
    <2>0. Within(head[d], remote, q)
      BY <1>0 DEF SharedAt
    <2>1. CASE LogsStay
      BY <2>0, <2>1 DEF LogsStay
    <2>2. CASE Pushes(q)
      BY <1>0, <2>2, WithinSame DEF Pushes
    <2>3. CASE Forwards(q)
      <3>1. head'[d] = remote /\ remote' = remote
        BY <1>0, <2>3 DEF Forwards, Forward
      <3> QED
        BY <1>0, <3>1, WithinSame
    <2>4. CASE Adds(q)
      <3>1. PICK e \in Commits : head' = [head EXCEPT ![d] = Append(head[d], e)] /\ UNCHANGED remote
        BY <2>4, AddsMeans
      <3>2. Append(head[d], e) \in Seq(Commits) /\ Pre(head[d], Append(head[d], e))
        BY <1>0 DEF Pre
      <3>3. Within(Append(head[d], e), remote, q)
        BY <1>0, <2>0, <3>2, WithinGrows
      <3> HIDE DEF d
      <3> QED
        BY <1>0, <3>1, <3>3
    <2>5. CASE Cuts(q) /\ ~LogsStay
      <3>1. pc[q] \in {"written", "committed", "pushed"} /\ UNCHANGED remote
        BY <2>5 DEF Cuts
      <3>2. CASE pc[q] = "pushed"
        <4>1. ~UndoFrom(q, claimed[q], "refused") /\ ~UndoFrom(q, claimed[q], "unreachable")
              /\ ~UndoFrom(q, claimed[q], "undone")
          BY <1>0 DEF UndoFrom, Exit, Goto
        <4>2. CheckClaim(q) \/ Unwind(q) \/ Die(q)
          BY <1>0, <3>2 DEF Mine, RunStep, Pull, Plan, WriteLocks, CommitLocks, PushClaim, StartPlay, EndPlay, Report,
             PushReceipt, Prepare, Interrupt
        <4>3. UNCHANGED <<remote, head>>
          BY <1>0, <3>1, <3>2, <4>1, <4>2 DEF CheckClaim, Unwind, Undo, Die, gitVars
        <4> QED
          BY <2>5, <4>3 DEF LogsStay
      <3>3. CASE pc[q] \in {"written", "committed"}
        <4>1. ~By(remote, q)
          BY <1>0, <3>3 DEF GoneAt
        <4> QED
          BY <3>1, <4>1, NoFleet
      <3> QED
        BY <3>1, <3>2, <3>3
    <2>6. CASE Rebase(q)
      <3>1. pc[q] = "push" /\ UNCHANGED remote
        BY <2>6 DEF Rebase
      <3>2. Within(remote, head[d], q)
        BY <3>1 DEF SharedAt
      <3> QED
        BY <2>6, <3>1, <3>2, WithinRebase
    <2> QED
      BY <2>1, <2>2, <2>3, <2>4, <2>5, <2>6, MineLogs DEF Shape
  <1>3. ASSUME \/ pc'[q] \notin {"committed", "pushed", "off"}
               \/ pc'[q] = "pushed" /\ By(remote', q)
               \/ pc'[q] = "off" /\ outcome'[q] \in Told
        PROVE  Within(remote', head'[d], q)
    <2>1. CASE Within(remote, head[d], q) /\ ~CommitLocks(q)
      BY <2>1, WithinMine
    <2>2. CASE CommitLocks(q)
      <3>1. pc'[q] = "committed"
        BY <2>2, CommitsLocks DEF Shape
      <3> QED
        BY <1>3, <3>1
    <2>3. CASE pc'[q] = "off" /\ ~Within(remote, head[d], q)
      <3>1. pc[q] # "push"
        BY <2>3 DEF SharedAt
      <3>2. ~By(head'[d], q)
        BY <1>0, <1>3, <2>3, <3>1, Exits
      <3> QED
        BY <3>2, NoFleet
    <2>4. CASE pc'[q] # "off" /\ ~Within(remote, head[d], q) /\ ~CommitLocks(q)
      <3>1. pc[q] \in {"committed", "pushed"} /\ ~(pc[q] = "pushed" /\ By(remote, q))
        BY <1>0, <2>4 DEF SharedAt
      <3>2. CASE pc[q] = "pushed"
        <4>1. Holds(remote, claimed[q])
          BY <2>4, <3>2, Moves DEF Shape
        <4>2. By(remote, q)
          BY <3>2, <4>1 DEF NamesAt, Holds, By
        <4> QED
          BY <3>1, <3>2, <4>2
      <3>3. CASE pc[q] = "committed"
        <4>1. pc'[q] = "pushed" /\ By(remote', q)
          BY <1>3, <2>4, <3>3, Moves DEF Shape
        <4>2. ~By(remote, q)
          BY <1>0, <3>3 DEF GoneAt
        <4>3. Pushes(q)
          BY <4>1, <4>2, MineLogs DEF Shape, LogsStay, Forwards, Adds, Cuts, Rebase
        <4> QED
          BY <1>0, <4>3, WithinSame DEF Pushes
      <3> QED
        BY <3>1, <3>2, <3>3
    <2> QED
      BY <2>1, <2>2, <2>3, <2>4
  <1> HIDE DEF d
  <1> QED
    BY <1>1, <1>2, <1>3 DEF SharedAt, Tells, d, Within, FleetBy, Agree, By

\* Another run.
LEMMA OthersShared ==
    ASSUME Shape, Gone, Truthful, Kept, NEW q \in Runs, SharedAt(q), NEW s \in Runs \ {q}, Mine(s), Next
    PROVE  SharedAt(q)'
  <1> DEFINE d == At[q]
  <1>0. /\ d \in Checkouts /\ At[s] \in Checkouts /\ head \in [Checkouts -> Seq(Commits)]
        /\ remote \in Seq(Commits) /\ remote' \in Seq(Commits) /\ Pre(remote, remote')
        /\ \A c \in Checkouts : head[c] \in Seq(Commits)
        /\ \A c \in Checkouts \ {At[s]} : head'[c] = head[c]
        /\ pc'[q] = pc[q] /\ outcome'[q] = outcome[q] /\ (Live(q) => At[s] # d)
        /\ GoneAt(q) /\ pc \in [Runs -> Places]
    <2>1. Typed' /\ Pre(remote, remote') /\ Aside(s) /\ Live(s) /\ Typed
      BY RemoteGrows, NextTyped, MineAside DEF Shape
    <2>2. GoneAt(q) /\ (Live(q) => At[s] # d)
      BY <2>1 DEF Gone, Shape, Alone
    <2> QED
      BY <2>1, <2>2 DEF Typed, Aside
  <1>1. ASSUME NEW c \in Checkouts, Within(remote, head[c], q) PROVE Within(remote', head'[c], q)
    BY <1>0, <1>1, WithinGrows, WithinMine
  <1>2. pc'[q] # "off" \/ Tells(q)' => \A c \in Checkouts \ {d} : Within(remote', head'[c], q)
    BY <1>0, <1>1 DEF SharedAt, Tells
  <1>3. pc'[q] # "off" => Within(head'[d], remote', q)
    <2> SUFFICES ASSUME pc[q] # "off" PROVE Within(head'[d], remote', q)
      BY <1>0
    <2>0. Within(head[d], remote, q)
      BY DEF SharedAt
    <2>1. CASE pc[q] = "idle"
      <3>1. ~By(remote, q) /\ ~By(head[At[s]], q)
        BY <1>0, <2>1 DEF GoneAt
      <3>2. ~By(remote', q)
        BY <3>1, Authors
      <3> QED
        BY <3>2, NoFleet
    <2>2. CASE pc[q] # "idle"
      <3>1. At[s] # d /\ head'[d] = head[d]
        BY <1>0, <2>2 DEF Live
      <3>2. CASE UNCHANGED remote
        BY <2>0, <3>1, <3>2
      <3>3. CASE remote' = head[At[s]]
        <4>1. Within(remote, head[At[s]], q)
          BY <1>0, <3>1 DEF SharedAt
        <4> QED
          BY <1>0, <2>0, <3>1, <3>3, <4>1, WithinTrans
      <3> QED
        BY <3>2, <3>3, MineLogs DEF Shape, LogsStay, Pushes, Forwards, Adds, Cuts, Rebase
    <2> QED
      BY <2>1, <2>2
  <1>4. ASSUME \/ pc'[q] \notin {"committed", "pushed", "off"}
               \/ pc'[q] = "pushed" /\ By(remote', q)
               \/ Tells(q)'
        PROVE  Within(remote', head'[d], q)
    <2>1. pc[q] = "pushed" /\ By(remote', q) => By(remote, q)
      <3> SUFFICES ASSUME pc[q] = "pushed", By(remote', q) PROVE By(remote, q)
        OBVIOUS
      <3>1. By(remote, q) \/ By(head[At[s]], q)
        BY Authors
      <3>2. At[s] # d
        BY <1>0 DEF Live
      <3> QED
        BY <1>0, <3>1, <3>2 DEF GoneAt
    <2>2. Within(remote, head[d], q)
      BY <1>0, <1>4, <2>1 DEF SharedAt, Tells
    <2> QED
      BY <1>0, <1>1, <2>2
  <1> HIDE DEF d
  <1> QED
    BY <1>2, <1>3, <1>4 DEF SharedAt, Tells, d, Within, FleetBy, Agree, By

LEMMA NextShared ==
    ASSUME Shape, Gone, Truthful, Kept, NEW q \in Runs, NamesAt(q), SharedAt(q), Next
    PROVE  SharedAt(q)'
  <1>1. CASE Mine(q)
    BY <1>1, MineShared
  <1>2. ASSUME NEW s \in Runs \ {q}, Mine(s) PROVE SharedAt(q)'
    BY <1>2, OthersShared
  <1>3. CASE Start(q)
    <2>1. /\ pc[q] = "idle" /\ UNCHANGED <<remote, head>> /\ pc'[q] \notin {"idle", "off", "committed", "pushed"}
      BY <1>3 DEF Start, Goto, gitVars, Shape, Typed
    <2> QED
      BY <2>1 DEF SharedAt, Tells, Within, FleetBy, Agree, By
  <1>4. ASSUME NEW s \in Runs \ {q}, Start(s) PROVE SharedAt(q)'
    <2>1. pc'[q] = pc[q] /\ outcome'[q] = outcome[q] /\ UNCHANGED <<remote, head>>
      BY <1>4 DEF Start, Goto, gitVars, Shape, Typed
    <2> QED
      BY <2>1 DEF SharedAt, Tells, Within, FleetBy, Agree, By
  <1>5. CASE Nobodys
    <2>1. UNCHANGED <<remote, head, pc, outcome>>
      BY <1>5, NobodysMeans DEF gitVars
    <2> QED
      BY <2>1 DEF SharedAt, Tells, Within, FleetBy, Agree, By
  <1>6. ASSUME NEW c \in Checkouts, Sessions(c) PROVE SharedAt(q)'
    <2>0. /\ head \in [Checkouts -> Seq(Commits)] /\ \A d \in Checkouts : head[d] \in Seq(Commits)
          /\ remote \in Seq(Commits) /\ UNCHANGED <<remote, pc, outcome>> /\ At[q] \in Checkouts
      BY <1>6, SessionsMeans DEF Shape, Typed
    <2>1. CASE HandCommit(c)
      <3>1. PICK e \in Commits : e.by # q /\ head' = [head EXCEPT ![c] = Append(head[c], e)]
        BY <2>1, HandCommits
      <3>2. Append(head[c], e) \in Seq(Commits) /\ Pre(head[c], Append(head[c], e))
        BY <2>0 DEF Pre
      <3>3. \A d \in Checkouts : Within(remote, head[d], q) => Within(remote, head'[d], q)
        BY <2>0, <3>1, WithinAdd
      <3>4. \A d \in Checkouts : Within(head[d], remote, q) => Within(head'[d], remote, q)
        BY <2>0, <3>1, <3>2, WithinGrows
      <3>5. /\ pc'[q] # "off" \/ Tells(q)' => \A d \in Checkouts \ {At[q]} : Within(remote', head'[d], q)
            /\ pc'[q] # "off" => Within(head'[At[q]], remote', q)
            /\ (\/ pc'[q] \notin {"committed", "pushed", "off"}
                \/ pc'[q] = "pushed" /\ By(remote', q)
                \/ Tells(q)') => Within(remote', head'[At[q]], q)
        BY <2>0, <3>3, <3>4 DEF SharedAt, Tells
      <3> QED
        BY <3>5 DEF SharedAt, Tells, Within, FleetBy, Agree, By
    <2>2. CASE Restore(c)
      <3>1. UNCHANGED head
        BY <2>2 DEF Restore
      <3> QED
        BY <2>0, <3>1 DEF SharedAt, Tells, Within, FleetBy, Agree, By
    <2> QED
      BY <1>6, <2>1, <2>2 DEF Sessions
  <1> QED
    BY <1>1, <1>2, <1>3, <1>4, <1>5, <1>6, NextMeans

-----------------------------------------------------------------------------
(* No pending record is left by a run that told of its end.                  *)

\* The report writes a result over every claim of its run.
LEMMA ReportFrees ==
    ASSUME Shape, Truthful, Kept, NEW q \in Runs, NamesAt(q), Report(q)
    PROVE  Free(Tree(head'[At[q]]), q)
  <1> DEFINE c == At[q]
  <1>0. /\ c \in Checkouts /\ head \in [Checkouts -> Seq(Commits)] /\ work[c] \in Trees /\ pc[q] = "played"
        /\ head[c] \in Seq(Commits)
    BY DEF Shape, Typed, Report
  <1>1. work[c] = claimed[q].tree
    BY <1>0 DEF Truthful, AsClaimed
  <1> DEFINE Made(read, tree) ==
               /\ \A p \in Projects : tree[p] = IF job[q].members = {} THEN work[c][p] ELSE Recorded(q, p, read)
               /\ work' = [work EXCEPT ![c] = tree]
               /\ \/ tree = Tree(head[c]) /\ head' = head
                  \/ /\ tree # Tree(head[c])
                     /\ head' = [head EXCEPT ![c] = Append(head[c], Commit(q, "receipt", tree))]
  <1>2. \E read \in SUBSET Scope(q), tree \in Trees : Made(read, tree)
    BY ReportMeans DEF Shape
  <1> HIDE DEF Made
  <1>3. PICK read \in SUBSET Scope(q), tree \in Trees : Made(read, tree)
    BY <1>2
  <1>4. Free(tree, q)
    <2> SUFFICES ASSUME NEW p \in Projects PROVE ~Claims(tree[p], q)
      BY DEF Free
    <2>1. work[c][p] \in Records
      BY <1>0 DEF Trees
    <2>2. \A word : Result(q, work[c][p], word).claim = None
      BY <2>1 DEF Result, Records
    <2>3. CASE p \in job[q].members
      <3>1. tree[p] = Recorded(q, p, read)
        BY <1>3, <2>3 DEF Made
      <3>2. tree[p].claim = None
        BY <2>2, <2>3, <3>1 DEF Recorded
      <3> QED
        BY <3>2 DEF Claims
    <2>4. CASE p \notin job[q].members
      <3>1. tree[p] = work[c][p] \/ tree[p] = Recorded(q, p, read)
        BY <1>3 DEF Made
      <3>2. tree[p] = work[c][p] \/ tree[p].claim = None
        BY <2>2, <2>4, <3>1 DEF Recorded
      <3>3. ~Claims(work[c][p], q)
        BY <1>1, <2>4 DEF NamesAt
      <3> QED
        BY <3>2, <3>3 DEF Claims
    <2> QED
      BY <2>3, <2>4
  <1> DEFINE e == Commit(q, "receipt", tree)
  <1>5. e \in Commits /\ e.tree = tree
    BY CommitTyped DEF Commit
  <1>6. Tree(head'[c]) = tree
    <2>1. CASE tree = Tree(head[c]) /\ head' = head
      BY <2>1
    <2>2. CASE head' = [head EXCEPT ![c] = Append(head[c], e)]
      <3> HIDE DEF e
      <3>1. head'[c] = Append(head[c], e)
        BY <1>0, <2>2
      <3> QED
        BY <1>0, <1>5, <3>1 DEF Tree, Last
    <2> QED
      BY <1>3, <2>1, <2>2 DEF Made
  <1> QED
    BY <1>4, <1>6

\* A rebase brings no claim of its run back: what the remote has of it since is in the
\* branch too, and so before the commits that are replayed.
LEMMA RebaseFrees ==
    ASSUME Shape, NEW q \in Runs, Rebase(q), Builds(remote, q), Within(head[At[q]], remote, q),
           Free(Tree(head[At[q]]), q)
    PROVE  Free(Tree(head'[At[q]]), q)
  <1> DEFINE c == At[q]
  <1>0. /\ c \in Checkouts /\ head \in [Checkouts -> Seq(Commits)] /\ remote \in Seq(Commits)
        /\ Len(remote) \in Nat \ {0} /\ head[c] \in Seq(Commits) /\ Len(head[c]) \in Nat
    BY DEF Shape, Typed
  <1>n. PICK n \in 1..Len(head[c]) : \E log :
          /\ n <= Len(remote) /\ \A k \in 1..n : remote[k] = head[c][k]
          /\ \A k \in 1..Len(head[c]) : Agree(remote, head[c], k) => k <= n
          /\ Replayed(c, n, Len(head[c]) - n, log) /\ head' = [head EXCEPT ![c] = log]
    BY RebaseMeans DEF Shape
  <1>1. PICK log :
          /\ n <= Len(remote) /\ \A k \in 1..n : remote[k] = head[c][k]
          /\ \A k \in 1..Len(head[c]) : Agree(remote, head[c], k) => k <= n
          /\ Replayed(c, n, Len(head[c]) - n, log) /\ head' = [head EXCEPT ![c] = log]
    BY <1>n
  <1>2. head'[c] = log /\ n + (Len(head[c]) - n) = Len(head[c]) /\ n \in 1..Len(remote) /\ n \in 1..n
        /\ DOMAIN remote = 1..Len(remote) /\ DOMAIN head[c] = 1..Len(head[c])
    BY <1>0, <1>1
  <1>3. \A i \in DOMAIN remote : FleetBy(remote, i, q) => i <= n
    <2> SUFFICES ASSUME NEW i \in DOMAIN remote, FleetBy(remote, i, q) PROVE i <= n
      OBVIOUS
    <2>1. Agree(head[c], remote, i)
      BY DEF Within
    <2>2. Agree(remote, head[c], i) /\ i \in 1..Len(head[c])
      BY <1>2, <2>1 DEF Agree
    <2> QED
      BY <1>1, <2>2
  <1> SUFFICES ASSUME NEW p \in Projects PROVE ~Claims(Tree(log)[p], q)
    BY <1>2 DEF Free
  <1>4. Tree(head[c])[p] = head[c][Len(head[c])].tree[p] /\ ~Claims(Tree(head[c])[p], q)
    BY DEF Free, Tree, Last
  <1>5. \/ Tree(log)[p] = head[c][Len(head[c])].tree[p]
        \/ Tree(log)[p] = Tree(remote)[p] /\ head[c][Len(head[c])].tree[p] = head[c][n].tree[p]
    BY <1>1, <1>2 DEF Replayed
  <1>6. CASE Tree(log)[p] = Tree(remote)[p] /\ head[c][Len(head[c])].tree[p] = head[c][n].tree[p]
    <2>1. remote[n] = head[c][n]
      BY <1>1, <1>2
    <2>2. ~Claims(remote[n].tree[p], q)
      BY <1>4, <1>6, <2>1
    <2>3. ~Claims(Tree(remote)[p], q)
      BY <1>0, <1>2, <1>3, <2>2, Brought
    <2> QED
      BY <1>6, <2>3
  <1> QED
    BY <1>4, <1>5, <1>6

\* A push that extends the remote brings no claim whose fleet commit it has already.
LEMMA PushFrees ==
    ASSUME NEW s \in Seq(Commits), s # <<>>, NEW log \in Seq(Commits), IsPrefix(s, log), NEW q,
           Builds(log, q), Within(s, log, q), Free(Tree(s), q)
    PROVE  Free(Tree(log), q)
  <1> SUFFICES ASSUME NEW p \in Projects PROVE ~Claims(Tree(log)[p], q)
    BY DEF Free
  <1>1. Pre(s, log) /\ Len(s) \in Nat \ {0}
    BY PrefixMeans
  <1> DEFINE n == Len(s)
  <1>2. n \in 1..Len(log) /\ log[n] = Last(s) /\ DOMAIN s = 1..n
    BY <1>1 DEF Pre, Last
  <1>3. \A i \in DOMAIN log : FleetBy(log, i, q) => i <= n
    <2> SUFFICES ASSUME NEW i \in DOMAIN log, FleetBy(log, i, q) PROVE i <= n
      OBVIOUS
    <2>1. Agree(s, log, i)
      BY DEF Within
    <2> QED
      BY <1>2, <2>1 DEF Agree
  <1>4. ~Claims(log[n].tree[p], q)
    BY <1>2 DEF Free, Tree
  <1> HIDE DEF n
  <1> QED
    BY <1>2, <1>3, <1>4, Brought

LEMMA NextSettled ==
    ASSUME Shape, Gone, Truthful, Unwritten, Kept, Built,
           NEW q \in Runs, NamesAt(q), SharedAt(q), SettledAt(q), Next
    PROVE  SettledAt(q)'
  <1>0. /\ pc \in [Runs -> Places] /\ At[q] \in Checkouts /\ Builds(remote, q)
        /\ \A c \in Checkouts : Builds(head[c], q) /\ head[c] \in Seq(Commits) /\ head[c] # <<>>
        /\ remote \in Seq(Commits) /\ remote # <<>>
    BY DEF Shape, Typed, Built
  <1>1. Builds(remote', q) /\ remote' \in Seq(Commits) /\ Len(remote') >= 1 /\ remote'[1] = Root
    <2>1. Built' /\ Typed' /\ Rooted'
      BY NextBuilt, NextTyped, NextRooted
    <2>2. Builds(remote', q)
      BY <2>1 DEF Built, Builds, Claims, FleetBy
    <2> QED
      BY <2>1, <2>2 DEF Typed, Rooted
  <1>2. CASE Mine(q)
    <2>1. pc'[q] = "push" => Free(Tree(head'[At[q]]), q)
      <3> SUFFICES ASSUME pc'[q] = "push" PROVE Free(Tree(head'[At[q]]), q)
        OBVIOUS
      <3>1. CASE Report(q)
        BY <3>1, ReportFrees
      <3>2. CASE Rebase(q) /\ pc[q] = "push"
        BY <1>0, <3>2, RebaseFrees DEF SharedAt, SettledAt
      <3> QED
        BY <1>2, <3>1, <3>2, Moves DEF Shape
    <2>2. pc'[q] = "off" /\ outcome'[q] \in Told => Free(Tree(remote'), q)
      <3> SUFFICES ASSUME pc'[q] = "off", outcome'[q] \in Told PROVE Free(Tree(remote'), q)
        OBVIOUS
      <3>1. CASE pc[q] = "push" /\ remote' = head[At[q]]
        BY <3>1 DEF SettledAt
      <3>2. CASE ~By(remote', q)
        BY <1>1, <3>2, NoClaims
      <3> QED
        BY <1>2, <3>1, <3>2, Exits
    <2> QED
      BY <2>1, <2>2 DEF SettledAt, Tells, Free, Claims, Tree
  <1>3. CASE Start(q)
    <2>1. /\ pc[q] = "idle" /\ UNCHANGED <<remote, head>> /\ pc'[q] # "off"
      BY <1>3 DEF Start, Goto, gitVars, Shape, Typed
    <2>2. InTree(Tree(head[At[q]]), Others(q))
      BY <1>0, <2>1, InLast DEF Unwritten, UnwrittenAt
    <2>3. Free(Tree(head[At[q]]), q)
      BY <2>2, FreeMeans
    <2> QED
      BY <2>1, <2>3 DEF SettledAt, Tells, Free, Claims, Tree
  <1>4. CASE ~Mine(q) /\ ~Start(q)
    <2>1. Still(q)
      BY <1>4, StillMeans
    <2>2. pc'[q] = "push" => Free(Tree(head'[At[q]]), q)
      BY <2>1 DEF Still, Live, SettledAt
    <2>3. outcome'[q] = outcome[q] /\ \/ UNCHANGED remote
                                      \/ \E s \in Runs : remote' = head[At[s]] /\ IsPrefix(remote, head[At[s]])
      <3>1. ASSUME NEW s \in Runs, Mine(s)
            PROVE  /\ outcome'[q] = outcome[q]
                   /\ UNCHANGED remote \/ (remote' = head[At[s]] /\ IsPrefix(remote, head[At[s]]))
        BY <1>4, <3>1, OthersKeep, MineLogs DEF Shape, LogsStay, Pushes, Accepts, Forwards, Adds, Cuts, Rebase
      <3>2. ASSUME NEW s \in Runs, Start(s) PROVE outcome'[q] = outcome[q] /\ UNCHANGED remote
        BY <3>2 DEF Start, gitVars
      <3> QED
        BY <3>1, <3>2, NextMeans, NobodysMeans, SessionsMeans DEF Shape, gitVars
    <2>4. pc'[q] = "off" /\ outcome'[q] \in Told => Free(Tree(remote'), q)
      <3> SUFFICES ASSUME Tells(q), ~UNCHANGED remote PROVE Free(Tree(remote'), q)
        BY <2>1, <2>3 DEF Still, SettledAt, Tells
      <3>1. PICK s \in Runs : remote' = head[At[s]] /\ IsPrefix(remote, head[At[s]])
        BY <2>3
      <3>2. Within(remote, head[At[s]], q)
        BY DEF SharedAt
      <3>3. Free(Tree(remote), q)
        BY DEF SettledAt
      <3> QED
        BY <1>0, <3>1, <3>2, <3>3, PushFrees
    <2> QED
      BY <2>2, <2>4 DEF SettledAt, Tells, Free, Claims, Tree
  <1> QED
    BY <1>2, <1>3, <1>4

LEMMA InitExplained == Init => Explained
  <1> SUFFICES ASSUME Init, NEW q \in Runs
               PROVE  /\ Builds(remote, q) /\ \A c \in Checkouts : Builds(head[c], q)
                      /\ EndedAt(q) /\ NamesAt(q) /\ SharedAt(q) /\ SettledAt(q)
    BY DEF Explained, Built
  <1>1. ~By(<<Root>>, q) /\ Builds(<<Root>>, q)
    BY DEF By, Root, Builds
  <1>2. pc[q] = "idle" /\ job[q] = NoJob /\ claimed[q] = Root /\ remote = <<Root>>
        /\ \A c \in Checkouts : head[c] = <<Root>>
    BY DEF Init
  <1>3. \A p \in Projects : ~Claims(Root.tree[p], q)
    BY DEF Root, FirstRecord, Claims
  <1>4. NamesAt(q)
    BY <1>2, <1>3 DEF NamesAt, NoJob, None
  <1>5. \A s : Within(s, <<Root>>, q)
    BY <1>1, NoFleet
  <1>6. SharedAt(q)
    BY <1>2, <1>5 DEF SharedAt
  <1> QED
    BY <1>1, <1>2, <1>4, <1>6 DEF EndedAt, SettledAt, Tells

LEMMA ExplainedStays == Shape /\ Gone /\ Truthful /\ Claimed /\ Explained /\ [Next]_vars => Explained'
  <1> SUFFICES ASSUME Shape, Gone, Truthful, Claimed, Explained, [Next]_vars PROVE Explained'
    OBVIOUS
  <1>1. CASE Next
    <2>1. ASSUME NEW q \in Runs PROVE (EndedAt(q) /\ NamesAt(q) /\ SharedAt(q) /\ SettledAt(q))'
      BY <1>1, NextEnded, NextNames, NextShared, NextSettled DEF Explained, Claimed
    <2>2. Built'
      BY <1>1, NextBuilt DEF Explained, Claimed
    <2> QED
      BY <2>1, <2>2 DEF Explained
  <1>2. CASE UNCHANGED vars
    <2>1. UNCHANGED <<remote, head, pc, job, claimed, outcome>>
      BY <1>2 DEF vars, gitVars, runVars
    <2>2. Built'
      BY <2>1 DEF Explained, Built, Builds, Claims, FleetBy
    <2>3. ASSUME NEW q \in Runs PROVE (EndedAt(q) /\ NamesAt(q) /\ SharedAt(q) /\ SettledAt(q))'
      <3>1. EndedAt(q)' /\ NamesAt(q)'
        BY <2>1 DEF Explained, EndedAt, NamesAt, Claims, By
      <3>2. SharedAt(q)'
        BY <2>1 DEF Explained, SharedAt, Tells, Within, FleetBy, Agree, By
      <3>3. SettledAt(q)'
        BY <2>1 DEF Explained, SettledAt, Tells, Free, Claims, Tree
      <3> QED
        BY <3>1, <3>2, <3>3
    <2> QED
      BY <2>2, <2>3 DEF Explained
  <1> QED
    BY <1>1, <1>2

\* A run that reports its end itself leaves no pending record of its own on the remote:
\* its claim is over when its report lands, a rebase of the report copies no claim back,
\* and no later push of any machine does (_pin_deployed, push_with_rebase, undo).
THEOREM PendingMeansSilence == Spec => []PendingIsExplained
  <1>1. Shape /\ Truthful /\ Explained => PendingIsExplained
    <2> SUFFICES ASSUME Shape, Truthful, Explained, NEW p \in Projects,
                        Tree(remote)[p].claim # None, pc[Tree(remote)[p].claim] = "off"
                 PROVE  outcome[Tree(remote)[p].claim] \in {"killed", "stopped", "kept", "unreachable", "unpushed"}
      BY DEF PendingIsExplained
    <2> DEFINE record == Tree(remote)[p]
               q == record.claim
    <2>1. record \in Records /\ GoodRecord(p, record, ran)
      <3>1. Tree(remote) \in Trees /\ Len(remote) \in DOMAIN remote
        BY TreeTyped DEF Shape, Typed
      <3> QED
        BY <3>1 DEF Truthful, GoodLog, GoodTree, Tree, Last, Trees
    <2>2. q \in Runs /\ Claims(record, q)
      BY <2>1 DEF Records, GoodRecord, Claims
    <2>3. ~Free(Tree(remote), q)
      BY <2>2 DEF Free
    <2>4. ~Tells(q) /\ EndedAt(q)
      BY <2>2, <2>3 DEF Explained, SettledAt
    <2>5. outcome[q] \in Ends
      BY <2>2 DEF Shape, Typed
    <2> QED
      BY <2>4, <2>5 DEF Tells, Told, EndedAt, Ends
  <1> QED
    BY <1>1, InitExplained, ExplainedStays, ShapeHolds, GoneHolds, TruthHolds, ClaimedHolds, PTL DEF Spec

-----------------------------------------------------------------------------
(* A fleet commit is on a branch once.                                       *)

\* A set of logs that holds the remote and every branch, and what a step makes of a branch
\* by a commit, a cut or a rebase, holds them after the step.
LEMMA LogsIn ==
    ASSUME Shape, Next, NEW S, remote \in S, \A c \in Checkouts : head[c] \in S,
           \A s \in Runs : Mine(s) /\ (Adds(s) \/ Cuts(s) \/ Rebase(s)) => head'[At[s]] \in S,
           \A c \in Checkouts : HandCommit(c) => head'[c] \in S
    PROVE  remote' \in S /\ \A c \in Checkouts : head'[c] \in S
  <1>0. head \in [Checkouts -> Seq(Commits)] /\ \A s \in Runs : At[s] \in Checkouts
    BY DEF Shape, Typed
  <1>1. ASSUME NEW s \in Runs, Mine(s) PROVE remote' \in S /\ \A c \in Checkouts : head'[c] \in S
    <2>1. \A c \in Checkouts \ {At[s]} : head'[c] = head[c]
      BY <1>1, MineAside DEF Shape, Aside
    <2>2. CASE LogsStay
      BY <2>2 DEF LogsStay
    <2>3. CASE Pushes(s)
      BY <1>0, <2>3 DEF Pushes
    <2>4. CASE Forwards(s)
      BY <1>0, <2>1, <2>4 DEF Forwards, Forward
    <2>5. CASE Adds(s) \/ Cuts(s) \/ Rebase(s)
      <3>1. UNCHANGED remote
        BY <2>5 DEF Adds, Cuts, Rebase
      <3> QED
        BY <1>1, <2>1, <2>5, <3>1
    <2> QED
      BY <1>1, <2>2, <2>3, <2>4, <2>5, MineLogs DEF Shape
  <1>2. CASE UNCHANGED <<remote, head>>
    BY <1>2
  <1>3. ASSUME NEW s \in Runs, Start(s) PROVE UNCHANGED <<remote, head>>
    BY <1>3 DEF Start, gitVars
  <1>4. CASE Nobodys
    BY <1>2, <1>4, NobodysMeans DEF gitVars
  <1>5. ASSUME NEW c \in Checkouts, Sessions(c) PROVE remote' \in S /\ \A d \in Checkouts : head'[d] \in S
    <2>1. UNCHANGED remote /\ \A d \in Checkouts \ {c} : head'[d] = head[d]
      BY <1>5, SessionsMeans DEF Shape
    <2>2. head'[c] \in S
      BY <1>5 DEF Sessions, Restore
    <2> QED
      BY <2>1, <2>2
  <1> QED
    BY <1>1, <1>2, <1>3, <1>4, <1>5, NextMeans

HasFleet(log, q) == \E i \in DOMAIN log : FleetBy(log, i, q)

\* The one fleet commit of a run is on the remote, or in its own checkout only; where the
\* remote has it, it stands there at the same place as in every branch.
OnceAt(q) == OneFleet(remote, q, 1) /\ \A c \in Checkouts : OneFleet(head[c], q, 1)
HomedAt(q) == \A c \in Checkouts : c # At[q] \/ HasFleet(remote, q) => Within(remote, head[c], q)
Single == \A q \in Runs : OnceAt(q) /\ HomedAt(q)

LEMMA OnceAdd ==
    ASSUME NEW log \in Seq(Commits), NEW e \in Commits, NEW q, OneFleet(log, q, 1),
           e.by = q /\ e.kind = "fleet" => ~By(log, q)
    PROVE  OneFleet(Append(log, e), q, 1)
  <1> DEFINE new == Append(log, e)
  <1>1. /\ new \in Seq(Commits) /\ Len(new) = Len(log) + 1 /\ new[Len(log) + 1] = e /\ Len(log) \in Nat
        /\ \A i \in 1..Len(log) : new[i] = log[i]
        /\ DOMAIN log = 1..Len(log)
    BY AddLog
  <1> HIDE DEF new
  <1> SUFFICES ASSUME NEW i \in 1..Len(new), NEW j \in 1..Len(new), FleetBy(new, i, q), FleetBy(new, j, q), i # j
               PROVE  FALSE
    BY DEF OneFleet, new
  <1>2. CASE i <= Len(log) /\ j <= Len(log)
    BY <1>1, <1>2 DEF OneFleet, FleetBy
  <1>3. CASE i = Len(log) + 1 /\ j <= Len(log)
    BY <1>1, <1>3 DEF FleetBy, By
  <1>4. CASE j = Len(log) + 1 /\ i <= Len(log)
    BY <1>1, <1>4 DEF FleetBy, By
  <1> QED
    BY <1>1, <1>2, <1>3, <1>4

LEMMA OnceCut ==
    ASSUME NEW log \in Seq(Commits), NEW n \in 1..Len(log), NEW q, OneFleet(log, q, 1)
    PROVE  OneFleet(SubSeq(log, 1, n), q, 1)
  <1>1. /\ Len(log) \in Nat /\ Len(SubSeq(log, 1, n)) = n
        /\ \A i \in 1..n : SubSeq(log, 1, n)[i] = log[i] /\ i \in 1..Len(log)
    BY CutLog
  <1> QED
    BY <1>1 DEF OneFleet, FleetBy

LEMMA OnceRebase ==
    ASSUME Shape, NEW s \in Runs, Rebase(s), NEW q \in Runs, OnceAt(q), HomedAt(q)
    PROVE  OneFleet(head'[At[s]], q, 1)
  <1> DEFINE c == At[s]
  <1>0. /\ c \in Checkouts /\ head \in [Checkouts -> Seq(Commits)] /\ remote \in Seq(Commits)
        /\ Len(remote) \in Nat /\ DOMAIN remote = 1..Len(remote) /\ OneFleet(remote, q, 1) /\ OneFleet(head[c], q, 1)
    BY DEF Shape, Typed, OnceAt
  <1>n. PICK n \in 1..Len(head[c]) : \E log :
          Replayed(c, n, Len(head[c]) - n, log) /\ head' = [head EXCEPT ![c] = log]
    BY RebaseMeans DEF Shape
  <1>1. PICK log : Replayed(c, n, Len(head[c]) - n, log) /\ head' = [head EXCEPT ![c] = log]
    BY <1>n
  <1>2. /\ log \in Seq(Commits) /\ Len(log) \in Nat /\ head'[c] = log /\ OneFleet(log, q, Len(remote) + 1)
        /\ Len(remote) <= Len(log) /\ \A i \in 1..Len(remote) : log[i] = remote[i]
        /\ DOMAIN log = 1..Len(log)
    BY <1>0, <1>1 DEF Replayed, Pre, Singly
  <1> SUFFICES ASSUME NEW i \in 1..Len(log), NEW j \in 1..Len(log), FleetBy(log, i, q), FleetBy(log, j, q)
               PROVE  i = j
    BY <1>2 DEF OneFleet
  <1>3. CASE Within(remote, head[c], q)
    <2>1. Within(remote, log, q)
      BY <1>2, <1>3, WithinRebase
    <2>2. \A k \in {i, j} : k \in DOMAIN remote /\ FleetBy(remote, k, q)
      BY <1>2, <2>1 DEF Within, Agree, FleetBy
    <2> QED
      BY <1>0, <2>2 DEF OneFleet
  <1>4. CASE ~HasFleet(remote, q)
    <2>1. i > Len(remote) /\ j > Len(remote)
      <3>1. \A k \in 1..Len(remote) : ~FleetBy(log, k, q)
        BY <1>0, <1>2, <1>4 DEF HasFleet, FleetBy
      <3> QED
        BY <1>0, <1>2, <3>1
    <2> QED
      BY <1>0, <1>2, <2>1 DEF OneFleet
  <1> QED
    BY <1>0, <1>3, <1>4 DEF HomedAt

LEMMA NextOnce ==
    ASSUME Shape, Gone, Truthful, Kept, Single, Next, NEW q \in Runs
    PROVE  OnceAt(q)'
  <1>0. /\ head \in [Checkouts -> Seq(Commits)] /\ remote \in Seq(Commits) /\ remote' \in Seq(Commits)
        /\ head' \in [Checkouts -> Seq(Commits)] /\ \A s \in Runs : At[s] \in Checkouts
        /\ OnceAt(q) /\ HomedAt(q)
    BY NextTyped DEF Shape, Typed, Single
  <1>S. PICK S : S = {log \in Seq(Commits) : OneFleet(log, q, 1)}
    OBVIOUS
  <1>1. remote \in S /\ \A c \in Checkouts : head[c] \in S
    BY <1>0, <1>S DEF OnceAt
  <1>2. ASSUME NEW s \in Runs, Mine(s), Adds(s) PROVE head'[At[s]] \in S
    <2>1. PICK e \in Commits : /\ head' = [head EXCEPT ![At[s]] = Append(head[At[s]], e)]
                               /\ e.by = s /\ (e.kind = "fleet" => CommitLocks(s))
      BY <1>2, AddsMeans
    <2>2. e.by = q /\ e.kind = "fleet" => ~By(head[At[s]], q)
      BY <1>0, <2>1, CommitsLocks DEF Gone, GoneAt
    <2>3. OneFleet(Append(head[At[s]], e), q, 1)
      BY <1>0, <2>2, OnceAdd DEF OnceAt
    <2>4. head'[At[s]] = Append(head[At[s]], e)
      BY <1>0, <2>1
    <2> QED
      BY <1>0, <1>S, <2>3, <2>4
  <1>3. ASSUME NEW s \in Runs, Mine(s), Cuts(s) PROVE head'[At[s]] \in S
    <2>1. base[s] \in 1..Len(head[At[s]]) /\ head'[At[s]] = SubSeq(head[At[s]], 1, base[s])
      BY <1>0, <1>3 DEF Cuts
    <2>2. OneFleet(SubSeq(head[At[s]], 1, base[s]), q, 1)
      BY <1>0, <2>1, OnceCut DEF OnceAt
    <2> QED
      BY <1>0, <1>S, <2>1, <2>2
  <1>4. ASSUME NEW s \in Runs, Mine(s), Rebase(s) PROVE head'[At[s]] \in S
    BY <1>0, <1>4, <1>S, OnceRebase
  <1>5. ASSUME NEW c \in Checkouts, HandCommit(c) PROVE head'[c] \in S
    <2>1. PICK e \in Commits : e.by \notin Runs /\ head' = [head EXCEPT ![c] = Append(head[c], e)]
      BY <1>5, HandCommits
    <2>2. OneFleet(Append(head[c], e), q, 1)
      BY <1>0, <2>1, OnceAdd DEF OnceAt
    <2> QED
      BY <1>0, <1>S, <2>1, <2>2
  <1>6. remote' \in S /\ \A c \in Checkouts : head'[c] \in S
    BY <1>1, <1>2, <1>3, <1>4, <1>5, LogsIn
  <1>7. OneFleet(remote', q, 1) /\ \A c \in Checkouts : OneFleet(head'[c], q, 1)
    BY <1>S, <1>6
  <1> QED
    BY <1>7 DEF OnceAt, OneFleet, FleetBy

\* What a push brings to the remote was in its own checkout only.
LEMMA NextHomed ==
    ASSUME Shape, Gone, Truthful, Kept, Single, Next, NEW q \in Runs
    PROVE  HomedAt(q)'
  <1>0. /\ head \in [Checkouts -> Seq(Commits)] /\ remote \in Seq(Commits) /\ remote' \in Seq(Commits)
        /\ Pre(remote, remote') /\ \A s \in Runs : At[s] \in Checkouts
        /\ \A c \in Checkouts : c # At[q] \/ HasFleet(remote, q) => Within(remote, head[c], q)
        /\ DOMAIN remote = 1..Len(remote)
    BY NextTyped, RemoteGrows DEF Shape, Typed, Single, HomedAt
  <1> SUFFICES ASSUME NEW c \in Checkouts, c # At[q] \/ HasFleet(remote', q) PROVE Within(remote', head'[c], q)
    BY DEF HomedAt, HasFleet, Within, Agree, FleetBy
  <1>1. ASSUME UNCHANGED <<remote, head>> PROVE Within(remote', head'[c], q)
    <2>1. HasFleet(remote', q) = HasFleet(remote, q) /\ remote' = remote /\ head' = head
      BY <1>1
    <2> QED
      BY <1>0, <2>1
  <1>2. ASSUME NEW s \in Runs, Mine(s) PROVE Within(remote', head'[c], q)
    <2>1. \A d \in Checkouts \ {At[s]} : head'[d] = head[d]
      BY <1>2, MineAside DEF Shape, Aside
    <2>2. CASE Within(remote, head[c], q) /\ (c # At[s] \/ q # s \/ ~CommitLocks(s))
      BY <1>0, <1>2, <2>1, <2>2, WithinGrows, WithinMine
    <2>3. CASE c = At[q] /\ ~HasFleet(remote, q)
      <3>0. remote' # remote
        BY <2>3
      <3>1. remote' = head[At[s]] /\ head' = head
        BY <1>2, <3>0, MineLogs DEF Shape, LogsStay, Pushes, Forwards, Adds, Cuts, Rebase
      <3>2. CASE At[s] = c
        BY <1>0, <3>1, <3>2, WithinSame
      <3>3. CASE At[s] # c
        <4>1. Within(remote, head[At[s]], q)
          BY <1>0, <2>3, <3>3
        <4>2. PICK i \in DOMAIN head[At[s]] : FleetBy(head[At[s]], i, q)
          BY <2>3, <3>1 DEF HasFleet
        <4>3. i \in DOMAIN remote /\ FleetBy(remote, i, q)
          <5>1. Agree(remote, head[At[s]], i)
            BY <4>1, <4>2 DEF Within
          <5>2. i \in DOMAIN remote /\ i \in 1..i
            BY <1>0, <5>1 DEF Agree
          <5> QED
            BY <4>2, <5>1, <5>2 DEF Agree, FleetBy
        <4> QED
          BY <2>3, <4>3 DEF HasFleet
      <3> QED
        BY <3>2, <3>3
    <2>4. CASE CommitLocks(s) /\ q = s /\ c = At[s]
      <3>1. ~By(remote, q) /\ remote' = remote
        BY <1>2, <2>4, CommitsLocks DEF Gone, GoneAt
      <3> QED
        BY <2>4, <3>1 DEF HasFleet, By, FleetBy
    <2> QED
      BY <1>0, <2>2, <2>3, <2>4
  <1>3. ASSUME NEW s \in Runs, Start(s) PROVE UNCHANGED <<remote, head>>
    BY <1>3 DEF Start, gitVars
  <1>4. CASE Nobodys
    BY <1>1, <1>4, NobodysMeans DEF gitVars
  <1>5. ASSUME NEW d \in Checkouts, Sessions(d) PROVE Within(remote', head'[c], q)
    <2>1. remote' = remote /\ \A x \in Checkouts \ {d} : head'[x] = head[x]
      BY <1>5, SessionsMeans DEF Shape
    <2>2. Within(remote, head[c], q)
      BY <1>0, <2>1
    <2>3. CASE HandCommit(d) /\ c = d
      <3>1. PICK e \in Commits : e.by # q /\ head' = [head EXCEPT ![d] = Append(head[d], e)]
        BY <2>3, HandCommits
      <3> QED
        BY <1>0, <2>1, <2>2, <2>3, <3>1, WithinAdd
    <2>4. CASE Restore(d) \/ c # d
      BY <1>5, <2>1, <2>2, <2>4 DEF Restore
    <2> QED
      BY <1>5, <2>3, <2>4 DEF Sessions
  <1> QED
    BY <1>1, <1>2, <1>3, <1>4, <1>5, NextMeans

LEMMA NextSingle == ASSUME Shape, Gone, Truthful, Kept, Single, Next PROVE Single'
  BY NextOnce, NextHomed DEF Single

LEMMA InitSingle == Init => Single
  <1> SUFFICES ASSUME Init PROVE Single
    OBVIOUS
  <1>1. remote = <<Root>> /\ \A c \in Checkouts : head[c] = <<Root>>
    BY DEF Init
  <1>2. \A q \in Runs : OneFleet(<<Root>>, q, 1) /\ Within(<<Root>>, <<Root>>, q)
    BY DEF OneFleet, FleetBy, Within, Root
  <1> QED
    BY <1>1, <1>2 DEF Single, OnceAt, HomedAt

-----------------------------------------------------------------------------
(* What a run ships and what its receipts say.                               *)

\* A run ships its own fleet commit, or another session's on top of it.
AboardAt(r) == job[r].members # {} =>
    /\ pc[r] \in {"committed", "pushed", "claimed"} => (Last(head[At[r]]).by \in Runs => Last(head[At[r]]).by = r)
    /\ Playing(r) => ship[r].tree = claimed[r].tree /\ (ship[r].by \in Runs => ship[r].by = r)
    /\ Deploying(r) => claimed[r].by = r /\ claimed[r].kind = "fleet"
Aboard == \A r \in Runs : AboardAt(r)

LEMMA LastAdded ==
    ASSUME NEW log \in Seq(Commits), NEW e \in Commits
    PROVE  Last(Append(log, e)) = e
  <1>1. PICK new : new = Append(log, e)
    OBVIOUS
  <1>2. new \in Seq(Commits) /\ new # <<>> /\ Len(new) = Len(log) + 1 /\ new[Len(log) + 1] = e
    BY <1>1, AddLog
  <1>3. Last(new) = new[Len(new)]
    BY <1>2, TreeTyped
  <1> QED
    BY <1>1, <1>2, <1>3

LEMMA BranchKeeps ==
    ASSUME Shape, Kept, Next, NEW r \in Runs, job[r].members # {},
           pc'[r] \in {"committed", "pushed", "claimed"}, ~CommitLocks(r), ~Start(r)
    PROVE  /\ pc[r] \in {"committed", "pushed", "claimed"}
           /\ \/ head'[At[r]] = head[At[r]]
              \/ \E e \in Commits : e.by \notin Runs /\ head'[At[r]] = Append(head[At[r]], e)
  <1>0. /\ KeptAt(r) /\ PlacedAt(r) /\ pc \in [Runs -> Places] /\ At[r] \in Checkouts
        /\ head \in [Checkouts -> Seq(Commits)]
    BY DEF Kept, Shape, Placed, Typed
  <1>1. CASE Mine(r)
    <2>1. pc[r] # "deploy"
      BY <1>0 DEF KeptAt, PlacedAt
    <2>2. \/ pc[r] = "committed" /\ pc'[r] = "pushed"
          \/ pc[r] = "pushed" /\ pc'[r] = "claimed"
      BY <1>1, <2>1, Moves DEF Shape
    <2>3. ~Pull(r) /\ ~Prepare(r) /\ ~Report(r) /\ ~PushReceipt(r) /\ pc'[r] # "off"
      BY <2>2 DEF Pull, Prepare, Report, PushReceipt
    <2>4. ASSUME NEW last, NEW how PROVE ~UndoFrom(r, last, how)
      BY <1>0, <2>3 DEF UndoFrom, Exit, Goto
    <2>5. UNCHANGED head
      BY <1>1, <2>3, <2>4 DEF Mine, RunStep, Plan, WriteLocks, PushClaim, CheckClaim, StartPlay, EndPlay, Unwind,
         Undo, UndoWrites, Interrupt, Die, gitVars
    <2> QED
      BY <2>2, <2>5
  <1>2. CASE ~Mine(r)
    <2>1. pc'[r] = pc[r] /\ Live(r)
      BY <1>2, StillMeans DEF Still, Live
    <2>2. ASSUME NEW q \in Runs, Mine(q) \/ Start(q) PROVE head'[At[r]] = head[At[r]]
      BY <1>2, <2>1, <2>2, OthersKeep DEF Shape
    <2>3. CASE Nobodys
      BY <2>3, NobodysMeans DEF gitVars
    <2>4. ASSUME NEW c \in Checkouts, Sessions(c)
          PROVE  \/ head'[At[r]] = head[At[r]]
                 \/ \E e \in Commits : e.by \notin Runs /\ head'[At[r]] = Append(head[At[r]], e)
      <3>1. CASE At[r] # c
        BY <1>0, <2>4, <3>1, SessionsMeans DEF Shape
      <3>2. CASE Restore(c)
        BY <3>2 DEF Restore
      <3>3. CASE HandCommit(c) /\ At[r] = c
        <4>1. PICK e \in Commits : e.by \notin Runs /\ head' = [head EXCEPT ![c] = Append(head[c], e)]
          BY <3>3, HandCommits
        <4> QED
          BY <1>0, <3>3, <4>1
      <3> QED
        BY <2>4, <3>1, <3>2, <3>3 DEF Sessions
    <2> QED
      BY <2>1, <2>2, <2>3, <2>4, NextMeans
  <1> QED
    BY <1>1, <1>2

LEMMA NextAboard == ASSUME Shape, Kept, Aboard, Next PROVE Aboard'
  <1> SUFFICES ASSUME NEW r \in Runs, job'[r].members # {}
               PROVE  /\ pc'[r] \in {"committed", "pushed", "claimed"} =>
                           (Last(head'[At[r]]).by \in Runs => Last(head'[At[r]]).by = r)
                      /\ Playing(r)' => ship'[r].tree = claimed'[r].tree /\ (ship'[r].by \in Runs => ship'[r].by = r)
                      /\ Deploying(r)' => claimed'[r].by = r /\ claimed'[r].kind = "fleet"
    BY DEF Aboard, AboardAt
  <1>0. /\ KeptAt(r) /\ PlacedAt(r) /\ AboardAt(r) /\ pc \in [Runs -> Places] /\ At[r] \in Checkouts
        /\ head \in [Checkouts -> Seq(Commits)] /\ claimed \in [Runs -> Commits] /\ ship \in [Runs -> Commits]
        /\ Playing(r)' => Playing(r) \/ StartPlay(r)
        /\ \A c \in Checkouts : head[c] # <<>>
    BY PlayingBefore DEF Kept, Shape, Placed, Typed, Aboard
  <1>1. CASE ~Deploying(r)'
    BY <1>1 DEF Deploying
  <1>2. CASE CommitLocks(r)
    <2>1. PICK fleet : /\ fleet = Commit(r, "fleet", work[At[r]]) /\ fleet \in Commits
                       /\ head'[At[r]] = Append(head[At[r]], fleet) /\ claimed'[r] = fleet
      BY <1>0, <1>2, CommitTyped DEF CommitLocks, Shape, Typed
    <2>2. fleet.by = r /\ fleet.kind = "fleet"
      BY <2>1 DEF Commit
    <2>3. Last(head'[At[r]]) = fleet
      BY <1>0, <2>1, LastAdded
    <2>4. ~Playing(r)'
      BY <1>0, <1>2, CommitsLocks DEF KeptAt, StartPlay
    <2> QED
      BY <2>1, <2>2, <2>3, <2>4
  <1>3. CASE Deploying(r)' /\ ~CommitLocks(r)
    <2>1. job[r].members # {} /\ Deploying(r) /\ claimed'[r] = claimed[r] /\ claimed[r].by = r /\ claimed[r].kind = "fleet"
      BY <1>0, <1>3, DeployingBefore DEF AboardAt
    <2>2. pc'[r] \in {"committed", "pushed", "claimed"} => (Last(head'[At[r]]).by \in Runs => Last(head'[At[r]]).by = r)
      <3> SUFFICES ASSUME pc'[r] \in {"committed", "pushed", "claimed"}
                   PROVE  Last(head'[At[r]]).by \in Runs => Last(head'[At[r]]).by = r
        OBVIOUS
      <3>1. ~Start(r)
        BY <1>0 DEF Start, Goto
      <3>2. /\ pc[r] \in {"committed", "pushed", "claimed"}
            /\ \/ head'[At[r]] = head[At[r]]
               \/ \E e \in Commits : e.by \notin Runs /\ head'[At[r]] = Append(head[At[r]], e)
        BY <1>3, <2>1, <3>1, BranchKeeps
      <3>3. ASSUME NEW e \in Commits, e.by \notin Runs, head'[At[r]] = Append(head[At[r]], e)
            PROVE  Last(head'[At[r]]).by \notin Runs
        BY <1>0, <3>3, LastAdded
      <3> QED
        BY <1>0, <2>1, <3>2, <3>3 DEF AboardAt
    <2>3. Playing(r)' => ship'[r].tree = claimed'[r].tree /\ (ship'[r].by \in Runs => ship'[r].by = r)
      <3>1. CASE StartPlay(r)
        <4>1. pc[r] = "claimed" /\ ship'[r] = Last(head[At[r]])
          BY <1>0, <3>1 DEF StartPlay
        <4>2. job[r].kind # "deploy"
          BY <1>0, <2>1 DEF KeptAt
        <4>3. Tree(head[At[r]]) = claimed[r].tree
          BY <1>0, <4>1, <4>2 DEF KeptAt
        <4> QED
          BY <1>0, <2>1, <4>1, <4>3 DEF AboardAt, Tree
      <3>2. CASE ~StartPlay(r)
        BY <1>0, <2>1, <3>2, PlayingStays DEF AboardAt, Shape
      <3> QED
        BY <3>1, <3>2
    <2> QED
      BY <2>1, <2>2, <2>3
  <1> QED
    BY <1>1, <1>2, <1>3

LEMMA PlayMoves ==
    ASSUME Shape, Next, NEW q \in Runs, ~StartPlay(q), NEW b \in Boxes, play'[q][b] \in {"wait", "clear", "held"}
    PROVE  play[q][b] \in {"wait", "clear", "held"}
  <1>0. play \in [Runs -> [Boxes -> Plays]]
    BY DEF Shape, Typed
  <1>1. ASSUME NEW s \in Runs, Start(s) \/ Pull(s) \/ Plan(s) \/ WriteLocks(s) \/ CommitLocks(s) \/ PushClaim(s)
                 \/ CheckClaim(s) \/ EndPlay(s) \/ Report(s) \/ PushReceipt(s) \/ Prepare(s)
                 \/ Unwind(s) \/ Expire(s)
        PROVE  UNCHANGED play
    BY <1>1 DEF Start, Pull, Plan, WriteLocks, CommitLocks, PushClaim, CheckClaim, EndPlay, Report,
       PushReceipt, Prepare, Unwind, Expire
  <1>2. ASSUME NEW s \in Runs, StartPlay(s) PROVE play'[q] = play[q]
    <2>1. s # q
      BY <1>2
    <2> QED
      BY <1>0, <1>2, <2>1 DEF StartPlay
  <1>3. ASSUME NEW s \in Runs, Interrupt(s) \/ Die(s) PROVE play[q][b] \in {"wait", "clear", "held"}
    <2>1. UNCHANGED play \/ Stopped(s)
      BY <1>3 DEF Interrupt, Die
    <2>2. Stopped(s) => play'[q][b] = play[q][b] \/ play'[q][b] = "no"
      BY <1>0 DEF Stopped
    <2> QED
      BY <2>1, <2>2
  <1>4. ASSUME NEW s \in Runs, NEW d \in Boxes, PlayStep(s, d) PROVE play[q][b] \in {"wait", "clear", "held"}
    <2>1. \E place \in Plays : /\ play' = [play EXCEPT ![s][d] = place]
                               /\ play[s][d] \in {"wait", "clear", "held"} \/ place \in {"ok", "failed"}
      BY <1>4 DEF PlayStep, Look, Take, Reconcile, ReconcileFails, Release, On, Plays
    <2>2. PICK place \in Plays : /\ play' = [play EXCEPT ![s][d] = place]
                                 /\ play[s][d] \in {"wait", "clear", "held"} \/ place \in {"ok", "failed"}
      BY <2>1
    <2>3. play'[q][b] = IF q = s /\ b = d THEN place ELSE play[q][b]
      BY <1>0, <2>2
    <2> QED
      BY <2>2, <2>3
  <1>5. ASSUME NEW s \in Runs, Mine(s) \/ Start(s) PROVE play[q][b] \in {"wait", "clear", "held"}
    BY <1>1, <1>2, <1>3, <1>5 DEF Mine, RunStep
  <1>6. CASE Nobodys
    <2>1. ASSUME NEW d \in Boxes, LockExpires(d) PROVE UNCHANGED play
      BY <2>1 DEF LockExpires
    <2> QED
      BY <1>1, <1>4, <1>6, <2>1 DEF Nobodys
  <1>7. ASSUME NEW c \in Checkouts, Sessions(c) PROVE UNCHANGED play
    BY <1>7 DEF Sessions, HandCommit, Restore
  <1> QED
    BY <1>5, <1>6, <1>7, NextMeans

\* Only a reconciler pass moves containers and writes a receipt.
LEMMA OnlyPasses ==
    ASSUME Next
    PROVE  \/ UNCHANGED <<running, receipt>>
           \/ \E r \in Runs, b \in Boxes : Reconcile(r, b) \/ ReconcileFails(r, b)
  <1>1. ASSUME NEW s \in Runs, Mine(s) \/ Start(s) PROVE UNCHANGED <<running, receipt>>
    BY <1>1 DEF Mine, RunStep, Start, Pull, Plan, WriteLocks, CommitLocks, PushClaim, CheckClaim, StartPlay,
       EndPlay, Report, PushReceipt, Prepare, Unwind, Interrupt, Die, boxVars
  <1>2. CASE Nobodys
    <2>1. ASSUME NEW b \in Boxes, LockExpires(b) PROVE UNCHANGED <<running, receipt>>
      BY <2>1 DEF LockExpires
    <2>2. ASSUME NEW s \in Runs, Expire(s) PROVE UNCHANGED <<running, receipt>>
      BY <2>2 DEF Expire, boxVars
    <2>3. ASSUME NEW s \in Runs, NEW b \in Boxes, Look(s, b) \/ Take(s, b) \/ Release(s, b)
          PROVE  UNCHANGED <<running, receipt>>
      BY <2>3 DEF Look, Take, Release, boxVars
    <2> QED
      BY <1>2, <2>1, <2>2, <2>3 DEF Nobodys, PlayStep
  <1>3. ASSUME NEW c \in Checkouts, Sessions(c) PROVE UNCHANGED <<running, receipt>>
    BY <1>3 DEF Sessions, HandCommit, Restore, boxVars
  <1> QED
    BY <1>1, <1>2, <1>3, NextMeans

\* A pass of a run that plays: what it deploys, where its receipt goes.
LEMMA PassMeans ==
    ASSUME Shape, NEW r \in Runs, NEW b \in Boxes, Reconcile(r, b) \/ ReconcileFails(r, b)
    PROVE  /\ Playing(r) /\ play[r][b] = "held" /\ play'[r][b] \in {"done", "broken"}
           /\ UNCHANGED <<gitVars, pc, runVars, excuses>>
           /\ \A p \in Projects : running'[p] # running[p] => BoxOf[p] = b /\ running'[p] = ship[r].tree[p].pin
           /\ \A d \in Boxes : receipt'[d] = receipt[d] \/ (d = b /\ receipt'[d].commit = ship[r])
           /\ Reconcile(r, b) => /\ \A p \in On_(b) : running'[p] = ship[r].tree[p].pin
                                 /\ receipt'[b].commit = ship[r]
           /\ ReconcileFails(r, b) => receipt'[b] = receipt[b] \/ receipt'[b].result = "failed"
  <1>0. receipt \in [Boxes -> Receipts] /\ play \in [Runs -> [Boxes -> Plays]] /\ running \in [Projects -> Pins]
    BY DEF Shape, Typed
  <1>1. /\ play[r][b] = "held" /\ UNCHANGED <<gitVars, pc, runVars, excuses>>
        /\ \E place \in {"done", "broken"} : play' = [play EXCEPT ![r][b] = place]
        /\ running' \in {running, Moved(r, b)}
        /\ \E e \in {"ok", "failed"} : receipt' \in {receipt, [receipt EXCEPT ![b] = [commit |-> ship[r], result |-> e]]}
    BY DEF Reconcile, ReconcileFails, On, history
  <1>2. Playing(r) /\ play'[r][b] \in {"done", "broken"}
    BY <1>0, <1>1 DEF Playing
  <1>3. \A p \in Projects : running'[p] # running[p] => BoxOf[p] = b /\ running'[p] = ship[r].tree[p].pin
    BY <1>0, <1>1 DEF Moved, On_
  <1>4. \A d \in Boxes : receipt'[d] = receipt[d] \/ (d = b /\ receipt'[d].commit = ship[r])
    <2>1. PICK e \in {"ok", "failed"} : receipt' \in {receipt, [receipt EXCEPT ![b] = [commit |-> ship[r], result |-> e]]}
      BY <1>1
    <2> SUFFICES ASSUME NEW d \in Boxes PROVE receipt'[d] = receipt[d] \/ (d = b /\ receipt'[d].commit = ship[r])
      OBVIOUS
    <2>2. CASE receipt' = receipt
      BY <2>2
    <2>3. CASE receipt' = [receipt EXCEPT ![b] = [commit |-> ship[r], result |-> e]]
      <3>1. receipt'[d] = IF d = b THEN [commit |-> ship[r], result |-> e] ELSE receipt[d]
        BY <1>0, <2>3
      <3> QED
        BY <3>1
    <2> QED
      BY <2>1, <2>2, <2>3
  <1>5. Reconcile(r, b) => /\ \A p \in On_(b) : running'[p] = ship[r].tree[p].pin
                           /\ receipt'[b].commit = ship[r]
    BY <1>0 DEF Reconcile, Moved, On_
  <1>6. ReconcileFails(r, b) => receipt'[b] = receipt[b] \/ receipt'[b].result = "failed"
    BY <1>0 DEF ReconcileFails
  <1> QED
    BY <1>1, <1>2, <1>3, <1>4, <1>5, <1>6

\* The receipts of a run come from its play: it got that far, and is past the pass.
ReceivedAt(q) == excuses = {} => \A b \in Boxes : receipt[b].commit.by = q =>
    pc[q] \in {"playing", "played", "push", "off"} /\ play[q][b] \notin {"wait", "clear", "held"}
Received == \A q \in Runs : ReceivedAt(q)

LEMMA NextReceived == ASSUME Shape, Claimed, Aboard, Received, Next PROVE Received'
  <1> SUFFICES ASSUME NEW q \in Runs, excuses' = {}, NEW b \in Boxes, receipt'[b].commit.by = q
               PROVE  pc'[q] \in {"playing", "played", "push", "off"} /\ play'[q][b] \notin {"wait", "clear", "held"}
    BY DEF Received, ReceivedAt
  <1>0. excuses = {} /\ pc \in [Runs -> Places]
    BY ExcusesGrow DEF Shape, Typed
  <1>1. CASE receipt[b].commit.by = q
    <2>1. pc[q] \in {"playing", "played", "push", "off"} /\ play[q][b] \notin {"wait", "clear", "held"}
      BY <1>0, <1>1 DEF Received, ReceivedAt
    <2>2. ~StartPlay(q) /\ ~Start(q)
      BY <2>1 DEF StartPlay, Start
    <2>3. play'[q][b] \notin {"wait", "clear", "held"}
      BY <2>1, <2>2, PlayMoves
    <2>4. pc'[q] \in {"playing", "played", "push", "off"}
      <3>1. CASE Mine(q)
        BY <2>1, <3>1, Moves DEF Shape
      <3>2. CASE ~Mine(q)
        BY <2>1, <2>2, <3>2, StillMeans DEF Still
      <3> QED
        BY <3>1, <3>2
    <2> QED
      BY <2>3, <2>4
  <1>2. CASE receipt[b].commit.by # q
    <2>1. PICK r \in Runs, d \in Boxes : Reconcile(r, d) \/ ReconcileFails(r, d)
      BY <1>2, OnlyPasses
    <2>2. /\ Playing(r) /\ play'[r][d] \in {"done", "broken"} /\ UNCHANGED pc
          /\ receipt'[b] = receipt[b] \/ (b = d /\ receipt'[b].commit = ship[r])
      BY <2>1, PassMeans
    <2>3. b = d /\ ship[r].by = q
      BY <1>2, <2>2
    <2>4. r = q
      BY <1>0, <2>2, <2>3, PlaysClaimed DEF Aboard, AboardAt
    <2>5. pc[r] \in {"playing", "off"}
      BY <2>2 DEF Claimed, Kept, KeptAt
    <2> QED
      BY <2>2, <2>3, <2>4, <2>5
  <1> QED
    BY <1>1, <1>2

\* As long as a run deploys, an ok receipt of its fleet commit is true of its box.
ReportedAt(s) == excuses = {} /\ Deploying(s) => \A b \in Boxes :
    receipt[b].commit = claimed[s] /\ receipt[b].result = "ok" =>
        \A p \in On_(b) : running[p] = claimed[s].tree[p].pin
Reported == \A s \in Runs : ReportedAt(s)

LEMMA NextReported == ASSUME Shape, Claimed, Aboard, Received, Reported, Next PROVE Reported'
  <1> SUFFICES ASSUME NEW s \in Runs, excuses' = {}, Deploying(s)', NEW b \in Boxes,
                      receipt'[b].commit = claimed'[s], receipt'[b].result = "ok", NEW p \in On_(b)
               PROVE  running'[p] = claimed'[s].tree[p].pin
    BY DEF Reported, ReportedAt, On_
  <1>0. excuses = {} /\ p \in Projects /\ BoxOf[p] = b
    BY ExcusesGrow DEF On_
  <1>1. Kept
    BY DEF Claimed
  <1>2. CASE CommitLocks(s)
    <2>1. UNCHANGED <<receipt, running>> /\ claimed'[s].by = s /\ pc[s] = "written"
      BY <1>2 DEF CommitLocks, boxVars, Commit, Shape, Typed
    <2> QED
      BY <1>0, <2>1 DEF Received, ReceivedAt
  <1>3. CASE ~CommitLocks(s)
    <2>1. claimed'[s] = claimed[s] /\ Deploying(s) /\ claimed[s].by = s
      BY <1>1, <1>3, DeployingBefore DEF Aboard, AboardAt
    <2>2. CASE UNCHANGED <<running, receipt>>
      BY <1>0, <2>1, <2>2 DEF Reported, ReportedAt
    <2>3. ASSUME NEW r \in Runs, NEW d \in Boxes, Reconcile(r, d) \/ ReconcileFails(r, d)
          PROVE  running'[p] = claimed[s].tree[p].pin
      <3>0. /\ Playing(r) /\ play[r][d] = "held" /\ UNCHANGED <<gitVars, pc, runVars, excuses>>
            /\ running'[p] # running[p] => BoxOf[p] = d /\ running'[p] = ship[r].tree[p].pin
            /\ receipt'[b] = receipt[b] \/ (b = d /\ receipt'[b].commit = ship[r])
            /\ Reconcile(r, d) => /\ \A x \in On_(d) : running'[x] = ship[r].tree[x].pin
                                  /\ receipt'[d].commit = ship[r]
            /\ ReconcileFails(r, d) => receipt'[d] = receipt[d] \/ receipt'[d].result = "failed"
        BY <1>0, <2>3, PassMeans
      <3>1. CASE b = d /\ Reconcile(r, d)
        BY <2>1, <3>0, <3>1
      <3>2. CASE receipt'[b] = receipt[b] /\ running'[p] = running[p]
        BY <1>0, <2>1, <3>2 DEF Reported, ReportedAt
      <3>3. CASE receipt'[b] = receipt[b] /\ running'[p] # running[p]
        <4>1. b = d /\ receipt[b].commit.by = s
          BY <1>0, <2>1, <3>0, <3>3
        <4>2. pc[s] \in {"playing", "played", "push", "off"} /\ play[s][b] \notin {"wait", "clear", "held"}
          BY <1>0, <4>1 DEF Received, ReceivedAt
        <4>3. r # s
          BY <3>0, <4>1, <4>2
        <4>4. OnRemoteFrom(s)
          BY <2>1, <4>2 DEF OnRemoteFrom, Deploying, Claimed, Held, HoldsAt
        <4> QED
          BY <1>0, <3>0, <4>3, <4>4, PlaysClaimed, NoTwoClaims
      <3>4. CASE receipt'[b] # receipt[b] /\ ReconcileFails(r, d)
        BY <3>0, <3>4
      <3> QED
        BY <2>3, <3>0, <3>1, <3>2, <3>3, <3>4
    <2> QED
      BY <2>1, <2>2, <2>3, OnlyPasses
  <1> QED
    BY <1>2, <1>3

LEMMA InitReported == Init => Aboard /\ Received /\ Reported
  <1> SUFFICES ASSUME Init PROVE Aboard /\ Received /\ Reported
    OBVIOUS
  <1>1. \A r \in Runs : pc[r] = "idle" /\ job[r] = NoJob /\ ~Deploying(r)
    BY DEF Init, NoJob, Deploying
  <1>2. \A b \in Boxes : receipt[b].commit.by \notin Runs
    BY DEF Init, Root
  <1> QED
    BY <1>1, <1>2 DEF Aboard, AboardAt, Received, ReceivedAt, Reported, ReportedAt, NoJob

-----------------------------------------------------------------------------
(* Where the pin of a record comes from.                                     *)

\* What each run's records stand for, per project: the run whose fleet commit brought the
\* pin, and the pin.  A run that stamps a project it does not move passes on what it read.
First == [from |-> None, pin |-> 0]
Of(sets, p, record) == IF record.plan = None THEN First ELSE sets[record.plan][p]

\* The source of a project changes only with the fleet commit of the new source.
Traced(sets, log) == \A i \in DOMAIN log : i + 1 \in DOMAIN log => \A p \in Projects :
    Of(sets, p, log[i+1].tree[p]) # Of(sets, p, log[i].tree[p]) =>
        /\ Of(sets, p, log[i+1].tree[p]).from \in Runs
        /\ FleetBy(log, i + 1, Of(sets, p, log[i+1].tree[p]).from)

LEMMA Entered ==
    ASSUME NEW sets, NEW log \in Seq(Commits), Traced(sets, log), NEW p \in Projects,
           NEW n \in DOMAIN log, NEW m \in DOMAIN log, n <= m,
           Of(sets, p, log[m].tree[p]) # Of(sets, p, log[n].tree[p])
    PROVE  /\ Of(sets, p, log[m].tree[p]).from \in Runs
           /\ \E j \in (n + 1)..m : FleetBy(log, j, Of(sets, p, log[m].tree[p]).from)
  <1> DEFINE V(i) == Of(sets, p, log[i].tree[p])
             By_(i) == V(i).from \in Runs /\ \E j \in (n + 1)..i : FleetBy(log, j, V(i).from)
             T == {k \in 0..(m - n) : V(n + k) = V(n) \/ By_(n + k)}
  <1>0. n \in Nat /\ m \in Nat /\ DOMAIN log = 1..Len(log) /\ Len(log) \in Nat /\ n + (m - n) = m /\ m - n \in Nat
    OBVIOUS
  <1>1. 0 \in T
    BY <1>0
  <1>2. ASSUME NEW k \in 0..((m - n) - 1), k \in T PROVE k + 1 \in T
    <2>0. n + k \in DOMAIN log /\ (n + k) + 1 \in DOMAIN log /\ k + 1 \in 0..(m - n) /\ (n + k) + 1 = n + (k + 1)
          /\ (n + k) + 1 \in (n + 1)..((n + k) + 1) /\ \A j \in (n + 1)..(n + k) : j \in (n + 1)..((n + k) + 1)
      BY <1>0
    <2>1. CASE V((n + k) + 1) = V(n + k)
      BY <1>2, <2>0, <2>1
    <2>2. CASE V((n + k) + 1) # V(n + k)
      <3>1. V((n + k) + 1).from \in Runs /\ FleetBy(log, (n + k) + 1, V((n + k) + 1).from)
        BY <2>0, <2>2 DEF Traced
      <3>2. By_((n + k) + 1)
        BY <2>0, <3>1
      <3> QED
        BY <2>0, <3>2
    <2> QED
      BY <2>1, <2>2
  <1>3. m - n \in T
    <2>1. m - n \in 0..(m - n)
      BY <1>0
    <2> HIDE DEF T
    <2> QED
      BY <1>0, <1>1, <1>2, <2>1, CountUp
  <1> QED
    BY <1>0, <1>3

LEMMA TracedAdd ==
    ASSUME NEW sets, NEW log \in Seq(Commits), log # <<>>, NEW e \in Commits, Traced(sets, log),
           \A p \in Projects : Of(sets, p, e.tree[p]) # Of(sets, p, Tree(log)[p]) =>
               Of(sets, p, e.tree[p]).from \in Runs /\ e.by = Of(sets, p, e.tree[p]).from /\ e.kind = "fleet"
    PROVE  Traced(sets, Append(log, e))
  <1> DEFINE new == Append(log, e)
  <1>1. /\ new \in Seq(Commits) /\ Len(new) = Len(log) + 1 /\ new[Len(log) + 1] = e /\ Len(log) \in Nat
        /\ \A i \in 1..Len(log) : new[i] = log[i]
        /\ DOMAIN log = 1..Len(log) /\ DOMAIN new = 1..Len(new) /\ Tree(log) = log[Len(log)].tree
    BY AddLog, TreeTyped DEF Tree
  <1> HIDE DEF new
  <1> SUFFICES ASSUME NEW i \in DOMAIN new, i + 1 \in DOMAIN new, NEW p \in Projects,
                      Of(sets, p, new[i+1].tree[p]) # Of(sets, p, new[i].tree[p])
               PROVE  /\ Of(sets, p, new[i+1].tree[p]).from \in Runs
                      /\ FleetBy(new, i + 1, Of(sets, p, new[i+1].tree[p]).from)
    BY DEF Traced, new
  <1>2. CASE i + 1 <= Len(log)
    <2>1. i \in DOMAIN log /\ i + 1 \in DOMAIN log /\ new[i] = log[i] /\ new[i+1] = log[i+1]
      BY <1>1, <1>2
    <2> QED
      BY <2>1 DEF Traced, FleetBy
  <1>3. CASE i = Len(log)
    <2>1. new[i] = log[Len(log)] /\ new[i+1] = e
      BY <1>1, <1>3
    <2> QED
      BY <1>1, <2>1 DEF FleetBy
  <1> QED
    BY <1>1, <1>2, <1>3

LEMMA TracedCut ==
    ASSUME NEW sets, NEW log \in Seq(Commits), NEW n \in 1..Len(log), Traced(sets, log)
    PROVE  Traced(sets, SubSeq(log, 1, n))
  <1>1. /\ Len(log) \in Nat /\ DOMAIN log = 1..Len(log) /\ DOMAIN SubSeq(log, 1, n) = 1..n
        /\ \A i \in 1..n : SubSeq(log, 1, n)[i] = log[i] /\ i \in DOMAIN log
    BY CutLog
  <1> QED
    BY <1>1 DEF Traced, FleetBy

LEMMA TracedRebase ==
    ASSUME NEW sets, Shape, NEW s \in Runs, Rebase(s), Traced(sets, remote), Traced(sets, head[At[s]])
    PROVE  Traced(sets, head'[At[s]])
  <1> DEFINE c == At[s]
  <1>0. /\ c \in Checkouts /\ head \in [Checkouts -> Seq(Commits)] /\ remote \in Seq(Commits)
        /\ Len(remote) \in Nat \ {0} /\ Len(head[c]) \in Nat
        /\ DOMAIN remote = 1..Len(remote) /\ DOMAIN head[c] = 1..Len(head[c])
    BY DEF Shape, Typed
  <1>n. PICK n \in 1..Len(head[c]) : \E log :
          Replayed(c, n, Len(head[c]) - n, log) /\ head' = [head EXCEPT ![c] = log]
    BY RebaseMeans DEF Shape
  <1>1. PICK log : Replayed(c, n, Len(head[c]) - n, log) /\ head' = [head EXCEPT ![c] = log]
    BY <1>n
  <1>2. /\ log \in Seq(Commits) /\ Len(log) \in Nat /\ head'[c] = log /\ n + (Len(head[c]) - n) = Len(head[c])
        /\ Len(remote) <= Len(log) /\ \A i \in 1..Len(remote) : log[i] = remote[i]
        /\ DOMAIN log = 1..Len(log)
    BY <1>0, <1>1 DEF Replayed, Pre
  <1> SUFFICES ASSUME NEW i \in DOMAIN log, i + 1 \in DOMAIN log, NEW p \in Projects,
                      Of(sets, p, log[i+1].tree[p]) # Of(sets, p, log[i].tree[p])
               PROVE  /\ Of(sets, p, log[i+1].tree[p]).from \in Runs
                      /\ FleetBy(log, i + 1, Of(sets, p, log[i+1].tree[p]).from)
    BY <1>2 DEF Traced
  <1>3. CASE i + 1 <= Len(remote)
    <2>1. i \in DOMAIN remote /\ i + 1 \in DOMAIN remote /\ log[i] = remote[i] /\ log[i+1] = remote[i+1]
      BY <1>0, <1>2, <1>3
    <2> QED
      BY <2>1 DEF Traced, FleetBy
  <1>4. CASE i + 1 > Len(remote)
    <2>1. i + 1 \in (Len(remote) + 1)..Len(log) /\ (i + 1) - 1 = i
      BY <1>0, <1>2, <1>4
    <2>2. PICK j \in (n + 1)..(n + (Len(head[c]) - n)) :
            /\ log[i+1].by = head[c][j].by /\ log[i+1].kind = head[c][j].kind
            /\ \A x \in Projects :
                 \/ log[i+1].tree[x] = log[(i+1)-1].tree[x]
                 \/ /\ log[i+1].tree[x] = head[c][j].tree[x]
                    /\ head[c][j].tree[x] # head[c][j-1].tree[x]
                    /\ log[(i+1)-1].tree[x] \in {head[c][j-1].tree[x], head[c][j].tree[x]}
      BY <1>1, <2>1 DEF Replayed
    <2>3. j - 1 \in DOMAIN head[c] /\ j \in DOMAIN head[c] /\ (j - 1) + 1 = j
      BY <1>0, <1>2
    <2>4. /\ log[i+1].tree[p] = head[c][j].tree[p]
          /\ log[i].tree[p] = head[c][j-1].tree[p]
      BY <2>1, <2>2
    <2>5. /\ Of(sets, p, head[c][(j-1)+1].tree[p]).from \in Runs
          /\ FleetBy(head[c], (j-1)+1, Of(sets, p, head[c][(j-1)+1].tree[p]).from)
      BY <2>3, <2>4 DEF Traced
    <2> QED
      BY <2>2, <2>3, <2>4, <2>5 DEF FleetBy
  <1> QED
    BY <1>0, <1>2, <1>3, <1>4

-----------------------------------------------------------------------------
(* What an ok record is worth.                                               *)

\* Two fleet commits on the remote, that of q after that of r.
Late(r, q) == \E i, j \in DOMAIN remote : i < j /\ FleetBy(remote, i, r) /\ FleetBy(remote, j, q)

\* An ok record: its source is on the remote, no run that deploys comes before it there,
\* and while the remote's record has the same source, its box runs its pin.
OkAt(sets, p, record) ==
    /\ Of(sets, p, record).from # None =>
         /\ Of(sets, p, record).from \in Runs /\ HasFleet(remote, Of(sets, p, record).from)
         /\ excuses = {} => \A r \in Runs : Deploying(r) => ~Late(r, Of(sets, p, record).from)
    /\ excuses = {} /\ Of(sets, p, record) = Of(sets, p, Tree(remote)[p]) => running[p] = record.pin
SoundRecord(sets, p, record) ==
    record.pin = Of(sets, p, record).pin /\ (record.result = "ok" => OkAt(sets, p, record))
Sound(sets) == {g \in Projects \X Records : SoundRecord(sets, g[1], g[2])}

\* What a run wrote, and what its fleet commit passes on.
SourcesAt(sets, r) ==
    /\ pc[r] = "written" => \A p \in Projects : sets[r][p] = Of(sets, p, work[At[r]][p])
    /\ Deploying(r) => \A p \in Projects : sets[r][p] = Of(sets, p, claimed[r].tree[p])
    /\ pc[r] = "written" => \A p \in job[r].members : sets[r][p].from = r

Kin(sets) ==
    /\ InLog(remote, Sound(sets)) /\ Traced(sets, remote)
    /\ \A c \in Checkouts : InLog(head[c], Sound(sets)) /\ InTree(work[c], Sound(sets)) /\ Traced(sets, head[c])
    /\ \A r \in Runs : SourcesAt(sets, r)

LEMMA SoundMeans ==
    ASSUME NEW sets, NEW p, NEW record
    PROVE  <<p, record>> \in Sound(sets) <=> p \in Projects /\ record \in Records /\ SoundRecord(sets, p, record)
  BY DEF Sound

LEMMA SoundSame ==
    ASSUME NEW sets, NEW more, NEW q \in Runs, \A r \in Runs \ {q} : more[r] = sets[r],
           InTree(Tree(remote), Others(q)), NEW g \in Sound(sets), g[2].plan # q
    PROVE  g \in Sound(more) /\ Of(more, g[1], g[2]) = Of(sets, g[1], g[2])
  <1>1. g \in Projects \X Records /\ SoundRecord(sets, g[1], g[2]) /\ g[2].plan \in Runs \cup {None}
    BY DEF Sound, Records
  <1>2. Of(more, g[1], g[2]) = Of(sets, g[1], g[2])
    BY <1>1 DEF Of
  <1>3. Of(more, g[1], Tree(remote)[g[1]]) = Of(sets, g[1], Tree(remote)[g[1]])
    <2>1. Tree(remote)[g[1]] \in Records /\ Tree(remote)[g[1]].plan # q
      BY <1>1 DEF InTree, Others
    <2> QED
      BY <2>1 DEF Of, Records
  <1> QED
    BY <1>1, <1>2, <1>3 DEF Sound, SoundRecord, OkAt

\* Sound records stay sound: what a push brings after them has another source.
LEMMA SoundGrows ==
    ASSUME NEW sets, Shape, Gone, Kept, Next, Traced(sets, remote'), \A q \in Runs : OneFleet(remote', q, 1),
           NEW g \in Sound(sets),
           g[2].result = "ok" /\ excuses' = {} /\ Of(sets, g[1], g[2]) = Of(sets, g[1], Tree(remote)[g[1]]) =>
               running'[g[1]] = g[2].pin
    PROVE  g \in Sound(sets)'
  <1>. PICK p \in Projects, record \in Records : g = <<p, record>>
    BY DEF Sound
  <1>. PICK o : o = Of(sets, p, record)
    OBVIOUS
  <1>0. /\ record.pin = o.pin /\ (record.result = "ok" => OkAt(sets, p, record))
        /\ remote \in Seq(Commits) /\ remote' \in Seq(Commits) /\ Pre(remote, remote')
        /\ remote # <<>> /\ remote' # <<>> /\ excuses \subseteq excuses'
        /\ record.result = "ok" /\ excuses' = {} /\ o = Of(sets, p, Tree(remote)[p]) => running'[p] = record.pin
        /\ None \notin Runs
    BY NextTyped, RemoteGrows, ExcusesGrow DEF Sound, SoundRecord, Shape, Typed
  <1>1. /\ DOMAIN remote = 1..Len(remote) /\ DOMAIN remote' = 1..Len(remote') /\ Len(remote) \in Nat
        /\ Len(remote') \in Nat /\ Len(remote) <= Len(remote') /\ \A i \in DOMAIN remote : remote'[i] = remote[i]
    BY <1>0 DEF Pre
  <1>2. ASSUME record.result = "ok", o.from # None
        PROVE  /\ o.from \in Runs /\ (\E k \in DOMAIN remote : FleetBy(remote', k, o.from))
               /\ \A j \in DOMAIN remote' : FleetBy(remote', j, o.from) => j \in DOMAIN remote
    <2>1. o.from \in Runs
      BY <1>0, <1>2 DEF OkAt
    <2>2. PICK k \in DOMAIN remote : FleetBy(remote, k, o.from)
      BY <1>0, <1>2 DEF OkAt, HasFleet
    <2>3. FleetBy(remote', k, o.from) /\ k \in DOMAIN remote'
      BY <1>1, <2>2 DEF FleetBy
    <2> QED
      BY <1>1, <2>1, <2>3 DEF OneFleet
  <1>3. ASSUME record.result = "ok", o.from # None, excuses' = {}, NEW r \in Runs, Deploying(r)',
               NEW i \in DOMAIN remote', NEW j \in DOMAIN remote', i < j,
               FleetBy(remote', i, r), FleetBy(remote', j, o.from)
        PROVE  FALSE
    <2>1. j \in DOMAIN remote /\ i \in DOMAIN remote
      <3>1. j \in DOMAIN remote
        BY <1>2, <1>3
      <3> QED
        BY <1>1, <1>3, <3>1
    <2>2. FleetBy(remote, i, r) /\ FleetBy(remote, j, o.from)
      BY <1>1, <1>3, <2>1 DEF FleetBy
    <2>3. CASE CommitLocks(r)
      BY <2>1, <2>2, <2>3, CommitsLocks DEF Gone, GoneAt, By, FleetBy
    <2>4. CASE Deploying(r)
      BY <1>0, <1>3, <2>1, <2>2, <2>4 DEF OkAt, Late
    <2> QED
      BY <1>3, <2>3, <2>4, DeployingBefore
  <1>4. ASSUME record.result = "ok", excuses' = {}, o = Of(sets, p, Tree(remote')[p]) PROVE running'[p] = record.pin
    <2>1. CASE o = Of(sets, p, Tree(remote)[p])
      BY <1>0, <1>4, <2>1
    <2>2. CASE o # Of(sets, p, Tree(remote)[p])
      <3>1. Tree(remote) = remote'[Len(remote)].tree /\ Tree(remote') = remote'[Len(remote')].tree
            /\ Len(remote) \in DOMAIN remote /\ Len(remote) \in DOMAIN remote' /\ Len(remote') \in DOMAIN remote'
        <4>1. Tree(remote) = remote[Len(remote)].tree /\ Len(remote) \in 1..Len(remote)
          BY <1>0, TreeTyped DEF Tree
        <4>2. Tree(remote') = remote'[Len(remote')].tree /\ Len(remote') \in 1..Len(remote')
          BY <1>0, TreeTyped DEF Tree
        <4> QED
          BY <1>1, <4>1, <4>2
      <3>2. Of(sets, p, remote'[Len(remote')].tree[p]) = o /\ Of(sets, p, remote'[Len(remote)].tree[p]) # o
        BY <1>4, <2>2, <3>1
      <3>3. o.from \in Runs /\ \E j \in (Len(remote) + 1)..Len(remote') : FleetBy(remote', j, o.from)
        <4>. PICK log : log = remote'
          OBVIOUS
        <4>1. /\ log \in Seq(Commits) /\ Traced(sets, log) /\ Len(remote) \in DOMAIN log /\ Len(log) \in DOMAIN log
              /\ Len(remote) <= Len(log) /\ Of(sets, p, log[Len(log)].tree[p]) = o
              /\ Of(sets, p, log[Len(remote)].tree[p]) # o
          BY <1>0, <1>1, <3>1, <3>2
        <4>2. o.from \in Runs /\ \E j \in (Len(remote) + 1)..Len(log) : FleetBy(log, j, o.from)
          BY <4>1, Entered
        <4> QED
          BY <4>2
      <3>4. PICK j \in (Len(remote) + 1)..Len(remote') : FleetBy(remote', j, o.from)
        BY <3>3
      <3>5. j \in DOMAIN remote' /\ j \notin DOMAIN remote
        BY <1>1, <3>4
      <3> QED
        BY <1>0, <1>2, <1>4, <3>3, <3>4, <3>5
    <2> QED
      BY <2>1, <2>2
  <1>5. record.result = "ok" =>
          /\ o.from # None => /\ o.from \in Runs /\ HasFleet(remote', o.from)
                              /\ excuses' = {} => \A r \in Runs : Deploying(r)' =>
                                   ~\E i, j \in DOMAIN remote' : i < j /\ FleetBy(remote', i, r) /\ FleetBy(remote', j, o.from)
          /\ excuses' = {} /\ o = Of(sets, p, Tree(remote')[p]) => running'[p] = record.pin
    <2>1. ASSUME record.result = "ok", o.from # None PROVE o.from \in Runs /\ HasFleet(remote', o.from)
      <3>1. PICK k \in DOMAIN remote : FleetBy(remote', k, o.from)
        BY <1>2, <2>1
      <3> QED
        BY <1>1, <1>2, <2>1, <3>1 DEF HasFleet
    <2> QED
      BY <1>3, <1>4, <2>1
  <1>6. record.result = "ok" => OkAt(sets, p, record)'
    BY <1>5 DEF OkAt, Of, HasFleet, FleetBy, Late, Tree
  <1>7. SoundRecord(sets, p, record)'
    BY <1>0, <1>6 DEF SoundRecord, Of
  <1> QED
    BY <1>7 DEF Sound

\* What the fleet commit of a run that deploys passes on: no run that deploys comes
\* before it.
LEMMA OfClaimed ==
    ASSUME NEW sets, Shape, Gone, Claimed, Single, Aboard, Traced(sets, remote),
           NEW r \in Runs, OnRemoteFrom(r), NEW p \in Projects
    PROVE  Of(sets, p, claimed[r].tree[p]).from # None =>
             /\ Of(sets, p, claimed[r].tree[p]).from \in Runs
             /\ HasFleet(remote, Of(sets, p, claimed[r].tree[p]).from)
             /\ excuses = {} => \A s \in Runs : Deploying(s) => ~Late(s, Of(sets, p, claimed[r].tree[p]).from)
  <1>. PICK o : o = Of(sets, p, claimed[r].tree[p])
    OBVIOUS
  <1> SUFFICES ASSUME o.from # None
               PROVE  /\ o.from \in Runs /\ HasFleet(remote, o.from)
                      /\ excuses = {} => \A s \in Runs : Deploying(s) => ~Late(s, o.from)
    OBVIOUS
  <1>0. /\ remote \in Seq(Commits) /\ DOMAIN remote = 1..Len(remote) /\ Len(remote) \in Nat \ {0} /\ remote[1] = Root
        /\ claimed[r].by = r /\ claimed[r].kind = "fleet"
    <2>1. claimed[r].by = r /\ claimed[r].kind = "fleet"
      BY DEF Aboard, AboardAt, OnRemoteFrom, Deploying
    <2>2. remote \in Seq(Commits) /\ Len(remote) >= 1 /\ remote[1] = Root
      BY DEF Shape, Typed, Rooted
    <2> QED
      BY <2>1, <2>2
  <1>1. PICK k \in DOMAIN remote : remote[k] = claimed[r]
    BY DEF OnRemoteFrom, Holds
  <1>2. FleetBy(remote, k, r)
    BY <1>0, <1>1 DEF FleetBy
  <1>3. o.from \in Runs /\ \E j \in 2..k : FleetBy(remote, j, o.from)
    <2>1. Of(sets, p, remote[1].tree[p]).from = None
      BY <1>0 DEF Of, First, Root, FirstRecord
    <2>2. Of(sets, p, remote[k].tree[p]) # Of(sets, p, remote[1].tree[p])
      BY <1>1, <2>1
    <2>3. 1 \in DOMAIN remote /\ 1 <= k /\ 1 + 1 = 2
      BY <1>0
    <2> QED
      BY <1>0, <1>1, <2>2, <2>3, Entered
  <1>4. PICK j \in 2..k : FleetBy(remote, j, o.from)
    BY <1>3
  <1>5. j \in DOMAIN remote /\ j <= k
    BY <1>0
  <1>6. ASSUME excuses = {}, NEW s \in Runs, Deploying(s), NEW a \in DOMAIN remote, NEW b \in DOMAIN remote, a < b,
               FleetBy(remote, a, s), FleetBy(remote, b, o.from)
        PROVE  FALSE
    <2>1. b = j
      BY <1>0, <1>3, <1>4, <1>5, <1>6 DEF Single, OnceAt, OneFleet
    <2>2. CASE s = r
      <3>1. a = k
        BY <1>0, <1>2, <1>6, <2>2 DEF Single, OnceAt, OneFleet
      <3> QED
        BY <1>0, <1>5, <1>6, <2>1, <3>1
    <2>3. CASE s # r
      <3>1. By(remote, s)
        BY <1>6 DEF By, FleetBy
      <3>2. OnRemoteFrom(s)
        BY <1>6, <3>1 DEF OnRemoteFrom, Deploying, Claimed, Held, HoldsAt, Gone, GoneAt
      <3> QED
        BY <1>6, <2>3, <3>2, NoTwoClaims
    <2> QED
      BY <2>2, <2>3
  <1> QED
    BY <1>3, <1>5, <1>4, <1>6 DEF HasFleet, Late

\* The records of a report are sound.
LEMMA SoundStamps ==
    ASSUME NEW sets, Shape, Gone, Truthful, Claimed, Single, Aboard, Reported, Kin(sets), NEW r \in Runs
    PROVE  Stamps(r, Sound(sets))
  <1> SUFFICES ASSUME pc[r] = "played", job[r].members # {}, NEW p \in Projects, NEW read
               PROVE  <<p, Recorded(r, p, read)>> \in Sound(sets)
    BY DEF Stamps
  <1>. PICK record : record = work[At[r]][p]
    OBVIOUS
  <1>. PICK new : new = Recorded(r, p, read)
    OBVIOUS
  <1>1. /\ At[r] \in Checkouts /\ record \in Records /\ BoxOf[p] \in Boxes /\ p \in On_(BoxOf[p])
        /\ Deploying(r) /\ r \in Runs /\ new \in Records /\ None \notin Runs
    BY RecordedTyped DEF Shape, Typed, Trees, Deploying, On_
  <1>2. record = claimed[r].tree[p]
    BY <1>1 DEF Truthful, AsClaimed
  <1>3. OnRemoteFrom(r)
    BY <1>1 DEF OnRemoteFrom, Claimed, Held, HoldsAt
  <1>4. SoundRecord(sets, p, record) /\ sets[r][p] = Of(sets, p, record) /\ Traced(sets, remote)
    <2>1. <<p, record>> \in Sound(sets)
      BY <1>1 DEF Kin, InTree
    <2>2. sets[r][p] = Of(sets, p, record) /\ Traced(sets, remote)
      BY <1>1, <1>2 DEF Kin, SourcesAt
    <2> QED
      BY <2>1, <2>2, SoundMeans
  <1>5. CASE new = record
    BY <1>1, <1>4, <1>5 DEF Sound
  <1>6. ASSUME NEW w, new = Result(r, record, w), w = "ok" => BoxResult(r, BoxOf[p], read) = "ok"
        PROVE  <<p, new>> \in Sound(sets)
    <2>1. new.pin = record.pin /\ new.result = w /\ new.plan = r
      BY <1>1, <1>6 DEF Result, Records
    <2>2. Of(sets, p, new) = Of(sets, p, record)
      BY <1>1, <1>4, <2>1 DEF Of
    <2>3. ASSUME w = "ok", excuses = {} PROVE running[p] = record.pin
      <3>1. receipt[BoxOf[p]].commit = claimed[r] /\ receipt[BoxOf[p]].result = "ok"
        BY <1>6, <2>3 DEF BoxResult, None
      <3> QED
        BY <1>1, <1>2, <2>3, <3>1 DEF Reported, ReportedAt
    <2>4. Of(sets, p, record).from # None =>
             /\ Of(sets, p, record).from \in Runs /\ HasFleet(remote, Of(sets, p, record).from)
             /\ excuses = {} => \A s \in Runs : Deploying(s) => ~Late(s, Of(sets, p, record).from)
      BY <1>2, <1>3, <1>4, OfClaimed
    <2>5. new.result = "ok" => OkAt(sets, p, new)
      BY <2>1, <2>2, <2>3, <2>4 DEF OkAt
    <2> QED
      BY <1>1, <1>4, <2>1, <2>2, <2>5 DEF Sound, SoundRecord
  <1>7. \/ new = record
        \/ new = Result(r, record, "failed")
        \/ \E w : new = Result(r, record, w) /\ (w = "ok" => BoxResult(r, BoxOf[p], read) = "ok")
    BY DEF Recorded
  <1> QED
    BY <1>5, <1>6, <1>7

\* The box of an ok record whose source the remote still shows runs its pin after the step.
LEMMA PassKeeps ==
    ASSUME NEW sets, Shape, Claimed, Aboard, Next, InLog(remote, Sound(sets)), Traced(sets, remote),
           NEW g \in Sound(sets), g[2].result = "ok", excuses' = {},
           Of(sets, g[1], g[2]) = Of(sets, g[1], Tree(remote)[g[1]])
    PROVE  running'[g[1]] = g[2].pin
  <1>. PICK p \in Projects, record \in Records : g = <<p, record>>
    BY DEF Sound
  <1>. PICK o : o = Of(sets, p, record)
    OBVIOUS
  <1>0. /\ excuses = {} /\ running[p] = record.pin /\ record.pin = o.pin /\ OkAt(sets, p, record)
        /\ remote \in Seq(Commits) /\ remote # <<>> /\ DOMAIN remote = 1..Len(remote) /\ Len(remote) \in Nat
        /\ o = Of(sets, p, Tree(remote)[p]) /\ None \notin Runs
    BY ExcusesGrow DEF Sound, SoundRecord, OkAt, Shape, Typed
  <1>1. ASSUME NEW r \in Runs, NEW b \in Boxes, Reconcile(r, b) \/ ReconcileFails(r, b), running'[p] # running[p]
        PROVE  running'[p] = record.pin
    <2>1. Playing(r) /\ running'[p] = ship[r].tree[p].pin
      BY <1>1, PassMeans
    <2>2. Deploying(r) /\ OnRemoteFrom(r) /\ job[r].members # {}
      BY <1>0, <2>1, PlaysClaimed DEF OnRemoteFrom
    <2>3. ship[r].tree = claimed[r].tree /\ claimed[r].by = r /\ claimed[r].kind = "fleet"
      BY <2>1, <2>2 DEF Aboard, AboardAt
    <2>4. PICK k \in DOMAIN remote : remote[k] = claimed[r]
      BY <2>2 DEF OnRemoteFrom, Holds
    <2>5. claimed[r].tree[p].pin = Of(sets, p, remote[k].tree[p]).pin
      <3>1. <<p, remote[k].tree[p]>> \in Sound(sets)
        BY DEF InLog, InTree
      <3> QED
        BY <2>4, <3>1, SoundMeans DEF SoundRecord
    <2>6. CASE Of(sets, p, remote[k].tree[p]) = o
      BY <1>0, <2>1, <2>3, <2>5, <2>6
    <2>7. CASE Of(sets, p, remote[k].tree[p]) # o
      <3>1. Tree(remote) = remote[Len(remote)].tree /\ Len(remote) \in DOMAIN remote /\ k <= Len(remote)
        BY <1>0, TreeTyped DEF Tree
      <3>2. o.from \in Runs /\ \E j \in (k + 1)..Len(remote) : FleetBy(remote, j, o.from)
        BY <1>0, <2>7, <3>1, Entered
      <3>3. PICK j \in (k + 1)..Len(remote) : FleetBy(remote, j, o.from)
        BY <3>2
      <3>4. j \in DOMAIN remote /\ k < j /\ FleetBy(remote, k, r)
        BY <1>0, <2>3, <2>4 DEF FleetBy
      <3>5. Late(r, o.from)
        BY <3>3, <3>4 DEF Late
      <3> QED
        BY <1>0, <2>2, <3>2, <3>5 DEF OkAt
    <2> QED
      BY <2>6, <2>7
  <1> QED
    BY <1>0, <1>1, OnlyPasses

-----------------------------------------------------------------------------
(* The sources, step by step.                                                *)

LEMMA CommitTraced ==
    ASSUME NEW sets, Shape, Kept, Kin(sets), NEW s \in Runs, CommitLocks(s)
    PROVE  Traced(sets, head'[At[s]])
  <1> DEFINE c == At[s]
  <1>0. /\ c \in Checkouts /\ head \in [Checkouts -> Seq(Commits)] /\ head[c] \in Seq(Commits) /\ head[c] # <<>>
        /\ work[c] \in Trees /\ pc[s] = "written"
    BY CommitsLocks DEF Shape, Typed
  <1>1. PICK e : e = Commit(s, "fleet", work[c]) /\ e \in Commits /\ head' = [head EXCEPT ![c] = Append(head[c], e)]
    BY <1>0, CommitTyped DEF CommitLocks
  <1>2. e.by = s /\ e.kind = "fleet" /\ e.tree = work[c]
    BY <1>1 DEF Commit
  <1>3. ASSUME NEW p \in Projects, Of(sets, p, e.tree[p]) # Of(sets, p, Tree(head[c])[p])
        PROVE  Of(sets, p, e.tree[p]).from = s
    <2>1. p \in job[s].members
      BY <1>0, <1>2, <1>3 DEF Kept, KeptAt
    <2> QED
      BY <1>0, <1>2, <2>1 DEF Kin, SourcesAt
  <1>4. Traced(sets, Append(head[c], e))
    BY <1>0, <1>1, <1>2, <1>3, TracedAdd DEF Kin
  <1> QED
    BY <1>0, <1>1, <1>4

LEMMA ReportTraced ==
    ASSUME NEW sets, Shape, Truthful, Kept, Kin(sets), NEW s \in Runs, Report(s)
    PROVE  Traced(sets, head'[At[s]])
  <1> DEFINE c == At[s]
  <1>0. /\ c \in Checkouts /\ head \in [Checkouts -> Seq(Commits)] /\ head[c] \in Seq(Commits) /\ head[c] # <<>>
        /\ work[c] \in Trees /\ pc[s] = "played" /\ Traced(sets, head[c])
    BY DEF Shape, Typed, Report, Kin
  <1>1. CASE job[s].members = {}
    BY <1>0, <1>1, ReportKeeps
  <1>2. CASE job[s].members # {}
    <2> DEFINE Made(read, tree) ==
                 /\ \A p \in Projects : tree[p] = IF job[s].members = {} THEN work[c][p] ELSE Recorded(s, p, read)
                 /\ work' = [work EXCEPT ![c] = tree]
                 /\ \/ tree = Tree(head[c]) /\ head' = head
                    \/ /\ tree # Tree(head[c])
                       /\ head' = [head EXCEPT ![c] = Append(head[c], Commit(s, "receipt", tree))]
    <2>1. \E read \in SUBSET Scope(s), tree \in Trees : Made(read, tree)
      BY ReportMeans DEF Shape
    <2>2. PICK read \in SUBSET Scope(s), tree \in Trees : Made(read, tree)
      BY <2>1
    <2>3. ASSUME NEW p \in Projects PROVE Of(sets, p, tree[p]) = Of(sets, p, Tree(head[c])[p])
      <3>. PICK record : record = work[c][p]
        OBVIOUS
      <3>1. record = claimed[s].tree[p] /\ record = Tree(head[c])[p] /\ record \in Records
        BY <1>0 DEF Truthful, AsClaimed, Kept, KeptAt, Trees
      <3>2. sets[s][p] = Of(sets, p, record)
        <4>1. Deploying(s) /\ SourcesAt(sets, s)
          BY <1>0, <1>2 DEF Kin, Deploying
        <4>2. sets[s][p] = Of(sets, p, claimed[s].tree[p])
          BY <4>1 DEF SourcesAt
        <4> QED
          BY <3>1, <4>2
      <3>3. tree[p] = record \/ \E w : tree[p] = Result(s, record, w)
        BY <1>2, <2>2 DEF Recorded
      <3>4. \A w : Of(sets, p, Result(s, record, w)) = sets[s][p]
        BY <3>1 DEF Of, Result, Records
      <3> QED
        BY <3>1, <3>2, <3>3, <3>4
    <2>4. CASE head' = head
      BY <1>0, <2>4
    <2>5. CASE head' = [head EXCEPT ![c] = Append(head[c], Commit(s, "receipt", tree))]
      <3>1. PICK e : e = Commit(s, "receipt", tree) /\ e \in Commits
        BY CommitTyped
      <3>2. e.tree = tree
        BY <3>1 DEF Commit
      <3>3. Traced(sets, Append(head[c], e))
        BY <1>0, <2>3, <3>1, <3>2, TracedAdd
      <3> QED
        BY <1>0, <2>5, <3>1, <3>3
    <2> QED
      BY <2>2, <2>4, <2>5
  <1> QED
    BY <1>1, <1>2

LEMMA NextTraced ==
    ASSUME NEW sets, Shape, Truthful, Kept, Kin(sets), Next
    PROVE  Traced(sets, remote') /\ \A c \in Checkouts : Traced(sets, head'[c])
  <1>0. /\ head \in [Checkouts -> Seq(Commits)] /\ remote \in Seq(Commits) /\ remote' \in Seq(Commits)
        /\ head' \in [Checkouts -> Seq(Commits)] /\ \A s \in Runs : At[s] \in Checkouts
        /\ Traced(sets, remote) /\ \A c \in Checkouts : Traced(sets, head[c]) /\ head[c] # <<>>
    BY NextTyped DEF Shape, Typed, Kin
  <1>S. PICK S : S = {log \in Seq(Commits) : Traced(sets, log)}
    OBVIOUS
  <1>1. remote \in S /\ \A c \in Checkouts : head[c] \in S
    BY <1>0, <1>S
  <1>2. ASSUME NEW s \in Runs, Mine(s), Adds(s) PROVE head'[At[s]] \in S
    <2>1. CommitLocks(s) \/ Report(s)
      BY <1>2 DEF Adds
    <2> QED
      BY <1>0, <1>S, <2>1, CommitTraced, ReportTraced
  <1>3. ASSUME NEW s \in Runs, Mine(s), Cuts(s) PROVE head'[At[s]] \in S
    <2>1. base[s] \in 1..Len(head[At[s]]) /\ head'[At[s]] = SubSeq(head[At[s]], 1, base[s])
      BY <1>0, <1>3 DEF Cuts
    <2>2. Traced(sets, SubSeq(head[At[s]], 1, base[s]))
      BY <1>0, <2>1, TracedCut
    <2> QED
      BY <1>0, <1>S, <2>1, <2>2
  <1>4. ASSUME NEW s \in Runs, Mine(s), Rebase(s) PROVE head'[At[s]] \in S
    BY <1>0, <1>4, <1>S, TracedRebase
  <1>5. ASSUME NEW c \in Checkouts, HandCommit(c) PROVE head'[c] \in S
    <2>1. PICK e \in Commits : e.tree = Tree(head[c]) /\ head' = [head EXCEPT ![c] = Append(head[c], e)]
      BY <1>5, HandTree
    <2>2. Traced(sets, Append(head[c], e))
      BY <1>0, <2>1, TracedAdd
    <2> QED
      BY <1>0, <1>S, <2>1, <2>2
  <1>6. remote' \in S /\ \A c \in Checkouts : head'[c] \in S
    BY <1>1, <1>2, <1>3, <1>4, <1>5, LogsIn
  <1> QED
    BY <1>S, <1>6

LEMMA NextSources ==
    ASSUME NEW sets, Shape, Kept, Kin(sets), Next, NEW r \in Runs, ~WriteLocks(r)
    PROVE  SourcesAt(sets, r)'
  <1>0. SourcesAt(sets, r) /\ pc \in [Runs -> Places]
    BY DEF Kin, Shape, Typed
  <1>1. ASSUME pc'[r] = "written"
        PROVE  /\ \A p \in Projects : sets[r][p] = Of(sets, p, work'[At[r]][p])
               /\ \A p \in job'[r].members : sets[r][p].from = r
    <2>1. ~Start(r)
      BY <1>0, <1>1 DEF Start, Goto
    <2>2. ~Mine(r)
      BY <1>1, Moves DEF Shape
    <2>3. Still(r) /\ pc[r] = "written"
      BY <1>1, <2>1, <2>2, StillMeans DEF Still
    <2>4. work'[At[r]] = work[At[r]] /\ job'[r] = job[r]
      BY <2>3 DEF Still, Live
    <2> QED
      BY <1>0, <2>3, <2>4 DEF SourcesAt
  <1>2. ASSUME Deploying(r)', NEW p \in Projects PROVE sets[r][p] = Of(sets, p, claimed'[r].tree[p])
    <2>1. CASE CommitLocks(r)
      <3>1. claimed'[r].tree = work[At[r]] /\ pc[r] = "written"
        BY <2>1, CommitsLocks
      <3> QED
        BY <1>0, <3>1 DEF SourcesAt
    <2>2. CASE ~CommitLocks(r)
      <3>1. Deploying(r) /\ claimed'[r] = claimed[r]
        BY <1>2, <2>2, DeployingBefore
      <3> QED
        BY <1>0, <3>1 DEF SourcesAt
    <2> QED
      BY <2>1, <2>2
  <1> QED
    BY <1>1, <1>2 DEF SourcesAt, Of

\* No step but the writing of the locks brings a record that is not sound.
LEMMA NextRecords ==
    ASSUME NEW sets, Shape, Gone, Truthful, Claimed, Single, Aboard, Reported, Kin(sets), Next,
           \A r \in Runs : ~WriteLocks(r)
    PROVE  InLog(remote', Sound(sets)) /\ \A c \in Checkouts : InLog(head'[c], Sound(sets)) /\ InTree(work'[c], Sound(sets))
  <1>G. PICK G : G = Sound(sets)
    OBVIOUS
  <1>0. InLog(remote, G) /\ \A c \in Checkouts : InLog(head[c], G) /\ InTree(work[c], G)
    BY <1>G DEF Kin
  <1> SUFFICES InLog(remote', G) /\ \A c \in Checkouts : InLog(head'[c], G) /\ InTree(work'[c], G)
    BY <1>G
  <1>1. CASE UNCHANGED gitVars
    BY <1>0, <1>1 DEF gitVars
  <1>2. ASSUME NEW r \in Runs, Mine(r)
        PROVE  InLog(remote', G) /\ \A c \in Checkouts : InLog(head'[c], G) /\ InTree(work'[c], G)
    <2>0. At[r] \in Checkouts /\ \A d \in Checkouts \ {At[r]} : head'[d] = head[d] /\ work'[d] = work[d]
      BY <1>2, MineAside DEF Shape, Aside
    <2>1. CASE pc[r] = "planned"
      <3>1. UNCHANGED gitVars
        BY <1>2, <2>1 DEF Mine, RunStep, Pull, Plan, CommitLocks, PushClaim, CheckClaim, StartPlay, EndPlay, Report,
           PushReceipt, Prepare, Unwind, Interrupt, Die, gitVars
      <3> QED
        BY <1>1, <3>1
    <2>2. CASE pc[r] # "planned"
      <3>1. Writes(r, G) /\ Stamps(r, G)
        BY <1>G, <2>2, SoundStamps DEF Writes
      <3>2. InLog(remote', G) /\ InLog(head'[At[r]], G) /\ InTree(work'[At[r]], G)
        BY <1>0, <1>2, <2>0, <3>1, MineRecords
      <3> QED
        BY <1>0, <2>0, <3>2
    <2> QED
      BY <2>1, <2>2
  <1>3. ASSUME NEW r \in Runs, Start(r) PROVE UNCHANGED gitVars
    BY <1>3, StartAside DEF Shape
  <1>4. CASE Nobodys
    BY <1>1, <1>4, NobodysMeans
  <1>5. ASSUME NEW c \in Checkouts, Sessions(c)
        PROVE  InLog(remote', G) /\ \A d \in Checkouts : InLog(head'[d], G) /\ InTree(work'[d], G)
    <2>1. UNCHANGED remote /\ \A d \in Checkouts \ {c} : head'[d] = head[d] /\ work'[d] = work[d]
      BY <1>5, SessionsMeans DEF Shape
    <2>2. InLog(head'[c], G) /\ InTree(work'[c], G)
      BY <1>0, <1>5, SessionRecords
    <2> QED
      BY <1>0, <2>1, <2>2
  <1> QED
    BY <1>1, <1>2, <1>3, <1>4, <1>5, NextMeans

\* The writing of the locks makes its run the source of its members, and passes the
\* sources of the other projects on.
LEMMA WriteKin ==
    ASSUME NEW sets, Shape, Gone, Claimed, Single, Kin(sets), NEW q \in Runs, WriteLocks(q), Next
    PROVE  \E more : /\ InLog(remote', Sound(more)) /\ Traced(more, remote')
                     /\ \A c \in Checkouts : /\ InLog(head'[c], Sound(more)) /\ InTree(work'[c], Sound(more))
                                             /\ Traced(more, head'[c])
                     /\ \A r \in Runs : SourcesAt(more, r)'
  <1> DEFINE c == At[q]
  <1>0. /\ pc[q] = "planned" /\ pc'[q] = "written" /\ c \in Checkouts /\ pc \in [Runs -> Places]
        /\ UNCHANGED <<remote, head, job, claimed>> /\ \A r \in Runs \ {q} : pc'[r] = pc[r]
        /\ \A d \in Checkouts \ {c} : work'[d] = work[d]
        /\ \A p \in Projects : work'[c][p] =
             IF p \in job[q].members THEN Pending(q, work[c][p], WantedPin(q, p)) ELSE work[c][p]
        /\ remote \in Seq(Commits) /\ remote # <<>> /\ work[c] \in Trees
    BY WritesLocks DEF WriteLocks, Goto, Shape, Typed
  <1>1. PICK more : more = [s \in Runs |-> IF s # q THEN sets[s] ELSE
          [p \in Projects |-> IF p \in job[q].members THEN [from |-> q, pin |-> WantedPin(q, p)]
                              ELSE Of(sets, p, work[c][p])]]
    OBVIOUS
  <1>2. /\ \A s \in Runs \ {q} : more[s] = sets[s]
        /\ \A p \in Projects : more[q][p] = IF p \in job[q].members THEN [from |-> q, pin |-> WantedPin(q, p)]
                                            ELSE Of(sets, p, work[c][p])
    BY <1>1
  <1> HIDE DEF c
  <1>3. /\ InLog(remote, Others(q)) /\ \A d \in Checkouts : InLog(head[d], Others(q)) /\ InTree(work[d], Others(q))
        /\ \A r \in Runs : InTree(claimed[r].tree, Others(q))
    BY <1>0 DEF Claimed, Unwritten, UnwrittenAt
  <1>4. InTree(Tree(remote), Others(q))
    BY <1>0, <1>3, InLast
  <1>5. \A p \in Projects, record \in Records : record.plan # q => Of(more, p, record) = Of(sets, p, record)
    BY <1>2 DEF Of, Records
  <1>6. ASSUME NEW tree, InTree(tree, Others(q))
        PROVE  \A p \in Projects : tree[p] \in Records /\ tree[p].plan # q /\ Of(more, p, tree[p]) = Of(sets, p, tree[p])
    <2>1. \A p \in Projects : tree[p] \in Records /\ tree[p].plan # q
      BY <1>6 DEF InTree, Others
    <2> QED
      BY <1>5, <2>1
  <1>7. ASSUME NEW tree, InTree(tree, Others(q)), InTree(tree, Sound(sets)) PROVE InTree(tree, Sound(more))
    <2> SUFFICES ASSUME NEW p \in Projects PROVE <<p, tree[p]>> \in Sound(more)
      BY DEF InTree
    <2>1. PICK g : g = <<p, tree[p]>>
      OBVIOUS
    <2>2. g \in Sound(sets) /\ g[2].plan # q
      BY <1>6, <1>7, <2>1 DEF InTree
    <2> QED
      BY <1>2, <1>4, <2>1, <2>2, SoundSame
  <1>8. ASSUME NEW log, InLog(log, Others(q)), InLog(log, Sound(sets)), Traced(sets, log)
        PROVE  InLog(log, Sound(more)) /\ Traced(more, log)
    <2>1. \A i \in DOMAIN log : InTree(log[i].tree, Others(q)) /\ InTree(log[i].tree, Sound(sets))
      BY <1>8 DEF InLog
    <2>2. InLog(log, Sound(more))
      BY <1>7, <2>1 DEF InLog
    <2>3. \A i \in DOMAIN log : \A p \in Projects : Of(more, p, log[i].tree[p]) = Of(sets, p, log[i].tree[p])
      BY <1>6, <2>1
    <2>4. Traced(more, log)
      BY <1>8, <2>3 DEF Traced
    <2> QED
      BY <2>2, <2>4
  <1>9. InTree(work'[c], Sound(more))
    <2> SUFFICES ASSUME NEW p \in Projects PROVE <<p, work'[c][p]>> \in Sound(more)
      BY DEF InTree
    <2>1. CASE p \in job[q].members
      <3>. PICK new : new = Pending(q, work[c][p], WantedPin(q, p))
        OBVIOUS
      <3>1. new \in Records
        BY <1>0, <2>1, PendingTyped, WantedTyped DEF Shape, Trees
      <3>2. new.pin = WantedPin(q, p) /\ new.plan = q /\ new.result = "pending"
        BY DEF Pending
      <3>3. Of(more, p, new) = [from |-> q, pin |-> WantedPin(q, p)]
        BY <1>2, <2>1, <3>2 DEF Of
      <3> QED
        BY <1>0, <2>1, <3>1, <3>2, <3>3, SoundMeans DEF SoundRecord
    <2>2. CASE p \notin job[q].members
      <3>1. InTree(work[c], Sound(more))
        BY <1>0, <1>3, <1>7 DEF Kin
      <3> QED
        BY <1>0, <2>2, <3>1 DEF InTree
    <2> QED
      BY <2>1, <2>2
  <1>10. \A d \in Checkouts \ {c} : InTree(work'[d], Sound(more))
    BY <1>0, <1>3, <1>7 DEF Kin
  <1>11. InLog(remote, Sound(more)) /\ Traced(more, remote)
         /\ \A d \in Checkouts : InLog(head[d], Sound(more)) /\ Traced(more, head[d])
    BY <1>3, <1>8 DEF Kin
  <1>12. ASSUME NEW r \in Runs
         PROVE  /\ pc'[r] = "written" => \A p \in Projects : more[r][p] = Of(more, p, work'[At[r]][p])
                /\ Deploying(r)' => \A p \in Projects : more[r][p] = Of(more, p, claimed'[r].tree[p])
                /\ pc'[r] = "written" => \A p \in job'[r].members : more[r][p].from = r
    <2>1. CASE r = q
      <3>1. ~Deploying(r)'
        <4>1. ~CommitLocks(r) /\ ~Deploying(r)
          BY <1>0, <2>1 DEF CommitLocks, Deploying, Claimed, Kept, KeptAt
        <4> QED
          BY <4>1, DeployingBefore DEF Claimed
      <3>2. \A p \in job[q].members : p \in Projects
        <4>1. job[q] \in JobSet \cup {NoJob}
          BY DEF Shape, Typed
        <4> QED
          BY <4>1 DEF JobSet, NoJob
      <3>3. ASSUME NEW p \in Projects PROVE more[q][p] = Of(more, p, work'[c][p])
        <4>1. CASE p \in job[q].members
          <5>1. Pending(q, work[c][p], WantedPin(q, p)).plan = q /\ q # None
            BY DEF Pending
          <5>2. work'[c][p].plan = q
            BY <1>0, <4>1, <5>1
          <5> QED
            BY <5>1, <5>2 DEF Of
        <4>2. CASE p \notin job[q].members
          <5>1. InTree(work[c], Others(q))
            BY <1>0, <1>3
          <5>2. Of(more, p, work[c][p]) = Of(sets, p, work[c][p])
            BY <1>6, <5>1
          <5> QED
            BY <1>0, <1>2, <4>2, <5>2
        <4> QED
          BY <4>1, <4>2
      <3>4. ASSUME NEW p \in job[q].members PROVE more[q][p].from = q
        <4>1. p \in Projects
          BY <3>2
        <4>2. more[q][p] = [from |-> q, pin |-> WantedPin(q, p)]
          BY <1>2, <4>1
        <4> QED
          BY <4>2
      <3>5. job'[r].members = job[q].members /\ At[r] = c
        BY <1>0, <2>1 DEF c
      <3> QED
        BY <2>1, <3>1, <3>3, <3>4, <3>5
    <2>2. CASE r # q
      <3>0. more[r] = sets[r] /\ pc'[r] = pc[r] /\ job'[r] = job[r] /\ claimed'[r] = claimed[r] /\ SourcesAt(sets, r)
        BY <1>0, <1>2, <2>2 DEF Kin
      <3>1. ASSUME pc[r] = "written" PROVE work'[At[r]] = work[At[r]]
        <4>1. At[r] # c /\ At[r] \in Checkouts
          BY <1>0, <2>2, <3>1 DEF Shape, Alone, Live, c
        <4> QED
          BY <1>0, <4>1
      <3>2. Deploying(r)' => Deploying(r)
        <4>1. ~CommitLocks(r)
          BY <1>0, <2>2, CommitsLocks
        <4> QED
          BY <4>1, DeployingBefore DEF Claimed
      <3>3. ASSUME pc[r] = "written", NEW p \in Projects PROVE more[r][p] = Of(more, p, work'[At[r]][p])
        <4>1. At[r] \in Checkouts
          OBVIOUS
        <4>2. Of(more, p, work[At[r]][p]) = Of(sets, p, work[At[r]][p])
          BY <1>3, <1>6, <4>1
        <4> QED
          BY <3>0, <3>1, <3>3, <4>2 DEF SourcesAt
      <3>4. ASSUME Deploying(r), NEW p \in Projects PROVE more[r][p] = Of(more, p, claimed'[r].tree[p])
        BY <1>3, <1>6, <3>0, <3>4 DEF SourcesAt
      <3> QED
        BY <3>0, <3>2, <3>3, <3>4 DEF SourcesAt
    <2> QED
      BY <2>1, <2>2
  <1>13. \A r \in Runs : SourcesAt(more, r)'
    BY <1>12 DEF SourcesAt, Of
  <1>14. /\ InLog(remote', Sound(more)) /\ Traced(more, remote')
         /\ \A d \in Checkouts : InLog(head'[d], Sound(more)) /\ InTree(work'[d], Sound(more)) /\ Traced(more, head'[d])
    BY <1>0, <1>9, <1>10, <1>11
  <1> QED
    BY <1>13, <1>14

\* After a step, with the sources of before or with those of the locks it wrote.
LEMMA NextKin ==
    ASSUME NEW sets, Shape, Gone, Truthful, Claimed, Single, Aboard, Reported, Kin(sets), Next
    PROVE  \E more : Kin(more)'
  <1>0. /\ Kept /\ \A q \in Runs : OneFleet(remote', q, 1)
        /\ UNCHANGED remote \/ \A q \in Runs : ~WriteLocks(q)
    <2>1. Kept
      BY DEF Claimed
    <2>2. \A q \in Runs : OnceAt(q)'
      BY <2>1, NextOnce
    <2> QED
      BY <2>1, <2>2 DEF OnceAt, OneFleet, FleetBy, WriteLocks
  <1>1. PICK more : /\ InLog(remote', Sound(more)) /\ Traced(more, remote')
                    /\ \A c \in Checkouts : /\ InLog(head'[c], Sound(more)) /\ InTree(work'[c], Sound(more))
                                            /\ Traced(more, head'[c])
                    /\ \A r \in Runs : SourcesAt(more, r)'
                    /\ \A g \in Sound(more) : g \in Sound(more)'
    <2>1. ASSUME NEW q \in Runs, WriteLocks(q)
          PROVE  \E more : /\ InLog(remote', Sound(more)) /\ Traced(more, remote')
                           /\ \A c \in Checkouts : /\ InLog(head'[c], Sound(more)) /\ InTree(work'[c], Sound(more))
                                                   /\ Traced(more, head'[c])
                           /\ \A r \in Runs : SourcesAt(more, r)'
                           /\ \A g \in Sound(more) : g \in Sound(more)'
      <3>1. PICK more : /\ InLog(remote', Sound(more)) /\ Traced(more, remote')
                        /\ \A c \in Checkouts : /\ InLog(head'[c], Sound(more)) /\ InTree(work'[c], Sound(more))
                                                /\ Traced(more, head'[c])
                        /\ \A r \in Runs : SourcesAt(more, r)'
        BY <2>1, WriteKin
      <3>2. ASSUME NEW g \in Sound(more), g[2].result = "ok", excuses' = {},
                   Of(more, g[1], g[2]) = Of(more, g[1], Tree(remote)[g[1]])
            PROVE  running'[g[1]] = g[2].pin
        <4>1. excuses = {} /\ UNCHANGED running
          BY <2>1, <3>2, ExcusesGrow DEF WriteLocks, boxVars
        <4> QED
          BY <3>2, <4>1 DEF Sound, SoundRecord, OkAt
      <3>3. \A g \in Sound(more) : g \in Sound(more)'
        BY <1>0, <3>1, <3>2, SoundGrows
      <3> QED
        BY <3>1, <3>3
    <2>2. CASE \A q \in Runs : ~WriteLocks(q)
      <3>1. InLog(remote', Sound(sets)) /\ \A c \in Checkouts : InLog(head'[c], Sound(sets)) /\ InTree(work'[c], Sound(sets))
        BY <2>2, NextRecords
      <3>2. Traced(sets, remote') /\ \A c \in Checkouts : Traced(sets, head'[c])
        BY <1>0, NextTraced
      <3>3. \A r \in Runs : SourcesAt(sets, r)'
        BY <1>0, <2>2, NextSources
      <3>4. ASSUME NEW g \in Sound(sets), g[2].result = "ok", excuses' = {},
                   Of(sets, g[1], g[2]) = Of(sets, g[1], Tree(remote)[g[1]])
            PROVE  running'[g[1]] = g[2].pin
        BY <3>4, PassKeeps DEF Kin
      <3>5. \A g \in Sound(sets) : g \in Sound(sets)'
        BY <1>0, <3>2, <3>4, SoundGrows
      <3> QED
        BY <3>1, <3>2, <3>3, <3>5
    <2> QED
      BY <2>1, <2>2
  <1>2. /\ \A i \in DOMAIN remote' : \A p \in Projects : <<p, remote'[i].tree[p]>> \in Sound(more)'
        /\ \A c \in Checkouts : /\ \A i \in DOMAIN head'[c] : \A p \in Projects : <<p, head'[c][i].tree[p]>> \in Sound(more)'
                                /\ \A p \in Projects : <<p, work'[c][p]>> \in Sound(more)'
    BY <1>1 DEF InLog, InTree
  <1>3. /\ \A i \in DOMAIN remote' : i + 1 \in DOMAIN remote' => \A p \in Projects :
             Of(more, p, remote'[i+1].tree[p]) # Of(more, p, remote'[i].tree[p]) =>
                 /\ Of(more, p, remote'[i+1].tree[p]).from \in Runs
                 /\ FleetBy(remote', i + 1, Of(more, p, remote'[i+1].tree[p]).from)
        /\ \A c \in Checkouts : \A i \in DOMAIN head'[c] : i + 1 \in DOMAIN head'[c] => \A p \in Projects :
             Of(more, p, head'[c][i+1].tree[p]) # Of(more, p, head'[c][i].tree[p]) =>
                 /\ Of(more, p, head'[c][i+1].tree[p]).from \in Runs
                 /\ FleetBy(head'[c], i + 1, Of(more, p, head'[c][i+1].tree[p]).from)
    BY <1>1 DEF Traced
  <1>4. Kin(more)'
    BY <1>1, <1>2, <1>3 DEF Kin, InLog, InTree, Traced, Of, FleetBy
  <1> QED
    BY <1>4

Known == Single /\ Aboard /\ Received /\ Reported /\ \E sets : Kin(sets)

LEMMA InitKnown == Init => Known
  <1> SUFFICES ASSUME Init PROVE Known
    OBVIOUS
  <1>1. PICK sets : sets = [r \in Runs |-> [p \in Projects |-> First]]
    OBVIOUS
  <1>2. /\ remote = <<Root>> /\ \A c \in Checkouts : head[c] = <<Root>> /\ work[c] = Root.tree
        /\ \A r \in Runs : pc[r] = "idle" /\ job[r] = NoJob /\ ~Deploying(r)
        /\ \A p \in Projects : running[p] = 0
    BY DEF Init, NoJob, Deploying
  <1>3. InTree(Root.tree, Sound(sets))
    <2> SUFFICES ASSUME NEW p \in Projects PROVE <<p, Root.tree[p]>> \in Sound(sets)
      BY DEF InTree
    <2>1. Root.tree[p] = FirstRecord /\ FirstRecord \in Records
      BY DEF Root, FirstRecord, Records
    <2>2. Of(sets, p, FirstRecord) = First /\ FirstRecord.pin = 0
      BY DEF Of, FirstRecord
    <2>3. OkAt(sets, p, FirstRecord)
      BY <1>2, <2>2 DEF OkAt, First
    <2> QED
      BY <2>1, <2>2, <2>3, SoundMeans DEF SoundRecord, First
  <1>4. InLog(<<Root>>, Sound(sets)) /\ Traced(sets, <<Root>>)
    BY <1>3 DEF InLog, Traced
  <1>5. Kin(sets)
    BY <1>2, <1>3, <1>4 DEF Kin, SourcesAt
  <1> QED
    BY <1>5, InitSingle, InitReported DEF Known

LEMMA KnownStays == Shape /\ Gone /\ Truthful /\ Claimed /\ Known /\ [Next]_vars => Known'
  <1> SUFFICES ASSUME Shape, Gone, Truthful, Claimed, Known, [Next]_vars PROVE Known'
    OBVIOUS
  <1>1. CASE Next
    <2>1. Kept
      BY DEF Claimed
    <2>2. Single' /\ Aboard' /\ Received' /\ Reported'
      BY <1>1, <2>1, NextSingle, NextAboard, NextReceived, NextReported DEF Known
    <2>3. \E more : Kin(more)'
      BY <1>1, NextKin DEF Known
    <2> QED
      BY <2>2, <2>3 DEF Known
  <1>2. CASE UNCHANGED vars
    <2>1. UNCHANGED <<remote, head, work, pc, job, claimed, ship, play, running, receipt, excuses>>
      BY <1>2 DEF vars, gitVars, runVars, boxVars, history
    <2>2. Single'
      BY <2>1 DEF Known, Single, OnceAt, HomedAt, OneFleet, HasFleet, Within, Agree, FleetBy
    <2>3. Aboard' /\ Received' /\ Reported'
      BY <2>1 DEF Known, Aboard, AboardAt, Received, ReceivedAt, Reported, ReportedAt, Deploying, Playing, On_
    <2>4. PICK sets : Kin(sets)
      BY DEF Known
    <2>5. Kin(sets)'
      <3>1. \A r \in Runs : Deploying(r)' <=> Deploying(r)
        BY <2>1 DEF Deploying, Playing
      <3>2. \A p, record : OkAt(sets, p, record)' <=> OkAt(sets, p, record)
        BY <2>1, <3>1 DEF OkAt, Of, HasFleet, Late, FleetBy, Tree
      <3>3. Sound(sets)' = Sound(sets)
        BY <3>2 DEF Sound, SoundRecord, Of
      <3>4. \A r \in Runs : SourcesAt(sets, r)'
        BY <2>1, <2>4, <3>1 DEF Kin, SourcesAt, Of
      <3>5. InLog(remote, Sound(sets)') /\ \A c \in Checkouts : InLog(head[c], Sound(sets)') /\ InTree(work[c], Sound(sets)')
        BY <2>4, <3>3 DEF Kin
      <3>6. Traced(sets, remote)' /\ \A c \in Checkouts : Traced(sets, head[c])'
        <4>1. Traced(sets, remote') /\ \A c \in Checkouts : Traced(sets, head'[c])
          BY <2>1, <2>4 DEF Kin
        <4>2. Traced(sets, remote)'
          BY <4>1 DEF Traced, FleetBy, Of
        <4>3. ASSUME NEW c \in Checkouts PROVE Traced(sets, head[c])'
          <5>1. Traced(sets, head'[c])
            BY <4>1
          <5> QED
            BY <5>1 DEF Traced, FleetBy, Of
        <4> QED
          BY <4>2, <4>3
      <3>7. InLog(remote, Sound(sets))' /\ \A c \in Checkouts : InLog(head[c], Sound(sets))' /\ InTree(work[c], Sound(sets))'
        BY <2>1, <3>5 DEF InLog, InTree
      <3> QED
        BY <3>4, <3>6, <3>7 DEF Kin
    <2> QED
      BY <2>2, <2>3, <2>5 DEF Known
  <1> QED
    BY <1>1, <1>2

\* Unless an operator took a claim over, a claim expired under a slow run, a killed run left
\* its playbook behind or a run without a claim took part, a lock record that says ok on
\* the remote names the pin its box runs: neither a stale compile nor a late receipt nor a
\* rebase of results over somebody else's puts a wrong ok there (box_results, _pin_deployed).
THEOREM OkIsWhatRuns == Spec => []OkPinRuns
  <1>1. Shape /\ Known => OkPinRuns
    <2> SUFFICES ASSUME Shape, Known, excuses = {}, NEW p \in Projects, Tree(remote)[p].result = "ok"
                 PROVE  running[p] = Tree(remote)[p].pin
      BY DEF OkPinRuns
    <2>1. PICK sets : Kin(sets)
      BY DEF Known
    <2>2. InTree(Tree(remote), Sound(sets))
      <3>1. PICK G : G = Sound(sets)
        OBVIOUS
      <3>2. remote \in Seq(Commits) /\ remote # <<>> /\ InLog(remote, G)
        BY <2>1, <3>1 DEF Shape, Typed, Kin
      <3> QED
        BY <3>1, <3>2, InLast
    <2>3. SoundRecord(sets, p, Tree(remote)[p])
      BY <2>2, SoundMeans DEF InTree
    <2> QED
      BY <2>3 DEF SoundRecord, OkAt
  <1>2. Spec => []Known
    <2>1. Init => Known
      BY InitKnown
    <2>2. Shape /\ Gone /\ Truthful /\ Claimed /\ Known /\ [Next]_vars => Known'
      BY KnownStays
    <2> QED
      BY <2>1, <2>2, ShapeHolds, GoneHolds, TruthHolds, ClaimedHolds, PTL DEF Spec
  <1> QED
    BY <1>1, <1>2, ShapeHolds, PTL
=============================================================================
