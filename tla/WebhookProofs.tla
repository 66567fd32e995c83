---------------------------- MODULE WebhookProofs ----------------------------
(* Proofs about Webhook: what the receivers of a push promise, for any boxes,  *)
(* services and pushes, any number of threads, and any faults, restarts and    *)
(* replays; and that what a build and a receiver do is a step of PushPromise.  *)
EXTENDS Webhook, FiniteSetTheorems, SequenceTheorems, WellFoundedInduction, TLAPS

-----------------------------------------------------------------------------
(* The receivers.                                                              *)

Elems(seq) == {seq[i] : i \in 1..Len(seq)}
ConnFields == DOMAIN NoConn

(* Requests, caches and answers are what they look like.                       *)
RequestOK(r) ==
    /\ DOMAIN r = ConnFields
    /\ r.at \in {"free", "target", "write", "forward", "await"}
    /\ r.box \in Boxes /\ r.push \in Nat /\ r.kind \in {"push", "pull"}
    /\ r.fwd \in BOOLEAN /\ r.url \in BOOLEAN
    /\ r.todo \in Seq(Services) /\ r.fd \in {"none", "trigger", "gone"}
    /\ (r.at \in {"write", "forward", "await"} => r.todo # <<>>)
Typed ==
    /\ head \in 0..MaxPush /\ signals \in Nat
    /\ answer \in [Pushes \X Hooks -> {"none", "open", "ok", "failed"}]
    /\ cache \in [Boxes -> Seq(Pushes \X Services)]
    /\ forgot \in [Boxes -> Nat]
    /\ wrote \in [Units -> [Pushes -> Nat]]
    /\ accepted \in [Units -> Nat]
    /\ DOMAIN conn = Conns
    /\ \A c \in Conns : RequestOK(conn[c])
    /\ \A b \in Boxes : Len(cache[b]) <= CacheSize

(* One hook on any member covers the group (validate.py: "Keep one hook and    *)
(* delete the others"), so no service is in two groups.                        *)
OneHook == \A h, k \in Hooks : Group(h) \cap Group(k) # {} => h = k

(* A service of a push is done with on a box: heard, or somebody was told, or  *)
(* its trigger could not be opened, or its forward was orphaned.  With two     *)
(* hooks for a group nothing is claimed.                                       *)
Done(b, s, p) ==
    \/ ~OneHook
    \/ accepted[<<b, s>>] >= p
    \/ <<b, s>> \in warned
    \/ <<<<b, s>>, p>> \in lost
    \/ <<<<Home, s>>, p>> \in lost
AllDone(s, p) == \A b \in In[s] : Done(b, s, p)
GroupDone(h, p) == \A s \in Group(h) : AllDone(s, p)

(* A request of GitHub, wherever it is in its list of services: those behind   *)
(* it are done, of the one it is at the boxes it need not ask any more.        *)
IsMain(c) == conn[c].kind = "push" /\ ~conn[c].fwd /\ conn[c].at # "free"
IsFwd(c) == conn[c].kind = "push" /\ conn[c].fwd /\ conn[c].at # "free"
MainAt(c) ==
    LET r == conn[c] IN
    /\ r.hook \in Hooks /\ r.push \in 1..head /\ r.box = Home /\ r.client = 0
    /\ answer[<<r.push, r.hook>>] = "open"
    /\ Elems(r.todo) \subseteq Group(r.hook)
    /\ \A s \in Group(r.hook) \ Elems(r.todo) : AllDone(s, r.push)
    /\ r.url => r.todo = <<r.hook>> \o Siblings[r.hook]
    /\ r.at \in {"forward", "await"} =>
          /\ r.peers # {} /\ r.peers \subseteq In[Head(r.todo)] \ {Home}
          /\ \A b \in In[Head(r.todo)] \ r.peers : Done(b, Head(r.todo), r.push)
    /\ r.at = "write" => r.peers = In[Head(r.todo)] \ {Home}
(* A forwarded request, and who waits for it.                                  *)
FwdAt(c) ==
    LET r == conn[c] IN
    /\ r.hook \in Services /\ r.push \in 1..head /\ r.box \in In[r.hook] \ {Home}
    /\ r.at \in {"target", "write"} /\ r.peers = {}
    /\ \/ r.todo = <<r.hook>> /\ r.url
       \/ r.todo = <<>> /\ r.at = "target" /\ Done(r.box, r.hook, r.push)
AwaitedAt(c) ==
    LET k == conn[c].client IN
    k # 0 =>
        /\ k \in Conns /\ IsMain(k) /\ conn[k].at = "await"
        /\ conn[k].push = conn[c].push /\ Head(conn[k].todo) = conn[c].hook /\ Peer(k) = conn[c].box
PullAt(c) ==
    LET r == conn[c] IN
    /\ r.fwd /\ r.client = 0 /\ r.peers = {} /\ r.at \in {"target", "write"}
    /\ r.box = Home /\ Elems(r.todo) \subseteq Elems(ImageMap)
RequestAt(c) ==
    /\ IsMain(c) => MainAt(c)
    /\ IsFwd(c) => FwdAt(c)
    /\ conn[c].kind = "pull" => PullAt(c)
    /\ conn[c].at = "free" => conn[c] = NoConn
Requests == \A c \in Conns : RequestAt(c)
Waiting == \A c \in Conns : IsFwd(c) => AwaitedAt(c)
(* One request per delivery of GitHub, and one forward per waiting request.    *)
OneEach ==
    \A c, d \in Conns :
        /\ IsMain(c) /\ IsMain(d) /\ conn[c].push = conn[d].push /\ conn[c].hook = conn[d].hook => c = d
        /\ conn[c].client # 0 /\ conn[c].client = conn[d].client => c = d

(* What it means that a receiver remembers a delivery: it is done with, or the *)
(* request that has it in hand goes on.                                        *)
InHand(c, s, p) ==
    /\ IsMain(c) /\ conn[c].push = p /\ conn[c].todo # <<>> /\ Head(conn[c].todo) = s
    /\ conn[c].at = "target" => conn[c].url
Follows(c, h, p) == IsMain(c) /\ conn[c].push = p /\ conn[c].hook = h
Forwards(d, b, s, p) ==
    IsFwd(d) /\ conn[d].box = b /\ conn[d].push = p /\ conn[d].hook = s /\ conn[d].client # 0
HomeKnows ==
    \A p \in Pushes, s \in Services :
        Seen(Home, <<p, s>>) => AllDone(s, p) \/ \E c \in Conns : InHand(c, s, p)
HookKnows ==
    \A p \in Pushes, h \in Hooks :
        Seen(Home, <<p, h>>) => GroupDone(h, p) \/ \E c \in Conns : Follows(c, h, p)
PeersKnow ==
    \A b \in Boxes \ {Home}, p \in Pushes, s \in Services :
        Seen(b, <<p, s>>) => Done(b, s, p) \/ \E d \in Conns : Forwards(d, b, s, p)
Answered == \A p \in Pushes, h \in Hooks : answer[<<p, h>>] = "ok" => GroupDone(h, p)

-----------------------------------------------------------------------------
(* Sequences, and the cache of a receiver.                                     *)

LEMMA ElemsOfTail ==
    ASSUME NEW S, NEW seq \in Seq(S), seq # <<>>
    PROVE  /\ Tail(seq) \in Seq(S) /\ Head(seq) \in S /\ Head(seq) \in Elems(seq)
           /\ Elems(Tail(seq)) \subseteq Elems(seq)
           /\ Elems(seq) \subseteq Elems(Tail(seq)) \union {Head(seq)}
<1>1. Len(Tail(seq)) = Len(seq) - 1 /\ \A i \in 1..Len(Tail(seq)) : Tail(seq)[i] = seq[i + 1]
  OBVIOUS
<1>2. Len(seq) \in Nat \ {0} /\ Head(seq) = seq[1]
  OBVIOUS
<1>3. ASSUME NEW i \in 1..Len(seq) PROVE seq[i] \in Elems(Tail(seq)) \union {Head(seq)}
  <2>1. CASE i = 1
    BY <2>1, <1>2
  <2>2. CASE i # 1
    <3>1. i - 1 \in 1..Len(Tail(seq)) /\ Tail(seq)[i - 1] = seq[i]
      BY <2>2, <1>1, <1>2
    <3> QED  BY <3>1 DEF Elems
  <2> QED  BY <2>1, <2>2
<1>4. ASSUME NEW i \in 1..Len(Tail(seq)) PROVE Tail(seq)[i] \in Elems(seq)
  <2>1. i + 1 \in 1..Len(seq) /\ Tail(seq)[i] = seq[i + 1]
    BY <1>1, <1>2
  <2> QED  BY <2>1 DEF Elems
<1>5. Head(seq) \in Elems(seq) /\ Head(seq) \in S /\ Tail(seq) \in Seq(S)
  BY <1>2 DEF Elems
<1> QED  BY <1>3, <1>4, <1>5 DEF Elems

LEMMA JustOne ==
    ASSUME NEW x
    PROVE  Head(<<x>>) = x /\ Tail(<<x>>) = <<>> /\ <<x>> # <<>> /\ Elems(<<x>>) = {x}
<1>1. Len(<<x>>) = 1 /\ <<x>>[1] = x
  OBVIOUS
<1>2. Elems(<<x>>) = {x}
  BY <1>1 DEF Elems
<1>3. Tail(<<x>>) = <<>>
  OBVIOUS
<1>4. Head(<<x>>) = x /\ <<x>> # <<>>
  OBVIOUS
<1> QED  BY <1>2, <1>3, <1>4

LEMMA WithoutOne ==
    ASSUME NEW S, NEW seq \in Seq(S), NEW at \in 1..Len(seq)
    PROVE  RemoveAt(seq, at) = [i \in 1..(Len(seq) - 1) |-> IF i < at THEN seq[i] ELSE seq[i + 1]]
<1> DEFINE a == SubSeq(seq, 1, at - 1)
           b == SubSeq(seq, at + 1, Len(seq))
<1>1. a \in Seq(S) /\ Len(a) = at - 1 /\ \A i \in 1..(at - 1) : a[i] = seq[i]
  OBVIOUS
<1>2. b \in Seq(S) /\ Len(b) = Len(seq) - at /\ \A i \in 1..(Len(seq) - at) : b[i] = seq[at + i]
  OBVIOUS
<1>3. RemoveAt(seq, at) = a \o b
  BY DEF RemoveAt
<1>0. Len(seq) \in Nat /\ at \in Nat /\ at <= Len(seq) /\ at >= 1
  OBVIOUS
<1> HIDE DEF a, b
<1>4. a \o b \in Seq(S) /\ Len(a \o b) = Len(seq) - 1
  <2>1. a \o b \in Seq(S) /\ Len(a \o b) = Len(a) + Len(b)
    BY <1>1, <1>2, ConcatProperties
  <2> QED  BY <2>1, <1>0, <1>1, <1>2
<1>5. ASSUME NEW i \in 1..(Len(seq) - 1)
      PROVE  (a \o b)[i] = IF i < at THEN seq[i] ELSE seq[i + 1]
  <2>1. CASE i < at
    BY <2>1, <1>1, <1>2
  <2>2. CASE ~(i < at)
    <3>1. i > Len(a) /\ i - Len(a) \in 1..Len(b) /\ at + (i - Len(a)) = i + 1
      BY <2>2, <1>1, <1>2
    <3>2. (a \o b)[i] = b[i - Len(a)]
      BY <3>1, <1>1, <1>2, <1>4
    <3> QED  BY <2>2, <3>1, <3>2, <1>1, <1>2
  <2> QED  BY <2>1, <2>2
<1>6. a \o b = [i \in 1..(Len(seq) - 1) |-> (a \o b)[i]]
  <2> DEFINE ab == a \o b
  <2> HIDE DEF ab
  <2>1. ab \in Seq(S) /\ Len(ab) = Len(seq) - 1
    BY <1>4 DEF ab
  <2>2. ab = [i \in 1..Len(ab) |-> ab[i]]
    BY <2>1
  <2> QED  BY <2>1, <2>2 DEF ab
<1> QED  BY <1>3, <1>5, <1>6

(* A key that is seen keeps its place's neighbours; one that is not may push   *)
(* the oldest out, which is counted.                                           *)
Keys == Pushes \X Services
LEMMA Remembers ==
    ASSUME Typed, NEW b \in Boxes, NEW key \in Keys, Remember(b, key)
    PROVE  /\ cache' \in [Boxes -> Seq(Keys)] /\ forgot' \in [Boxes -> Nat]
           /\ \A x \in Boxes : Len(cache'[x]) <= CacheSize
           /\ \A x \in Boxes \ {b} : cache'[x] = cache[x] /\ forgot'[x] = forgot[x]
           /\ forgot'[b] >= forgot[b]
           /\ Seen(b, key)'
           /\ \A k : Seen(b, k)' => Seen(b, k) \/ k = key
           /\ \A k : Seen(b, k) => Seen(b, k)' \/ forgot'[b] >= forgot[b] + 1
<1> DEFINE keys == cache[b]
           at == Place(b, key)
           rest == IF Seen(b, key) THEN RemoveAt(keys, at) ELSE keys
           kept == Append(rest, key)
           new == IF Len(kept) > CacheSize THEN Tail(kept) ELSE kept
           more == IF Len(kept) > CacheSize THEN 1 ELSE 0
<1>1. keys \in Seq(Keys) /\ Len(keys) <= CacheSize /\ Len(keys) \in Nat /\ CacheSize \in Nat \ {0}
  BY WebhookConstants DEF Typed, Keys
<1>2. /\ cache' = [cache EXCEPT ![b] = new]
      /\ forgot' = [forgot EXCEPT ![b] = @ + more]
  BY DEF Remember
<1>3. /\ rest \in Seq(Keys)
      /\ \A k : (\E i \in 1..Len(rest) : rest[i] = k) => Seen(b, k)
      /\ \A k : Seen(b, k) => k = key \/ \E i \in 1..Len(rest) : rest[i] = k
      /\ Seen(b, key) => Len(rest) < CacheSize
      /\ Len(rest) <= CacheSize
  <2>1. CASE Seen(b, key)
    <3>1. at \in 1..Len(keys) /\ keys[at] = key
      BY <2>1 DEF Seen, Place
    <3> HIDE DEF at, keys
    <3>2. rest = [i \in 1..(Len(keys) - 1) |-> IF i < at THEN keys[i] ELSE keys[i + 1]]
      BY <2>1, <1>1, <3>1, WithoutOne
    <3>3. Len(keys) - 1 \in Nat /\ \A i \in 1..(Len(keys) - 1) : (IF i < at THEN keys[i] ELSE keys[i + 1]) \in Keys
      BY <1>1, <3>1
    <3> HIDE DEF rest
    <3>4. rest \in Seq(Keys) /\ Len(rest) = Len(keys) - 1
      BY <3>2, <3>3
    <3>5. ASSUME NEW i \in 1..Len(rest) PROVE Seen(b, rest[i])
      <4>1. \E j \in 1..Len(keys) : keys[j] = rest[i]
        <5>1. CASE i < at
          BY <5>1, <1>1, <3>1, <3>2, <3>4
        <5>2. CASE ~(i < at)
          <6>1. i + 1 \in 1..Len(keys) /\ rest[i] = keys[i + 1]
            BY <5>2, <1>1, <3>1, <3>2, <3>4
          <6> QED  BY <6>1
        <5> QED  BY <5>1, <5>2
      <4> QED  BY <4>1 DEF Seen, keys
    <3>6. ASSUME NEW k, Seen(b, k), k # key PROVE \E i \in 1..Len(rest) : rest[i] = k
      <4>1. PICK j \in 1..Len(keys) : keys[j] = k
        BY <3>6 DEF Seen, keys
      <4>2. j # at
        BY <4>1, <3>1, <3>6
      <4>3. CASE j < at
        <5>1. j \in 1..Len(rest) /\ rest[j] = k
          BY <4>1, <4>3, <1>1, <3>1, <3>2, <3>4
        <5> QED  BY <5>1
      <4>4. CASE j > at
        <5>1. j - 1 \in 1..Len(rest) /\ rest[j - 1] = k
          BY <4>1, <4>4, <1>1, <3>1, <3>2, <3>4
        <5> QED  BY <5>1
      <4> QED  BY <4>2, <4>3, <4>4, <3>1, <4>1, <1>1
    <3>7. \A k : Seen(b, k) => k = key \/ \E i \in 1..Len(rest) : rest[i] = k
      BY <3>6
    <3>8. \A k : (\E i \in 1..Len(rest) : rest[i] = k) => Seen(b, k)
      BY <3>5
    <3>9. Len(rest) < CacheSize /\ Len(rest) <= CacheSize
      BY <3>4, <1>1
    <3> QED  BY <3>4, <3>7, <3>8, <3>9
  <2>2. CASE ~Seen(b, key)
    BY <2>2, <1>1 DEF Seen
  <2> QED  BY <2>1, <2>2
<1> HIDE DEF rest, keys, at
<1>4. /\ kept \in Seq(Keys) /\ Len(kept) = Len(rest) + 1 /\ kept[Len(kept)] = key
      /\ \A i \in 1..Len(rest) : kept[i] = rest[i]
  BY <1>3
<1> HIDE DEF kept
<1>5. /\ new \in Seq(Keys) /\ Len(new) <= CacheSize
      /\ \E i \in 1..Len(new) : new[i] = key
      /\ \A i \in 1..Len(new) : new[i] = key \/ \E j \in 1..Len(rest) : rest[j] = new[i]
      /\ more = 0 => \A j \in 1..Len(rest) : \E i \in 1..Len(new) : new[i] = rest[j]
  <2>0. Len(rest) \in Nat /\ Len(rest) <= CacheSize /\ CacheSize \in Nat \ {0}
    BY <1>1, <1>3
  <2>1. CASE Len(kept) > CacheSize
    <3>1. new = Tail(kept) /\ more = 1 /\ kept # <<>> /\ Len(new) = Len(rest)
          /\ \A i \in 1..Len(new) : new[i] = kept[i + 1]
      BY <2>1, <2>0, <1>4
    <3>2. new \in Seq(Keys)
      BY <3>1, <1>4
    <3> HIDE DEF new, more
    <3>3. Len(new) \in 1..Len(new) /\ new[Len(new)] = key
      BY <3>1, <2>1, <2>0, <1>4
    <3>4. ASSUME NEW i \in 1..Len(new) PROVE new[i] = key \/ \E j \in 1..Len(rest) : rest[j] = new[i]
      <4>1. CASE i = Len(new)
        BY <4>1, <3>3
      <4>2. CASE i # Len(new)
        <5>1. i + 1 \in 1..Len(rest) /\ new[i] = rest[i + 1]
          BY <4>2, <3>1, <2>0, <1>4
        <5> QED  BY <5>1
      <4> QED  BY <4>1, <4>2
    <3> QED  BY <3>1, <3>2, <3>3, <3>4, <2>0
  <2>2. CASE ~(Len(kept) > CacheSize)
    <3>1. new = kept /\ more = 0
      BY <2>2
    <3> HIDE DEF new, more
    <3>2. Len(kept) \in 1..Len(kept)
      BY <2>0, <1>4
    <3>3. ASSUME NEW i \in 1..Len(kept) PROVE kept[i] = key \/ \E j \in 1..Len(rest) : rest[j] = kept[i]
      BY <2>0, <1>4
    <3>4. ASSUME NEW j \in 1..Len(rest) PROVE j \in 1..Len(kept) /\ kept[j] = rest[j]
      BY <2>0, <1>4
    <3> QED  BY <3>1, <3>2, <3>3, <3>4, <2>0, <2>2, <1>4
  <2> QED  BY <2>1, <2>2
<1>6. more \in {0, 1} /\ (Seen(b, key) => more = 0)
  BY <1>1, <1>3, <1>4
<1> HIDE DEF new, more
<1>7. cache'[b] = new /\ forgot'[b] = forgot[b] + more
  BY <1>2 DEF Typed
<1>8. \A k : Seen(b, k)' <=> \E i \in 1..Len(new) : new[i] = k
  BY <1>7 DEF Seen
<1>9. forgot[b] \in Nat /\ forgot' \in [Boxes -> Nat] /\ cache' \in [Boxes -> Seq(Keys)]
  BY <1>2, <1>5, <1>6 DEF Typed, Keys
<1>10. \A x \in Boxes \ {b} : cache'[x] = cache[x] /\ forgot'[x] = forgot[x]
  BY <1>2 DEF Typed
<1>11. \A x \in Boxes : Len(cache'[x]) <= CacheSize
  BY <1>5, <1>7, <1>10 DEF Typed
<1>12. \A k : Seen(b, k) => Seen(b, k)' \/ more = 1
  BY <1>3, <1>5, <1>6, <1>8
<1>13. \A k : Seen(b, k)' => Seen(b, k) \/ k = key
  BY <1>3, <1>5, <1>8
<1>14. Seen(b, key)'
  BY <1>5, <1>8
<1> QED  BY <1>6, <1>7, <1>9, <1>10, <1>11, <1>12, <1>13, <1>14

-----------------------------------------------------------------------------
(* What a step leaves true.                                                    *)

Later ==
    /\ accepted' \in [Units -> Nat] /\ \A u \in Units : accepted'[u] >= accepted[u]
    /\ warned \subseteq warned' /\ lost \subseteq lost'
    /\ head' \in 0..MaxPush /\ head <= head'

LEMMA InBoxes == ASSUME NEW s \in Services, NEW b \in In[s] PROVE b \in Boxes
BY WebhookConstants
LEMMA GroupIsServices ==
    ASSUME NEW h \in Hooks
    PROVE  h \in Services /\ Group(h) \subseteq Services /\ Siblings[h] \in Seq(Services)
           /\ Elems(<<h>> \o Siblings[h]) = Group(h) /\ <<h>> \o Siblings[h] \in Seq(Services)
           /\ <<h>> \o Siblings[h] # <<>> /\ Head(<<h>> \o Siblings[h]) = h
<1>1. h \in Services /\ Siblings[h] \in Seq(Services)
  BY WebhookConstants
<1> DEFINE sib == Siblings[h]
           all == <<h>> \o sib
<1> HIDE DEF sib
<1>2. sib \in Seq(Services) /\ Len(sib) \in Nat
  BY <1>1 DEF sib
<1>3. all \in Seq(Services) /\ Len(all) = Len(sib) + 1
      /\ \A i \in 1..Len(sib) + 1 : all[i] = IF i = 1 THEN h ELSE sib[i - 1]
  <2>1. <<h>> \in Seq(Services) /\ Len(<<h>>) = 1 /\ <<h>>[1] = h
    BY <1>1
  <2>2. all \in Seq(Services) /\ Len(all) = 1 + Len(sib)
        /\ \A i \in 1..1 + Len(sib) : all[i] = IF i <= 1 THEN <<h>>[i] ELSE sib[i - 1]
    BY <2>1, <1>2, ConcatProperties
  <2> HIDE DEF all
  <2> QED  BY <2>1, <2>2, <1>2
<1> HIDE DEF all
<1>4. Elems(all) = {h} \union {sib[i] : i \in 1..Len(sib)}
  <2>1. ASSUME NEW i \in 1..Len(all) PROVE all[i] \in {h} \union {sib[j] : j \in 1..Len(sib)}
    <3>1. CASE i = 1
      BY <3>1, <1>2, <1>3
    <3>2. CASE i # 1
      <4>1. i - 1 \in 1..Len(sib) /\ all[i] = sib[i - 1]
        BY <3>2, <1>2, <1>3
      <4> QED  BY <4>1
    <3> QED  BY <3>1, <3>2
  <2>2. ASSUME NEW j \in 1..Len(sib) PROVE sib[j] \in Elems(all)
    <3>1. j + 1 \in 1..Len(all) /\ all[j + 1] = sib[j]
      BY <1>2, <1>3
    <3> QED  BY <3>1 DEF Elems
  <2>3. h \in Elems(all)
    <3>1. 1 \in 1..Len(all) /\ all[1] = h
      BY <1>2, <1>3
    <3> QED  BY <3>1 DEF Elems
  <2> QED  BY <2>1, <2>2, <2>3 DEF Elems
<1>5. all # <<>> /\ Head(all) = h
  BY <1>2, <1>3
<1>6. Group(h) \subseteq Services
  BY <1>1, <1>2 DEF Group, sib
<1> QED  BY <1>1, <1>2, <1>3, <1>4, <1>5, <1>6 DEF all, sib, Group

LEMMA DoneStays ==
    ASSUME Typed, Later, NEW b \in Boxes, NEW s \in Services, NEW p \in Nat, Done(b, s, p)
    PROVE  Done(b, s, p)'
<1>1. <<b, s>> \in Units /\ accepted[<<b, s>>] \in Nat /\ accepted'[<<b, s>>] \in Nat
  BY DEF Units, Typed, Later
<1>2. accepted'[<<b, s>>] >= accepted[<<b, s>>]
  BY <1>1 DEF Later
<1> QED  BY <1>1, <1>2 DEF Done, Later
LEMMA AllDoneStays ==
    ASSUME Typed, Later, NEW s \in Services, NEW p \in Nat, AllDone(s, p)
    PROVE  AllDone(s, p)'
BY DoneStays, InBoxes DEF AllDone
LEMMA GroupDoneStays ==
    ASSUME Typed, Later, NEW h \in Hooks, NEW p \in Nat, GroupDone(h, p)
    PROVE  GroupDone(h, p)'
BY AllDoneStays, GroupIsServices DEF GroupDone

(* A request no one touched.                                                   *)
LEMMA RequestStays ==
    ASSUME Typed, Later, NEW c \in Conns, RequestAt(c), conn'[c] = conn[c],
           IsMain(c) => answer'[<<conn[c].push, conn[c].hook>>] = "open"
    PROVE  RequestAt(c)'
<1> DEFINE r == conn[c]
<1>0. /\ r.push \in Nat /\ r.todo \in Seq(Services)
      /\ (r.at \in {"write", "forward", "await"} => r.todo # <<>>)
  BY DEF Typed, RequestOK
<1>h. head \in Nat /\ head' \in Nat /\ head <= head'
  BY WebhookConstants DEF Typed, Later
<1>1. ASSUME IsMain(c) PROVE MainAt(c)'
  <2>1. MainAt(c)
    BY <1>1 DEF RequestAt
  <2>2. \A s \in Group(r.hook) \ Elems(r.todo) : AllDone(s, r.push)'
    BY <2>1, <1>0, AllDoneStays, GroupIsServices DEF MainAt
  <2>3. r.at \in {"forward", "await"} =>
            \A b \in In[Head(r.todo)] \ r.peers : Done(b, Head(r.todo), r.push)'
    <3>1. r.at \in {"forward", "await"} => Head(r.todo) \in Services
      BY <1>0, ElemsOfTail
    <3> QED  BY <3>1, <2>1, <1>0, DoneStays, InBoxes DEF MainAt
  <2>4. r.push \in 1..head'
    BY <2>1, <1>h DEF MainAt
  <2>5. answer'[<<r.push, r.hook>>] = "open"
    BY <1>1
  <2> HIDE DEF r
  <2>6. conn'[c] = r
    BY DEF r
  <2>7. MainAt(c)
    BY <2>1
  <2> QED  BY <2>2, <2>3, <2>4, <2>5, <2>6, <2>7 DEF MainAt, AllDone, Done, r
<1>2. ASSUME IsFwd(c) PROVE FwdAt(c)'
  <2>1. FwdAt(c)
    BY <1>2 DEF RequestAt
  <2>2. Done(r.box, r.hook, r.push) => Done(r.box, r.hook, r.push)'
    BY <2>1, <1>0, DoneStays, InBoxes DEF FwdAt
  <2>3. r.push \in 1..head'
    BY <2>1, <1>h DEF FwdAt
  <2> QED  BY <2>1, <2>2, <2>3 DEF FwdAt, Done
<1> QED  BY <1>1, <1>2 DEF RequestAt, IsMain, IsFwd, PullAt

-----------------------------------------------------------------------------
(* Records of requests.                                                        *)

LEMMA FieldsAre ==
    ConnFields = {"at", "box", "push", "kind", "fwd", "todo", "url", "hook", "peers", "fd",
                  "urlFailed", "ok", "client"}
BY DEF ConnFields, NoConn

(* What stays of a request that goes on.                                       *)
Keeps(c) ==
    /\ conn'[c].box = conn[c].box /\ conn'[c].push = conn[c].push /\ conn'[c].kind = conn[c].kind
    /\ conn'[c].fwd = conn[c].fwd /\ conn'[c].hook = conn[c].hook
    /\ conn[c].at # "free" /\ conn'[c].at # "free"

LEMMA OnwardIs ==
    ASSUME NEW r, DOMAIN r = ConnFields, NEW q, q = Onward(r)
    PROVE  /\ DOMAIN q = ConnFields
           /\ q.box = r.box /\ q.push = r.push /\ q.kind = r.kind /\ q.fwd = r.fwd
           /\ q.hook = r.hook /\ q.client = r.client /\ q.peers = r.peers /\ q.fd = "none"
           /\ r.peers = {} => q.at = "target" /\ q.todo = Tail(r.todo) /\ q.url = FALSE
           /\ r.peers # {} => q.at = "forward" /\ q.todo = r.todo /\ q.url = r.url
<1>1. CASE r.peers = {}
  BY <1>1, FieldsAre DEF Onward
<1>2. CASE r.peers # {}
  BY <1>2, FieldsAre DEF Onward
<1> QED  BY <1>1, <1>2

LEMMA FreeIs == NoConn.at = "free" /\ NoConn.client = 0 /\ NoConn.kind = "push" /\ RequestOK(NoConn)
<1>1. /\ NoConn.at = "free" /\ NoConn.client = 0 /\ NoConn.kind = "push" /\ NoConn.box = Home
      /\ NoConn.push = 0 /\ NoConn.todo = <<>> /\ NoConn.fd = "none"
      /\ NoConn.fwd \in BOOLEAN /\ NoConn.url \in BOOLEAN /\ DOMAIN NoConn = ConnFields
  BY DEF NoConn, ConnFields
<1>2. <<>> \in Seq(Services)
  OBVIOUS
<1> QED  BY <1>1, <1>2, WebhookConstants DEF RequestOK

(* The connection a new request gets.                                          *)
Less == OpToRel(<, Nat)
LEMMA LessIsWellFounded == IsWellFoundedOn(Less, Nat)
BY NatLessThanWellFounded DEF Less
LEMMA LessMeans == ASSUME NEW a \in Nat, NEW b \in Nat, a < b PROVE <<a, b>> \in Less
BY DEF Less, OpToRel
LEMMA LowestIsIn == ASSUME NEW T, T \subseteq Nat, T # {} PROVE Lowest(T) \in T
<1>1. PICK m \in T : \A k \in T : ~(<<k, m>> \in Less)
  BY WFMin, LessIsWellFounded
<1>2. \A k \in T : ~(k < m)
  BY <1>1, LessMeans
<1>3. \A k \in T : m <= k
  BY <1>2
<1> QED  BY <1>3 DEF Lowest
LEMMA FreeConn == ASSUME Free # {} PROVE Lowest(Free) \in Conns /\ conn[Lowest(Free)].at = "free"
<1>1. Free \subseteq Nat
  BY WebhookConstants DEF Free
<1>2. Lowest(Free) \in Free
  BY <1>1, LowestIsIn
<1> QED  BY <1>2 DEF Free

(* Who a request can be.                                                       *)
LEMMA KindsOf ==
    ASSUME Typed, Requests, NEW c \in Conns
    PROVE  /\ conn[c].client # 0 => IsFwd(c)
           /\ conn[c].at \in {"forward", "await"} => IsMain(c)
           /\ conn[c].at # "free" => IsMain(c) \/ IsFwd(c) \/ conn[c].kind = "pull"
           /\ IsMain(c) => conn[c].box = Home /\ conn[c].client = 0
           /\ IsFwd(c) => conn[c].box # Home
           /\ conn[c].kind = "pull" => conn[c].box = Home /\ conn[c].client = 0 /\ conn[c].at # "free"
           /\ conn[c].at = "free" => conn[c].client = 0
           /\ ~(IsMain(c) /\ IsFwd(c))
<1>1. RequestAt(c) /\ conn[c].kind \in {"push", "pull"}
  BY DEF Requests, Typed, RequestOK
<1> QED  BY <1>1, FreeIs DEF RequestAt, IsMain, IsFwd, MainAt, FwdAt, PullAt

-----------------------------------------------------------------------------
(* The steps of a request of GitHub.                                           *)

(* It is done with what it was at, on every box but the peers still to ask.    *)
LEMMA Advance ==
    ASSUME Typed, Later, NEW c \in Conns, IsMain(c), MainAt(c), conn[c].todo # <<>>,
           NEW t, t = Target(c), NEW p, p = conn[c].push,
           NEW r, DOMAIN r = ConnFields,
           r.box = conn[c].box, r.push = p, r.kind = "push", r.fwd = FALSE,
           r.hook = conn[c].hook, r.client = 0, r.todo = conn[c].todo,
           r.url = conn[c].url, r.peers \subseteq In[t] \ {Home},
           \A b \in In[t] \ r.peers : Done(b, t, p)',
           conn'[c] = Onward(r), answer'[<<p, conn[c].hook>>] = "open"
    PROVE  /\ RequestAt(c)' /\ Keeps(c) /\ conn'[c].client = 0
           /\ InHand(c, t, p)' \/ AllDone(t, p)'
<1>0. /\ t \in Services /\ Tail(conn[c].todo) \in Seq(Services) /\ t \in Elems(conn[c].todo)
      /\ Elems(Tail(conn[c].todo)) \subseteq Elems(conn[c].todo)
      /\ Elems(conn[c].todo) \subseteq Elems(Tail(conn[c].todo)) \union {t}
  BY ElemsOfTail DEF Typed, RequestOK, Target
<1> PICK h : h = conn[c].hook
  OBVIOUS
<1> PICK todo : todo = conn[c].todo
  OBVIOUS
<1>1. /\ h \in Hooks /\ p \in 1..head /\ conn[c].box = Home /\ conn[c].client = 0
      /\ conn[c].fwd = FALSE /\ conn[c].kind = "push" /\ conn[c].at # "free"
      /\ Elems(todo) \subseteq Group(h)
      /\ \A s \in Group(h) \ Elems(todo) : AllDone(s, p)
      /\ (conn[c].url => todo = <<h>> \o Siblings[h])
  BY DEF MainAt, IsMain, Typed, RequestOK
<1>2. p \in 1..head' /\ p \in Nat
  BY <1>1, WebhookConstants DEF Typed, Later
<1>3. \A s \in Group(h) \ Elems(todo) : AllDone(s, p)'
  BY <1>1, <1>2, AllDoneStays, GroupIsServices
<1> PICK q : q = conn'[c]
  OBVIOUS
<1>4. /\ DOMAIN q = ConnFields
      /\ q.box = Home /\ q.push = p /\ q.kind = "push" /\ q.fwd = FALSE
      /\ q.hook = h /\ q.client = 0 /\ q.peers = r.peers
      /\ (r.peers = {} => q.at = "target" /\ q.todo = Tail(todo) /\ q.url = FALSE)
      /\ (r.peers # {} => q.at = "forward" /\ q.todo = todo /\ q.url = conn[c].url)
  <2>0. DOMAIN r = ConnFields
    OBVIOUS
  <2>1. q = Onward(r)
    OBVIOUS
  <2>2. /\ DOMAIN q = ConnFields
        /\ q.box = r.box /\ q.push = r.push /\ q.kind = r.kind /\ q.fwd = r.fwd
        /\ q.hook = r.hook /\ q.client = r.client /\ q.peers = r.peers
        /\ (r.peers = {} => q.at = "target" /\ q.todo = Tail(r.todo) /\ q.url = FALSE)
        /\ (r.peers # {} => q.at = "forward" /\ q.todo = r.todo /\ q.url = r.url)
    BY ONLY <2>0, <2>1, OnwardIs
  <2> QED  BY <2>2, <1>1
<1>5. \A b \in In[t] \ r.peers : Done(b, t, p)'
  OBVIOUS
<1>6. CASE r.peers = {}
  <2>1. AllDone(t, p)'
    BY <1>5, <1>6 DEF AllDone
  <2>2. \A s \in Group(h) \ Elems(q.todo) : AllDone(s, p)'
    BY <2>1, <1>0, <1>3, <1>4, <1>6
  <2>3. MainAt(c)'
    BY <2>2, <1>0, <1>1, <1>2, <1>4, <1>6 DEF MainAt
  <2>4. IsMain(c)'
    BY <1>4, <1>6 DEF IsMain
  <2> QED  BY <2>1, <2>3, <2>4, <1>4, <1>6, <1>1 DEF RequestAt, Keeps, IsMain, IsFwd
<1>7. CASE r.peers # {}
  <2>1. q.at = "forward" /\ q.todo = todo
    BY <1>4, <1>7
  <2>2. Head(q.todo) = t /\ q.url = conn[c].url /\ q.peers \subseteq In[t] \ {Home}
    BY <1>4, <1>7 DEF Target
  <2>3. InHand(c, t, p)'
    BY <2>1, <2>2, <1>4 DEF InHand, IsMain
  <2>4. MainAt(c)'
    BY <2>1, <2>2, <1>0, <1>1, <1>2, <1>3, <1>4, <1>5, <1>7 DEF MainAt
  <2> QED  BY <2>1, <2>3, <2>4, <1>4, <1>7, <1>1 DEF RequestAt, Keeps, IsMain, IsFwd
<1> QED  BY <1>6, <1>7

-----------------------------------------------------------------------------
(* What the steps have in common.                                              *)

RInv ==
    /\ Typed /\ Requests /\ Waiting /\ OneEach
    /\ HomeKnows /\ HookKnows /\ PeersKnow /\ Answered

LEMMA PushIs == Pushes \subseteq Nat
BY DEF Pushes
LEMMA HomeStays ==
    ASSUME Typed, Later, HomeKnows,
           \A c \in Conns, s \in Services, p \in Pushes :
               InHand(c, s, p) => InHand(c, s, p)' \/ AllDone(s, p)',
           \A s \in Services, p \in Pushes :
               Seen(Home, <<p, s>>)' =>
                   \/ Seen(Home, <<p, s>>) \/ AllDone(s, p)'
                   \/ \E c \in Conns : InHand(c, s, p)'
    PROVE  HomeKnows'
<1> SUFFICES ASSUME NEW p \in Pushes, NEW s \in Services, Seen(Home, <<p, s>>)'
             PROVE  AllDone(s, p)' \/ \E c \in Conns : InHand(c, s, p)'
  BY DEF HomeKnows
<1>1. CASE Seen(Home, <<p, s>>)
  <2>1. CASE AllDone(s, p)
    BY <2>1, AllDoneStays, PushIs
  <2>2. CASE \E c \in Conns : InHand(c, s, p)
    BY <2>2
  <2> QED  BY <1>1, <2>1, <2>2 DEF HomeKnows
<1> QED  BY <1>1
LEMMA HookStays ==
    ASSUME Typed, Later, HookKnows,
           \A c \in Conns, h \in Hooks, p \in Pushes :
               Follows(c, h, p) => Follows(c, h, p)' \/ GroupDone(h, p)',
           \A h \in Hooks, p \in Pushes :
               Seen(Home, <<p, h>>)' =>
                   \/ Seen(Home, <<p, h>>) \/ GroupDone(h, p)'
                   \/ \E c \in Conns : Follows(c, h, p)'
    PROVE  HookKnows'
<1> SUFFICES ASSUME NEW p \in Pushes, NEW h \in Hooks, Seen(Home, <<p, h>>)'
             PROVE  GroupDone(h, p)' \/ \E c \in Conns : Follows(c, h, p)'
  BY DEF HookKnows
<1>1. CASE Seen(Home, <<p, h>>)
  <2>1. CASE GroupDone(h, p)
    BY <2>1, GroupDoneStays, PushIs
  <2>2. CASE \E c \in Conns : Follows(c, h, p)
    BY <2>2
  <2> QED  BY <1>1, <2>1, <2>2 DEF HookKnows
<1> QED  BY <1>1
LEMMA PeersStay ==
    ASSUME Typed, Later, PeersKnow,
           \A d \in Conns, b \in Boxes \ {Home}, s \in Services, p \in Pushes :
               Forwards(d, b, s, p) => Forwards(d, b, s, p)' \/ Done(b, s, p)',
           \A b \in Boxes \ {Home}, s \in Services, p \in Pushes :
               Seen(b, <<p, s>>)' =>
                   \/ Seen(b, <<p, s>>) \/ Done(b, s, p)'
                   \/ \E d \in Conns : Forwards(d, b, s, p)'
    PROVE  PeersKnow'
<1> SUFFICES ASSUME NEW b \in Boxes \ {Home}, NEW p \in Pushes, NEW s \in Services,
                    Seen(b, <<p, s>>)'
             PROVE  Done(b, s, p)' \/ \E d \in Conns : Forwards(d, b, s, p)'
  BY DEF PeersKnow
<1>1. CASE Seen(b, <<p, s>>)
  <2>1. CASE Done(b, s, p)
    BY <2>1, DoneStays, PushIs
  <2>2. CASE \E d \in Conns : Forwards(d, b, s, p)
    BY <2>2
  <2> QED  BY <1>1, <2>1, <2>2 DEF PeersKnow
<1> QED  BY <1>1
LEMMA AnswersStay ==
    ASSUME Typed, Later, Answered,
           \A p \in Pushes, h \in Hooks :
               answer'[<<p, h>>] = "ok" => answer[<<p, h>>] = "ok" \/ GroupDone(h, p)'
    PROVE  Answered'
BY GroupDoneStays, PushIs DEF Answered
LEMMA OtherStays ==
    ASSUME Typed, Later, Requests, NEW d \in Conns, conn'[d] = conn[d], answer' = answer
    PROVE  RequestAt(d)'
BY RequestStays DEF Requests, RequestAt, MainAt

(* One request goes on, and may have marked what it is at.                     *)
LEMMA OneGoes ==
    ASSUME RInv, Later, Typed', NEW c \in Conns, answer' = answer,
           \A d \in Conns \ {c} : conn'[d] = conn[d],
           Keeps(c), conn[c].at # "await", conn'[c].client = conn[c].client, RequestAt(c)',
           \A s \in Services, p \in Pushes : InHand(c, s, p) => InHand(c, s, p)' \/ AllDone(s, p)',
           \A s \in Services, p \in Pushes :
               Seen(Home, <<p, s>>)' =>
                   \/ Seen(Home, <<p, s>>)
                   \/ /\ IsMain(c) /\ conn[c].push = p /\ s \in Group(conn[c].hook)
                      /\ AllDone(s, p)' \/ InHand(c, s, p)',
           \A b \in Boxes \ {Home} : cache'[b] = cache[b]
    PROVE  RInv'
<1>0. Typed /\ Requests /\ Waiting /\ OneEach /\ HomeKnows /\ HookKnows /\ PeersKnow /\ Answered
  BY DEF RInv
<1>1. Requests'
  BY <1>0, OtherStays DEF Requests
<1>k. \A d \in Conns : /\ IsMain(d)' <=> IsMain(d)
                       /\ IsFwd(d)' <=> IsFwd(d)
                       /\ conn'[d].client = conn[d].client /\ conn'[d].push = conn[d].push
                       /\ conn'[d].hook = conn[d].hook /\ conn'[d].box = conn[d].box
  BY DEF Keeps, IsMain, IsFwd
<1>2. Waiting'
  <2> SUFFICES ASSUME NEW d \in Conns, IsFwd(d)' PROVE AwaitedAt(d)'
    BY DEF Waiting
  <2>1. AwaitedAt(d)
    BY <1>0, <1>k DEF Waiting
  <2>2. conn[d].client # 0 => conn[d].client # c
    BY <2>1 DEF AwaitedAt
  <2>3. conn[d].client # 0 => conn[d].client \in Conns /\ conn'[conn[d].client] = conn[conn[d].client]
    BY <2>1, <2>2 DEF AwaitedAt
  <2> QED  BY <1>k, <2>1, <2>3 DEF AwaitedAt, IsMain, Peer
<1>3. OneEach'
  BY <1>0, <1>k DEF OneEach
<1>4. HomeKnows'
  <2>1. \A d \in Conns, s \in Services, p \in Pushes :
            InHand(d, s, p) => InHand(d, s, p)' \/ AllDone(s, p)'
    BY DEF InHand, IsMain
  <2> QED  BY <1>0, <2>1, HomeStays
<1>5. HookKnows'
  <2>1. \A d \in Conns, h \in Hooks, p \in Pushes : Follows(d, h, p) => Follows(d, h, p)'
    BY <1>k DEF Follows
  <2>0. CASE ~OneHook
    BY <2>0 DEF HookKnows, GroupDone, AllDone, Done
  <2>2. ASSUME OneHook, NEW h \in Hooks, NEW p \in Pushes, Seen(Home, <<p, h>>)', ~Seen(Home, <<p, h>>)
        PROVE  Follows(c, h, p)'
    <3>1. IsMain(c) /\ conn[c].push = p /\ h \in Group(conn[c].hook)
      BY <2>2, GroupIsServices
    <3>2. conn[c].hook \in Hooks
      BY <3>1, <1>0 DEF Requests, RequestAt, MainAt
    <3>3. h \in Group(h)
      BY DEF Group
    <3>4. conn[c].hook = h
      BY <2>2, <3>1, <3>2, <3>3 DEF OneHook
    <3> QED  BY <3>1, <3>4, <1>k DEF Follows
  <2> QED  BY <1>0, <2>0, <2>1, <2>2, HookStays
<1>6. PeersKnow'
  <2>1. \A d \in Conns, b \in Boxes \ {Home}, s \in Services, p \in Pushes :
            Forwards(d, b, s, p) => Forwards(d, b, s, p)'
    BY <1>k DEF Forwards
  <2>2. \A b \in Boxes \ {Home}, s \in Services, p \in Pushes :
            Seen(b, <<p, s>>)' => Seen(b, <<p, s>>)
    BY DEF Seen
  <2> QED  BY <1>0, <2>1, <2>2, PeersStay
<1>7. Answered'
  BY <1>0, AnswersStay
<1> QED  BY <1>1, <1>2, <1>3, <1>4, <1>5, <1>6, <1>7 DEF RInv

-----------------------------------------------------------------------------
(* A request that is at a service.                                             *)

LEMMA OneTyped ==
    ASSUME Typed, Later, NEW c \in Conns,
           cache' \in [Boxes -> Seq(Pushes \X Services)], forgot' \in [Boxes -> Nat],
           \A b \in Boxes : Len(cache'[b]) <= CacheSize,
           wrote' \in [Units -> [Pushes -> Nat]], signals' \in Nat,
           answer' \in [Pushes \X Hooks -> {"none", "open", "ok", "failed"}],
           DOMAIN conn' = Conns, \A d \in Conns \ {c} : conn'[d] = conn[d], RequestOK(conn'[c])
    PROVE  Typed'
<1>1. \A d \in Conns : RequestOK(conn'[d])
  BY DEF Typed
<1> QED  BY <1>1 DEF Typed, Later

LEMMA LookedUp ==
    ASSUME Typed, Requests, NEW c \in Conns, Handling(c), LookUp(c)
    PROVE  /\ cache' \in [Boxes -> Seq(Pushes \X Services)] /\ forgot' \in [Boxes -> Nat]
           /\ \A b \in Boxes : Len(cache'[b]) <= CacheSize
           /\ \A b \in Boxes \ {Home} : cache'[b] = cache[b]
           /\ \A s \in Services, p \in Pushes :
                  Seen(Home, <<p, s>>)' =>
                      \/ Seen(Home, <<p, s>>)
                      \/ IsMain(c) /\ p = conn[c].push /\ s = Target(c) /\ s \in Group(conn[c].hook)
<1>1. CASE Sibling(c)
  <2>1. RequestAt(c) /\ conn[c].todo # <<>> /\ conn[c].at = "target" /\ conn[c].kind = "push" /\ ~conn[c].url
    BY <1>1 DEF Requests, Handling, Sibling, At
  <2>2. IsMain(c) /\ MainAt(c)
    BY <2>1 DEF RequestAt, IsMain, IsFwd, FwdAt
  <2>3. Target(c) \in Services /\ Target(c) \in Elems(conn[c].todo)
    BY <2>1, ElemsOfTail DEF Typed, RequestOK, Target
  <2>4. conn[c].push \in 1..head /\ conn[c].box = Home /\ Target(c) \in Group(conn[c].hook)
    BY <2>2, <2>3 DEF MainAt
  <2>5. conn[c].push \in Pushes
    BY <2>4, WebhookConstants DEF Typed, Pushes
  <2>6. Key(c) \in Keys /\ Remember(Home, Key(c)) /\ Home \in Boxes
    BY <1>1, <2>3, <2>4, <2>5, WebhookConstants DEF Key, Keys, LookUp
  <2> PICK key : key = Key(c)
    OBVIOUS
  <2>7. \A k : Seen(Home, k)' => Seen(Home, k) \/ k = key
    BY <2>6, Remembers
  <2>8. ASSUME NEW s \in Services, NEW p \in Pushes, Seen(Home, <<p, s>>)', ~Seen(Home, <<p, s>>)
        PROVE  p = conn[c].push /\ s = Target(c)
    BY <2>7, <2>8 DEF Key
  <2>9. /\ cache' \in [Boxes -> Seq(Keys)] /\ forgot' \in [Boxes -> Nat]
        /\ \A b \in Boxes : Len(cache'[b]) <= CacheSize
        /\ \A b \in Boxes \ {Home} : cache'[b] = cache[b]
    BY <2>6, Remembers
  <2> QED  BY <2>2, <2>4, <2>8, <2>9 DEF Keys
<1>2. CASE ~Sibling(c)
  <2>1. UNCHANGED <<cache, forgot>>
    BY <1>2 DEF LookUp
  <2> QED  BY <2>1 DEF Typed, Seen
<1> QED  BY <1>1, <1>2

(* It is through with the service on its box; its peers, if any, are next.     *)
LEMMA Onwards ==
    ASSUME RInv, Later, NEW c \in Conns, At(c, "target") \/ At(c, "write"), conn[c].todo # <<>>,
           NEW t, t = Target(c), NEW p, p = conn[c].push,
           NEW r, DOMAIN r = ConnFields,
           r.box = conn[c].box, r.push = p, r.kind = conn[c].kind, r.fwd = conn[c].fwd,
           r.hook = conn[c].hook, r.client = conn[c].client, r.todo = conn[c].todo,
           r.url = conn[c].url, r.peers = Targets(conn[c].box, t, conn[c].fwd),
           Local(conn[c].box, t) => accepted'[<<conn[c].box, t>>] >= p,
           conn'[c] = Onward(r), answer' = answer
    PROVE  /\ RequestAt(c)' /\ Keeps(c) /\ conn'[c].client = conn[c].client
           /\ RequestOK(conn'[c])
           /\ IsMain(c) => InHand(c, t, p)' \/ AllDone(t, p)'
<1>0. Typed /\ RequestAt(c) /\ RequestOK(conn[c])
  BY DEF RInv, Requests, Typed
<1>1. /\ t \in Services /\ Tail(conn[c].todo) \in Seq(Services) /\ t \in Elems(conn[c].todo)
      /\ Elems(Tail(conn[c].todo)) \subseteq Elems(conn[c].todo)
  BY <1>0, ElemsOfTail DEF RequestOK, Target
<1>2. conn[c].at # "free" /\ conn[c].at \in {"target", "write"}
  BY DEF At
<1> PICK q : q = conn'[c]
  OBVIOUS
<1>3. /\ DOMAIN q = ConnFields
      /\ q.box = r.box /\ q.push = r.push /\ q.kind = r.kind /\ q.fwd = r.fwd
      /\ q.hook = r.hook /\ q.client = r.client /\ q.peers = r.peers /\ q.fd = "none"
      /\ (r.peers = {} => q.at = "target" /\ q.todo = Tail(r.todo) /\ q.url = FALSE)
      /\ (r.peers # {} => q.at = "forward" /\ q.todo = r.todo /\ q.url = r.url)
  <2>0. DOMAIN r = ConnFields
    OBVIOUS
  <2>1. q = Onward(r)
    OBVIOUS
  <2> QED  BY ONLY <2>0, <2>1, OnwardIs, ZenonT(60)
<1>4. Keeps(c) /\ conn'[c].client = conn[c].client
  BY <1>2, <1>3 DEF Keeps
<1>5. RequestOK(conn'[c])
  <2>1. CASE r.peers = {}
    BY <2>1, <1>0, <1>1, <1>3 DEF RequestOK
  <2>2. CASE r.peers # {}
    BY <2>2, <1>0, <1>1, <1>3 DEF RequestOK
  <2> QED  BY <2>1, <2>2
<1>6. CASE IsMain(c)
  <2>1. MainAt(c)
    BY <1>0, <1>6 DEF RequestAt
  <2>2. conn[c].box = Home /\ conn[c].client = 0 /\ conn[c].fwd = FALSE /\ conn[c].kind = "push"
    BY <2>1, <1>0, <1>6 DEF MainAt, IsMain, RequestOK
  <2>3. r.peers = In[t] \ {Home}
    BY <2>2 DEF Targets
  <2>4. \A b \in In[t] \ r.peers : Done(b, t, p)'
    BY <2>2, <2>3 DEF Done, Local
  <2>5. answer'[<<p, conn[c].hook>>] = "open"
    BY <2>1 DEF MainAt
  <2>6. /\ r.box = conn[c].box /\ r.push = p /\ r.kind = "push" /\ r.fwd = FALSE
        /\ r.hook = conn[c].hook /\ r.client = 0 /\ r.todo = conn[c].todo
        /\ r.url = conn[c].url /\ r.peers \subseteq In[t] \ {Home} /\ conn'[c] = Onward(r)
    BY <2>2, <2>3
  <2>7. /\ RequestAt(c)' /\ (InHand(c, t, p)' \/ AllDone(t, p)')
    BY <1>0, <1>6, <2>1, <2>4, <2>5, <2>6, Advance
  <2> QED  BY <2>7, <1>4, <1>5
<1>7. CASE IsFwd(c)
  <2>1. FwdAt(c) /\ conn[c].fwd = TRUE
    BY <1>0, <1>7 DEF RequestAt, IsFwd, RequestOK
  <2>2. conn[c].todo = <<conn[c].hook>> /\ t = conn[c].hook /\ Tail(conn[c].todo) = <<>>
    <3> PICK h : h = conn[c].hook
      OBVIOUS
    <3>1. conn[c].todo = <<h>>
      BY <2>1 DEF FwdAt
    <3>2. Head(<<h>>) = h /\ Tail(<<h>>) = <<>>
      BY JustOne
    <3>3. t = h
      BY <3>1, <3>2 DEF Target
    <3> QED  BY <3>1, <3>2, <3>3
  <2>3. r.peers = {}
    BY <2>1 DEF Targets
  <2>4. Done(conn[c].box, t, p)'
    <3> PICK b : b = conn[c].box
      OBVIOUS
    <3>1. Done(b, t, p)'
      BY <2>1, <2>2 DEF Done, FwdAt, Local
    <3>2. conn'[c].box = b
      BY <1>3
    <3> QED  BY <3>1, <3>2, <1>4 DEF Keeps
  <2>5. p \in 1..head'
    BY <2>1, <1>0, WebhookConstants DEF Typed, Later, FwdAt
  <2>6. FwdAt(c)'
    BY <2>1, <2>2, <2>3, <2>4, <2>5, <1>3 DEF FwdAt
  <2> QED  BY <2>6, <1>3, <1>4, <1>5, <1>7 DEF RequestAt, IsMain, IsFwd, Keeps
<1>8. CASE conn[c].kind = "pull"
  <2>1. PullAt(c) /\ conn[c].fwd = TRUE
    BY <1>0, <1>8 DEF RequestAt, RequestOK, PullAt
  <2>2. r.peers = {}
    BY <2>1 DEF Targets
  <2>3. PullAt(c)'
    BY <2>1, <2>2, <1>1, <1>3 DEF PullAt
  <2> QED  BY <2>3, <1>3, <1>4, <1>5, <1>8 DEF RequestAt, IsMain, IsFwd, Keeps
<1> QED  BY <1>0, <1>2, <1>6, <1>7, <1>8 DEF IsMain, IsFwd, RequestOK

LEMMA GoesOn ==
    ASSUME RInv, Later, Typed', NEW c \in Conns, NEW t, t = Target(c),
           NEW p, p = conn[c].push, conn[c].at # "await", answer' = answer,
           \A d \in Conns \ {c} : conn'[d] = conn[d],
           RequestAt(c)', Keeps(c), conn'[c].client = conn[c].client,
           IsMain(c) => InHand(c, t, p)' \/ AllDone(t, p)',
           \A b \in Boxes \ {Home} : cache'[b] = cache[b],
           \A s \in Services, q \in Pushes :
               Seen(Home, <<q, s>>)' =>
                   \/ Seen(Home, <<q, s>>)
                   \/ IsMain(c) /\ q = p /\ s = t /\ s \in Group(conn[c].hook)
    PROVE  RInv'
<1>1. \A s \in Services, q \in Pushes : InHand(c, s, q) => InHand(c, s, q)' \/ AllDone(s, q)'
  <2> SUFFICES ASSUME NEW s \in Services, NEW q \in Pushes, InHand(c, s, q)
               PROVE  InHand(c, s, q)' \/ AllDone(s, q)'
    OBVIOUS
  <2>1. s = t /\ q = p /\ IsMain(c)
    BY DEF InHand, Target
  <2> QED  BY <2>1
<1>2. \A s \in Services, q \in Pushes :
          Seen(Home, <<q, s>>)' =>
              \/ Seen(Home, <<q, s>>)
              \/ /\ IsMain(c) /\ conn[c].push = q /\ s \in Group(conn[c].hook)
                 /\ AllDone(s, q)' \/ InHand(c, s, q)'
  OBVIOUS
<1> QED  BY <1>1, <1>2, OneGoes

LEMMA AcceptIs ==
    ASSUME Typed, Requests, NEW c \in Conns, conn[c].todo # <<>>, conn[c].at # "free",
           Local(conn[c].box, Target(c)), Accept(c)
    PROVE  /\ accepted' \in [Units -> Nat] /\ \A u \in Units : accepted'[u] >= accepted[u]
           /\ accepted'[Unit(c)] >= conn[c].push
<1>1. Target(c) \in Services /\ conn[c].box \in Boxes /\ conn[c].push \in Nat
  BY ElemsOfTail DEF Typed, RequestOK, Target
<1>2. Unit(c) \in Units /\ accepted \in [Units -> Nat]
  BY <1>1 DEF Unit, Units, Typed
<1>3. accepted' = [accepted EXCEPT ![Unit(c)] = Raise(accepted[Unit(c)], conn[c].push)]
  BY DEF Accept
<1> QED  BY <1>1, <1>2, <1>3 DEF Raise

LEMMA RoutedIs ==
    ASSUME Typed, NEW c \in Conns, NEW local \in BOOLEAN, NEW r, r = Routed(c, local)
    PROVE  /\ DOMAIN r = ConnFields
           /\ r.at = conn[c].at /\ r.box = conn[c].box /\ r.push = conn[c].push
           /\ r.kind = conn[c].kind /\ r.fwd = conn[c].fwd
           /\ r.hook = conn[c].hook /\ r.client = conn[c].client /\ r.todo = conn[c].todo
           /\ r.url = conn[c].url /\ r.peers = Targets(conn[c].box, Target(c), conn[c].fwd)
           /\ r.fd = conn[c].fd
<1>1. DOMAIN conn[c] = ConnFields
  BY DEF Typed, RequestOK
<1> QED  BY <1>1, FieldsAre DEF Routed

LEMMA SkipSeenKeeps ==
    ASSUME RInv, NEW c \in Conns, SkipSeen(c)
    PROVE  RInv'
<1>0. Typed /\ Requests /\ OneEach /\ HomeKnows
  BY DEF RInv
<1>1. Later
  BY <1>0, WebhookConstants DEF SkipSeen, repoVars, Later, Typed
<1>2. Handling(c) /\ LookUp(c) /\ Sibling(c) /\ Seen(conn[c].box, Key(c)) /\ answer' = answer
  BY DEF SkipSeen, Taken
<1>3. /\ RequestAt(c) /\ RequestOK(conn[c]) /\ conn[c].todo # <<>> /\ conn[c].at = "target"
      /\ conn[c].kind = "push" /\ ~conn[c].url
  BY <1>0, <1>2 DEF Requests, Handling, Sibling, At, Typed
<1>4. IsMain(c) /\ MainAt(c)
  BY <1>3 DEF RequestAt, IsMain, IsFwd, FwdAt
<1> PICK t : t = Target(c)
  OBVIOUS
<1> PICK p : p = conn[c].push
  OBVIOUS
<1>5. /\ t \in Services /\ Tail(conn[c].todo) \in Seq(Services) /\ t \in Elems(conn[c].todo)
      /\ Elems(Tail(conn[c].todo)) \subseteq Elems(conn[c].todo)
      /\ Elems(conn[c].todo) \subseteq Elems(Tail(conn[c].todo)) \union {t}
  BY <1>3, ElemsOfTail DEF RequestOK, Target
<1>6. conn[c].hook \in Hooks /\ p \in 1..head /\ p \in Pushes /\ t \in Group(conn[c].hook)
  BY <1>0, <1>4, <1>5, WebhookConstants DEF MainAt, Typed, Pushes
<1>7. AllDone(t, p)
  <2>1. Seen(Home, <<p, t>>)
    BY <1>2, <1>4 DEF Key, MainAt
  <2>0. CASE ~OneHook
    BY <2>0 DEF AllDone, Done
  <2>2. ASSUME OneHook, NEW d \in Conns, InHand(d, t, p) PROVE FALSE
    <3>1. IsMain(d) /\ conn[d].push = p /\ conn[d].todo # <<>> /\ t = Head(conn[d].todo)
      BY <2>2 DEF InHand
    <3>2. MainAt(d) /\ conn[d].todo \in Seq(Services)
      BY <1>0, <3>1 DEF Requests, RequestAt, Typed, RequestOK
    <3>3. t \in Group(conn[d].hook) /\ conn[d].hook \in Hooks
      BY <3>1, <3>2, ElemsOfTail DEF MainAt
    <3>4. conn[d].hook = conn[c].hook
      BY <1>6, <2>2, <3>3 DEF OneHook
    <3>5. d = c
      BY <1>0, <1>4, <3>1, <3>4 DEF OneEach
    <3> QED  BY <2>2, <3>5, <1>3 DEF InHand
  <2> QED  BY <1>0, <1>5, <1>6, <2>0, <2>1, <2>2 DEF HomeKnows
<1>8. AllDone(t, p)'
  BY <1>0, <1>1, <1>5, <1>6, <1>7, AllDoneStays, PushIs
<1>9. conn' = [conn EXCEPT ![c] = [conn[c] EXCEPT !.todo = Tail(conn[c].todo)]]
  BY DEF SkipSeen
<1> PICK h : h = conn[c].hook
  OBVIOUS
<1> PICK rest : rest = Tail(conn[c].todo)
  OBVIOUS
<1> PICK q : q = conn'[c]
  OBVIOUS
<1>10. /\ DOMAIN q = ConnFields
       /\ q.at = "target" /\ q.box = Home /\ q.push = p /\ q.kind = "push" /\ q.fwd = FALSE
       /\ q.hook = h /\ q.client = 0 /\ q.todo = rest /\ q.url = FALSE /\ q.fd = conn[c].fd
  BY <1>0, <1>3, <1>4, <1>9, FieldsAre DEF Typed, RequestOK, MainAt, IsMain
<1>11. \A s \in Group(h) \ Elems(rest) : AllDone(s, p)'
  <2>1. \A s \in Group(h) \ Elems(conn[c].todo) : AllDone(s, p)'
    BY <1>0, <1>1, <1>4, <1>6, AllDoneStays, GroupIsServices, PushIs DEF MainAt
  <2> QED  BY <2>1, <1>5, <1>8
<1>12. p \in 1..head'
  BY <1>0, <1>1, <1>6, WebhookConstants DEF Typed, Later
<1>13. MainAt(c)'
  BY <1>4, <1>5, <1>10, <1>11, <1>12, <1>2 DEF MainAt
<1>14. RequestAt(c)' /\ Keeps(c) /\ conn'[c].client = conn[c].client
  BY <1>3, <1>4, <1>10, <1>13 DEF RequestAt, Keeps, IsMain, IsFwd, MainAt, RequestOK
<1>15. RequestOK(conn'[c])
  BY <1>0, <1>5, <1>10, <1>3, WebhookConstants DEF RequestOK
<1>16. \A d \in Conns \ {c} : conn'[d] = conn[d]
  BY <1>9, <1>0 DEF Typed
<1>17. Typed'
  <2>1. UNCHANGED <<answer, signals, wrote>> /\ DOMAIN conn' = Conns
    BY <1>9, <1>0 DEF SkipSeen, repoVars, Typed
  <2> QED  BY <1>0, <1>1, <1>2, <1>15, <1>16, <2>1, LookedUp, OneTyped DEF Typed
<1>18. conn[c].at # "await"
  BY <1>3
<1> QED  BY <1>0, <1>1, <1>2, <1>8, <1>14, <1>16, <1>17, <1>18, LookedUp, GoesOn

LEMMA NotHereKeeps ==
    ASSUME RInv, NEW c \in Conns, NotHere(c)
    PROVE  RInv'
<1>0. Typed /\ Requests
  BY DEF RInv
<1>1. Later
  BY <1>0, WebhookConstants DEF NotHere, repoVars, Later, Typed
<1>2. /\ Handling(c) /\ LookUp(c) /\ ~Local(conn[c].box, Target(c)) /\ answer' = answer
      /\ conn' = [conn EXCEPT ![c] = Onward(Routed(c, FALSE))] /\ UNCHANGED <<signals, wrote>>
  BY DEF NotHere, repoVars
<1>3. conn[c].todo # <<>> /\ conn[c].at = "target" /\ At(c, "target")
  BY <1>2 DEF Handling, At
<1> PICK t : t = Target(c)
  OBVIOUS
<1> PICK p : p = conn[c].push
  OBVIOUS
<1> PICK r : r = Routed(c, FALSE)
  OBVIOUS
<1>4. /\ DOMAIN r = ConnFields
      /\ r.box = conn[c].box /\ r.push = p /\ r.kind = conn[c].kind /\ r.fwd = conn[c].fwd
      /\ r.hook = conn[c].hook /\ r.client = conn[c].client /\ r.todo = conn[c].todo
      /\ r.url = conn[c].url /\ r.peers = Targets(conn[c].box, t, conn[c].fwd)
  BY <1>0, RoutedIs
<1>5. /\ conn'[c] = Onward(r) /\ DOMAIN conn' = Conns
      /\ \A d \in Conns \ {c} : conn'[d] = conn[d]
  BY <1>0, <1>2 DEF Typed
<1>l. ~Local(conn[c].box, t)
  BY <1>2
<1>y. /\ RInv /\ c \in Conns /\ t = Target(c) /\ p = conn[c].push /\ answer' = answer
  BY <1>2
<1>6. /\ RequestAt(c)' /\ Keeps(c) /\ conn'[c].client = conn[c].client
      /\ RequestOK(conn'[c])
      /\ (IsMain(c) => InHand(c, t, p)' \/ AllDone(t, p)')
  BY ONLY <1>1, <1>3, <1>4, <1>5, <1>l, <1>y, Onwards
<1>7. Typed'
  BY <1>0, <1>1, <1>2, <1>5, <1>6, LookedUp, OneTyped DEF Typed
<1>8. conn[c].at # "await"
  BY <1>3
<1>9. /\ \A b \in Boxes \ {Home} : cache'[b] = cache[b]
      /\ \A s \in Services, q \in Pushes :
             Seen(Home, <<q, s>>)' =>
                 \/ Seen(Home, <<q, s>>)
                 \/ IsMain(c) /\ q = p /\ s = t /\ s \in Group(conn[c].hook)
  BY <1>0, <1>2, LookedUp
<1>z. /\ RInv /\ c \in Conns /\ t = Target(c) /\ p = conn[c].push
      /\ answer' = answer
  BY <1>2
<1> QED  BY ONLY <1>1, <1>5, <1>6, <1>7, <1>8, <1>9, <1>z, GoesOn

LEMMA KeepWaitingKeeps ==
    ASSUME RInv, NEW c \in Conns, KeepWaiting(c)
    PROVE  RInv'
<1>0. Typed /\ Requests
  BY DEF RInv
<1>2. /\ Handling(c) /\ LookUp(c) /\ Local(conn[c].box, Target(c)) /\ answer' = answer
      /\ conn' = [conn EXCEPT ![c] = Onward(Routed(c, TRUE))] /\ UNCHANGED <<signals, wrote>>
      /\ Accept(c) /\ UNCHANGED <<head, warned, lost>>
  BY DEF KeepWaiting, repoVars
<1>3. conn[c].todo # <<>> /\ conn[c].at = "target" /\ At(c, "target") /\ conn[c].at # "free"
  BY <1>2 DEF Handling, At
<1>a. /\ accepted' \in [Units -> Nat] /\ \A u \in Units : accepted'[u] >= accepted[u]
      /\ accepted'[Unit(c)] >= conn[c].push
  BY <1>0, <1>2, <1>3, AcceptIs
<1>1. Later
  BY <1>0, <1>2, <1>a, WebhookConstants DEF Later, Typed
<1> PICK t : t = Target(c)
  OBVIOUS
<1> PICK p : p = conn[c].push
  OBVIOUS
<1> PICK r : r = Routed(c, TRUE)
  OBVIOUS
<1>4. /\ DOMAIN r = ConnFields
      /\ r.box = conn[c].box /\ r.push = p /\ r.kind = conn[c].kind /\ r.fwd = conn[c].fwd
      /\ r.hook = conn[c].hook /\ r.client = conn[c].client /\ r.todo = conn[c].todo
      /\ r.url = conn[c].url /\ r.peers = Targets(conn[c].box, t, conn[c].fwd)
  BY <1>0, RoutedIs
<1>5. /\ conn'[c] = Onward(r) /\ DOMAIN conn' = Conns
      /\ \A d \in Conns \ {c} : conn'[d] = conn[d]
  BY <1>0, <1>2 DEF Typed
<1>b. accepted'[<<conn[c].box, t>>] >= p
  BY <1>a DEF Unit
<1>6. /\ RequestAt(c)' /\ Keeps(c) /\ conn'[c].client = conn[c].client
      /\ RequestOK(conn'[c])
      /\ (IsMain(c) => InHand(c, t, p)' \/ AllDone(t, p)')
  BY <1>1, <1>2, <1>3, <1>4, <1>5, <1>b, Onwards
<1>7. Typed'
  BY <1>0, <1>1, <1>2, <1>5, <1>6, LookedUp, OneTyped DEF Typed
<1>8. conn[c].at # "await"
  BY <1>3
<1>9. /\ \A b \in Boxes \ {Home} : cache'[b] = cache[b]
      /\ \A s \in Services, q \in Pushes :
             Seen(Home, <<q, s>>)' =>
                 \/ Seen(Home, <<q, s>>)
                 \/ IsMain(c) /\ q = p /\ s = t /\ s \in Group(conn[c].hook)
  BY <1>0, <1>2, LookedUp
<1>z. /\ RInv /\ c \in Conns /\ t = Target(c) /\ p = conn[c].push
      /\ answer' = answer
  BY <1>2
<1> QED  BY ONLY <1>1, <1>5, <1>6, <1>7, <1>8, <1>9, <1>z, GoesOn

LEMMA WriteKeeps ==
    ASSUME RInv, NEW c \in Conns, Write(c)
    PROVE  RInv'
<1>0. Typed /\ Requests
  BY DEF RInv
<1>2. /\ conn[c].at = "write" /\ answer' = answer
      /\ conn' = [conn EXCEPT ![c] = Onward(conn[c])] /\ UNCHANGED <<signals, wrote, cache, forgot>>
      /\ Accept(c) /\ UNCHANGED <<head, warned, lost>>
  BY DEF Write, repoVars, At
<1>3. conn[c].todo # <<>> /\ At(c, "write") /\ RequestAt(c) /\ RequestOK(conn[c])
  BY <1>0, <1>2 DEF Requests, Typed, RequestOK, At
<1> PICK t : t = Target(c)
  OBVIOUS
<1> PICK p : p = conn[c].push
  OBVIOUS
<1> PICK r : r = conn[c]
  OBVIOUS
<1>4. /\ DOMAIN r = ConnFields
      /\ r.box = conn[c].box /\ r.push = p /\ r.kind = conn[c].kind /\ r.fwd = conn[c].fwd
      /\ r.hook = conn[c].hook /\ r.client = conn[c].client /\ r.todo = conn[c].todo
      /\ r.url = conn[c].url
  BY <1>3 DEF RequestOK
<1>p. r.peers = Targets(conn[c].box, t, conn[c].fwd)
  <2>1. CASE IsMain(c)
    BY <2>1, <1>2, <1>3 DEF RequestAt, MainAt, IsMain, Targets, Target
  <2>2. CASE IsFwd(c)
    BY <2>2, <1>2, <1>3 DEF RequestAt, FwdAt, IsFwd, Targets
  <2>3. CASE conn[c].kind = "pull"
    BY <2>3, <1>2, <1>3 DEF RequestAt, PullAt, Targets
  <2> QED  BY <2>1, <2>2, <2>3, <1>2, <1>3 DEF IsMain, IsFwd, RequestOK
<1>5. /\ conn'[c] = Onward(r) /\ DOMAIN conn' = Conns
      /\ \A d \in Conns \ {c} : conn'[d] = conn[d]
  BY <1>0, <1>2 DEF Typed
<1>a. Local(conn[c].box, t) => /\ accepted' \in [Units -> Nat]
                               /\ \A u \in Units : accepted'[u] >= accepted[u]
                               /\ accepted'[<<conn[c].box, t>>] >= p
  BY <1>0, <1>2, <1>3, AcceptIs DEF Unit
<1>c. accepted' \in [Units -> Nat] /\ \A u \in Units : accepted'[u] >= accepted[u]
  <2>1. t \in Services /\ conn[c].box \in Boxes /\ conn[c].push \in Nat
    BY <1>0, <1>3, ElemsOfTail DEF RequestOK, Target
  <2>2. Unit(c) \in Units /\ accepted \in [Units -> Nat]
    BY <1>0, <2>1 DEF Unit, Units, Typed
  <2> QED  BY <1>2, <2>1, <2>2 DEF Accept, Raise
<1>1. Later
  BY <1>0, <1>2, <1>c, WebhookConstants DEF Later, Typed
<1>6. /\ RequestAt(c)' /\ Keeps(c) /\ conn'[c].client = conn[c].client
      /\ RequestOK(conn'[c])
      /\ (IsMain(c) => InHand(c, t, p)' \/ AllDone(t, p)')
  BY <1>1, <1>2, <1>3, <1>4, <1>5, <1>p, <1>a, Onwards
<1>7. Typed'
  BY <1>0, <1>1, <1>2, <1>5, <1>6, OneTyped DEF Typed
<1>8. conn[c].at # "await"
  BY <1>2
<1>9. \A s \in Services, q \in Pushes : Seen(Home, <<q, s>>)' => Seen(Home, <<q, s>>)
  BY <1>2 DEF Seen
<1> QED  BY <1>0, <1>1, <1>2, <1>5, <1>6, <1>7, <1>8, <1>9, GoesOn

LEMMA OpenTriggerKeeps ==
    ASSUME RInv, NEW c \in Conns, OpenTrigger(c)
    PROVE  RInv'
<1>0. Typed /\ Requests
  BY DEF RInv
<1>1. Later
  BY <1>0, WebhookConstants DEF OpenTrigger, repoVars, Later, Typed
<1>2. /\ Handling(c) /\ LookUp(c) /\ Local(conn[c].box, Target(c)) /\ answer' = answer
      /\ conn' = [conn EXCEPT ![c] = [Routed(c, TRUE) EXCEPT !.at = "write", !.fd = "trigger"]]
      /\ UNCHANGED signals
  BY DEF OpenTrigger, Opens, repoVars
<1>3. /\ conn[c].todo # <<>> /\ conn[c].at = "target" /\ conn[c].at # "await"
      /\ RequestAt(c) /\ RequestOK(conn[c])
  BY <1>0, <1>2 DEF Handling, At, Requests, Typed
<1> PICK t : t = Target(c)
  OBVIOUS
<1> PICK p : p = conn[c].push
  OBVIOUS
<1> PICK h : h = conn[c].hook
  OBVIOUS
<1> PICK r : r = Routed(c, TRUE)
  OBVIOUS
<1>4. /\ DOMAIN r = ConnFields
      /\ r.box = conn[c].box /\ r.push = p /\ r.kind = conn[c].kind /\ r.fwd = conn[c].fwd
      /\ r.hook = h /\ r.client = conn[c].client /\ r.todo = conn[c].todo
      /\ r.url = conn[c].url /\ r.peers = Targets(conn[c].box, t, conn[c].fwd)
  BY <1>0, RoutedIs, ZenonT(60)
<1> PICK q : q = conn'[c]
  OBVIOUS
<1>5. /\ q = [r EXCEPT !.at = "write", !.fd = "trigger"] /\ DOMAIN conn' = Conns
      /\ \A d \in Conns \ {c} : conn'[d] = conn[d]
  BY <1>0, <1>2 DEF Typed
<1>6. /\ DOMAIN q = ConnFields /\ q.at = "write" /\ q.fd = "trigger"
      /\ q.box = conn[c].box /\ q.push = p /\ q.kind = conn[c].kind /\ q.fwd = conn[c].fwd
      /\ q.hook = h /\ q.client = conn[c].client /\ q.todo = conn[c].todo
      /\ q.url = conn[c].url /\ q.peers = Targets(conn[c].box, t, conn[c].fwd)
  BY <1>4, <1>5, FieldsAre
<1>7. Keeps(c) /\ conn'[c].client = conn[c].client
  BY <1>3, <1>6 DEF Keeps
<1>8. RequestOK(conn'[c])
  BY <1>3, <1>6 DEF RequestOK
<1>9. (IsMain(c)' <=> IsMain(c)) /\ (IsFwd(c)' <=> IsFwd(c))
  BY <1>3, <1>6 DEF IsMain, IsFwd
<1>10. IsMain(c) => MainAt(c)'
  <2> SUFFICES ASSUME IsMain(c) PROVE MainAt(c)'
    OBVIOUS
  <2>1. MainAt(c) /\ conn[c].fwd = FALSE
    BY <1>3 DEF RequestAt, IsMain, RequestOK
  <2>2. \A s \in Group(h) \ Elems(conn[c].todo) : AllDone(s, p)'
    BY <2>1, <1>0, <1>1, <1>3, AllDoneStays, GroupIsServices DEF MainAt, RequestOK
  <2>3. p \in 1..head'
    BY <2>1, <1>0, <1>1, WebhookConstants DEF MainAt, Typed, Later
  <2>4. q.peers = In[t] \ {Home}
    BY <2>1, <1>6 DEF MainAt, Targets
  <2> QED  BY <2>1, <2>2, <2>3, <2>4, <1>6, <1>2 DEF MainAt, Target
<1>11. IsFwd(c) => FwdAt(c)'
  <2> SUFFICES ASSUME IsFwd(c) PROVE FwdAt(c)'
    OBVIOUS
  <2>1. FwdAt(c) /\ conn[c].fwd = TRUE
    BY <1>3 DEF RequestAt, IsFwd, RequestOK
  <2>2. p \in 1..head'
    BY <2>1, <1>0, <1>1, WebhookConstants DEF FwdAt, Typed, Later
  <2> QED  BY <2>1, <2>2, <1>3, <1>6 DEF FwdAt, Targets
<1>12. conn[c].kind = "pull" => PullAt(c)'
  BY <1>3, <1>6 DEF RequestAt, PullAt, Targets, RequestOK
<1>13. RequestAt(c)'
  BY <1>6, <1>9, <1>10, <1>11, <1>12 DEF RequestAt
<1>14. IsMain(c) => InHand(c, t, p)'
  BY <1>3, <1>6, <1>9 DEF InHand, Target
<1>15. wrote' \in [Units -> [Pushes -> Nat]]
  <2>1. CASE conn[c].kind = "push"
    <3>1. wrote' = [wrote EXCEPT ![Unit(c)] = [wrote[Unit(c)] EXCEPT ![conn[c].push] = @ + 1]]
      BY <2>1 DEF OpenTrigger
    <3>2. wrote \in [Units -> [Pushes -> Nat]]
      BY <1>0 DEF Typed
    <3> PICK u : u = Unit(c)
      OBVIOUS
    <3>3. wrote' = [wrote EXCEPT ![u] = [wrote[u] EXCEPT ![p] = @ + 1]]
      BY <3>1
    <3> PICK more : more = [wrote[u] EXCEPT ![p] = @ + 1]
      OBVIOUS
    <3>4. u \in Units => more \in [Pushes -> Nat]
      <4> SUFFICES ASSUME u \in Units PROVE more \in [Pushes -> Nat]
        OBVIOUS
      <4> PICK old : old = wrote[u]
        OBVIOUS
      <4>1. old \in [Pushes -> Nat] /\ more = [old EXCEPT ![p] = old[p] + 1]
        BY <3>2
      <4>2. more = [x \in Pushes |-> IF x = p THEN old[x] + 1 ELSE old[x]]
        BY <4>1
      <4>3. \A x \in Pushes : old[x] \in Nat
        BY <4>1
      <4>4. \A x \in Pushes : (IF x = p THEN old[x] + 1 ELSE old[x]) \in Nat
        BY <4>3
      <4> QED  BY <4>2, <4>4
    <3>5. wrote' = [wrote EXCEPT ![u] = more]
      BY <3>3
    <3> QED  BY <3>2, <3>4, <3>5
  <2>2. CASE conn[c].kind # "push"
    BY <2>2, <1>0 DEF OpenTrigger, Typed
  <2> QED  BY <2>1, <2>2
<1>16. Typed'
  BY <1>0, <1>1, <1>2, <1>5, <1>8, <1>15, LookedUp, OneTyped DEF Typed
<1>17. /\ \A b \in Boxes \ {Home} : cache'[b] = cache[b]
      /\ \A s \in Services, n \in Pushes :
             Seen(Home, <<n, s>>)' =>
                 \/ Seen(Home, <<n, s>>)
                 \/ IsMain(c) /\ n = p /\ s = t /\ s \in Group(conn[c].hook)
  BY <1>0, <1>2, LookedUp
<1>18. IsMain(c) => InHand(c, t, p)' \/ AllDone(t, p)'
  BY <1>14
<1>z. /\ RInv /\ c \in Conns /\ t = Target(c) /\ p = conn[c].push
      /\ answer' = answer /\ conn[c].at # "await"
  BY <1>2, <1>3
<1> QED  BY ONLY <1>1, <1>5, <1>7, <1>13, <1>16, <1>17, <1>18, <1>z, GoesOn

LEMMA OpenFailsKeeps ==
    ASSUME RInv, NEW c \in Conns, OpenFails(c)
    PROVE  RInv'
<1>0. Typed /\ Requests
  BY DEF RInv
<1>1. Later
  BY <1>0, WebhookConstants DEF OpenFails, repoVars, Later, Typed
<1>2. /\ Handling(c) /\ LookUp(c) /\ Local(conn[c].box, Target(c)) /\ answer' = answer
      /\ lost' = lost \cup {<<Unit(c), conn[c].push>>}
      /\ conn' = [conn EXCEPT ![c] =
            [conn[c] EXCEPT !.todo = IF Isolated(c) THEN Tail(conn[c].todo) ELSE <<>>,
                            !.urlFailed = conn[c].urlFailed \/ conn[c].url, !.url = FALSE]]
      /\ UNCHANGED <<signals, wrote>>
  BY DEF OpenFails, Opens, repoVars
<1>3. /\ conn[c].todo # <<>> /\ conn[c].at = "target" /\ conn[c].at # "await"
      /\ RequestAt(c) /\ RequestOK(conn[c])
  BY <1>0, <1>2 DEF Handling, At, Requests, Typed
<1> PICK t : t = Target(c)
  OBVIOUS
<1> PICK p : p = conn[c].push
  OBVIOUS
<1> PICK h : h = conn[c].hook
  OBVIOUS
<1> PICK rest : rest = IF Isolated(c) THEN Tail(conn[c].todo) ELSE <<>>
  OBVIOUS
<1> PICK q : q = conn'[c]
  OBVIOUS
<1>4. /\ t \in Services /\ Tail(conn[c].todo) \in Seq(Services) /\ t \in Elems(conn[c].todo)
      /\ Elems(Tail(conn[c].todo)) \subseteq Elems(conn[c].todo)
      /\ Elems(conn[c].todo) \subseteq Elems(Tail(conn[c].todo)) \union {t}
  BY <1>3, ElemsOfTail DEF RequestOK, Target
<1>e. Elems(<<>>) = {} /\ <<>> \in Seq(Services)
  BY DEF Elems
<1>5. rest \in Seq(Services) /\ Elems(rest) \subseteq Elems(conn[c].todo)
  BY <1>4, <1>e
<1>6. /\ DOMAIN conn' = Conns
      /\ \A d \in Conns \ {c} : conn'[d] = conn[d]
  BY <1>0, <1>2 DEF Typed
<1>7. /\ DOMAIN q = ConnFields /\ q.at = "target" /\ q.fd = conn[c].fd
      /\ q.box = conn[c].box /\ q.push = p /\ q.kind = conn[c].kind /\ q.fwd = conn[c].fwd
      /\ q.hook = h /\ q.client = conn[c].client /\ q.todo = rest
      /\ q.url = FALSE /\ q.peers = conn[c].peers
  <2> PICK old : old = conn[c]
    OBVIOUS
  <2>0. DOMAIN old = ConnFields /\ conn[c].push = p /\ conn[c].hook = h
    BY <1>3 DEF RequestOK
  <2> PICK flag : flag = (old.urlFailed \/ old.url)
    OBVIOUS
  <2>1. conn' = [conn EXCEPT ![c] = [old EXCEPT !.todo = rest, !.urlFailed = flag, !.url = FALSE]]
    BY <1>2
  <2>2. q = [old EXCEPT !.todo = rest, !.urlFailed = flag, !.url = FALSE]
    BY <2>1, <1>0 DEF Typed
  <2>3. /\ DOMAIN q = ConnFields /\ q.at = old.at /\ q.fd = old.fd
        /\ q.box = old.box /\ q.push = old.push /\ q.kind = old.kind /\ q.fwd = old.fwd
        /\ q.hook = old.hook /\ q.client = old.client /\ q.todo = rest
        /\ q.url = FALSE /\ q.peers = old.peers
    BY ONLY <2>0, <2>2, FieldsAre
  <2> QED  BY <2>0, <2>3, <1>3
<1>8. Keeps(c) /\ conn'[c].client = conn[c].client
  BY <1>3, <1>7 DEF Keeps
<1>9. RequestOK(conn'[c])
  BY <1>3, <1>5, <1>7 DEF RequestOK
<1>10. (IsMain(c)' <=> IsMain(c)) /\ (IsFwd(c)' <=> IsFwd(c))
  BY <1>3, <1>7 DEF IsMain, IsFwd
<1>11. IsMain(c) => MainAt(c)' /\ AllDone(t, p)'
  <2> SUFFICES ASSUME IsMain(c) PROVE MainAt(c)' /\ AllDone(t, p)'
    OBVIOUS
  <2>1. MainAt(c) /\ conn[c].fwd = FALSE /\ conn[c].kind = "push" /\ h \in Hooks /\ p \in Nat
    BY <1>3 DEF RequestAt, IsMain, RequestOK, MainAt
  <2>2. \A s \in Group(h) \ Elems(conn[c].todo) : AllDone(s, p)'
    BY <2>1, <1>0, <1>1, AllDoneStays, GroupIsServices DEF MainAt
  <2>3. p \in 1..head'
    BY <2>1, <1>0, <1>1, WebhookConstants DEF MainAt, Typed, Later
  <2>4. <<<<Home, t>>, p>> \in lost'
    BY <1>2, <2>1 DEF Unit, MainAt
  <2>5. AllDone(t, p)'
    BY <2>4 DEF AllDone, Done
  <2>6. Group(h) \ Elems(rest) \subseteq (Group(h) \ Elems(conn[c].todo)) \union {t}
    <3>1. CASE Isolated(c)
      BY <3>1, <1>4
    <3>2. CASE ~Isolated(c)
      <4>1. Siblings[h] = <<>>
        BY <3>2, <2>1 DEF Isolated
      <4>2. Group(h) = {h}
        BY <4>1 DEF Group
      <4>3. t = h
        BY <4>2, <2>1, <1>4 DEF MainAt
      <4> QED  BY <4>2, <4>3
    <3> QED  BY <3>1, <3>2
  <2>7. \A s \in Group(h) \ Elems(rest) : AllDone(s, p)'
    BY <2>2, <2>5, <2>6
  <2> QED  BY <2>1, <2>3, <2>5, <2>7, <1>2, <1>5, <1>7 DEF MainAt
<1>12. IsFwd(c) => FwdAt(c)'
  <2> SUFFICES ASSUME IsFwd(c) PROVE FwdAt(c)'
    OBVIOUS
  <2>1. FwdAt(c) /\ conn[c].fwd = TRUE
    BY <1>3 DEF RequestAt, IsFwd, RequestOK
  <2>2. p \in 1..head'
    BY <2>1, <1>0, <1>1, WebhookConstants DEF FwdAt, Typed, Later
  <2>3. rest = <<>> /\ t = h
    <3>1. conn[c].todo = <<h>>
      BY <2>1, <1>3 DEF FwdAt
    <3>2. Head(<<h>>) = h
      BY JustOne
    <3> QED  BY <2>1, <3>1, <3>2 DEF Isolated, Target
  <2> PICK b : b = conn[c].box
    OBVIOUS
  <2>4. <<<<b, h>>, p>> \in lost'
    BY <1>2, <2>3 DEF Unit
  <2>5. Done(b, h, p)'
    BY <2>4 DEF Done
  <2> QED  BY <2>1, <2>2, <2>3, <2>5, <1>7 DEF FwdAt
<1>13. conn[c].kind = "pull" => PullAt(c)'
  BY <1>3, <1>5, <1>7 DEF RequestAt, PullAt, RequestOK
<1>14. RequestAt(c)'
  BY <1>7, <1>10, <1>11, <1>12, <1>13 DEF RequestAt
<1>16. Typed'
  BY <1>0, <1>1, <1>2, <1>6, <1>9, LookedUp, OneTyped DEF Typed
<1>17. /\ \A b \in Boxes \ {Home} : cache'[b] = cache[b]
       /\ \A s \in Services, n \in Pushes :
             Seen(Home, <<n, s>>)' =>
                 \/ Seen(Home, <<n, s>>)
                 \/ IsMain(c) /\ n = p /\ s = t /\ s \in Group(conn[c].hook)
  BY <1>0, <1>2, LookedUp
<1>18. IsMain(c) => InHand(c, t, p)' \/ AllDone(t, p)'
  BY <1>11
<1>z. /\ RInv /\ c \in Conns /\ t = Target(c) /\ p = conn[c].push
      /\ answer' = answer /\ conn[c].at # "await"
  BY <1>2, <1>3
<1> QED  BY ONLY <1>1, <1>6, <1>8, <1>14, <1>16, <1>17, <1>18, <1>z, GoesOn

-----------------------------------------------------------------------------
(* Steps that touch no request, or none but the file it has open.              *)

SameFor(c) == conn'[c] = conn[c] \/ (conn[c].at # "free" /\ \E x \in {"none", "gone"} : conn'[c] = [conn[c] EXCEPT !.fd = x])
LEMMA FilesMove ==
    ASSUME RInv, Later, UNCHANGED <<answer, cache, forgot, wrote>>, signals' \in Nat,
           DOMAIN conn' = Conns, \A c \in Conns : SameFor(c)
    PROVE  RInv'
<1>0. Typed /\ Requests /\ Waiting /\ OneEach /\ HomeKnows /\ HookKnows /\ PeersKnow /\ Answered
  BY DEF RInv
<1>1. ASSUME NEW c \in Conns
      PROVE  /\ conn'[c].at = conn[c].at /\ conn'[c].box = conn[c].box /\ conn'[c].push = conn[c].push
             /\ conn'[c].kind = conn[c].kind /\ conn'[c].fwd = conn[c].fwd
             /\ conn'[c].todo = conn[c].todo /\ conn'[c].url = conn[c].url
             /\ conn'[c].hook = conn[c].hook /\ conn'[c].peers = conn[c].peers
             /\ conn'[c].client = conn[c].client /\ DOMAIN conn'[c] = ConnFields
             /\ conn'[c].fd \in {"none", "trigger", "gone"}
  <2>1. DOMAIN conn[c] = ConnFields /\ conn[c].fd \in {"none", "trigger", "gone"}
    BY <1>0 DEF Typed, RequestOK
  <2>2. CASE conn'[c] = conn[c]
    BY <2>1, <2>2
  <2>3. ASSUME NEW x \in {"none", "gone"}, conn'[c] = [conn[c] EXCEPT !.fd = x]
        PROVE  <1>1!2
    BY <2>1, <2>3, FieldsAre
  <2> QED  BY <2>2, <2>3 DEF SameFor
<1>2. Typed'
  <2>1. \A c \in Conns : RequestOK(conn'[c])
    BY <1>0, <1>1 DEF Typed, RequestOK
  <2> QED  BY <1>0, <2>1 DEF Typed, Later
<1>3. Requests'
  <2> SUFFICES ASSUME NEW c \in Conns PROVE RequestAt(c)'
    BY DEF Requests
  <2>0. RequestAt(c) /\ RequestOK(conn[c])
    BY <1>0 DEF Requests, Typed
  <2> PICK h : h = conn[c].hook
    OBVIOUS
  <2> PICK p : p = conn[c].push
    OBVIOUS
  <2> PICK todo : todo = conn[c].todo
    OBVIOUS
  <2> PICK b : b = conn[c].box
    OBVIOUS
  <2> PICK peers : peers = conn[c].peers
    OBVIOUS
  <2>p. p \in Nat /\ todo \in Seq(Services)
    BY <2>0 DEF RequestOK
  <2>1. CASE IsMain(c)
    <3>1. MainAt(c) /\ h \in Hooks
      BY <2>0, <2>1 DEF RequestAt, MainAt
    <3>2. \A s \in Group(h) \ Elems(todo) : AllDone(s, p)'
      BY <3>1, <1>0, <2>p, AllDoneStays, GroupIsServices DEF MainAt
    <3>3. p \in 1..head'
      BY <3>1, <1>0, WebhookConstants DEF MainAt, Typed, Later
    <3>4. conn[c].at \in {"forward", "await"} =>
              \A x \in In[Head(todo)] \ peers : Done(x, Head(todo), p)'
      <4> SUFFICES ASSUME conn[c].at \in {"forward", "await"}
                   PROVE  \A x \in In[Head(todo)] \ peers : Done(x, Head(todo), p)'
        OBVIOUS
      <4>1. Head(todo) \in Services
        BY <2>0, <2>p, ElemsOfTail DEF RequestOK
      <4>2. \A x \in In[Head(todo)] \ peers : Done(x, Head(todo), p)
        BY <3>1 DEF MainAt
      <4> PICK s : s = Head(todo)
        OBVIOUS
      <4> QED  BY <1>0, <2>p, <4>1, <4>2, DoneStays, InBoxes
    <3>5. MainAt(c)'
      BY <3>1, <3>2, <3>3, <3>4, <1>1 DEF MainAt
    <3> QED  BY <2>0, <2>1, <3>5, <1>1 DEF RequestAt, IsMain, IsFwd
  <2>2. CASE IsFwd(c)
    <3>1. FwdAt(c) /\ h \in Services /\ b \in Boxes
      BY <2>0, <2>2 DEF RequestAt, FwdAt, RequestOK
    <3>2. Done(b, h, p) => Done(b, h, p)'
      BY <3>1, <1>0, <2>p, DoneStays
    <3>3. p \in 1..head'
      BY <3>1, <1>0, WebhookConstants DEF FwdAt, Typed, Later
    <3>4. FwdAt(c)'
      BY <3>1, <3>2, <3>3, <1>1 DEF FwdAt
    <3> QED  BY <2>0, <2>2, <3>4, <1>1 DEF RequestAt, IsMain, IsFwd
  <2>3. CASE conn[c].kind = "pull"
    BY <2>0, <2>3, <1>1 DEF RequestAt, IsMain, IsFwd, PullAt
  <2>4. CASE conn[c].at = "free"
    <3>1. conn'[c] = conn[c]
      BY <2>4 DEF SameFor
    <3> QED  BY <2>0, <2>4, <3>1, FreeIs DEF RequestAt, IsMain, IsFwd
  <2> QED  BY <2>0, <2>1, <2>2, <2>3, <2>4 DEF IsMain, IsFwd, RequestOK
<1>k. \A d \in Conns : (IsMain(d)' <=> IsMain(d)) /\ (IsFwd(d)' <=> IsFwd(d))
  BY <1>1 DEF IsMain, IsFwd
<1>4. Waiting'
  <2> SUFFICES ASSUME NEW d \in Conns, IsFwd(d)' PROVE AwaitedAt(d)'
    BY DEF Waiting
  <2>1. AwaitedAt(d)
    BY <1>0, <1>k DEF Waiting
  <2> QED  BY <1>1, <1>k, <2>1 DEF AwaitedAt, Peer
<1>5. OneEach'
  BY <1>0, <1>1, <1>k DEF OneEach
<1>6. HomeKnows'
  <2>1. \A d \in Conns, s \in Services, p \in Pushes : InHand(d, s, p) => InHand(d, s, p)'
    BY <1>1, <1>k DEF InHand
  <2>2. \A s \in Services, p \in Pushes : Seen(Home, <<p, s>>)' => Seen(Home, <<p, s>>)
    BY DEF Seen
  <2> QED  BY <1>0, <2>1, <2>2, HomeStays
<1>7. HookKnows'
  <2>1. \A d \in Conns, h \in Hooks, p \in Pushes : Follows(d, h, p) => Follows(d, h, p)'
    BY <1>1, <1>k DEF Follows
  <2>2. \A h \in Hooks, p \in Pushes : Seen(Home, <<p, h>>)' => Seen(Home, <<p, h>>)
    BY DEF Seen
  <2> QED  BY <1>0, <2>1, <2>2, HookStays
<1>8. PeersKnow'
  <2>1. \A d \in Conns, b \in Boxes \ {Home}, s \in Services, p \in Pushes :
            Forwards(d, b, s, p) => Forwards(d, b, s, p)'
    BY <1>1, <1>k DEF Forwards
  <2>2. \A b \in Boxes \ {Home}, s \in Services, p \in Pushes :
            Seen(b, <<p, s>>)' => Seen(b, <<p, s>>)
    BY DEF Seen
  <2> QED  BY <1>0, <2>1, <2>2, PeersStay
<1>9. Answered'
  BY <1>0, AnswersStay
<1> QED  BY <1>2, <1>3, <1>4, <1>5, <1>6, <1>7, <1>8, <1>9 DEF RInv

-----------------------------------------------------------------------------
(* New requests.                                                               *)

LEMMA PostKeeps ==
    ASSUME RInv, NEW p \in Pushes, NEW h \in Hooks, Post(p, h)
    PROVE  RInv'
<1>0. Typed /\ Requests /\ Waiting /\ OneEach /\ HomeKnows /\ HookKnows /\ PeersKnow /\ Answered
  BY DEF RInv
<1>1. Later
  BY <1>0, WebhookConstants DEF Post, repoVars, Later, Typed
<1>2. /\ p <= head /\ Free # {} /\ answer[<<p, h>>] # "open"
      /\ Remember(Home, <<p, h>>) /\ UNCHANGED <<head, signals, wrote>>
  BY DEF Post, repoVars
<1>3. h \in Services /\ <<p, h>> \in Keys /\ Home \in Boxes /\ p \in Nat /\ p \in 1..head
  BY <1>0, <1>2, WebhookConstants DEF Keys, Pushes, Typed
<1> PICK key : key = <<p, h>>
  OBVIOUS
<1>c. /\ cache' \in [Boxes -> Seq(Keys)] /\ forgot' \in [Boxes -> Nat]
      /\ \A x \in Boxes : Len(cache'[x]) <= CacheSize
      /\ \A x \in Boxes \ {Home} : cache'[x] = cache[x]
      /\ \A k : Seen(Home, k)' => Seen(Home, k) \/ k = key
  BY <1>0, <1>2, <1>3, Remembers
<1>p. \A b \in Boxes \ {Home}, s \in Services, q \in Pushes :
          Seen(b, <<q, s>>)' => Seen(b, <<q, s>>)
  BY <1>c DEF Seen
<1>4. CASE Seen(Home, <<p, h>>)
  <2>1. answer' = [answer EXCEPT ![<<p, h>>] = "ok"] /\ conn' = conn
    BY <1>4 DEF Post
  <2>2. ASSUME NEW c \in Conns, IsMain(c)
        PROVE  answer'[<<conn[c].push, conn[c].hook>>] = "open"
    <3>1. answer[<<conn[c].push, conn[c].hook>>] = "open"
      BY <1>0, <2>2 DEF Requests, RequestAt, MainAt
    <3>2. <<conn[c].push, conn[c].hook>> # <<p, h>>
      BY <3>1, <1>2
    <3> QED  BY <2>1, <3>1, <3>2, <1>0 DEF Typed
  <2>3. Requests'
    BY <1>0, <1>1, <2>1, <2>2, RequestStays DEF Requests
  <2>4. Typed'
    BY <1>0, <1>1, <1>2, <1>c, <2>1 DEF Typed, Later, Keys
  <2>5. Waiting' /\ OneEach'
    BY <1>0, <2>1 DEF Waiting, OneEach, AwaitedAt, IsFwd, IsMain, Peer
  <2>6. \A s \in Services, q \in Pushes : Seen(Home, <<q, s>>)' => Seen(Home, <<q, s>>)
    BY <1>4, <1>c
  <2>7. HomeKnows'
    <3>1. \A c \in Conns, s \in Services, q \in Pushes : InHand(c, s, q) => InHand(c, s, q)'
      BY <2>1 DEF InHand, IsMain
    <3> QED  BY <1>0, <1>1, <2>6, <3>1, HomeStays
  <2>8. HookKnows'
    <3>1. \A c \in Conns, k \in Hooks, q \in Pushes : Follows(c, k, q) => Follows(c, k, q)'
      BY <2>1 DEF Follows, IsMain
    <3>2. \A k \in Hooks, q \in Pushes : Seen(Home, <<q, k>>)' => Seen(Home, <<q, k>>)
      BY <2>6, WebhookConstants
    <3> QED  BY <1>0, <1>1, <3>1, <3>2, HookStays
  <2>9. PeersKnow'
    <3>1. \A d \in Conns, b \in Boxes \ {Home}, s \in Services, q \in Pushes :
              Forwards(d, b, s, q) => Forwards(d, b, s, q)'
      BY <2>1 DEF Forwards, IsFwd
    <3> QED  BY <1>0, <1>1, <1>p, <3>1, PeersStay
  <2>10. Answered'
    <3>1. GroupDone(h, p)
      <4>1. ASSUME NEW c \in Conns, Follows(c, h, p) PROVE FALSE
        BY <4>1, <1>0, <1>2 DEF Follows, Requests, RequestAt, MainAt
      <4> QED  BY <1>0, <1>4, <4>1 DEF HookKnows
    <3>2. GroupDone(h, p)'
      BY <1>0, <1>1, <1>3, <3>1, GroupDoneStays
    <3>3. \A q \in Pushes, k \in Hooks :
              answer'[<<q, k>>] = "ok" => answer[<<q, k>>] = "ok" \/ (q = p /\ k = h)
      BY <2>1, <1>0 DEF Typed
    <3> QED  BY <1>0, <1>1, <3>2, <3>3, AnswersStay
  <2> QED  BY <2>3, <2>4, <2>5, <2>7, <2>8, <2>9, <2>10 DEF RInv
<1>5. CASE ~Seen(Home, <<p, h>>)
  <2> PICK n : n = Lowest(Free)
    OBVIOUS
  <2> PICK q : q = Request(Home, p, "push", FALSE, <<h>> \o Siblings[h], 0)
    OBVIOUS
  <2>1. /\ answer' = [answer EXCEPT ![<<p, h>>] = "open"] /\ conn' = [conn EXCEPT ![n] = q]
        /\ n \in Conns /\ conn[n].at = "free"
    BY <1>2, <1>5, FreeConn DEF Post
  <2>2. /\ conn'[n] = q /\ DOMAIN conn' = Conns /\ \A d \in Conns \ {n} : conn'[d] = conn[d]
    BY <1>0, <2>1 DEF Typed
  <2> PICK todo : todo = <<h>> \o Siblings[h]
    OBVIOUS
  <2>3. /\ todo \in Seq(Services) /\ todo # <<>> /\ Elems(todo) = Group(h) /\ Head(todo) = h
    BY GroupIsServices
  <2>4. /\ DOMAIN q = ConnFields
        /\ q.at = "target" /\ q.box = Home /\ q.push = p /\ q.kind = "push" /\ q.fwd = FALSE
        /\ q.todo = todo /\ q.hook = h /\ q.client = 0
        /\ q.peers = {} /\ q.fd = "none" /\ q.url = TRUE
    <3>1. q = Request(Home, p, "push", FALSE, todo, 0)
      OBVIOUS
    <3>2. /\ DOMAIN q = ConnFields
          /\ q.at = "target" /\ q.box = Home /\ q.push = p /\ q.kind = "push" /\ q.fwd = FALSE
          /\ q.todo = todo /\ q.hook = Head(todo) /\ q.client = 0
          /\ q.peers = {} /\ q.fd = "none" /\ q.url = TRUE
      BY ONLY <3>1, FieldsAre DEF Request, NoConn
    <3> QED  BY <2>3, <3>2
  <2>5. RequestOK(q)
    BY <1>3, <2>3, <2>4 DEF RequestOK
  <2>6. Typed'
    BY <1>0, <1>1, <1>2, <1>c, <2>1, <2>2, <2>5, OneTyped DEF Typed, Keys
  <2>7. IsMain(n)' /\ ~IsFwd(n)' /\ ~IsMain(n) /\ ~IsFwd(n)
    BY <2>1, <2>2, <2>4 DEF IsMain, IsFwd
  <2>8. MainAt(n)'
    <3>1. p \in 1..head'
      BY <1>2, <1>3
    <3>2. answer'[<<p, h>>] = "open"
      BY <2>1, <1>0 DEF Typed
    <3> QED  BY <2>2, <2>3, <2>4, <3>1, <3>2 DEF MainAt
  <2>9. Requests'
    <3>1. ASSUME NEW c \in Conns \ {n} PROVE RequestAt(c)'
      <4>1. IsMain(c) => answer'[<<conn[c].push, conn[c].hook>>] = "open"
        <5> SUFFICES ASSUME IsMain(c) PROVE answer'[<<conn[c].push, conn[c].hook>>] = "open"
        OBVIOUS
      <5>1. MainAt(c)
        BY <1>0 DEF Requests, RequestAt
      <5>2. <<conn[c].push, conn[c].hook>> \in Pushes \X Hooks /\ answer[<<conn[c].push, conn[c].hook>>] = "open"
        BY <5>1, <1>0, WebhookConstants DEF MainAt, Typed, Pushes
      <5> QED  BY <5>2, <2>1, <1>0 DEF Typed
      <4> QED  BY <1>0, <1>1, <2>2, <4>1, RequestStays DEF Requests
    <3>2. RequestAt(n)'
      BY <2>2, <2>4, <2>7, <2>8 DEF RequestAt
    <3> QED  BY <3>1, <3>2 DEF Requests
  <2>k. \A d \in Conns \ {n} : (IsMain(d)' <=> IsMain(d)) /\ (IsFwd(d)' <=> IsFwd(d))
    BY <2>2 DEF IsMain, IsFwd
  <2>10. Waiting'
    <3> SUFFICES ASSUME NEW d \in Conns, IsFwd(d)' PROVE AwaitedAt(d)'
      BY DEF Waiting
    <3>1. d # n /\ IsFwd(d) /\ AwaitedAt(d) /\ conn'[d] = conn[d]
      BY <1>0, <2>2, <2>7, <2>k DEF Waiting
    <3>2. conn[d].client # 0 => conn[d].client \in Conns \ {n}
      BY <3>1, <2>7 DEF AwaitedAt
    <3> QED  BY <3>1, <3>2, <2>2, <2>k DEF AwaitedAt, Peer
  <2>11. OneEach'
    <3>1. ASSUME NEW d \in Conns \ {n}, IsMain(d), conn[d].push = p, conn[d].hook = h PROVE FALSE
      BY <3>1, <1>0, <1>2 DEF Requests, RequestAt, MainAt
    <3> SUFFICES ASSUME NEW c \in Conns, NEW d \in Conns
                 PROVE  /\ IsMain(c)' /\ IsMain(d)' /\ conn'[c].push = conn'[d].push
                              /\ conn'[c].hook = conn'[d].hook => c = d
                        /\ conn'[c].client # 0 /\ conn'[c].client = conn'[d].client => c = d
      BY DEF OneEach
    <3>2. CASE c # n /\ d # n
      BY <1>0, <2>2, <2>k, <3>2 DEF OneEach
    <3>3. CASE c = n \/ d = n
      BY <2>2, <2>4, <2>k, <3>1, <3>3
    <3> QED  BY <3>2, <3>3
  <2>12. HomeKnows'
    <3>1. \A c \in Conns, s \in Services, x \in Pushes : InHand(c, s, x) => InHand(c, s, x)'
      BY <2>2, <2>7, <2>k DEF InHand
    <3>2. InHand(n, h, p)'
      BY <2>2, <2>3, <2>4, <2>7 DEF InHand
    <3>3. \A s \in Services, x \in Pushes :
              Seen(Home, <<x, s>>)' => Seen(Home, <<x, s>>) \/ \E c \in Conns : InHand(c, s, x)'
      BY <1>c, <2>1, <3>2
    <3> QED  BY <1>0, <1>1, <3>1, <3>3, HomeStays
  <2>13. HookKnows'
    <3>1. \A c \in Conns, k \in Hooks, x \in Pushes : Follows(c, k, x) => Follows(c, k, x)'
      BY <2>2, <2>7, <2>k DEF Follows
    <3>2. Follows(n, h, p)'
      BY <2>2, <2>4, <2>7 DEF Follows
    <3>3. \A k \in Hooks, x \in Pushes :
              Seen(Home, <<x, k>>)' => Seen(Home, <<x, k>>) \/ \E c \in Conns : Follows(c, k, x)'
      BY <1>c, <2>1, <3>2
    <3> QED  BY <1>0, <1>1, <3>1, <3>3, HookStays
  <2>14. PeersKnow'
    <3>1. \A d \in Conns, b \in Boxes \ {Home}, s \in Services, x \in Pushes :
              Forwards(d, b, s, x) => Forwards(d, b, s, x)'
      BY <2>2, <2>7, <2>k DEF Forwards
    <3> QED  BY <1>0, <1>1, <1>p, <3>1, PeersStay
  <2>15. Answered'
    <3>1. \A x \in Pushes, k \in Hooks : answer'[<<x, k>>] = "ok" => answer[<<x, k>>] = "ok"
      BY <2>1, <1>0 DEF Typed
    <3> QED  BY <1>0, <1>1, <3>1, AnswersStay
  <2> QED  BY <2>6, <2>9, <2>10, <2>11, <2>12, <2>13, <2>14, <2>15 DEF RInv
<1> QED  BY <1>4, <1>5

LEMMA PullImageKeeps ==
    ASSUME RInv, PullImage
    PROVE  RInv'
<1>0. Typed /\ Requests /\ Waiting /\ OneEach /\ HomeKnows /\ HookKnows /\ PeersKnow /\ Answered
  BY DEF RInv
<1>1. Later
  BY <1>0, WebhookConstants DEF PullImage, Later, Typed
<1> PICK n : n = Lowest(Free)
  OBVIOUS
<1> PICK p : p = signals + 1
  OBVIOUS
<1> PICK q : q = Request(Home, p, "pull", TRUE, ImageMap, 0)
  OBVIOUS
<1>2. /\ UNCHANGED <<head, answer, cache, wrote, forgot>> /\ signals' = p /\ p \in Nat
      /\ conn' = [conn EXCEPT ![n] = q] /\ n \in Conns /\ conn[n].at = "free"
  BY <1>0, FreeConn DEF PullImage, Typed
<1>3. /\ conn'[n] = q /\ DOMAIN conn' = Conns /\ \A d \in Conns \ {n} : conn'[d] = conn[d]
  BY <1>0, <1>2 DEF Typed
<1>4. /\ DOMAIN q = ConnFields
      /\ q.at = "target" /\ q.box = Home /\ q.push = p /\ q.kind = "pull" /\ q.fwd = TRUE
      /\ q.todo = ImageMap /\ q.client = 0
      /\ q.peers = {} /\ q.fd = "none" /\ q.url = TRUE
  <2>1. q = Request(Home, p, "pull", TRUE, ImageMap, 0)
    OBVIOUS
  <2> QED  BY ONLY <2>1, FieldsAre DEF Request, NoConn
<1>5. RequestOK(q)
  BY <1>2, <1>4, WebhookConstants DEF RequestOK
<1>6. Typed'
  BY <1>0, <1>1, <1>2, <1>3, <1>5, OneTyped DEF Typed
<1>7. ~IsMain(n)' /\ ~IsFwd(n)' /\ ~IsMain(n) /\ ~IsFwd(n)
  BY <1>2, <1>3, <1>4 DEF IsMain, IsFwd
<1>8. Requests'
  <2>1. RequestAt(n)'
    BY <1>3, <1>4, <1>7 DEF RequestAt, PullAt
  <2> QED  BY <1>0, <1>1, <1>2, <1>3, <2>1, OtherStays DEF Requests
<1>k. \A d \in Conns \ {n} : (IsMain(d)' <=> IsMain(d)) /\ (IsFwd(d)' <=> IsFwd(d))
  BY <1>3 DEF IsMain, IsFwd
<1>9. Waiting'
  <2> SUFFICES ASSUME NEW d \in Conns, IsFwd(d)' PROVE AwaitedAt(d)'
    BY DEF Waiting
  <2>1. d # n /\ IsFwd(d) /\ AwaitedAt(d) /\ conn'[d] = conn[d]
    BY <1>0, <1>3, <1>7, <1>k DEF Waiting
  <2>2. conn[d].client # 0 => conn[d].client \in Conns \ {n}
    BY <2>1, <1>7 DEF AwaitedAt
  <2> QED  BY <2>1, <2>2, <1>3, <1>k DEF AwaitedAt, Peer
<1>10. OneEach'
  <2> SUFFICES ASSUME NEW c \in Conns, NEW d \in Conns
               PROVE  /\ IsMain(c)' /\ IsMain(d)' /\ conn'[c].push = conn'[d].push
                            /\ conn'[c].hook = conn'[d].hook => c = d
                      /\ conn'[c].client # 0 /\ conn'[c].client = conn'[d].client => c = d
    BY DEF OneEach
  <2>1. CASE c # n /\ d # n
    BY <1>0, <1>3, <1>k, <2>1 DEF OneEach
  <2>2. CASE c = n \/ d = n
    BY <1>3, <1>4, <1>7, <2>2
  <2> QED  BY <2>1, <2>2
<1>s. \A b, k : Seen(b, k)' => Seen(b, k)
  BY <1>2 DEF Seen
<1>11. HomeKnows'
  <2>1. \A c \in Conns, s \in Services, x \in Pushes : InHand(c, s, x) => InHand(c, s, x)'
    BY <1>3, <1>7, <1>k DEF InHand
  <2> QED  BY <1>0, <1>1, <1>s, <2>1, HomeStays
<1>12. HookKnows'
  <2>1. \A c \in Conns, h \in Hooks, x \in Pushes : Follows(c, h, x) => Follows(c, h, x)'
    BY <1>3, <1>7, <1>k DEF Follows
  <2> QED  BY <1>0, <1>1, <1>s, <2>1, HookStays
<1>13. PeersKnow'
  <2>1. \A d \in Conns, b \in Boxes \ {Home}, s \in Services, x \in Pushes :
            Forwards(d, b, s, x) => Forwards(d, b, s, x)'
    BY <1>3, <1>7, <1>k DEF Forwards
  <2> QED  BY <1>0, <1>1, <1>s, <2>1, PeersStay
<1>14. Answered'
  BY <1>0, <1>1, <1>2, AnswersStay
<1> QED  BY <1>6, <1>8, <1>9, <1>10, <1>11, <1>12, <1>13, <1>14 DEF RInv

-----------------------------------------------------------------------------
(* Forwards.                                                                   *)

(* The peer a request waits for, or asks next, is done with: Heard.            *)
LEMMA HeardIs ==
    ASSUME Typed, Requests, Later, NEW k \in Conns, conn[k].at \in {"forward", "await"},
           NEW t, t = Target(k), NEW p, p = conn[k].push, NEW b, b = Peer(k), Done(b, t, p)',
           NEW r, DOMAIN r = ConnFields,
           r.box = conn[k].box, r.push = p, r.kind = conn[k].kind, r.fwd = conn[k].fwd,
           r.hook = conn[k].hook, r.client = conn[k].client, r.todo = conn[k].todo,
           r.url = conn[k].url, r.peers = conn[k].peers,
           conn'[k] = Heard(r), answer'[<<p, conn[k].hook>>] = "open"
    PROVE  /\ RequestAt(k)' /\ Keeps(k) /\ conn'[k].client = conn[k].client /\ RequestOK(conn'[k])
           /\ InHand(k, t, p)' \/ AllDone(t, p)'
<1>1. /\ IsMain(k) /\ MainAt(k) /\ RequestOK(conn[k]) /\ conn[k].todo # <<>>
      /\ conn[k].client = 0 /\ conn[k].kind = "push" /\ conn[k].fwd = FALSE
  BY KindsOf DEF Requests, RequestAt, Typed, RequestOK, IsMain
<1> PICK rest : rest = conn[k].peers \ {b}
  OBVIOUS
<1> PICK x : x = [r EXCEPT !.peers = rest]
  OBVIOUS
<1>2. /\ DOMAIN x = ConnFields
      /\ x.box = conn[k].box /\ x.push = p /\ x.kind = "push" /\ x.fwd = FALSE
      /\ x.hook = conn[k].hook /\ x.client = 0 /\ x.todo = conn[k].todo
      /\ x.url = conn[k].url /\ x.peers = rest
  BY <1>1, FieldsAre
<1>3. conn'[k] = Onward(x)
  BY DEF Heard, Peer
<1>4. /\ conn[k].peers # {} /\ conn[k].peers \subseteq In[t] \ {Home}
      /\ \A a \in In[t] \ conn[k].peers : Done(a, t, p)
  BY <1>1 DEF MainAt, Target
<1>5. t \in Services /\ p \in Nat
  BY <1>1, ElemsOfTail DEF RequestOK, Target
<1>6. \A a \in In[t] \ rest : Done(a, t, p)'
  BY <1>4, <1>5, DoneStays, InBoxes
<1>7. rest \subseteq In[t] \ {Home}
  BY <1>4
<1>8. /\ RequestAt(k)' /\ Keeps(k) /\ conn'[k].client = 0
      /\ InHand(k, t, p)' \/ AllDone(t, p)'
  BY <1>1, <1>2, <1>3, <1>6, <1>7, Advance, ZenonT(60)
<1>9. RequestOK(conn'[k])
  <2>1. /\ Tail(conn[k].todo) \in Seq(Services)
    BY <1>1, ElemsOfTail DEF RequestOK
  <2> PICK q : q = conn'[k]
    OBVIOUS
  <2>2. /\ DOMAIN q = ConnFields
        /\ q.box = x.box /\ q.push = x.push /\ q.kind = x.kind /\ q.fwd = x.fwd /\ q.fd = "none"
        /\ (x.peers = {} => q.at = "target" /\ q.todo = Tail(x.todo) /\ q.url = FALSE)
        /\ (x.peers # {} => q.at = "forward" /\ q.todo = x.todo /\ q.url = x.url)
    <3>1. q = Onward(x)
      BY <1>3
    <3>2. DOMAIN x = ConnFields
      BY ONLY <1>2
    <3> QED  BY ONLY <3>1, <3>2, OnwardIs
  <2>3. q.box \in Boxes /\ q.push \in Nat /\ q.kind = "push" /\ q.fwd = FALSE /\ conn[k].url \in BOOLEAN
        /\ conn[k].todo \in Seq(Services)
    BY <1>1, <1>2, <2>2 DEF RequestOK
  <2>4. CASE x.peers = {}
    <3>1. q.at = "target" /\ q.todo \in Seq(Services) /\ q.url = FALSE
      BY <1>2, <2>1, <2>2, <2>4
    <3> QED  BY ONLY <2>2, <2>3, <3>1, q = conn'[k] DEF RequestOK
  <2>5. CASE x.peers # {}
    <3>1. q.at = "forward" /\ q.todo \in Seq(Services) /\ q.todo # <<>> /\ q.url \in BOOLEAN
      BY <1>1, <1>2, <2>2, <2>3, <2>5
    <3> QED  BY ONLY <2>2, <2>3, <3>1, q = conn'[k] DEF RequestOK
  <2> QED  BY <2>4, <2>5
<1> QED  BY <1>1, <1>8, <1>9

LEMMA ForwardKeeps ==
    ASSUME RInv, NEW c \in Conns, Forward(c)
    PROVE  RInv'
<1>0. Typed /\ Requests /\ Waiting /\ OneEach /\ HomeKnows /\ HookKnows /\ PeersKnow /\ Answered
  BY DEF RInv
<1>1. Later
  BY <1>0, WebhookConstants DEF Forward, repoVars, Later, Typed
<1> PICK t : t = Target(c)
  OBVIOUS
<1> PICK p : p = conn[c].push
  OBVIOUS
<1> PICK h : h = conn[c].hook
  OBVIOUS
<1> PICK b : b = Peer(c)
  OBVIOUS
<1>2. /\ conn[c].at = "forward" /\ conn[c].peers # {} /\ Free # {} /\ Remember(b, <<p, t>>)
      /\ UNCHANGED <<head, signals, answer, wrote>>
  BY DEF Forward, At, Key, repoVars
<1>3. /\ IsMain(c) /\ MainAt(c) /\ RequestOK(conn[c]) /\ conn[c].todo # <<>>
      /\ conn[c].client = 0 /\ conn[c].kind = "push" /\ conn[c].fwd = FALSE
  BY <1>0, <1>2, KindsOf DEF Requests, RequestAt, Typed, RequestOK, IsMain
<1>4. b \in conn[c].peers /\ b \in In[t] \ {Home} /\ h \in Hooks /\ p \in 1..head
  BY <1>2, <1>3 DEF Peer, MainAt, Target
<1>5. t \in Services /\ t \in Group(h) /\ b \in Boxes /\ p \in Pushes /\ p \in Nat
  <2>1. conn[c].todo \in Seq(Services) /\ conn[c].todo # <<>> /\ t = Head(conn[c].todo)
    BY <1>3 DEF RequestOK, Target
  <2>2. t \in Services /\ t \in Elems(conn[c].todo)
    BY <2>1, ElemsOfTail
  <2>3. t \in Group(h)
    BY <2>2, <1>3 DEF MainAt
  <2>4. p \in Pushes /\ p \in Nat
    BY <1>0, <1>4, WebhookConstants DEF Typed, Pushes
  <2> QED  BY <2>2, <2>3, <2>4, <1>4, InBoxes
<1> PICK key : key = <<p, t>>
  OBVIOUS
<1>c. /\ cache' \in [Boxes -> Seq(Keys)] /\ forgot' \in [Boxes -> Nat]
      /\ \A x \in Boxes : Len(cache'[x]) <= CacheSize
      /\ \A x \in Boxes \ {b} : cache'[x] = cache[x]
      /\ \A k : Seen(b, k)' => Seen(b, k) \/ k = key
  <2>1. key \in Keys /\ Remember(b, key)
    BY <1>2, <1>5 DEF Keys
  <2> QED  BY <1>0, <1>5, <2>1, Remembers
<1>h. \A k : Seen(Home, k)' => Seen(Home, k)
  BY <1>c, <1>4, WebhookConstants DEF Seen
<1>b. \A x \in Boxes : \A k : Seen(x, k)' => Seen(x, k) \/ (x = b /\ k = key)
  <2>1. ASSUME NEW x \in Boxes \ {b}, NEW k, Seen(x, k)' PROVE Seen(x, k)
    BY <1>c, <2>1 DEF Seen
  <2> QED  BY <1>c, <2>1
<1>6. CASE Seen(b, <<p, t>>)
  <2>1. Done(b, t, p)
    <3>0. CASE ~OneHook
      BY <3>0 DEF Done
    <3>1. ASSUME OneHook, NEW d \in Conns, Forwards(d, b, t, p) PROVE FALSE
      <4> PICK k : k = conn[d].client
        OBVIOUS
      <4>1. IsFwd(d) /\ k # 0 /\ conn[d].push = p /\ conn[d].hook = t
        BY <3>1 DEF Forwards
      <4>2. /\ k \in Conns /\ IsMain(k) /\ conn[k].at = "await" /\ conn[k].push = p
            /\ Head(conn[k].todo) = t
        BY <4>1, <1>0 DEF Waiting, AwaitedAt
      <4>3. conn[k].todo \in Seq(Services) /\ conn[k].todo # <<>> /\ MainAt(k)
        BY <4>2, <1>0 DEF Typed, RequestOK, Requests, RequestAt
      <4>4. t \in Group(conn[k].hook) /\ conn[k].hook \in Hooks
        <5>1. t \in Elems(conn[k].todo)
          BY <4>2, <4>3, ElemsOfTail
        <5> QED  BY <4>3, <5>1 DEF MainAt
      <4>5. conn[k].hook = h
        BY <3>1, <4>4, <1>4, <1>5 DEF OneHook
      <4>6. k = c
        BY <4>2, <4>5, <1>0, <1>3 DEF OneEach
      <4> QED  BY <4>2, <4>6, <1>2
    <3> QED  BY <1>0, <1>4, <1>5, <1>6, <3>0, <3>1 DEF PeersKnow
  <2>2. Done(b, t, p)'
    BY <2>1, <1>0, <1>1, <1>5, DoneStays
  <2> PICK old : old = conn[c]
    OBVIOUS
  <2> PICK flag : flag = (old.ok \/ Sibling(c))
    OBVIOUS
  <2> PICK r : r = [old EXCEPT !.ok = flag]
    OBVIOUS
  <2>3. /\ DOMAIN r = ConnFields
        /\ r.box = old.box /\ r.push = old.push /\ r.kind = old.kind /\ r.fwd = old.fwd
        /\ r.hook = old.hook /\ r.client = old.client /\ r.todo = old.todo
        /\ r.url = old.url /\ r.peers = old.peers
    <3>1. DOMAIN old = ConnFields
      BY <1>3 DEF RequestOK
    <3>2. r = [old EXCEPT !.ok = flag]
      OBVIOUS
    <3> QED  BY ONLY <3>1, <3>2, FieldsAre
  <2>4. conn' = [conn EXCEPT ![c] = Heard(r)]
    <3>1. conn' = [conn EXCEPT ![c] = Heard([conn[c] EXCEPT !.ok = conn[c].ok \/ Sibling(c)])]
      BY <1>6 DEF Forward, Key
    <3> QED  BY <3>1
  <2>5. conn'[c] = Heard(r) /\ DOMAIN conn' = Conns /\ \A d \in Conns \ {c} : conn'[d] = conn[d]
    BY <2>4, <1>0 DEF Typed
  <2>6. answer'[<<p, conn[c].hook>>] = "open"
    BY <1>2, <1>3 DEF MainAt
  <2>7. /\ RequestAt(c)' /\ Keeps(c) /\ conn'[c].client = conn[c].client /\ RequestOK(conn'[c])
        /\ InHand(c, t, p)' \/ AllDone(t, p)'
    <3>1. /\ c \in Conns /\ conn[c].at \in {"forward", "await"}
          /\ t = Target(c) /\ p = conn[c].push /\ b = Peer(c)
          /\ r.box = conn[c].box /\ r.push = p /\ r.kind = conn[c].kind /\ r.fwd = conn[c].fwd
          /\ r.hook = conn[c].hook /\ r.client = conn[c].client /\ r.todo = conn[c].todo
          /\ r.url = conn[c].url /\ r.peers = conn[c].peers
      BY <1>2, <2>3
    <3> QED  BY ONLY <1>0, <1>1, <2>2, <2>3, <2>5, <2>6, <3>1, HeardIs
  <2>8. Typed'
    BY <1>0, <1>1, <1>2, <1>c, <2>5, <2>7, OneTyped DEF Typed, Keys
  <2>9. Requests'
    BY <1>0, <1>1, <1>2, <2>5, <2>7, OtherStays DEF Requests
  <2>k. \A d \in Conns : /\ IsMain(d)' <=> IsMain(d)
                         /\ IsFwd(d)' <=> IsFwd(d)
                         /\ conn'[d].client = conn[d].client /\ conn'[d].push = conn[d].push
                         /\ conn'[d].hook = conn[d].hook /\ conn'[d].box = conn[d].box
    BY <2>5, <2>7 DEF Keeps, IsMain, IsFwd
  <2>10. Waiting'
    <3> SUFFICES ASSUME NEW d \in Conns, IsFwd(d)' PROVE AwaitedAt(d)'
      BY DEF Waiting
    <3>1. AwaitedAt(d)
      BY <1>0, <2>k DEF Waiting
    <3>2. conn[d].client # 0 => conn[d].client \in Conns /\ conn'[conn[d].client] = conn[conn[d].client]
      BY <3>1, <2>5, <1>2 DEF AwaitedAt
    <3> QED  BY <2>k, <3>1, <3>2 DEF AwaitedAt, IsMain, Peer
  <2>11. OneEach'
    BY <1>0, <2>k DEF OneEach
  <2>12. HomeKnows'
    <3>1. \A d \in Conns, s \in Services, q \in Pushes :
              InHand(d, s, q) => InHand(d, s, q)' \/ AllDone(s, q)'
      <4> SUFFICES ASSUME NEW d \in Conns, NEW s \in Services, NEW q \in Pushes, InHand(d, s, q)
                   PROVE  InHand(d, s, q)' \/ AllDone(s, q)'
        OBVIOUS
      <4>1. CASE d = c
        BY <4>1, <2>7 DEF InHand, Target
      <4>2. CASE d # c
        BY <4>2, <2>5 DEF InHand, IsMain
      <4> QED  BY <4>1, <4>2
    <3> QED  BY <1>0, <1>1, <1>h, <3>1, HomeStays
  <2>13. HookKnows'
    <3>1. \A d \in Conns, k \in Hooks, q \in Pushes : Follows(d, k, q) => Follows(d, k, q)'
      BY <2>k DEF Follows
    <3> QED  BY <1>0, <1>1, <1>h, <3>1, HookStays
  <2>14. PeersKnow'
    <3>1. \A d \in Conns, x \in Boxes \ {Home}, s \in Services, q \in Pushes :
              Forwards(d, x, s, q) => Forwards(d, x, s, q)'
      BY <2>k DEF Forwards
    <3>2. \A x \in Boxes \ {Home}, s \in Services, q \in Pushes :
              Seen(x, <<q, s>>)' => Seen(x, <<q, s>>)
      BY <1>b, <1>6
    <3> QED  BY <1>0, <1>1, <3>1, <3>2, PeersStay
  <2>15. Answered'
    BY <1>0, <1>1, <1>2, AnswersStay
  <2> QED  BY <2>8, <2>9, <2>10, <2>11, <2>12, <2>13, <2>14, <2>15 DEF RInv
<1>7. CASE ~Seen(b, <<p, t>>)
  <2> PICK n : n = Lowest(Free)
    OBVIOUS
  <2> PICK q : q = Request(b, p, "push", TRUE, <<t>>, c)
    OBVIOUS
  <2> PICK w : w = [conn[c] EXCEPT !.at = "await"]
    OBVIOUS
  <2>1. /\ conn' = [[conn EXCEPT ![c] = w] EXCEPT ![n] = q]
        /\ n \in Conns /\ conn[n].at = "free" /\ n # c
    <3>1. conn' = [conn EXCEPT ![c].at = "await", ![n] = q]
      BY <1>2, <1>7 DEF Forward, Key
    <3>2. n \in Conns /\ conn[n].at = "free" /\ n # c
      BY <1>2, FreeConn
    <3> QED  BY <3>1, <3>2
  <2>2. /\ conn'[n] = q /\ conn'[c] = w /\ DOMAIN conn' = Conns
        /\ \A d \in Conns \ {c, n} : conn'[d] = conn[d]
    BY <1>0, <2>1 DEF Typed
  <2>3. /\ DOMAIN w = ConnFields /\ w.at = "await"
        /\ w.box = conn[c].box /\ w.push = p /\ w.kind = "push" /\ w.fwd = FALSE
        /\ w.hook = h /\ w.client = 0 /\ w.todo = conn[c].todo
        /\ w.url = conn[c].url /\ w.peers = conn[c].peers /\ w.fd = conn[c].fd
    BY <1>3, FieldsAre DEF RequestOK
  <2>4. /\ DOMAIN q = ConnFields
        /\ q.at = "target" /\ q.box = b /\ q.push = p /\ q.kind = "push" /\ q.fwd = TRUE
        /\ q.todo = <<t>> /\ q.hook = t /\ q.client = c
        /\ q.peers = {} /\ q.fd = "none" /\ q.url = TRUE
    <3>1. q = Request(b, p, "push", TRUE, <<t>>, c)
      OBVIOUS
    <3>2. Head(<<t>>) = t
      BY JustOne
    <3> QED  BY ONLY <3>1, <3>2, FieldsAre DEF Request, NoConn
  <2>5. RequestOK(q) /\ RequestOK(w)
    <3>1. <<t>> \in Seq(Services) /\ <<t>> # <<>>
      BY <1>5, JustOne
    <3> QED  BY <1>3, <1>5, <2>3, <2>4, <3>1 DEF RequestOK
  <2>6. Typed'
    <3>1. \A d \in Conns : RequestOK(conn'[d])
      BY <1>0, <2>2, <2>5 DEF Typed
    <3> QED  BY <1>0, <1>1, <1>2, <1>c, <2>2, <3>1 DEF Typed, Later, Keys
  <2>7. /\ ~IsMain(n)' /\ IsFwd(n)' /\ ~IsMain(n) /\ ~IsFwd(n)
        /\ IsMain(c)' /\ ~IsFwd(c)' /\ ~IsFwd(c)
    BY <1>3, <2>1, <2>2, <2>3, <2>4 DEF IsMain, IsFwd
  <2>k. \A d \in Conns \ {n} : (IsMain(d)' <=> IsMain(d)) /\ (IsFwd(d)' <=> IsFwd(d))
    <3>1. IsMain(c)
      BY <1>3
    <3>2. ASSUME NEW d \in Conns \ {c, n} PROVE (IsMain(d)' <=> IsMain(d)) /\ (IsFwd(d)' <=> IsFwd(d))
      <4>1. conn'[d] = conn[d]
        BY <2>2
      <4> QED  BY ONLY <4>1 DEF IsMain, IsFwd
    <3> HIDE DEF IsMain, IsFwd
    <3> QED  BY ONLY <2>7, <3>1, <3>2
  <2>8. Requests'
    <3>1. FwdAt(n)'
      <4>1. p \in 1..head'
        BY <1>2, <1>4
      <4>2. /\ conn'[n].hook = t /\ conn'[n].push = p /\ conn'[n].box = b /\ conn'[n].at = "target"
            /\ conn'[n].peers = {} /\ conn'[n].todo = <<t>> /\ conn'[n].url
        BY <2>2, <2>4
      <4> QED  BY <4>1, <4>2, <1>4, <1>5 DEF FwdAt
    <3>2. RequestAt(n)'
      BY <2>2, <2>4, <2>7, <3>1 DEF RequestAt
    <3>3. MainAt(c)'
      <4>1. p \in 1..head' /\ answer'[<<p, h>>] = "open"
        BY <1>2, <1>3, <1>4 DEF MainAt
      <4>2. \A s \in Group(h) \ Elems(conn[c].todo) : AllDone(s, p)'
        BY <1>0, <1>1, <1>3, <1>4, <1>5, AllDoneStays, GroupIsServices DEF MainAt
      <4>3. \A x \in In[t] \ conn[c].peers : Done(x, t, p)'
        <5>1. \A x \in In[t] \ conn[c].peers : Done(x, t, p)
          BY <1>2, <1>3 DEF MainAt, Target
        <5> QED  BY <5>1, <1>0, <1>1, <1>5, DoneStays, InBoxes
      <4>4. conn[c].peers \subseteq In[t] \ {Home} /\ Head(w.todo) = t
        BY <1>2, <1>3, <2>3 DEF MainAt, Target
      <4> QED  BY <4>1, <4>2, <4>3, <4>4, <1>2, <1>3, <2>2, <2>3 DEF MainAt
    <3>4. RequestAt(c)'
      BY <2>2, <2>3, <2>7, <3>3 DEF RequestAt
    <3> QED  BY <1>0, <1>1, <1>2, <2>2, <3>2, <3>4, OtherStays DEF Requests
  <2>a. ASSUME NEW d \in Conns, conn[d].client = c PROVE FALSE
    <3>1. conn[d].client # 0
      BY <2>a, WebhookConstants
    <3>2. IsFwd(d)
      BY <3>1, <1>0, KindsOf
    <3> QED  BY <3>1, <3>2, <2>a, <1>0, <1>2 DEF Waiting, AwaitedAt
  <2>9. Waiting'
    <3> SUFFICES ASSUME NEW d \in Conns, IsFwd(d)' PROVE AwaitedAt(d)'
      BY DEF Waiting
    <3>1. CASE d = n
      <4>1. Peer(c)' = b
        BY <2>2, <2>3 DEF Peer
      <4>2. Head(w.todo) = t
        BY <2>3 DEF Target
      <4>3. /\ conn'[n].client = c /\ conn'[n].push = p /\ conn'[n].hook = t /\ conn'[n].box = b
            /\ conn'[c].at = "await" /\ conn'[c].push = p /\ Head(conn'[c].todo) = t
        BY <4>2, <2>2, <2>3, <2>4
      <4> QED  BY <3>1, <4>1, <4>3, <2>7 DEF AwaitedAt
    <3>2. CASE d # n
      <4>1. IsFwd(d) /\ AwaitedAt(d) /\ d # c /\ conn'[d] = conn[d]
        BY <3>2, <1>0, <2>2, <2>7, <2>k DEF Waiting
      <4>2. conn[d].client # 0 => conn[d].client \in Conns \ {c, n}
        BY <4>1, <2>7, <2>a DEF AwaitedAt
      <4> QED  BY <4>1, <4>2, <2>2, <2>k DEF AwaitedAt, Peer
    <3> QED  BY <3>1, <3>2
  <2>10. OneEach'
    <3>1. \A d \in Conns \ {n} : /\ conn'[d].client = conn[d].client /\ conn'[d].push = conn[d].push
                                 /\ conn'[d].hook = conn[d].hook
      BY <2>2, <2>3, <1>3
    <3> SUFFICES ASSUME NEW d \in Conns, NEW e \in Conns
                 PROVE  /\ IsMain(d)' /\ IsMain(e)' /\ conn'[d].push = conn'[e].push
                              /\ conn'[d].hook = conn'[e].hook => d = e
                        /\ conn'[d].client # 0 /\ conn'[d].client = conn'[e].client => d = e
      BY DEF OneEach
    <3>2. CASE d # n /\ e # n
      BY <1>0, <2>k, <3>1, <3>2 DEF OneEach
    <3>3. CASE d = n \/ e = n
      <4>1. conn'[n].client = c /\ ~IsMain(n)'
        BY <2>2, <2>4, <2>7
      <4>2. \A x \in Conns \ {n} : conn'[x].client # c
        BY <3>1, <2>a
      <4> QED  BY <3>3, <4>1, <4>2
    <3> QED  BY <3>2, <3>3
  <2>11. HomeKnows'
    <3>1. \A d \in Conns, s \in Services, x \in Pushes : InHand(d, s, x) => InHand(d, s, x)'
      <4> SUFFICES ASSUME NEW d \in Conns, NEW s \in Services, NEW x \in Pushes, InHand(d, s, x)
                   PROVE  InHand(d, s, x)'
        OBVIOUS
      <4>1. CASE d = c
        <5>1. conn'[c].todo = conn[c].todo /\ conn'[c].push = conn[c].push /\ conn'[c].at = "await"
          BY <2>2, <2>3
        <5> QED  BY <4>1, <5>1, <2>7 DEF InHand
      <4>2. CASE d # c
        <5>1. d # n /\ conn'[d] = conn[d]
          BY <4>2, <2>2, <2>7 DEF InHand
        <5> QED  BY <5>1, <2>k DEF InHand
      <4> QED  BY <4>1, <4>2
    <3> QED  BY <1>0, <1>1, <1>h, <3>1, HomeStays
  <2>12. HookKnows'
    <3>1. \A d \in Conns, k \in Hooks, x \in Pushes : Follows(d, k, x) => Follows(d, k, x)'
      <4>1. \A d \in Conns \ {n} : conn'[d].push = conn[d].push /\ conn'[d].hook = conn[d].hook
        BY <2>2, <2>3
      <4> QED  BY <4>1, <2>7, <2>k DEF Follows
    <3> QED  BY <1>0, <1>1, <1>h, <3>1, HookStays
  <2>13. PeersKnow'
    <3>1. \A d \in Conns, x \in Boxes \ {Home}, s \in Services, y \in Pushes :
              Forwards(d, x, s, y) => Forwards(d, x, s, y)'
      BY <2>2, <2>7, <2>k DEF Forwards
    <3>2. Forwards(n, b, t, p)'
      BY <2>2, <2>4, <2>7, WebhookConstants DEF Forwards
    <3>3. \A x \in Boxes \ {Home}, s \in Services, y \in Pushes :
              Seen(x, <<y, s>>)' => Seen(x, <<y, s>>) \/ \E d \in Conns : Forwards(d, x, s, y)'
      BY <1>b, <2>1, <3>2
    <3> QED  BY <1>0, <1>1, <3>1, <3>3, PeersStay
  <2>14. Answered'
    BY <1>0, <1>1, <1>2, AnswersStay
  <2> QED  BY <2>6, <2>8, <2>9, <2>10, <2>11, <2>12, <2>13, <2>14 DEF RInv
<1> QED  BY <1>6, <1>7

(* A forward whose sender is gone, or no longer waits.                         *)
LEMMA OrphanIs ==
    ASSUME Typed, Requests, Later, NEW d \in Conns, IsFwd(d),
           conn'[d] = [conn[d] EXCEPT !.client = 0]
    PROVE  RequestAt(d)' /\ Keeps(d) /\ conn'[d].client = 0 /\ RequestOK(conn'[d])
<1>1. FwdAt(d) /\ RequestOK(conn[d])
  BY DEF Requests, RequestAt, Typed
<1> PICK b : b = conn[d].box
  OBVIOUS
<1> PICK s : s = conn[d].hook
  OBVIOUS
<1> PICK p : p = conn[d].push
  OBVIOUS
<1> PICK q : q = conn'[d]
  OBVIOUS
<1>2. /\ DOMAIN q = ConnFields /\ q.at = conn[d].at /\ q.box = b /\ q.push = p
      /\ q.kind = conn[d].kind /\ q.fwd = conn[d].fwd /\ q.todo = conn[d].todo
      /\ q.url = conn[d].url /\ q.hook = s /\ q.peers = conn[d].peers
      /\ q.fd = conn[d].fd /\ q.client = 0
  BY <1>1, FieldsAre DEF RequestOK
<1>3. b \in Boxes /\ s \in Services /\ p \in Nat /\ p \in 1..head'
  BY <1>1, WebhookConstants DEF FwdAt, RequestOK, Typed, Later
<1>4. Done(b, s, p) => Done(b, s, p)'
  BY <1>3, DoneStays
<1>5. FwdAt(d)'
  BY <1>1, <1>2, <1>3, <1>4 DEF FwdAt
<1>6. RequestOK(q)
  BY <1>1, <1>2 DEF RequestOK
<1> QED  BY <1>2, <1>5, <1>6 DEF RequestAt, IsMain, IsFwd, Keeps

LEMMA ForwardFailsKeeps ==
    ASSUME RInv, NEW c \in Conns, ForwardFails(c)
    PROVE  RInv'
<1>0. Typed /\ Requests /\ Waiting /\ OneEach /\ HomeKnows /\ HookKnows /\ PeersKnow /\ Answered
  BY DEF RInv
<1>1. Later
  BY <1>0, WebhookConstants DEF ForwardFails, repoVars, Later, Typed
<1> PICK t : t = Target(c)
  OBVIOUS
<1> PICK p : p = conn[c].push
  OBVIOUS
<1> PICK h : h = conn[c].hook
  OBVIOUS
<1> PICK b : b = Peer(c)
  OBVIOUS
<1>2. /\ conn[c].at \in {"forward", "await"} /\ warned' = warned \cup {<<b, t>>}
      /\ UNCHANGED <<head, signals, answer, wrote, cache, forgot>>
      /\ conn' = [d \in Conns |->
             IF d = c THEN Heard(conn[c])
             ELSE IF conn[d].client = c THEN [conn[d] EXCEPT !.client = 0] ELSE conn[d]]
  BY DEF ForwardFails, repoVars
<1>3. /\ IsMain(c) /\ MainAt(c) /\ RequestOK(conn[c]) /\ conn[c].client = 0
  BY <1>0, <1>2, KindsOf DEF Requests, RequestAt, Typed
<1>4. Done(b, t, p)'
  BY <1>2 DEF Done
<1>5. conn'[c] = Heard(conn[c]) /\ DOMAIN conn' = Conns
  BY <1>2
<1>6. answer'[<<p, h>>] = "open"
  BY <1>2, <1>3 DEF MainAt
<1>7. /\ RequestAt(c)' /\ Keeps(c) /\ conn'[c].client = conn[c].client /\ RequestOK(conn'[c])
      /\ InHand(c, t, p)' \/ AllDone(t, p)'
  <2> PICK r : r = conn[c]
    OBVIOUS
  <2>1. /\ c \in Conns /\ t = Target(c) /\ p = conn[c].push /\ b = Peer(c)
        /\ DOMAIN r = ConnFields /\ conn'[c] = Heard(r)
        /\ r.box = conn[c].box /\ r.push = p /\ r.kind = conn[c].kind /\ r.fwd = conn[c].fwd
        /\ r.hook = conn[c].hook /\ r.client = conn[c].client /\ r.todo = conn[c].todo
        /\ r.url = conn[c].url /\ r.peers = conn[c].peers /\ answer'[<<p, conn[c].hook>>] = "open"
    BY <1>3, <1>5, <1>6 DEF RequestOK
  <2>2. conn[c].at \in {"forward", "await"}
    BY <1>2
  <2> QED  BY ONLY <1>0, <1>1, <1>4, <2>1, <2>2, HeardIs
<1>8. ASSUME NEW d \in Conns \ {c}, conn[d].client = c
      PROVE  /\ IsFwd(d) /\ conn[d].push = p /\ conn[d].hook = t /\ conn[d].box = b
             /\ RequestAt(d)' /\ Keeps(d) /\ conn'[d].client = 0 /\ RequestOK(conn'[d])
  <2>1. conn[d].client # 0
    BY <1>8, WebhookConstants
  <2>2. IsFwd(d)
    BY <2>1, <1>0, KindsOf
  <2>3. conn[d].push = p /\ conn[d].hook = t /\ conn[d].box = b
    BY <2>1, <2>2, <1>0, <1>8 DEF Waiting, AwaitedAt, Target
  <2>4. conn'[d] = [conn[d] EXCEPT !.client = 0]
    BY <1>2, <1>8
  <2> QED  BY <2>2, <2>3, <2>4, <1>0, <1>1, OrphanIs
<1>9. ASSUME NEW d \in Conns \ {c}, conn[d].client # c
      PROVE  conn'[d] = conn[d]
  BY <1>2, <1>9
<1>10. Typed'
  <2>1. \A d \in Conns : RequestOK(conn'[d])
    BY <1>0, <1>7, <1>8, <1>9 DEF Typed
  <2> QED  BY <1>0, <1>1, <1>2, <1>5, <2>1 DEF Typed, Later
<1>11. Requests'
  BY <1>0, <1>1, <1>2, <1>7, <1>8, <1>9, OtherStays DEF Requests
<1>k. \A d \in Conns : /\ IsMain(d)' <=> IsMain(d)
                       /\ IsFwd(d)' <=> IsFwd(d)
                       /\ conn'[d].push = conn[d].push
                       /\ conn'[d].hook = conn[d].hook /\ conn'[d].box = conn[d].box
                       /\ conn'[d].client = IF conn[d].client = c THEN 0 ELSE conn[d].client
  <2> SUFFICES ASSUME NEW d \in Conns
               PROVE   /\ IsMain(d)' <=> IsMain(d)
                       /\ IsFwd(d)' <=> IsFwd(d)
                       /\ conn'[d].push = conn[d].push
                       /\ conn'[d].hook = conn[d].hook /\ conn'[d].box = conn[d].box
                       /\ conn'[d].client = IF conn[d].client = c THEN 0 ELSE conn[d].client
    OBVIOUS
  <2>z. 0 # c
    BY WebhookConstants
  <2>1. CASE d = c
    BY <2>1, <2>z, <1>3, <1>7 DEF Keeps, IsMain, IsFwd
  <2>2. CASE d # c /\ conn[d].client = c
    BY <2>2, <1>8 DEF Keeps, IsMain, IsFwd
  <2>3. CASE d # c /\ conn[d].client # c
    BY <2>3, <1>9 DEF IsMain, IsFwd
  <2> QED  BY <2>1, <2>2, <2>3
<1>12. Waiting'
  <2> SUFFICES ASSUME NEW d \in Conns, IsFwd(d)', conn'[d].client # 0 PROVE AwaitedAt(d)'
    BY DEF Waiting, AwaitedAt
  <2>1. /\ AwaitedAt(d) /\ conn'[d].client = conn[d].client /\ conn[d].client # c /\ conn[d].client # 0
    BY <1>0, <1>k DEF Waiting
  <2>2. conn[d].client \in Conns /\ IsMain(conn[d].client)
    BY <2>1 DEF AwaitedAt
  <2>3. conn[conn[d].client].client = 0
    BY <2>2, <1>0, KindsOf
  <2>4. conn'[conn[d].client] = conn[conn[d].client]
    BY <2>1, <2>2, <2>3, <1>9, WebhookConstants
  <2> QED  BY <2>1, <2>2, <2>4, <1>k DEF AwaitedAt, Peer
<1>13. OneEach'
  BY <1>0, <1>k DEF OneEach
<1>14. HomeKnows'
  <2>1. \A d \in Conns, s \in Services, q \in Pushes :
            InHand(d, s, q) => InHand(d, s, q)' \/ AllDone(s, q)'
    <3> SUFFICES ASSUME NEW d \in Conns, NEW s \in Services, NEW q \in Pushes, InHand(d, s, q)
                 PROVE  InHand(d, s, q)' \/ AllDone(s, q)'
      OBVIOUS
    <3>1. CASE d = c
      BY <3>1, <1>7 DEF InHand, Target
    <3>2. CASE d # c
      <4>1. conn[d].client = 0
        BY <1>0, KindsOf DEF InHand
      <4>2. conn'[d] = conn[d]
        BY <3>2, <4>1, <1>9, WebhookConstants
      <4> QED  BY <4>2 DEF InHand, IsMain
    <3> QED  BY <3>1, <3>2
  <2> QED  BY <1>0, <1>1, <1>2, <2>1, HomeStays DEF Seen
<1>15. HookKnows'
  <2>1. \A d \in Conns, k \in Hooks, q \in Pushes : Follows(d, k, q) => Follows(d, k, q)'
    BY <1>k DEF Follows
  <2> QED  BY <1>0, <1>1, <1>2, <2>1, HookStays DEF Seen
<1>16. PeersKnow'
  <2>1. \A d \in Conns, x \in Boxes \ {Home}, s \in Services, q \in Pushes :
            Forwards(d, x, s, q) => Forwards(d, x, s, q)' \/ Done(x, s, q)'
    <3> SUFFICES ASSUME NEW d \in Conns, NEW x \in Boxes \ {Home}, NEW s \in Services,
                        NEW q \in Pushes, Forwards(d, x, s, q)
                 PROVE  Forwards(d, x, s, q)' \/ Done(x, s, q)'
      OBVIOUS
    <3>1. CASE conn[d].client = c
      <4>1. d # c
        BY <3>1, <1>3, WebhookConstants
      <4>2. x = b /\ s = t /\ q = p
        BY <3>1, <4>1, <1>8 DEF Forwards
      <4> QED  BY <4>2, <1>4
    <3>2. CASE conn[d].client # c
      BY <3>2, <1>k DEF Forwards
    <3> QED  BY <3>1, <3>2
  <2> QED  BY <1>0, <1>1, <1>2, <2>1, PeersStay DEF Seen
<1>17. Answered'
  BY <1>0, <1>1, <1>2, AnswersStay
<1> QED  BY <1>10, <1>11, <1>12, <1>13, <1>14, <1>15, <1>16, <1>17 DEF RInv

-----------------------------------------------------------------------------
(* Answers.                                                                    *)

LEMMA RespondKeeps ==
    ASSUME RInv, NEW c \in Conns, Respond(c)
    PROVE  RInv'
<1>0. Typed /\ Requests /\ Waiting /\ OneEach /\ HomeKnows /\ HookKnows /\ PeersKnow /\ Answered
  BY DEF RInv
<1> PICK p : p = conn[c].push
  OBVIOUS
<1> PICK h : h = conn[c].hook
  OBVIOUS
<1> PICK k : k = conn[c].client
  OBVIOUS
<1>2. /\ conn[c].at = "target" /\ conn[c].todo = <<>>
      /\ UNCHANGED <<head, signals, wrote, cache, forgot, accepted, lost>>
      /\ answer' = IF IsMain(c)
           THEN [answer EXCEPT ![<<p, h>>] = IF conn[c].urlFailed /\ ~conn[c].ok THEN "failed" ELSE "ok"]
           ELSE answer
      /\ warned \subseteq warned'
  BY DEF Respond, At, repoVars, FromGitHub, IsMain
<1>3. conn' = [d \in Conns |->
          IF d = c THEN NoConn
          ELSE IF d = k
            THEN Heard([conn[d] EXCEPT !.ok = @ \/ (Sibling(d) /\ ~conn[c].urlFailed)])
            ELSE conn[d]]
  BY DEF Respond
<1>1. Later
  BY <1>0, <1>2, WebhookConstants DEF Later, Typed
<1>4. DOMAIN conn' = Conns /\ conn'[c] = NoConn
      /\ \A d \in Conns \ {c, k} : conn'[d] = conn[d]
  BY <1>3
<1>5. /\ conn'[c].at = "free" /\ ~IsMain(c)' /\ ~IsFwd(c)' /\ conn'[c].client = 0
      /\ RequestOK(conn'[c]) /\ conn'[c].kind = "push"
  BY <1>4, FreeIs DEF IsMain, IsFwd
<1>6. RequestAt(c)'
  BY <1>4, <1>5 DEF RequestAt
<1>e. Elems(<<>>) = {}
  BY DEF Elems
<1>7. IsMain(c) => h \in Hooks /\ p \in 1..head /\ p \in Pushes /\ k = 0 /\ GroupDone(h, p)'
  <2> SUFFICES ASSUME IsMain(c)
               PROVE  h \in Hooks /\ p \in 1..head /\ p \in Pushes /\ k = 0 /\ GroupDone(h, p)'
    OBVIOUS
  <2>1. MainAt(c)
    BY <1>0 DEF Requests, RequestAt
  <2>2. h \in Hooks /\ p \in 1..head /\ p \in Pushes /\ k = 0
    BY <2>1, <1>0, WebhookConstants DEF MainAt, Typed, Pushes
  <2>3. GroupDone(h, p)
    BY <2>1, <1>2, <1>e DEF MainAt, GroupDone
  <2> QED  BY <2>2, <2>3, <1>0, <1>1, GroupDoneStays, PushIs
(* Every other request of GitHub keeps its open answer.                        *)
<1>8. ASSUME NEW d \in Conns \ {c}, IsMain(d)
      PROVE  answer'[<<conn[d].push, conn[d].hook>>] = "open"
  <2>1. MainAt(d) /\ answer[<<conn[d].push, conn[d].hook>>] = "open"
    BY <1>8, <1>0 DEF Requests, RequestAt, MainAt
  <2>2. <<conn[d].push, conn[d].hook>> \in Pushes \X Hooks
    BY <2>1, <1>0, WebhookConstants DEF MainAt, Typed, Pushes
  <2>3. CASE IsMain(c)
    <3>1. <<conn[d].push, conn[d].hook>> # <<p, h>>
      BY <1>8, <2>3, <1>0 DEF OneEach
    <3> QED  BY <2>1, <2>2, <2>3, <3>1, <1>2, <1>0 DEF Typed
  <2>4. CASE ~IsMain(c)
    BY <2>1, <2>4, <1>2
  <2> QED  BY <2>3, <2>4
<1>9. IsFwd(c) => Done(conn[c].box, h, p) /\ conn[c].box \in Boxes /\ h \in Services /\ p \in Nat
  <2> SUFFICES ASSUME IsFwd(c)
               PROVE  Done(conn[c].box, h, p) /\ conn[c].box \in Boxes /\ h \in Services /\ p \in Nat
    OBVIOUS
  <2>1. FwdAt(c) /\ RequestOK(conn[c])
    BY <1>0 DEF Requests, RequestAt, Typed
  <2>2. <<h>> # <<>>
    BY JustOne
  <2>3. Done(conn[c].box, h, p)
    BY <2>1, <2>2, <1>2 DEF FwdAt
  <2> QED  BY <2>1, <2>3 DEF FwdAt, RequestOK
(* The request that waits for this one.                                        *)
<1>10. k # 0 => /\ k \in Conns \ {c} /\ IsFwd(c) /\ IsMain(k) /\ conn[k].at = "await"
                /\ RequestAt(k)' /\ Keeps(k) /\ conn'[k].client = conn[k].client
                /\ RequestOK(conn'[k])
                /\ \A s \in Services, q \in Pushes : InHand(k, s, q) => InHand(k, s, q)' \/ AllDone(s, q)'
  <2> SUFFICES ASSUME k # 0
               PROVE  /\ k \in Conns \ {c} /\ IsFwd(c) /\ IsMain(k) /\ conn[k].at = "await"
                      /\ RequestAt(k)' /\ Keeps(k) /\ conn'[k].client = conn[k].client
                      /\ RequestOK(conn'[k])
                      /\ \A s \in Services, q \in Pushes :
                             InHand(k, s, q) => InHand(k, s, q)' \/ AllDone(s, q)'
    OBVIOUS
  <2>1. IsFwd(c)
    BY <1>0, KindsOf
  <2>2. /\ k \in Conns \ {c} /\ IsMain(k) /\ conn[k].at = "await" /\ conn[k].push = p
        /\ Target(k) = h /\ Peer(k) = conn[c].box
    BY <2>1, <1>0, <1>2 DEF Waiting, AwaitedAt, Target
  <2> PICK b : b = Peer(k)
    OBVIOUS
  <2>3. Done(b, h, p)'
    BY <2>1, <2>2, <1>0, <1>1, <1>9, DoneStays
  <2> PICK old : old = conn[k]
    OBVIOUS
  <2> PICK flag : flag = (old.ok \/ (Sibling(k) /\ ~conn[c].urlFailed))
    OBVIOUS
  <2> PICK r : r = [old EXCEPT !.ok = flag]
    OBVIOUS
  <2>4. DOMAIN old = ConnFields
    BY <1>0, <2>2 DEF Typed, RequestOK
  <2>5. /\ DOMAIN r = ConnFields
        /\ r.box = old.box /\ r.push = old.push /\ r.kind = old.kind /\ r.fwd = old.fwd
        /\ r.hook = old.hook /\ r.client = old.client /\ r.todo = old.todo
        /\ r.url = old.url /\ r.peers = old.peers
    <3>2. r = [old EXCEPT !.ok = flag]
      OBVIOUS
    <3> QED  BY ONLY <2>4, <3>2, FieldsAre
  <2>6. conn'[k] = Heard(r)
    <3>1. conn'[k] = Heard([conn[k] EXCEPT !.ok = conn[k].ok \/ (Sibling(k) /\ ~conn[c].urlFailed)])
      BY <1>3, <2>2
    <3> QED  BY <3>1
  <2>7. /\ k \in Conns /\ h = Target(k) /\ p = conn[k].push /\ b = Peer(k)
        /\ r.box = conn[k].box /\ r.push = p /\ r.kind = conn[k].kind /\ r.fwd = conn[k].fwd
        /\ r.hook = conn[k].hook /\ r.client = conn[k].client /\ r.todo = conn[k].todo
        /\ r.url = conn[k].url /\ r.peers = conn[k].peers /\ answer'[<<p, conn[k].hook>>] = "open"
        /\ conn[k].at \in {"forward", "await"}
    BY <2>2, <2>5, <1>8
  <2>8. /\ RequestAt(k)' /\ Keeps(k) /\ conn'[k].client = conn[k].client /\ RequestOK(conn'[k])
        /\ InHand(k, h, p)' \/ AllDone(h, p)'
    BY ONLY <1>0, <1>1, <2>3, <2>5, <2>6, <2>7, HeardIs
  <2>9. \A s \in Services, q \in Pushes : InHand(k, s, q) => s = h /\ q = p
    BY <2>2 DEF InHand, Target
  <2> QED  BY <2>1, <2>2, <2>8, <2>9
<1>11. Typed'
  <2>0. \A d \in Conns : d # 0
    BY WebhookConstants
  <2>3. \A d \in Conns \ {c, k} : RequestOK(conn'[d])
    BY <1>0, <1>4 DEF Typed
  <2>4. k \in Conns => RequestOK(conn'[k])
    BY <2>0, <1>10
  <2>1. \A d \in Conns : RequestOK(conn'[d])
    BY <2>3, <2>4, <1>5
  <2>2. answer' \in [Pushes \X Hooks -> {"none", "open", "ok", "failed"}]
    BY <1>0, <1>2 DEF Typed
  <2> QED  BY <1>0, <1>1, <1>2, <1>4, <2>1, <2>2 DEF Typed, Later
<1>12. Requests'
  <2>1. ASSUME NEW d \in Conns \ {c, k} PROVE RequestAt(d)'
    BY <1>0, <1>1, <1>4, <1>8, RequestStays DEF Requests
  <2>2. k \in Conns => k # 0
    BY WebhookConstants
  <2> QED  BY <1>6, <1>10, <2>1, <2>2 DEF Requests
<1>0c. \A d \in Conns : d # 0
  BY WebhookConstants
<1>k. \A d \in Conns \ {c} : /\ IsMain(d)' <=> IsMain(d)
                             /\ IsFwd(d)' <=> IsFwd(d)
                             /\ conn'[d].client = conn[d].client /\ conn'[d].push = conn[d].push
                             /\ conn'[d].hook = conn[d].hook /\ conn'[d].box = conn[d].box
  BY <1>0c, <1>4, <1>10 DEF Keeps, IsMain, IsFwd
<1>13. Waiting'
  <2> SUFFICES ASSUME NEW d \in Conns, IsFwd(d)', conn'[d].client # 0 PROVE AwaitedAt(d)'
    BY DEF Waiting, AwaitedAt
  <2>1. d # c /\ AwaitedAt(d) /\ conn'[d].client = conn[d].client /\ conn[d].client # 0
    BY <1>0, <1>5, <1>k DEF Waiting
  <2>2. conn[d].client \in Conns /\ conn[conn[d].client].at = "await"
    BY <2>1 DEF AwaitedAt
  <2>3. conn[d].client # c /\ conn[d].client # k
    BY <2>1, <2>2, <1>0, <1>2 DEF OneEach
  <2>4. conn'[conn[d].client] = conn[conn[d].client]
    BY <2>2, <2>3, <1>4
  <2> QED  BY <2>1, <2>2, <2>3, <2>4, <1>k DEF AwaitedAt, Peer
<1>14. OneEach'
  BY <1>0, <1>5, <1>k DEF OneEach
<1>15. HomeKnows'
  <2>1. \A d \in Conns, s \in Services, q \in Pushes :
            InHand(d, s, q) => InHand(d, s, q)' \/ AllDone(s, q)'
    <3> SUFFICES ASSUME NEW d \in Conns, NEW s \in Services, NEW q \in Pushes, InHand(d, s, q)
                 PROVE  InHand(d, s, q)' \/ AllDone(s, q)'
      OBVIOUS
    <3>1. d # c
      BY <1>2 DEF InHand
    <3>2. CASE d = k
      BY <3>2, <1>0c, <1>10
    <3>3. CASE d # k
      <4>1. conn'[d] = conn[d]
        BY <3>1, <3>3, <1>4
      <4> QED  BY <4>1 DEF InHand, IsMain
    <3> QED  BY <3>2, <3>3
  <2> QED  BY <1>0, <1>1, <1>2, <2>1, HomeStays DEF Seen
<1>16. HookKnows'
  <2>1. \A d \in Conns, x \in Hooks, q \in Pushes :
            Follows(d, x, q) => Follows(d, x, q)' \/ GroupDone(x, q)'
    BY <1>7, <1>k DEF Follows
  <2> QED  BY <1>0, <1>1, <1>2, <2>1, HookStays DEF Seen
<1>17. PeersKnow'
  <2>1. \A d \in Conns, x \in Boxes \ {Home}, s \in Services, q \in Pushes :
            Forwards(d, x, s, q) => Forwards(d, x, s, q)' \/ Done(x, s, q)'
    <3> SUFFICES ASSUME NEW d \in Conns, NEW x \in Boxes \ {Home}, NEW s \in Services,
                        NEW q \in Pushes, Forwards(d, x, s, q)
                 PROVE  Forwards(d, x, s, q)' \/ Done(x, s, q)'
      OBVIOUS
    <3>1. CASE d = c
      <4>1. IsFwd(c) /\ x = conn[c].box /\ s = h /\ q = p
        BY <3>1 DEF Forwards
      <4>2. Done(x, s, q)
        BY <4>1, <1>9
      <4> QED  BY <4>2, <1>0, <1>1, DoneStays, PushIs
    <3>2. CASE d # c
      BY <3>2, <1>k DEF Forwards
    <3> QED  BY <3>1, <3>2
  <2> QED  BY <1>0, <1>1, <1>2, <2>1, PeersStay DEF Seen
<1>18. Answered'
  <2>1. \A q \in Pushes, x \in Hooks :
            answer'[<<q, x>>] = "ok" => answer[<<q, x>>] = "ok" \/ GroupDone(x, q)'
    <3> SUFFICES ASSUME NEW q \in Pushes, NEW x \in Hooks, answer'[<<q, x>>] = "ok"
                 PROVE  answer[<<q, x>>] = "ok" \/ GroupDone(x, q)'
      OBVIOUS
    <3>1. CASE IsMain(c) /\ <<q, x>> = <<p, h>>
      BY <3>1, <1>7
    <3>2. CASE ~(IsMain(c) /\ <<q, x>> = <<p, h>>)
      BY <3>2, <1>0, <1>2 DEF Typed
    <3> QED  BY <3>1, <3>2
  <2> QED  BY <1>0, <1>1, <2>1, AnswersStay
<1> QED  BY <1>11, <1>12, <1>13, <1>14, <1>15, <1>16, <1>17, <1>18 DEF RInv

-----------------------------------------------------------------------------
(* Restarts.                                                                   *)

LEMMA RestartKeeps ==
    ASSUME RInv, NEW b \in Boxes, Restart(b)
    PROVE  RInv'
<1> DEFINE dead == {c \in Conns : conn[c].at # "free" /\ conn[c].box = b}
           left == {c \in Conns \ dead : conn[c].at = "await" /\ \E d \in dead : conn[d].client = c}
           orphans == {d \in Conns \ dead : conn[d].client \in dead}
<1>0. Typed /\ Requests /\ Waiting /\ OneEach /\ HomeKnows /\ HookKnows /\ PeersKnow /\ Answered
  BY DEF RInv
<1>2. /\ cache' = [cache EXCEPT ![b] = <<>>] /\ forgot' = [forgot EXCEPT ![b] = @ + Len(cache[b])]
      /\ UNCHANGED <<head, signals, wrote, accepted>>
      /\ answer' = [d \in Pushes \X Hooks |->
            IF \E c \in Conns : IsMain(c) /\ conn[c].box = b /\ d = <<conn[c].push, conn[c].hook>>
              THEN "failed" ELSE answer[d]]
  BY DEF Restart, repoVars, FromGitHub, IsMain
<1>3. /\ lost' = lost \cup {<<<<conn[d].box, conn[d].hook>>, conn[d].push>> : d \in orphans}
      /\ conn' = [c \in Conns |->
            IF c \in dead THEN NoConn
            ELSE IF c \in left THEN Heard(conn[c])
            ELSE IF conn[c].client \in dead THEN [conn[c] EXCEPT !.client = 0] ELSE conn[c]]
      /\ warned' = warned \cup {<<b, Target(c)>> : c \in left}
  BY DEF Restart
<1>1. Later
  BY <1>0, <1>2, <1>3, WebhookConstants DEF Later, Typed
<1>c. /\ cache'[b] = <<>> /\ \A x \in Boxes \ {b} : cache'[x] = cache[x]
      /\ cache' \in [Boxes -> Seq(Pushes \X Services)] /\ forgot' \in [Boxes -> Nat]
      /\ \A x \in Boxes : Len(cache'[x]) <= CacheSize
  <2>1. <<>> \in Seq(Pushes \X Services) /\ Len(<<>>) = 0 /\ 0 <= CacheSize
    BY WebhookConstants
  <2>2. Len(cache[b]) \in Nat /\ forgot[b] \in Nat
    BY <1>0 DEF Typed
  <2>3. cache' \in [Boxes -> Seq(Pushes \X Services)]
    BY <2>1, <1>0, <1>2 DEF Typed
  <2>4. forgot' \in [Boxes -> Nat]
    BY <2>2, <1>0, <1>2 DEF Typed
  <2>5. cache'[b] = <<>> /\ \A x \in Boxes \ {b} : cache'[x] = cache[x]
    BY <1>0, <1>2 DEF Typed
  <2>6. \A x \in Boxes : Len(cache'[x]) <= CacheSize
    BY <2>1, <2>5, <1>0 DEF Typed
  <2> QED  BY <2>3, <2>4, <2>5, <2>6
<1>z. 0 \notin Conns
  BY WebhookConstants
<1>d. \A c \in dead : c \in Conns /\ conn[c].at # "free" /\ conn[c].box = b
  OBVIOUS
<1>n. \A c \in Conns \ dead : conn[c].at # "free" => conn[c].box # b
  OBVIOUS
<1>l. \A c \in left : c \in Conns \ dead /\ conn[c].at = "await" /\ \E d \in dead : conn[d].client = c
  OBVIOUS
<1>o. \A c \in Conns \ dead : c \notin left /\ conn[c].at = "await" => \A d \in dead : conn[d].client # c
  OBVIOUS
<1>r. \A c \in orphans : c \in Conns \ dead /\ conn[c].client \in dead
  OBVIOUS
<1>s. \A c \in Conns \ dead : conn[c].client \in dead => c \in orphans
  OBVIOUS
<1> HIDE DEF dead, left, orphans
<1>4. DOMAIN conn' = Conns /\ \A c \in dead : conn'[c] = NoConn
  BY <1>3, <1>d
<1>5. \A c \in dead : ~IsMain(c)' /\ ~IsFwd(c)' /\ conn'[c].client = 0 /\ RequestOK(conn'[c]) /\ RequestAt(c)'
  BY <1>4, FreeIs DEF IsMain, IsFwd, RequestAt
(* A request of GitHub that lives: the restart is not on its box.              *)
<1>6. ASSUME NEW d \in Conns \ dead, IsMain(d)
      PROVE  b # Home /\ answer'[<<conn[d].push, conn[d].hook>>] = "open"
  <2>1. MainAt(d) /\ conn[d].at # "free" /\ conn[d].box = Home
    BY <1>6, <1>0 DEF Requests, RequestAt, IsMain, MainAt
  <2>2. b # Home
    BY <2>1, <1>n
  <2>3. \A c \in Conns : IsMain(c) => conn[c].box # b
    BY <2>2, <1>0, KindsOf
  <2>4. <<conn[d].push, conn[d].hook>> \in Pushes \X Hooks /\ answer[<<conn[d].push, conn[d].hook>>] = "open"
    BY <2>1, <1>0, WebhookConstants DEF MainAt, Typed, Pushes
  <2> QED  BY <2>2, <2>3, <2>4, <1>2
<1>7. ASSUME NEW c \in left
      PROVE  /\ c \in Conns \ dead /\ IsMain(c) /\ conn[c].client = 0
             /\ RequestAt(c)' /\ Keeps(c) /\ conn'[c].client = conn[c].client /\ RequestOK(conn'[c])
             /\ \A s \in Services, q \in Pushes : InHand(c, s, q) => InHand(c, s, q)' \/ AllDone(s, q)'
  <2>1. c \in Conns \ dead /\ conn[c].at = "await" /\ IsMain(c) /\ conn[c].client = 0
    BY <1>0, <1>7, <1>l, KindsOf
  <2>2. PICK d \in dead : conn[d].client = c
    BY <1>7, <1>l
  <2>3. IsFwd(d) /\ conn[d].box = b /\ d \in Conns
    BY <2>1, <2>2, <1>0, <1>z, <1>d, KindsOf
  <2>4. Peer(c) = b
    BY <2>2, <2>3, <2>1, <1>0, <1>z DEF Waiting, AwaitedAt
  <2> PICK t : t = Target(c)
    OBVIOUS
  <2> PICK p : p = conn[c].push
    OBVIOUS
  <2> PICK r : r = conn[c]
    OBVIOUS
  <2>5. Done(b, t, p)'
    BY <1>3, <1>7 DEF Done
  <2>6. conn'[c] = Heard(r)
    BY <1>3, <1>7, <2>1
  <2>7. /\ c \in Conns /\ t = Target(c) /\ p = conn[c].push /\ b = Peer(c)
        /\ DOMAIN r = ConnFields /\ conn[c].at \in {"forward", "await"}
        /\ r.box = conn[c].box /\ r.push = p /\ r.kind = conn[c].kind /\ r.fwd = conn[c].fwd
        /\ r.hook = conn[c].hook /\ r.client = conn[c].client /\ r.todo = conn[c].todo
        /\ r.url = conn[c].url /\ r.peers = conn[c].peers /\ answer'[<<p, conn[c].hook>>] = "open"
    BY <2>1, <2>4, <1>0, <1>6 DEF Typed, RequestOK
  <2>8. /\ RequestAt(c)' /\ Keeps(c) /\ conn'[c].client = conn[c].client /\ RequestOK(conn'[c])
        /\ InHand(c, t, p)' \/ AllDone(t, p)'
    BY ONLY <1>0, <1>1, <2>5, <2>6, <2>7, HeardIs
  <2>9. \A s \in Services, q \in Pushes : InHand(c, s, q) => s = t /\ q = p
    BY DEF InHand, Target
  <2> QED  BY <2>1, <2>8, <2>9
<1>8. ASSUME NEW d \in orphans
      PROVE  /\ d \in Conns \ dead /\ IsFwd(d) /\ b = Home
             /\ RequestAt(d)' /\ Keeps(d) /\ conn'[d].client = 0 /\ RequestOK(conn'[d])
             /\ Done(conn[d].box, conn[d].hook, conn[d].push)'
  <2>1. d \in Conns \ dead /\ conn[d].client \in dead /\ conn[d].client # 0
    BY <1>8, <1>r, <1>d, <1>z
  <2>2. IsFwd(d)
    BY <2>1, <1>0, KindsOf
  <2>3. IsMain(conn[d].client) /\ conn[d].client \in Conns
    BY <2>1, <2>2, <1>0 DEF Waiting, AwaitedAt
  <2>4. b = Home
    BY <2>1, <2>3, <1>0, <1>d, KindsOf
  <2>5. d \notin left
    BY <2>2, <1>0, <1>7, <2>1, KindsOf
  <2>6. conn'[d] = [conn[d] EXCEPT !.client = 0]
    BY <1>3, <2>1, <2>5
  <2>7. RequestAt(d)' /\ Keeps(d) /\ conn'[d].client = 0 /\ RequestOK(conn'[d])
    BY <2>1, <2>2, <2>6, <1>0, <1>1, OrphanIs
  <2>8. Done(conn[d].box, conn[d].hook, conn[d].push)'
    <3> PICK x : x = conn[d].box
      OBVIOUS
    <3> PICK s : s = conn[d].hook
      OBVIOUS
    <3> PICK q : q = conn[d].push
      OBVIOUS
    <3>1. <<<<x, s>>, q>> \in lost'
      BY <1>3, <1>8
    <3>2. Done(x, s, q)'
      BY <3>1 DEF Done
    <3>3. conn'[d].box = x /\ conn'[d].hook = s /\ conn'[d].push = q
      BY <2>7 DEF Keeps
    <3> QED  BY <3>2, <3>3
  <2> QED  BY <2>1, <2>2, <2>4, <2>7, <2>8
<1>9. \A d \in Conns \ (dead \union left \union orphans) : conn'[d] = conn[d] /\ conn[d].client \notin dead
  BY <1>3, <1>s
<1>10. Typed'
  <2>1. \A d \in Conns : RequestOK(conn'[d])
    BY <1>0, <1>5, <1>7, <1>8, <1>9 DEF Typed
  <2>2. answer' \in [Pushes \X Hooks -> {"none", "open", "ok", "failed"}]
    BY <1>0, <1>2 DEF Typed
  <2> QED  BY <1>0, <1>1, <1>2, <1>4, <1>c, <2>1, <2>2 DEF Typed, Later
<1>11. Requests'
  <2>1. ASSUME NEW d \in Conns \ (dead \union left \union orphans) PROVE RequestAt(d)'
    BY <1>0, <1>1, <1>6, <1>9, RequestStays DEF Requests
  <2> QED  BY <1>5, <1>7, <1>8, <2>1 DEF Requests
<1>k. \A d \in Conns \ dead : /\ IsMain(d)' <=> IsMain(d)
                              /\ IsFwd(d)' <=> IsFwd(d)
                              /\ conn'[d].push = conn[d].push
                              /\ conn'[d].hook = conn[d].hook /\ conn'[d].box = conn[d].box
                              /\ conn'[d].client = 0 \/ conn'[d].client = conn[d].client
  <2> SUFFICES ASSUME NEW d \in Conns \ dead
               PROVE   /\ IsMain(d)' <=> IsMain(d)
                       /\ IsFwd(d)' <=> IsFwd(d)
                       /\ conn'[d].push = conn[d].push
                       /\ conn'[d].hook = conn[d].hook /\ conn'[d].box = conn[d].box
                       /\ conn'[d].client = 0 \/ conn'[d].client = conn[d].client
    OBVIOUS
  <2>1. CASE d \in left
    BY <2>1, <1>7 DEF Keeps, IsMain, IsFwd
  <2>2. CASE d \in orphans
    BY <2>2, <1>8 DEF Keeps, IsMain, IsFwd
  <2>3. CASE d \notin left \union orphans
    BY <2>3, <1>9 DEF IsMain, IsFwd
  <2> QED  BY <2>1, <2>2, <2>3
<1>12. Waiting'
  <2> SUFFICES ASSUME NEW d \in Conns, IsFwd(d)', conn'[d].client # 0 PROVE AwaitedAt(d)'
    BY DEF Waiting, AwaitedAt
  <2>1. d \notin dead /\ AwaitedAt(d) /\ conn'[d].client = conn[d].client /\ conn[d].client # 0
    BY <1>0, <1>5, <1>k DEF Waiting
  <2> PICK k : k = conn[d].client
    OBVIOUS
  <2>2. k \in Conns /\ conn[k].at = "await" /\ IsMain(k)
    BY <2>1 DEF AwaitedAt
  <2>3. k \notin dead
    <3>1. d \notin orphans
      BY <2>1, <1>8
    <3> QED  BY <2>1, <3>1, <1>s
  <2>4. k \notin left
    <3>1. ASSUME NEW e \in dead, conn[e].client = k PROVE FALSE
      <4>1. e = d
        BY <3>1, <2>1, <1>0, <1>d DEF OneEach
      <4> QED  BY <4>1, <2>1
    <3> QED  BY <3>1, <1>l
  <2>5. k \notin orphans
    BY <2>2, <1>0, <1>8, KindsOf
  <2>6. conn'[k] = conn[k]
    BY <2>2, <2>3, <2>4, <2>5, <1>9
  <2> QED  BY <2>1, <2>2, <2>3, <2>6, <1>k DEF AwaitedAt, Peer
<1>13. OneEach'
  <2> SUFFICES ASSUME NEW c \in Conns, NEW d \in Conns
               PROVE  /\ IsMain(c)' /\ IsMain(d)' /\ conn'[c].push = conn'[d].push
                            /\ conn'[c].hook = conn'[d].hook => c = d
                      /\ conn'[c].client # 0 /\ conn'[c].client = conn'[d].client => c = d
    BY DEF OneEach
  <2>1. CASE c \in dead \/ d \in dead
    BY <2>1, <1>5
  <2>2. CASE c \notin dead /\ d \notin dead
    BY <2>2, <1>0, <1>k DEF OneEach
  <2> QED  BY <2>1, <2>2
<1>e. \A k : ~Seen(b, k)'
  BY <1>c DEF Seen
<1>14. HomeKnows'
  <2>1. CASE b = Home
    BY <2>1, <1>e DEF HomeKnows
  <2>2. CASE b # Home
    <3>1. \A d \in Conns, s \in Services, q \in Pushes :
              InHand(d, s, q) => InHand(d, s, q)' \/ AllDone(s, q)'
      <4> SUFFICES ASSUME NEW d \in Conns, NEW s \in Services, NEW q \in Pushes, InHand(d, s, q)
                   PROVE  InHand(d, s, q)' \/ AllDone(s, q)'
        OBVIOUS
      <4>1. IsMain(d) /\ d \notin dead /\ d \notin orphans
        BY <2>2, <1>0, <1>d, <1>8, KindsOf DEF InHand
      <4>2. CASE d \in left
        BY <4>2, <1>7
      <4>3. CASE d \notin left
        <5>1. conn'[d] = conn[d]
          BY <4>1, <4>3, <1>9
        <5> QED  BY <5>1 DEF InHand, IsMain
      <4> QED  BY <4>2, <4>3
    <3>2. \A k : Seen(Home, k)' => Seen(Home, k)
      BY <2>2, <1>c, WebhookConstants DEF Seen
    <3> QED  BY <1>0, <1>1, <3>1, <3>2, HomeStays
  <2> QED  BY <2>1, <2>2
<1>15. HookKnows'
  <2>1. CASE b = Home
    BY <2>1, <1>e DEF HookKnows
  <2>2. CASE b # Home
    <3>1. \A d \in Conns, h \in Hooks, q \in Pushes : Follows(d, h, q) => Follows(d, h, q)'
      <4>1. \A d \in Conns : IsMain(d) => d \notin dead
        BY <2>2, <1>0, <1>d, KindsOf
      <4> QED  BY <4>1, <1>k DEF Follows
    <3>2. \A k : Seen(Home, k)' => Seen(Home, k)
      BY <2>2, <1>c, WebhookConstants DEF Seen
    <3> QED  BY <1>0, <1>1, <3>1, <3>2, HookStays
  <2> QED  BY <2>1, <2>2
<1>16. PeersKnow'
  <2> SUFFICES ASSUME NEW x \in Boxes \ {Home}, NEW q \in Pushes, NEW s \in Services,
                      Seen(x, <<q, s>>)'
               PROVE  Done(x, s, q)' \/ \E d \in Conns : Forwards(d, x, s, q)'
    BY DEF PeersKnow
  <2>1. x # b /\ Seen(x, <<q, s>>)
    BY <1>c, <1>e DEF Seen
  <2>2. CASE Done(x, s, q)
    BY <2>2, <1>0, <1>1, DoneStays, PushIs
  <2>3. ASSUME NEW d \in Conns, Forwards(d, x, s, q)
        PROVE  Done(x, s, q)' \/ Forwards(d, x, s, q)'
    <3>1. IsFwd(d) /\ conn[d].box = x /\ conn[d].push = q /\ conn[d].hook = s /\ conn[d].client # 0
      BY <2>3 DEF Forwards
    <3>2. d \notin dead
      BY <2>1, <3>1, <1>d
    <3>3. CASE d \in orphans
      <4>1. conn'[d].box = x /\ conn'[d].push = q /\ conn'[d].hook = s
        BY <3>1, <3>3, <1>8 DEF Keeps
      <4> QED  BY <3>3, <4>1, <1>8
    <3>4. CASE d \notin orphans
      <4>1. d \notin left
        BY <3>1, <1>0, <1>7, KindsOf
      <4>2. conn'[d] = conn[d]
        BY <3>2, <3>4, <4>1, <1>9
      <4> QED  BY <3>1, <4>2 DEF Forwards, IsFwd
    <3> QED  BY <3>3, <3>4
  <2> QED  BY <2>1, <2>2, <2>3, <1>0 DEF PeersKnow
<1>17. Answered'
  <2>1. \A q \in Pushes, x \in Hooks : answer'[<<q, x>>] = "ok" => answer[<<q, x>>] = "ok"
    BY <1>2
  <2> QED  BY <1>0, <1>1, <2>1, AnswersStay
<1> QED  BY <1>10, <1>11, <1>12, <1>13, <1>14, <1>15, <1>16, <1>17 DEF RInv

-----------------------------------------------------------------------------
(* A push GitHub got a 200 for is heard everywhere.                            *)

LEMMA RInvInit == Init => RInv
<1> SUFFICES ASSUME Init PROVE RInv
  OBVIOUS
<1>0. \A c \in Conns : conn[c] = NoConn
  BY DEF Init
<1>1. \A c \in Conns : ~IsMain(c) /\ ~IsFwd(c) /\ conn[c].client = 0 /\ RequestOK(conn[c])
                       /\ RequestAt(c)
  BY <1>0, FreeIs DEF IsMain, IsFwd, RequestAt
<1>2. \A b \in Boxes : cache[b] = <<>>
  BY DEF Init
<1>3. Home \in Boxes /\ MaxPush \in Nat /\ CacheSize \in Nat
  BY WebhookConstants
<1>4. Typed
  <2>1. <<>> \in Seq(Pushes \X Services) /\ Len(<<>>) = 0 /\ 0 <= CacheSize
    BY <1>3
  <2>2. head = 0 /\ signals = 0 /\ DOMAIN conn = Conns /\ head \in 0..MaxPush
    BY <1>3 DEF Init
  <2>3. answer \in [Pushes \X Hooks -> {"none", "open", "ok", "failed"}]
    BY DEF Init
  <2>4. cache \in [Boxes -> Seq(Pushes \X Services)] /\ \A b \in Boxes : Len(cache[b]) <= CacheSize
    BY <2>1 DEF Init
  <2>5. forgot \in [Boxes -> Nat] /\ wrote \in [Units -> [Pushes -> Nat]] /\ accepted \in [Units -> Nat]
    BY DEF Init
  <2> QED  BY <1>1, <2>2, <2>3, <2>4, <2>5 DEF Typed
<1>5. \A b \in Boxes : \A k : ~Seen(b, k)
  BY <1>2 DEF Seen
<1>6. Requests /\ Waiting /\ OneEach
  BY <1>1 DEF Requests, Waiting, OneEach
<1>7. HomeKnows /\ HookKnows /\ PeersKnow
  BY <1>3, <1>5 DEF HomeKnows, HookKnows, PeersKnow
<1>8. Answered
  BY DEF Init, Answered
<1> QED  BY <1>4, <1>6, <1>7, <1>8 DEF RInv

LEMMA TakingMoves ==
    ASSUME Typed, Requests, NEW u, Taking(u)
    PROVE  DOMAIN conn' = Conns /\ \A c \in Conns : SameFor(c)
<1>1. conn' = [c \in Conns |-> IF conn[c].fd = "trigger" /\ Unit(c) = u
                                 THEN [conn[c] EXCEPT !.fd = "gone"] ELSE conn[c]]
  BY DEF Taking
<1>2. ASSUME NEW c \in Conns, conn[c].fd = "trigger" PROVE conn[c].at # "free"
  <2>1. NoConn.fd = "none"
    BY DEF NoConn
  <2> QED  BY <1>2, <2>1 DEF Requests, RequestAt
<1> QED  BY <1>1, <1>2 DEF SameFor

(* What a build, a deploy and a push do not touch.                             *)
LEMMA BuildsKeep ==
    ASSUME RInv, [Next]_vars,
           ~\E c \in Conns : Handle(c) \/ OpenFails(c) \/ ForwardFails(c),
           ~\E b \in Boxes : Restart(b), ~PullImage, ~\E p \in Pushes, s \in Hooks : Post(p, s)
    PROVE  RInv'
<1>0. Typed /\ Requests
  BY DEF RInv
<1>s. conn' = conn => DOMAIN conn' = Conns /\ \A c \in Conns : SameFor(c)
  BY <1>0 DEF Typed, SameFor
<1>1. CASE Push
  <2>1. UNCHANGED <<answer, cache, forgot, wrote, signals, conn, accepted, warned, lost>>
    BY <1>1 DEF Push, receiverVars
  <2>2. head' = head + 1 /\ head < MaxPush /\ head \in Nat
    BY <1>0, <1>1, WebhookConstants DEF Push, Typed
  <2>3. Later
    BY <2>1, <2>2, <1>0, WebhookConstants DEF Later, Typed
  <2> QED  BY <1>0, <1>s, <2>1, <2>3, FilesMove DEF Typed
<1>2. CASE \/ UNCHANGED vars
           \/ \E s \in Services : Reset(s) \/ BayUp(s)
           \/ \E u \in HomeUnits : \/ PullRun(u) \/ Fetch(u) \/ Build(u) \/ LockTimeout(u) \/ Killed(u)
                                   \/ \E h \in BOOLEAN : BuildFails(u, h)
  <2>1. UNCHANGED <<answer, cache, forgot, wrote, signals, conn, accepted, lost, head>>
        /\ warned \subseteq warned'
    BY <1>2 DEF vars, Reset, BayUp, PullRun, Fetch, Build, LockTimeout, Killed, BuildFails, Drop,
                repoVars, receiverVars
  <2>2. Later
    BY <2>1, <1>0, WebhookConstants DEF Later, Typed
  <2> QED  BY <1>0, <1>s, <2>1, <2>2, FilesMove DEF Typed
<1>3. CASE \E u \in HomeUnits : Consume(u) \/ Blocked(u)
  <2>1. PICK u \in HomeUnits : Taking(u)
    BY <1>3 DEF Consume, Blocked
  <2>2. UNCHANGED <<answer, cache, forgot, wrote, signals, accepted, lost, head>>
        /\ warned \subseteq warned'
    BY <1>3 DEF Consume, Blocked, Drop, repoVars
  <2>3. Later
    BY <2>2, <1>0, WebhookConstants DEF Later, Typed
  <2> QED  BY <1>0, <2>1, <2>2, <2>3, TakingMoves, FilesMove DEF Typed
<1> QED  BY <1>1, <1>2, <1>3 DEF Next, Rebuild, Fault, Outside

LEMMA RInvNext == ASSUME RInv, [Next]_vars PROVE RInv'
<1>1. ASSUME NEW c \in Conns, Handle(c) PROVE RInv'
  BY <1>1, SkipSeenKeeps, NotHereKeeps, KeepWaitingKeeps, OpenTriggerKeeps, WriteKeeps,
     ForwardKeeps, RespondKeeps DEF Handle
<1>2. ASSUME NEW c \in Conns, OpenFails(c) \/ ForwardFails(c) PROVE RInv'
  BY <1>2, OpenFailsKeeps, ForwardFailsKeeps
<1>3. ASSUME NEW b \in Boxes, Restart(b) PROVE RInv'
  BY <1>3, RestartKeeps
<1>4. ASSUME NEW p \in Pushes, NEW h \in Hooks, Post(p, h) PROVE RInv'
  BY <1>4, PostKeeps
<1>5. CASE PullImage
  BY <1>5, PullImageKeeps
<1> QED  BY <1>1, <1>2, <1>3, <1>4, <1>5, BuildsKeep

LEMMA HeardFollows == ASSUME OneHook, RInv PROVE OkMeansHeard
<1> SUFFICES ASSUME NEW p \in Pushes, NEW h \in Hooks, answer[<<p, h>>] = "ok",
                    NEW s \in Group(h), NEW b \in Boxes, b \in In[s]
             PROVE  \/ accepted[<<b, s>>] >= p \/ <<b, s>> \in warned
                    \/ {<<<<b, s>>, p>>, <<<<Home, s>>, p>>} \cap lost # {}
  BY DEF OkMeansHeard
<1>1. Done(b, s, p)
  BY DEF RInv, Answered, GroupDone, AllDone
<1> QED  BY <1>1 DEF Done

(* OkMeansHeard holds of every behaviour, where GitHub has one hook for a      *)
(* repository: a push answered with 200 has a trigger in every region of every *)
(* service of its group, or somebody was told.                                 *)
THEOREM OkIsHeard == ASSUME OneHook PROVE Spec => []OkMeansHeard
<1>1. Init => RInv
  BY RInvInit
<1>2. RInv /\ [Next]_vars => RInv'
  BY RInvNext
<1>3. RInv => OkMeansHeard
  BY HeardFollows
<1> QED  BY <1>1, <1>2, <1>3, PTL DEF Spec

-----------------------------------------------------------------------------
(* A delivery opens a trigger once.                                            *)

(* A request that was let in for a delivery of a unit, and has not opened its  *)
(* trigger yet.                                                                *)
LetIn(c, u, p) ==
    /\ conn[c].kind = "push" /\ conn[c].at = "target" /\ conn[c].url /\ conn[c].todo # <<>>
    /\ <<conn[c].box, Head(conn[c].todo)>> = u /\ conn[c].push = p
Promised(u, p) == {c \in Conns : LetIn(c, u, p)}
SeenOnce(u, p) == IF Seen(u[1], <<p, u[2]>>) THEN 1 ELSE 0
Counted ==
    \A u \in Units, p \in Pushes :
        wrote[u][p] + Cardinality(Promised(u, p)) <= forgot[u[1]] + SeenOnce(u, p)

(* A receiver forgets no delivery without counting it.                         *)
Counts == \A b \in Boxes : /\ forgot'[b] >= forgot[b]
                           /\ \A k \in Keys : Seen(b, k) => Seen(b, k)' \/ forgot'[b] >= forgot[b] + 1

LEMMA PromisedIsFinite ==
    ASSUME NEW u, NEW p
    PROVE  IsFiniteSet(Promised(u, p)) /\ Cardinality(Promised(u, p)) \in Nat
<1>1. Promised(u, p) \subseteq Conns
  BY DEF Promised
<1> QED  BY <1>1, FS_Subset, FS_CardinalityType, WebhookConstants

LEMMA CountOne ==
    ASSUME Typed, Typed', Counted, Counts, NEW u \in Units, NEW p \in Pushes,
           \/ wrote'[u][p] = wrote[u][p] /\ Promised(u, p)' \subseteq Promised(u, p)
           \/ /\ wrote'[u][p] = wrote[u][p]
              /\ \E n : Promised(u, p)' \subseteq Promised(u, p) \union {n}
              /\ ~Seen(u[1], <<p, u[2]>>) /\ Seen(u[1], <<p, u[2]>>)'
           \/ /\ wrote'[u][p] = wrote[u][p] + 1
              /\ \E c \in Promised(u, p) : Promised(u, p)' \subseteq Promised(u, p) \ {c}
           \/ /\ wrote'[u][p] = wrote[u][p] + 1 /\ Promised(u, p)' \subseteq Promised(u, p)
              /\ ~Seen(u[1], <<p, u[2]>>) /\ Seen(u[1], <<p, u[2]>>)'
    PROVE  wrote'[u][p] + Cardinality(Promised(u, p)') <= forgot'[u[1]] + SeenOnce(u, p)'
<1> PICK b \in Boxes, s \in Services : u = <<b, s>>
  BY DEF Units
<1>0. u[1] = b /\ u[2] = s /\ <<p, s>> \in Keys
  BY DEF Keys
<1>1. /\ wrote[u][p] \in Nat /\ wrote'[u][p] \in Nat /\ forgot[b] \in Nat /\ forgot'[b] \in Nat
  BY DEF Typed
<1> PICK old : old = Promised(u, p)
  OBVIOUS
<1> PICK new : new = Promised(u, p)'
  OBVIOUS
<1>2. /\ IsFiniteSet(old) /\ Cardinality(old) \in Nat
  BY PromisedIsFinite
<1>3. IsFiniteSet(new) /\ Cardinality(new) \in Nat
  <2>1. new \subseteq Conns
    BY DEF Promised
  <2> QED  BY <2>1, FS_Subset, FS_CardinalityType, WebhookConstants
<1> PICK seen : seen = (IF Seen(b, <<p, s>>) THEN 1 ELSE 0)
  OBVIOUS
<1> PICK seenl : seenl = (IF Seen(b, <<p, s>>)' THEN 1 ELSE 0)
  OBVIOUS
<1>4. wrote[u][p] + Cardinality(old) <= forgot[b] + seen
  BY <1>0 DEF Counted, SeenOnce
<1>5. seen \in {0, 1} /\ seenl \in {0, 1} /\ forgot'[b] >= forgot[b]
      /\ (seen = 1 => seenl = 1 \/ forgot'[b] >= forgot[b] + 1)
  BY <1>0 DEF Counts
<1>6. SeenOnce(u, p)' = seenl
  BY <1>0 DEF SeenOnce
<1>7. CASE wrote'[u][p] = wrote[u][p] /\ new \subseteq old
  <2>1. Cardinality(new) <= Cardinality(old)
    BY <1>2, <1>7, FS_Subset
  <2> QED  BY <2>1, <1>0, <1>1, <1>2, <1>3, <1>4, <1>5, <1>6, <1>7
<1>8. CASE /\ wrote'[u][p] = wrote[u][p]
           /\ \E n : new \subseteq old \union {n}
           /\ ~Seen(b, <<p, s>>) /\ Seen(b, <<p, s>>)'
  <2> PICK n : new \subseteq old \union {n}
    BY <1>8
  <2>1. IsFiniteSet(old \union {n}) /\ Cardinality(old \union {n}) \in Nat
        /\ Cardinality(old \union {n}) <= Cardinality(old) + 1
    <3>1. CASE n \in old
      <4>1. old \union {n} = old
        BY <3>1
      <4>2. Cardinality(old) <= Cardinality(old) + 1
        BY ONLY <1>2
      <4> QED  BY <4>1, <4>2, <1>2
    <3>2. CASE n \notin old
      <4>1. IsFiniteSet(old \union {n}) /\ Cardinality(old \union {n}) = Cardinality(old) + 1
        BY <1>2, <3>2, FS_AddElement
      <4> QED  BY <4>1, <1>2
    <3> QED  BY <3>1, <3>2
  <2>2. Cardinality(new) <= Cardinality(old \union {n})
    BY <2>1, FS_Subset
  <2>3. seen = 0 /\ seenl = 1
    BY <1>8
  <2> QED  BY <2>1, <2>2, <2>3, <1>0, <1>1, <1>2, <1>3, <1>4, <1>5, <1>6, <1>8
<1>9. CASE /\ wrote'[u][p] = wrote[u][p] + 1
           /\ \E c \in old : new \subseteq old \ {c}
  <2> PICK c \in old : new \subseteq old \ {c}
    BY <1>9
  <2>1. IsFiniteSet(old \ {c}) /\ Cardinality(old \ {c}) = Cardinality(old) - 1
    BY <1>2, FS_RemoveElement
  <2>2. Cardinality(new) <= Cardinality(old \ {c})
    BY <2>1, FS_Subset
  <2> QED  BY <2>1, <2>2, <1>0, <1>1, <1>2, <1>3, <1>4, <1>5, <1>6, <1>9
<1>10. CASE /\ wrote'[u][p] = wrote[u][p] + 1 /\ new \subseteq old
            /\ ~Seen(b, <<p, s>>) /\ Seen(b, <<p, s>>)'
  <2>1. Cardinality(new) <= Cardinality(old)
    BY <1>2, <1>10, FS_Subset
  <2>2. seen = 0 /\ seenl = 1
    BY <1>10
  <2> QED  BY <2>1, <2>2, <1>0, <1>1, <1>2, <1>3, <1>4, <1>5, <1>6, <1>10
<1> QED  BY <1>0, <1>7, <1>8, <1>9, <1>10

(* A step that lets nothing new in at a connection.                            *)
Calm(c) == \A u \in Units, p \in Pushes : LetIn(c, u, p)' => LetIn(c, u, p)

LEMMA CountsOn ==
    ASSUME Typed, Typed', Counted, Counts, wrote' = wrote, \A c \in Conns : Calm(c)
    PROVE  Counted'
<1>1. \A u \in Units, p \in Pushes : Promised(u, p)' \subseteq Promised(u, p)
  BY DEF Promised, Calm
<1> SUFFICES ASSUME NEW u \in Units, NEW p \in Pushes
             PROVE  wrote'[u][p] + Cardinality(Promised(u, p)') <= forgot'[u[1]] + SeenOnce(u, p)'
  BY DEF Counted
<1>2. wrote'[u][p] = wrote[u][p] /\ Promised(u, p)' \subseteq Promised(u, p)
  BY <1>1
<1> QED  BY <1>2, CountOne

LEMMA CalmSame == ASSUME NEW c \in Conns, conn'[c] = conn[c] PROVE Calm(c)
BY DEF Calm, LetIn

LEMMA CalmOut ==
    ASSUME NEW c \in Conns, conn'[c].at # "target" \/ conn'[c].url = FALSE \/ conn'[c].kind # "push"
    PROVE  Calm(c)
BY DEF Calm, LetIn

LEMMA CalmLike ==
    ASSUME NEW c \in Conns,
           conn'[c].kind = conn[c].kind, conn'[c].at = conn[c].at, conn'[c].url = conn[c].url,
           conn'[c].todo = conn[c].todo, conn'[c].box = conn[c].box, conn'[c].push = conn[c].push
    PROVE  Calm(c)
BY DEF Calm, LetIn

LEMMA CalmOrphan ==
    ASSUME Typed, NEW c \in Conns, conn'[c] = [conn[c] EXCEPT !.client = 0]
    PROVE  Calm(c)
<1>1. DOMAIN conn[c] = ConnFields
  BY DEF Typed, RequestOK
<1> PICK old : old = conn[c]
  OBVIOUS
<1> PICK q : q = conn'[c]
  OBVIOUS
<1>2. q = [old EXCEPT !.client = 0] /\ DOMAIN old = ConnFields
  BY <1>1
<1>3. /\ q.kind = old.kind /\ q.at = old.at /\ q.url = old.url
      /\ q.todo = old.todo /\ q.box = old.box /\ q.push = old.push
  BY ONLY <1>2, FieldsAre
<1> QED  BY <1>3, CalmLike

LEMMA CalmFree == ASSUME NEW c \in Conns, conn'[c] = NoConn PROVE Calm(c)
<1>1. conn'[c].at = "free"
  BY FreeIs
<1> QED  BY <1>1, CalmOut

LEMMA CalmOnward ==
    ASSUME NEW c \in Conns, NEW r, DOMAIN r = ConnFields, conn'[c] = Onward(r) \/ conn'[c] = Heard(r)
    PROVE  Calm(c)
<1> PICK q : q = conn'[c]
  OBVIOUS
<1>1. ASSUME NEW x, DOMAIN x = ConnFields, q = Onward(x)
      PROVE  q.at = "forward" \/ q.url = FALSE
  BY ONLY <1>1, OnwardIs
<1>2. CASE q = Onward(r)
  BY <1>1, <1>2, CalmOut
<1>3. CASE q = Heard(r)
  <2> PICK x : x = [r EXCEPT !.peers = @ \ {CHOOSE b \in r.peers : TRUE}]
    OBVIOUS
  <2>1. DOMAIN x = ConnFields
    OBVIOUS
  <2>2. q = Onward(x)
    BY <1>3 DEF Heard
  <2> QED  BY <1>1, <2>1, <2>2, CalmOut
<1> QED  BY <1>2, <1>3

LEMMA CacheKeptCounts == ASSUME Typed, UNCHANGED <<cache, forgot>> PROVE Counts
<1>1. \A b \in Boxes : forgot[b] \in Nat
  BY DEF Typed
<1> QED  BY <1>1 DEF Counts, Seen

LEMMA RememberCounts ==
    ASSUME Typed, NEW b \in Boxes, NEW key \in Keys, Remember(b, key)
    PROVE  Counts /\ Seen(b, key)'
<1>1. /\ \A x \in Boxes \ {b} : cache'[x] = cache[x] /\ forgot'[x] = forgot[x]
      /\ forgot'[b] >= forgot[b] /\ Seen(b, key)'
      /\ \A k : Seen(b, k) => Seen(b, k)' \/ forgot'[b] >= forgot[b] + 1
  BY Remembers
<1>2. \A x \in Boxes : forgot[x] \in Nat
  BY DEF Typed
<1>3. \A x \in Boxes \ {b} : \A k : Seen(x, k) => Seen(x, k)'
  BY <1>1 DEF Seen
<1> QED  BY <1>1, <1>2, <1>3 DEF Counts

(* The key a sibling is looked up under.                                       *)
LEMMA SiblingIs ==
    ASSUME Typed, Requests, NEW c \in Conns, Handling(c), Sibling(c)
    PROVE  Key(c) \in Keys /\ conn[c].box \in Boxes /\ conn[c].push \in Pushes
<1>1. RequestAt(c) /\ RequestOK(conn[c]) /\ conn[c].todo # <<>> /\ conn[c].at = "target"
      /\ conn[c].kind = "push" /\ ~conn[c].url
  BY DEF Requests, Handling, Sibling, At, Typed
<1>2. conn[c].push \in 1..head
  BY <1>1 DEF RequestAt, IsMain, IsFwd, FwdAt, MainAt
<1>3. conn[c].push \in Pushes
  BY <1>2, WebhookConstants DEF Typed, Pushes
<1>4. Target(c) \in Services
  BY <1>1, ElemsOfTail DEF RequestOK, Target
<1> QED  BY <1>1, <1>3, <1>4 DEF Key, Keys, RequestOK

LEMMA LookUpCounts ==
    ASSUME Typed, Requests, NEW c \in Conns, Handling(c), LookUp(c),
           NEW b, b = conn[c].box, NEW k, k = Key(c)
    PROVE  Counts /\ (Sibling(c) => b \in Boxes /\ k \in Keys /\ Seen(b, k)')
<1>1. CASE Sibling(c)
  <2>1. b \in Boxes /\ k \in Keys /\ Remember(b, k)
    BY <1>1, SiblingIs DEF LookUp
  <2> QED  BY <2>1, RememberCounts
<1>2. CASE ~Sibling(c)
  BY <1>2, CacheKeptCounts DEF LookUp
<1> QED  BY <1>1, <1>2

LEMMA SkipSeenCounts == ASSUME RInv, Typed', Counted, NEW c \in Conns, SkipSeen(c) PROVE Counted'
<1>0. Typed /\ Requests
  BY DEF RInv
<1>1. Handling(c) /\ LookUp(c) /\ Sibling(c) /\ wrote' = wrote
      /\ conn' = [conn EXCEPT ![c] = [conn[c] EXCEPT !.todo = Tail(conn[c].todo)]]
  BY DEF SkipSeen, Taken
<1>2. Counts
  BY <1>0, <1>1, LookUpCounts
<1>3. conn[c].url = FALSE /\ DOMAIN conn[c] = ConnFields /\ DOMAIN conn = Conns
  BY <1>0, <1>1 DEF Sibling, Typed, RequestOK
<1>4. conn'[c].url = FALSE /\ \A d \in Conns \ {c} : conn'[d] = conn[d]
  BY <1>1, <1>3, FieldsAre
<1>5. \A d \in Conns : Calm(d)
  BY <1>4, CalmOut, CalmSame
<1> QED  BY <1>0, <1>1, <1>2, <1>5, CountsOn

(* The steps that only take a request onward.                                  *)
LEMMA OnwardCounts ==
    ASSUME RInv, Typed', Counted, NEW c \in Conns, NotHere(c) \/ KeepWaiting(c) \/ Write(c)
    PROVE  Counted'
<1>0. Typed /\ Requests
  BY DEF RInv
<1>1. Counts /\ wrote' = wrote
  <2>1. CASE NotHere(c) \/ KeepWaiting(c)
    <3>1. Handling(c) /\ LookUp(c) /\ wrote' = wrote
      BY <2>1 DEF NotHere, KeepWaiting
    <3> QED  BY <3>1, <1>0, LookUpCounts
  <2>2. CASE Write(c)
    BY <2>2, <1>0, CacheKeptCounts DEF Write
  <2> QED  BY <2>1, <2>2
<1>2. \E r : DOMAIN r = ConnFields /\ conn' = [conn EXCEPT ![c] = Onward(r)]
  <2>1. CASE NotHere(c)
    <3> PICK r : r = Routed(c, FALSE)
      OBVIOUS
    <3>1. conn' = [conn EXCEPT ![c] = Onward(r)]
      BY <2>1 DEF NotHere
    <3>2. DOMAIN r = ConnFields
      BY <1>0, RoutedIs
    <3> QED  BY <3>1, <3>2
  <2>2. CASE KeepWaiting(c)
    <3> PICK r : r = Routed(c, TRUE)
      OBVIOUS
    <3>1. conn' = [conn EXCEPT ![c] = Onward(r)]
      BY <2>2 DEF KeepWaiting
    <3>2. DOMAIN r = ConnFields
      BY <1>0, RoutedIs
    <3> QED  BY <3>1, <3>2
  <2>3. CASE Write(c)
    <3>1. conn' = [conn EXCEPT ![c] = Onward(conn[c])]
      BY <2>3 DEF Write
    <3>2. DOMAIN conn[c] = ConnFields
      BY <1>0 DEF Typed, RequestOK
    <3> QED  BY <3>1, <3>2
  <2> QED  BY <2>1, <2>2, <2>3
<1> PICK r : DOMAIN r = ConnFields /\ conn' = [conn EXCEPT ![c] = Onward(r)]
  BY <1>2
<1>3. conn'[c] = Onward(r) /\ \A d \in Conns \ {c} : conn'[d] = conn[d]
  BY <1>0 DEF Typed
<1>4. \A d \in Conns : Calm(d)
  BY <1>3, CalmOnward, CalmSame
<1> QED  BY <1>0, <1>1, <1>4, CountsOn

LEMMA OpenTriggerCounts ==
    ASSUME RInv, Typed', Counted, NEW c \in Conns, OpenTrigger(c)
    PROVE  Counted'
<1>0. Typed /\ Requests
  BY DEF RInv
<1>1. /\ Handling(c) /\ ~Taken(c) /\ LookUp(c)
      /\ conn' = [conn EXCEPT ![c] = [Routed(c, TRUE) EXCEPT !.at = "write", !.fd = "trigger"]]
      /\ wrote' = IF conn[c].kind = "push"
                    THEN [wrote EXCEPT ![Unit(c)][conn[c].push] = @ + 1] ELSE wrote
  BY DEF OpenTrigger, Opens
<1> PICK b : b = conn[c].box
  OBVIOUS
<1> PICK k : k = Key(c)
  OBVIOUS
<1>2. Counts /\ (Sibling(c) => b \in Boxes /\ k \in Keys /\ Seen(b, k)')
  BY <1>0, <1>1, LookUpCounts
<1>3. conn'[c].at = "write" /\ \A d \in Conns \ {c} : conn'[d] = conn[d]
  <2> PICK r : r = Routed(c, TRUE)
    OBVIOUS
  <2> PICK q : q = conn'[c]
    OBVIOUS
  <2>1. q = [r EXCEPT !.at = "write", !.fd = "trigger"] /\ \A d \in Conns \ {c} : conn'[d] = conn[d]
    BY <1>0, <1>1 DEF Typed
  <2>2. DOMAIN r = ConnFields
    BY <1>0, RoutedIs
  <2> QED  BY <2>1, <2>2, FieldsAre
<1>4. \A d \in Conns : Calm(d)
  BY <1>3, CalmOut, CalmSame
<1>5. CASE conn[c].kind # "push"
  BY <1>0, <1>1, <1>2, <1>4, <1>5, CountsOn
<1>6. CASE conn[c].kind = "push"
  <2>1. /\ conn[c].at = "target" /\ conn[c].todo # <<>> /\ RequestAt(c) /\ RequestOK(conn[c])
        /\ b \in Boxes /\ conn[c].kind = "push"
    BY <1>0, <1>1, <1>6 DEF Handling, At, Typed, Requests, RequestOK
  <2> PICK s : s = Target(c)
    OBVIOUS
  <2> PICK p : p = conn[c].push
    OBVIOUS
  <2> PICK u : u = <<b, s>>
    OBVIOUS
  <2>2. s \in Services /\ p \in Pushes /\ u \in Units /\ k = <<p, s>>
    <3>1. p \in 1..head
      BY <2>1 DEF RequestAt, IsMain, IsFwd, MainAt, FwdAt
    <3>2. p \in Pushes
      BY <3>1, <1>0, WebhookConstants DEF Typed, Pushes
    <3>3. s \in Services
      BY <2>1, ElemsOfTail DEF RequestOK, Target
    <3> QED  BY <2>1, <3>2, <3>3 DEF Units, Key
  <2>3. /\ wrote' = [wrote EXCEPT ![u][p] = @ + 1]
    BY <1>1, <1>6 DEF Unit
  <2>4. /\ wrote'[u][p] = wrote[u][p] + 1
        /\ \A v \in Units, q \in Pushes : v # u \/ q # p => wrote'[v][q] = wrote[v][q]
    <3>1. wrote \in [Units -> [Pushes -> Nat]]
      BY <1>0 DEF Typed
    <3> QED  BY ONLY <2>2, <2>3, <3>1
  <2>5. \A v \in Units, q \in Pushes : Promised(v, q)' \subseteq Promised(v, q)
    BY <1>4 DEF Promised, Calm
  <2>6. ASSUME NEW v \in Units, NEW q \in Pushes, v # u \/ q # p
        PROVE  wrote'[v][q] + Cardinality(Promised(v, q)') <= forgot'[v[1]] + SeenOnce(v, q)'
    <3>1. wrote'[v][q] = wrote[v][q] /\ Promised(v, q)' \subseteq Promised(v, q)
      BY <2>4, <2>5, <2>6
    <3> QED  BY <3>1, <1>0, <1>2, CountOne
  <2>7. wrote'[u][p] + Cardinality(Promised(u, p)') <= forgot'[u[1]] + SeenOnce(u, p)'
    <3>1. CASE conn[c].url
      <4>1. c \in Promised(u, p)
        BY <2>1, <3>1 DEF Promised, LetIn, Target
      <4>2. c \notin Promised(u, p)'
        BY <1>3 DEF Promised, LetIn
      <4>3. \E d \in Promised(u, p) : Promised(u, p)' \subseteq Promised(u, p) \ {d}
        BY <4>1, <4>2, <2>2, <2>5
      <4> QED  BY <4>3, <2>2, <2>4, <1>0, <1>2, CountOne
    <3>2. CASE ~conn[c].url
      <4>1. Sibling(c)
        BY <3>2, <1>6 DEF Sibling
      <4>2. ~Seen(b, k) /\ Seen(b, k)'
        BY <4>1, <1>1, <1>2 DEF Taken
      <4>3. u[1] = b /\ <<p, u[2]>> = k
        BY <2>2
      <4>4. ~Seen(u[1], <<p, u[2]>>) /\ Seen(u[1], <<p, u[2]>>)'
        BY <4>2, <4>3 DEF Seen
      <4>5. Promised(u, p)' \subseteq Promised(u, p)
        BY <2>2, <2>5
      <4> QED  BY <4>4, <4>5, <2>2, <2>4, <1>0, <1>2, CountOne
    <3> QED  BY <3>1, <3>2
  <2> QED  BY <2>6, <2>7 DEF Counted
<1> QED  BY <1>5, <1>6

LEMMA OpenFailsCounts ==
    ASSUME RInv, Typed', Counted, NEW c \in Conns, OpenFails(c)
    PROVE  Counted'
<1>0. Typed /\ Requests
  BY DEF RInv
<1> PICK todo : todo = IF Isolated(c) THEN Tail(conn[c].todo) ELSE <<>>
  OBVIOUS
<1> PICK bad : bad = (conn[c].urlFailed \/ conn[c].url)
  OBVIOUS
<1>1. /\ Handling(c) /\ LookUp(c) /\ wrote' = wrote
      /\ conn' = [conn EXCEPT ![c] = [conn[c] EXCEPT !.todo = todo, !.urlFailed = bad, !.url = FALSE]]
  BY DEF OpenFails, Opens
<1>2. Counts
  BY <1>0, <1>1, LookUpCounts
<1>3. conn'[c].url = FALSE /\ \A d \in Conns \ {c} : conn'[d] = conn[d]
  <2>1. DOMAIN conn[c] = ConnFields /\ DOMAIN conn = Conns
    BY <1>0 DEF Typed, RequestOK
  <2> QED  BY <1>1, <2>1, FieldsAre
<1>4. \A d \in Conns : Calm(d)
  BY <1>3, CalmOut, CalmSame
<1> QED  BY <1>0, <1>1, <1>2, <1>4, CountsOn

(* A delivery is let in, and remembered, at once.                              *)
LEMMA LetInCounts ==
    ASSUME Typed, Typed', Counted, wrote' = wrote, NEW b \in Boxes, NEW s \in Services,
           NEW p \in Pushes, Remember(b, <<p, s>>), ~Seen(b, <<p, s>>), NEW n \in Conns,
           \A u \in Units, q \in Pushes : LetIn(n, u, q)' => u = <<b, s>> /\ q = p,
           \A c \in Conns \ {n} : Calm(c)
    PROVE  Counted'
<1> PICK key : key = <<p, s>>
  OBVIOUS
<1>1. Counts /\ Seen(b, key)'
  <2>1. key \in Keys /\ Remember(b, key)
    BY DEF Keys
  <2> QED  BY <2>1, RememberCounts
<1> SUFFICES ASSUME NEW u \in Units, NEW q \in Pushes
             PROVE  wrote'[u][q] + Cardinality(Promised(u, q)') <= forgot'[u[1]] + SeenOnce(u, q)'
  BY DEF Counted
<1>2. CASE u = <<b, s>> /\ q = p
  <2>1. u[1] = b /\ <<q, u[2]>> = key
    BY <1>2
  <2>2. ~Seen(u[1], <<q, u[2]>>) /\ Seen(u[1], <<q, u[2]>>)'
    BY <1>1, <2>1 DEF Seen
  <2>3. Promised(u, q)' \subseteq Promised(u, q) \union {n}
    BY DEF Promised, Calm
  <2>4. \E m : Promised(u, q)' \subseteq Promised(u, q) \union {m}
    BY <2>3
  <2>5. wrote'[u][q] = wrote[u][q]
    OBVIOUS
  <2> QED  BY <2>2, <2>4, <2>5, <1>1, CountOne
<1>3. CASE ~(u = <<b, s>> /\ q = p)
  <2>1. Promised(u, q)' \subseteq Promised(u, q)
    BY <1>3 DEF Promised, Calm
  <2>2. wrote'[u][q] = wrote[u][q]
    OBVIOUS
  <2> QED  BY <2>1, <2>2, <1>1, CountOne
<1> QED  BY <1>2, <1>3

LEMMA PostCounts ==
    ASSUME RInv, Typed', Counted, NEW p \in Pushes, NEW h \in Hooks, Post(p, h)
    PROVE  Counted'
<1>0. Typed /\ Requests
  BY DEF RInv
<1>1. Free # {} /\ Remember(Home, <<p, h>>) /\ wrote' = wrote /\ h \in Services /\ Home \in Boxes
  BY WebhookConstants DEF Post
<1> PICK key : key = <<p, h>>
  OBVIOUS
<1>2. CASE Seen(Home, <<p, h>>)
  <2>1. conn' = conn
    BY <1>2 DEF Post
  <2>2. \A d \in Conns : Calm(d)
    BY <2>1, CalmSame
  <2>3. key \in Keys /\ Remember(Home, key)
    BY <1>1 DEF Keys
  <2>4. Counts
    BY <1>0, <1>1, <2>3, RememberCounts
  <2> QED  BY <1>0, <1>1, <2>2, <2>4, CountsOn
<1>3. CASE ~Seen(Home, <<p, h>>)
  <2> PICK n : n = Lowest(Free)
    OBVIOUS
  <2> PICK todo : todo = <<h>> \o Siblings[h]
    OBVIOUS
  <2> PICK q : q = Request(Home, p, "push", FALSE, todo, 0)
    BY DEF Request
  <2>1. conn' = [conn EXCEPT ![n] = q] /\ n \in Conns
    BY <1>1, <1>3, FreeConn DEF Post
  <2>2. conn'[n] = q /\ \A d \in Conns \ {n} : conn'[d] = conn[d]
    BY <1>0, <2>1 DEF Typed
  <2>3. q.box = Home /\ q.push = p /\ q.todo = todo
    BY FieldsAre DEF Request, NoConn
  <2>4. Head(todo) = h
    BY GroupIsServices
  <2>5. \A u \in Units, x \in Pushes : LetIn(n, u, x)' => u = <<Home, h>> /\ x = p
    BY <2>2, <2>3, <2>4 DEF LetIn
  <2>6. \A d \in Conns \ {n} : Calm(d)
    BY <2>2, CalmSame
  <2> QED  BY <1>0, <1>1, <1>3, <2>1, <2>5, <2>6, LetInCounts
<1> QED  BY <1>2, <1>3

LEMMA PullImageCounts == ASSUME RInv, Typed', Counted, PullImage PROVE Counted'
<1>0. Typed
  BY DEF RInv
<1> PICK n : n = Lowest(Free)
  OBVIOUS
<1> PICK q : q = Request(Home, signals + 1, "pull", TRUE, ImageMap, 0)
  OBVIOUS
<1>1. /\ conn' = [conn EXCEPT ![n] = q] /\ n \in Conns /\ UNCHANGED <<wrote, cache, forgot>>
  BY FreeConn DEF PullImage
<1>2. conn'[n] = q /\ \A d \in Conns \ {n} : conn'[d] = conn[d]
  BY <1>0, <1>1 DEF Typed
<1>3. q.kind # "push"
  BY FieldsAre DEF Request, NoConn
<1>4. \A d \in Conns : Calm(d)
  BY <1>1, <1>2, <1>3, CalmOut, CalmSame
<1> QED  BY <1>0, <1>1, <1>4, CacheKeptCounts, CountsOn

LEMMA ForwardCounts ==
    ASSUME RInv, Typed', Counted, NEW c \in Conns, Forward(c)
    PROVE  Counted'
<1>0. Typed /\ Requests
  BY DEF RInv
<1> PICK t : t = Target(c)
  OBVIOUS
<1> PICK p : p = conn[c].push
  OBVIOUS
<1> PICK b : b = Peer(c)
  OBVIOUS
<1>1. /\ conn[c].at = "forward" /\ conn[c].peers # {} /\ Free # {} /\ Remember(b, <<p, t>>)
      /\ wrote' = wrote
  BY DEF Forward, At, Key
<1>2. IsMain(c) /\ MainAt(c) /\ RequestOK(conn[c]) /\ conn[c].todo # <<>>
  BY <1>0, <1>1, KindsOf DEF Requests, RequestAt, Typed, RequestOK
<1>3. t \in Services /\ p \in Pushes /\ b \in Boxes
  <2>1. conn[c].todo \in Seq(Services) /\ conn[c].todo # <<>> /\ t = Head(conn[c].todo)
    BY <1>2 DEF RequestOK, Target
  <2>2. t \in Services
    BY <2>1, ElemsOfTail
  <2>3. p \in Pushes
    BY <1>0, <1>2, WebhookConstants DEF MainAt, Typed, Pushes
  <2>4. b \in In[t]
    BY <1>1, <1>2 DEF Peer, MainAt, Target
  <2> QED  BY <2>2, <2>3, <2>4, InBoxes
<1> PICK key : key = <<p, t>>
  OBVIOUS
<1>4. CASE Seen(b, <<p, t>>)
  <2> PICK flag : flag = (conn[c].ok \/ Sibling(c))
    OBVIOUS
  <2> PICK r : r = [conn[c] EXCEPT !.ok = flag]
    OBVIOUS
  <2>1. conn' = [conn EXCEPT ![c] = Heard(r)]
    BY <1>4 DEF Forward, Key
  <2>2. DOMAIN r = ConnFields
    BY <1>2 DEF RequestOK
  <2>3. conn'[c] = Heard(r) /\ \A d \in Conns \ {c} : conn'[d] = conn[d]
    BY <2>1, <1>0 DEF Typed
  <2>4. \A d \in Conns : Calm(d)
    BY <2>2, <2>3, CalmOnward, CalmSame
  <2>5. key \in Keys /\ Remember(b, key)
    BY <1>1, <1>3 DEF Keys
  <2>6. Counts
    BY <1>0, <1>3, <2>5, RememberCounts
  <2> QED  BY <1>0, <1>1, <2>4, <2>6, CountsOn
<1>5. CASE ~Seen(b, <<p, t>>)
  <2> PICK n : n = Lowest(Free)
    OBVIOUS
  <2> PICK todo : todo = <<t>>
    OBVIOUS
  <2> PICK q : q = Request(b, p, "push", TRUE, todo, c)
    BY DEF Request
  <2>1. /\ conn' = [conn EXCEPT ![c].at = "await", ![n] = q]
        /\ n \in Conns /\ conn[n].at = "free"
    BY <1>1, <1>5, FreeConn DEF Forward, Key
  <2>2. n # c /\ DOMAIN conn = Conns /\ DOMAIN conn[c] = ConnFields
    BY <1>0, <1>1, <2>1 DEF Typed, RequestOK
  <2> PICK w : w = [conn[c] EXCEPT !.at = "await"]
    OBVIOUS
  <2>3. conn'[n] = q /\ conn'[c] = w /\ \A d \in Conns \ {n, c} : conn'[d] = conn[d]
    BY <2>1, <2>2
  <2>4. q.box = b /\ q.push = p /\ q.todo = todo
    BY FieldsAre DEF Request, NoConn
  <2>5. w.at = "await"
    BY <2>2, FieldsAre
  <2>h. Head(todo) = t
    BY JustOne
  <2>6. \A u \in Units, x \in Pushes : LetIn(n, u, x)' => u = <<b, t>> /\ x = p
    <3> SUFFICES ASSUME NEW u \in Units, NEW x \in Pushes, LetIn(n, u, x)'
                 PROVE  u = <<b, t>> /\ x = p
      OBVIOUS
    <3>1. <<conn'[n].box, Head(conn'[n].todo)>> = u /\ conn'[n].push = x
      BY DEF LetIn
    <3> QED  BY ONLY <2>3, <2>4, <2>h, <3>1
  <2>7. \A d \in Conns \ {n} : Calm(d)
    <3>1. Calm(c)
      BY <2>3, <2>5, CalmOut
    <3>2. \A d \in Conns \ {n, c} : Calm(d)
      BY <2>3, CalmSame
    <3> QED  BY <3>1, <3>2
  <2> QED  BY <1>0, <1>1, <1>3, <1>5, <2>1, <2>6, <2>7, LetInCounts
<1> QED  BY <1>4, <1>5

LEMMA ForwardFailsCounts ==
    ASSUME RInv, Typed', Counted, NEW c \in Conns, ForwardFails(c)
    PROVE  Counted'
<1>0. Typed /\ Requests
  BY DEF RInv
<1>1. /\ UNCHANGED <<wrote, cache, forgot>>
      /\ conn' = [d \in Conns |->
             IF d = c THEN Heard(conn[c])
             ELSE IF conn[d].client = c THEN [conn[d] EXCEPT !.client = 0] ELSE conn[d]]
  BY DEF ForwardFails
<1>2. ASSUME NEW d \in Conns PROVE Calm(d)
  <2>1. CASE d = c
    <3>1. conn'[c] = Heard(conn[c]) /\ DOMAIN conn[c] = ConnFields
      BY <1>0, <1>1 DEF Typed, RequestOK
    <3> QED  BY <2>1, <3>1, CalmOnward
  <2>2. CASE d # c /\ conn[d].client = c
    <3>1. conn'[d] = [conn[d] EXCEPT !.client = 0]
      BY <1>1, <2>2
    <3> QED  BY <3>1, <1>0, CalmOrphan
  <2>3. CASE d # c /\ conn[d].client # c
    BY <1>1, <2>3, CalmSame
  <2> QED  BY <2>1, <2>2, <2>3
<1> QED  BY <1>0, <1>1, <1>2, CacheKeptCounts, CountsOn

LEMMA RespondCounts ==
    ASSUME RInv, Typed', Counted, NEW c \in Conns, Respond(c)
    PROVE  Counted'
<1>0. Typed /\ Requests
  BY DEF RInv
<1> PICK k : k = conn[c].client
  OBVIOUS
<1> PICK ok : ok = (conn[k].ok \/ (Sibling(k) /\ ~conn[c].urlFailed))
  OBVIOUS
<1>1. /\ UNCHANGED <<wrote, cache, forgot>>
      /\ \A d \in Conns : \/ d = c /\ conn'[d] = NoConn
                          \/ d # c /\ d = k /\ conn'[d] = Heard([conn[d] EXCEPT !.ok = ok])
                          \/ d # c /\ d # k /\ conn'[d] = conn[d]
  BY DEF Respond
<1>2. ASSUME NEW d \in Conns PROVE Calm(d)
  <2>1. CASE d = c /\ conn'[d] = NoConn
    BY <2>1, CalmFree
  <2>2. CASE conn'[d] = Heard([conn[d] EXCEPT !.ok = ok])
    <3> PICK r : r = [conn[d] EXCEPT !.ok = ok]
      OBVIOUS
    <3>1. DOMAIN r = ConnFields
      BY <1>0 DEF Typed, RequestOK
    <3>2. conn'[d] = Heard(r)
      BY <2>2
    <3> QED  BY <3>1, <3>2, CalmOnward
  <2>3. CASE conn'[d] = conn[d]
    BY <2>3, CalmSame
  <2> QED  BY <1>1, <2>1, <2>2, <2>3
<1> QED  BY <1>0, <1>1, <1>2, CacheKeptCounts, CountsOn

LEMMA RestartCounts ==
    ASSUME RInv, Typed', Counted, NEW b \in Boxes, Restart(b)
    PROVE  Counted'
<1>0. Typed
  BY DEF RInv
<1>1. /\ cache' = [cache EXCEPT ![b] = <<>>] /\ forgot' = [forgot EXCEPT ![b] = @ + Len(cache[b])]
      /\ wrote' = wrote
      /\ \A d \in Conns : \/ conn'[d] = NoConn \/ conn'[d] = Heard(conn[d])
                          \/ conn'[d] = [conn[d] EXCEPT !.client = 0] \/ conn'[d] = conn[d]
  BY DEF Restart
<1>2. ASSUME NEW d \in Conns PROVE Calm(d)
  <2>1. CASE conn'[d] = Heard(conn[d])
    <3>1. DOMAIN conn[d] = ConnFields
      BY <1>0 DEF Typed, RequestOK
    <3> QED  BY <2>1, <3>1, CalmOnward
  <2> QED  BY <1>0, <1>1, <2>1, CalmFree, CalmOrphan, CalmSame
<1>3. Counts
  <2>1. /\ \A x \in Boxes \ {b} : cache'[x] = cache[x] /\ forgot'[x] = forgot[x] /\ forgot[x] \in Nat
        /\ forgot'[b] = forgot[b] + Len(cache[b]) /\ Len(cache[b]) \in Nat /\ forgot[b] \in Nat
    BY <1>0, <1>1 DEF Typed
  <2>2. ASSUME NEW k, Seen(b, k) PROVE Len(cache[b]) >= 1
    BY <2>1, <2>2 DEF Seen
  <2>3. forgot'[b] >= forgot[b] /\ \A k : Seen(b, k) => forgot'[b] >= forgot[b] + 1
    BY <2>1, <2>2
  <2>4. ASSUME NEW x \in Boxes \ {b}
        PROVE  forgot'[x] >= forgot[x] /\ \A k : Seen(x, k) => Seen(x, k)'
    BY <2>1 DEF Seen
  <2> QED  BY <2>3, <2>4 DEF Counts
<1> QED  BY <1>0, <1>1, <1>2, <1>3, CountsOn

(* What is no step of a receiver.                                              *)
LEMMA BuildsCount ==
    ASSUME RInv, Typed', Counted,
           \/ UNCHANGED vars
           \/ \E u \in HomeUnits : Rebuild(u)
           \/ \E u \in HomeUnits : LockTimeout(u) \/ Killed(u) \/ \E h \in BOOLEAN : BuildFails(u, h)
           \/ Push
           \/ \E s \in Services : Reset(s) \/ BayUp(s)
    PROVE  Counted'
<1>0. Typed
  BY DEF RInv
<1>1. CASE \E u \in HomeUnits : Consume(u) \/ Blocked(u)
  <2>1. PICK u \in HomeUnits : Taking(u)
    BY <1>1 DEF Consume, Blocked
  <2>2. UNCHANGED <<wrote, cache, forgot>>
    BY <1>1 DEF Consume, Blocked
  <2>3. ASSUME NEW d \in Conns PROVE Calm(d)
    <3>1. conn'[d] = conn[d] \/ conn'[d] = [conn[d] EXCEPT !.fd = "gone"]
      BY <2>1 DEF Taking
    <3>2. CASE conn'[d] = [conn[d] EXCEPT !.fd = "gone"]
      <4> PICK old : old = conn[d]
        OBVIOUS
      <4> PICK q : q = conn'[d]
        OBVIOUS
      <4>1. q = [old EXCEPT !.fd = "gone"] /\ DOMAIN old = ConnFields
        BY <3>2, <1>0 DEF Typed, RequestOK
      <4>2. /\ q.kind = old.kind /\ q.at = old.at /\ q.url = old.url
            /\ q.todo = old.todo /\ q.box = old.box /\ q.push = old.push
        BY ONLY <4>1, FieldsAre
      <4> QED  BY <4>2, CalmLike
    <3> QED  BY <3>1, <3>2, CalmSame
  <2> QED  BY <1>0, <2>2, <2>3, CacheKeptCounts, CountsOn
<1>2. CASE ~\E u \in HomeUnits : Consume(u) \/ Blocked(u)
  <2>1. UNCHANGED <<wrote, cache, forgot, conn>>
    BY <1>2 DEF vars, Reset, BayUp, Push, Rebuild, PullRun, Fetch, Build, LockTimeout, Killed,
                BuildFails, repoVars, receiverVars
  <2>2. \A d \in Conns : Calm(d)
    BY <2>1, CalmSame
  <2> QED  BY <1>0, <2>1, <2>2, CacheKeptCounts, CountsOn
<1> QED  BY <1>1, <1>2

LEMMA CountedInit == Init => Counted
<1> SUFFICES ASSUME Init, NEW u \in Units, NEW p \in Pushes
             PROVE  wrote[u][p] + Cardinality(Promised(u, p)) <= forgot[u[1]] + SeenOnce(u, p)
  BY DEF Counted
<1>1. Promised(u, p) = {}
  BY FreeIs DEF Init, Promised, LetIn
<1>2. Cardinality(Promised(u, p)) = 0
  BY <1>1, FS_EmptySet
<1>3. wrote[u][p] = 0 /\ forgot[u[1]] = 0
  BY DEF Init, Units
<1>4. SeenOnce(u, p) \in {0, 1}
  BY DEF SeenOnce
<1> QED  BY <1>2, <1>3, <1>4

LEMMA CountedNext == ASSUME RInv, Counted, [Next]_vars PROVE Counted'
<1>0. Typed'
  BY RInvNext DEF RInv
<1>1. ASSUME NEW c \in Conns, Handle(c) PROVE Counted'
  BY <1>0, <1>1, SkipSeenCounts, OnwardCounts, OpenTriggerCounts, ForwardCounts, RespondCounts
     DEF Handle
<1>2. ASSUME NEW c \in Conns, OpenFails(c) \/ ForwardFails(c) PROVE Counted'
  BY <1>0, <1>2, OpenFailsCounts, ForwardFailsCounts
<1>3. ASSUME NEW b \in Boxes, Restart(b) PROVE Counted'
  BY <1>0, <1>3, RestartCounts
<1>4. ASSUME NEW p \in Pushes, NEW h \in Hooks, Post(p, h) PROVE Counted'
  BY <1>0, <1>4, PostCounts
<1>5. CASE PullImage
  BY <1>0, <1>5, PullImageCounts
<1> QED  BY <1>0, <1>1, <1>2, <1>3, <1>4, <1>5, BuildsCount DEF Next, Fault, Outside

LEMMA OnceFollows == ASSUME RInv, Counted PROVE ReplayBuildsNothing
<1> SUFFICES ASSUME NEW u \in Units, NEW p \in Pushes PROVE wrote[u][p] <= 1 + forgot[u[1]]
  BY DEF ReplayBuildsNothing
<1>1. wrote[u][p] + Cardinality(Promised(u, p)) <= forgot[u[1]] + SeenOnce(u, p)
  BY DEF Counted
<1>2. Cardinality(Promised(u, p)) \in Nat /\ SeenOnce(u, p) \in {0, 1}
  BY PromisedIsFinite DEF SeenOnce
<1>3. wrote[u][p] \in Nat /\ forgot[u[1]] \in Nat
  BY DEF RInv, Typed, Units
<1> QED  BY <1>1, <1>2, <1>3

(* ReplayBuildsNothing holds of every behaviour: whatever hooks, siblings,     *)
(* regions and replays bring a delivery to a receiver, it opens the trigger of *)
(* a service once, and again only for every delivery the receiver forgot.      *)
THEOREM ReplaysAreNoOps == Spec => []ReplayBuildsNothing
<1>1. Init => RInv /\ Counted
  BY RInvInit, CountedInit
<1>2. RInv /\ Counted /\ [Next]_vars => RInv' /\ Counted'
  BY RInvNext, CountedNext
<1>3. RInv /\ Counted => ReplayBuildsNothing
  BY OnceFollows
<1> QED  BY <1>1, <1>2, <1>3, PTL DEF Spec

-----------------------------------------------------------------------------
(* A commit tag names an image of the same inputs.                             *)

(* The files that matter are picked one by one, and between two commits there  *)
(* is no more than between each of them and a third.                           *)
LEMMA InputsAdd ==
    ASSUME NEW s \in Services, NEW x, NEW y, NEW z, z \subseteq x \union y,
           Inputs(s, x) = {}, Inputs(s, y) = {}
    PROVE  Inputs(s, z) = {}
BY DEF Inputs, InputFiles

LEMMA DiffAdds ==
    ASSUME NEW a \in Nat, NEW b \in Nat, NEW c \in Nat
    PROVE  Diff(a, c) \subseteq Diff(a, b) \union Diff(b, c)
<1> SUFFICES ASSUME NEW f, NEW q \in Pushes, f \in changed[q].files,
                    (a < q /\ q <= c) \/ (c < q /\ q <= a)
             PROVE  f \in Diff(a, b) \union Diff(b, c)
  BY DEF Diff
<1>1. q \in Nat
  BY PushIs
<1>2. \/ (a < q /\ q <= b) \/ (b < q /\ q <= a)
      \/ (b < q /\ q <= c) \/ (c < q /\ q <= b)
  BY <1>1
<1> QED  BY <1>2 DEF Diff

LEMMA DiffTurns == ASSUME NEW a, NEW b PROVE Diff(a, b) = Diff(b, a)
BY DEF Diff

LEMMA DiffNone == ASSUME NEW a \in Nat PROVE Diff(a, a) = {}
<1>1. \A q \in Pushes : ~((a < q /\ q <= a) \/ (a < q /\ q <= a))
  BY PushIs
<1> QED  BY <1>1 DEF Diff

(* The image i holds the code of commit c, as far as s is concerned.           *)
SameCode(s, i, c) == Inputs(s, Diff(i, c)) = {}
LEMMA SameCodeAdds ==
    ASSUME NEW s \in Services, NEW i \in Nat, NEW p \in Nat, NEW c \in Nat,
           SameCode(s, i, p), SameCode(s, p, c)
    PROVE  SameCode(s, i, c)
BY DiffAdds, InputsAdd DEF SameCode
LEMMA SameCodeOfItself == ASSUME NEW s \in Services, NEW c \in Nat PROVE SameCode(s, c, c)
BY DiffNone DEF SameCode, Inputs, InputFiles

(* Images are built from commits that were pushed.                             *)
Imaged ==
    /\ head \in 0..MaxPush /\ DOMAIN changed = Pushes
    /\ sha \in [HomeUnits -> 0..head]
    /\ latest \in [Services -> 0..head] /\ run \in [Services -> 0..head]
    /\ tag \in [Services -> [Commits -> (0..head) \union {None}]]
TagsHold ==
    \A s \in Services, c \in Commits :
        tag[s][c] # None => c <= head /\ SameCode(s, tag[s][c], c)

LEMMA TagsMove ==
    ASSUME Imaged, TagsHold, UNCHANGED <<head, changed>>,
           sha' \in [HomeUnits -> 0..head],
           latest' \in [Services -> 0..head], run' \in [Services -> 0..head],
           tag' \in [Services -> [Commits -> Int]],
           \A s \in Services, c \in Commits :
               \/ tag'[s][c] = tag[s][c] \/ tag'[s][c] = None
               \/ c <= head /\ tag'[s][c] \in 0..head /\ SameCode(s, tag'[s][c], c)
    PROVE  Imaged' /\ TagsHold'
<1>1. ASSUME NEW s \in Services, NEW c \in Commits
      PROVE  /\ tag'[s][c] \in (0..head) \union {None}
             /\ tag'[s][c] # None => c <= head /\ SameCode(s, tag'[s][c], c)
  <2>1. tag[s][c] \in (0..head) \union {None}
    BY DEF Imaged
  <2> QED  BY <2>1 DEF TagsHold
<1>2. ASSUME NEW s \in Services PROVE tag'[s] \in [Commits -> (0..head) \union {None}]
  <2> PICK f : f = tag'[s]
    OBVIOUS
  <2>1. f \in [Commits -> Int] /\ \A c \in Commits : f[c] \in (0..head) \union {None}
    BY <1>1
  <2>2. f \in [Commits -> (0..head) \union {None}]
    BY ONLY <2>1
  <2> QED  BY <2>2
<1>3. tag' \in [Services -> [Commits -> (0..head) \union {None}]]
  BY ONLY <1>2, tag' \in [Services -> [Commits -> Int]]
<1>4. \A s, i, c : SameCode(s, i, c)' <=> SameCode(s, i, c)
  BY DEF SameCode, Diff
<1> QED  BY <1>1, <1>3, <1>4 DEF Imaged, TagsHold

LEMMA FetchTags ==
    ASSUME Labelled, Imaged, TagsHold, NEW u \in HomeUnits, Fetch(u)
    PROVE  Imaged' /\ TagsHold'
<1> PICK s : s = u[2]
  OBVIOUS
<1> PICK p : p = Previous(s)
  OBVIOUS
<1> PICK do : do = Decision(s, p, mode[u] = "tag")
  OBVIOUS
<1> PICK i : i = Source(s, p)
  OBVIOUS
<1>1. /\ UNCHANGED <<head, changed, latest, run>>
      /\ sha' = [sha EXCEPT ![u] = head]
      /\ tag' = IF do = "tag" THEN [tag EXCEPT ![s][head] = i, ![s][p] = i] ELSE tag
  BY DEF Fetch, repoVars
<1>2. s \in Services
  BY DEF HomeUnits, Units
<1>3. head \in Nat /\ head \in 0..head /\ head \in Commits /\ head <= MaxPush
  BY WebhookConstants DEF Imaged, Commits
<1>4. p = run[s] /\ p \in 0..head /\ p \in Commits
  BY <1>2, <1>3, WebhookConstants DEF Imaged, Previous, Label, None, Commits
<1>5. CASE do = "tag"
  <2>1. ConfigOnly(s, p) \/ NoInputChange(s, p)
    BY <1>5 DEF Decision
  <2>2. SameCode(s, p, head)
    BY <2>1 DEF ConfigOnly, NoInputChange, SameCode, Inputs, InputFiles
  <2>3. i # None
    BY <1>5, <1>4, <1>3 DEF Decision, None
  <2>4. i \in 0..head /\ SameCode(s, i, p)
    <3>1. CASE tag[s][p] # None
      <4>1. i = tag[s][p]
        BY <3>1 DEF Source
      <4> QED  BY <3>1, <4>1, <1>2, <1>4 DEF TagsHold, Imaged
    <3>2. CASE tag[s][p] = None
      <4>1. Label(latest[s]) = latest[s] /\ latest[s] \in 0..head /\ latest[s] # None
        BY <1>2, <1>3 DEF Label, Imaged, None
      <4>2. i = p /\ i = latest[s]
        BY <2>3, <3>2, <4>1 DEF Source
      <4> QED  BY <4>1, <4>2, <1>2, SameCodeOfItself
    <3> QED  BY <3>1, <3>2
  <2>5. SameCode(s, i, head)
    BY <2>2, <2>4, <1>2, <1>3, <1>4, SameCodeAdds
  <2>6. tag' = [tag EXCEPT ![s][head] = i, ![s][p] = i]
    BY <1>1, <1>5
  <2>7. /\ tag' \in [Services -> [Commits -> Int]]
        /\ \A x \in Services, c \in Commits :
               tag'[x][c] = IF x = s /\ (c = head \/ c = p) THEN i ELSE tag[x][c]
    BY <2>4, <2>6, <1>2, <1>3, <1>4 DEF Imaged, None
  <2>8. ASSUME NEW x \in Services, NEW c \in Commits
        PROVE  \/ tag'[x][c] = tag[x][c] \/ tag'[x][c] = None
               \/ c <= head /\ tag'[x][c] \in 0..head /\ SameCode(x, tag'[x][c], c)
    BY <2>4, <2>5, <2>7, <1>3, <1>4
  <2>9. sha' \in [HomeUnits -> 0..head] /\ latest' = latest /\ run' = run
    BY <1>1, <1>3 DEF Imaged
  <2>10. latest' \in [Services -> 0..head] /\ run' \in [Services -> 0..head]
    BY <2>9 DEF Imaged
  <2> QED  BY <1>1, <2>7, <2>8, <2>9, <2>10, TagsMove
<1>6. CASE do # "tag"
  <2>1. tag' = tag /\ tag' \in [Services -> [Commits -> Int]]
    BY <1>1, <1>6 DEF Imaged, None
  <2>2. sha' \in [HomeUnits -> 0..head] /\ latest' \in [Services -> 0..head] /\ run' \in [Services -> 0..head]
    BY <1>1, <1>3 DEF Imaged
  <2> QED  BY <1>1, <2>1, <2>2, TagsMove
<1> QED  BY <1>5, <1>6

LEMMA BuildTags ==
    ASSUME Imaged, TagsHold, NEW u \in HomeUnits, Build(u)
    PROVE  Imaged' /\ TagsHold'
<1> PICK s : s = u[2]
  OBVIOUS
<1> PICK k : k = sha[u]
  OBVIOUS
<1> PICK i : i = Built(s)
  OBVIOUS
<1>1. /\ UNCHANGED <<head, changed, sha>>
      /\ tag' = [tag EXCEPT ![s][k] = i]
      /\ latest' = latest \/ latest' = [latest EXCEPT ![s] = i]
      /\ run' = run \/ run' = [run EXCEPT ![s] = i]
  BY DEF Build, repoVars
<1>2. s \in Services /\ u = <<Home, s>>
  BY DEF HomeUnits, Units
<1>3. head \in Nat /\ k \in 0..head /\ k \in Nat /\ k \in Commits /\ k <= head
  BY WebhookConstants DEF Imaged, Commits
<1>4. i \in 0..head /\ SameCode(s, i, k)
  <2>1. CASE tag[s][k] # None
    <3>1. i = tag[s][k]
      BY <2>1, <1>2 DEF Built
    <3> QED  BY <2>1, <3>1, <1>2, <1>3 DEF TagsHold, Imaged
  <2>2. CASE tag[s][k] = None
    <3>1. i = k
      BY <2>2, <1>2 DEF Built
    <3> QED  BY <3>1, <1>2, <1>3, SameCodeOfItself
  <2> QED  BY <2>1, <2>2
<1>5. /\ tag' \in [Services -> [Commits -> Int]]
      /\ \A x \in Services, c \in Commits : tag'[x][c] = IF x = s /\ c = k THEN i ELSE tag[x][c]
  BY <1>1, <1>2, <1>3, <1>4 DEF Imaged, None
<1>6. /\ sha' \in [HomeUnits -> 0..head]
      /\ latest' \in [Services -> 0..head] /\ run' \in [Services -> 0..head]
  <2>2. latest' \in [Services -> 0..head]
    BY <1>1, <1>2, <1>4 DEF Imaged
  <2>3. run' \in [Services -> 0..head]
    BY <1>1, <1>2, <1>4 DEF Imaged
  <2>4. sha' \in [HomeUnits -> 0..head]
    BY <1>1 DEF Imaged
  <2> QED  BY <2>2, <2>3, <2>4
<1>7. ASSUME NEW x \in Services, NEW c \in Commits
      PROVE  \/ tag'[x][c] = tag[x][c] \/ tag'[x][c] = None
             \/ c <= head /\ tag'[x][c] \in 0..head /\ SameCode(x, tag'[x][c], c)
  BY <1>3, <1>4, <1>5
<1> QED  BY <1>1, <1>5, <1>6, <1>7, TagsMove

LEMMA BuildFailsTags ==
    ASSUME Imaged, TagsHold, NEW u \in HomeUnits, NEW h \in BOOLEAN, BuildFails(u, h)
    PROVE  Imaged' /\ TagsHold'
<1> PICK s : s = u[2]
  OBVIOUS
<1> PICK k : k = sha[u]
  OBVIOUS
<1>1. /\ UNCHANGED <<head, changed, sha, latest, run>>
      /\ tag' = tag \/ tag' = [tag EXCEPT ![s][k] = None]
  BY DEF BuildFails, repoVars
<1>2. tag' \in [Services -> [Commits -> Int]]
  BY <1>1 DEF Imaged, None
<1>3. ASSUME NEW x \in Services, NEW c \in Commits
      PROVE  tag'[x][c] = tag[x][c] \/ tag'[x][c] = None
  <2>1. CASE tag' = tag
    BY <2>1
  <2>2. CASE tag' = [tag EXCEPT ![s][k] = None]
    <3> PICK f : f = tag[x]
      OBVIOUS
    <3>1. f \in [Commits -> (0..head) \union {None}]
      BY DEF Imaged
    <3>2. tag'[x] = IF x = s THEN [f EXCEPT ![k] = None] ELSE f
      BY <2>2 DEF Imaged
    <3> QED  BY <3>1, <3>2
  <2> QED  BY <1>1, <2>1, <2>2
<1>4. /\ sha' \in [HomeUnits -> 0..head]
      /\ latest' \in [Services -> 0..head] /\ run' \in [Services -> 0..head]
  BY <1>1 DEF Imaged
<1> QED  BY <1>1, <1>2, <1>3, <1>4, TagsMove

LEMMA BayUpTags ==
    ASSUME Imaged, TagsHold, NEW s \in Services, BayUp(s)
    PROVE  Imaged' /\ TagsHold'
<1> PICK i : i = tag[s][head]
  OBVIOUS
<1> PICK use : use = (i # None /\ ~Bad(s, head, i))
  OBVIOUS
<1>1. /\ UNCHANGED <<head, changed, sha, tag>>
      /\ latest' = [latest EXCEPT ![s] = IF use THEN i ELSE @]
      /\ run' = [run EXCEPT ![s] = IF use THEN i ELSE latest[s]]
  BY DEF BayUp, repoVars, buildVars
<1>2. head \in Commits
  BY WebhookConstants DEF Imaged, Commits
<1>3. (use => i \in 0..head) /\ latest[s] \in 0..head
  BY <1>2 DEF Imaged
<1>4. latest' \in [Services -> 0..head] /\ run' \in [Services -> 0..head]
  BY <1>1, <1>3 DEF Imaged
<1>5. sha' \in [HomeUnits -> 0..head] /\ tag' \in [Services -> [Commits -> Int]]
  BY <1>1 DEF Imaged, None
<1> QED  BY <1>1, <1>4, <1>5, TagsMove

(* A push changes nothing between the commits there were.                      *)
LEMMA PushTags == ASSUME Imaged, TagsHold, Push PROVE Imaged' /\ TagsHold'
<1>1. /\ head < MaxPush /\ head' = head + 1 /\ \E x : changed' = [changed EXCEPT ![head + 1] = x]
      /\ UNCHANGED <<sha, latest, run, tag>>
  BY DEF Push, buildVars, imageVars
<1>2. head \in Nat /\ head' \in 0..MaxPush /\ 0..head \subseteq 0..head' /\ head <= head'
  BY <1>1, WebhookConstants DEF Imaged
<1>3. DOMAIN changed' = Pushes /\ \A q \in Pushes : q <= head => changed'[q] = changed[q]
  BY <1>1, <1>2, PushIs DEF Imaged
<1>4. ASSUME NEW i \in 0..head, NEW c \in 0..head, NEW s PROVE SameCode(s, i, c) => SameCode(s, i, c)'
  <2>1. \A q \in Pushes : (i < q /\ q <= c) \/ (c < q /\ q <= i) => q <= head
    BY <1>2, PushIs
  <2>2. Diff(i, c)' = Diff(i, c)
    BY <2>1, <1>3 DEF Diff
  <2> QED  BY <2>2 DEF SameCode, Inputs, InputFiles
<1>5. Imaged'
  <2>1. sha' \in [HomeUnits -> 0..head'] /\ latest' \in [Services -> 0..head']
        /\ run' \in [Services -> 0..head']
    BY <1>1, <1>2 DEF Imaged
  <2>2. tag' \in [Services -> [Commits -> (0..head') \union {None}]]
    <3>1. (0..head) \union {None} \subseteq (0..head') \union {None}
      BY <1>2
    <3> QED  BY <1>1, <3>1 DEF Imaged
  <2> QED  BY <1>2, <1>3, <2>1, <2>2 DEF Imaged
<1>6. ASSUME NEW s \in Services, NEW c \in Commits, tag[s][c] # None
      PROVE  c <= head' /\ SameCode(s, tag[s][c], c)'
  <2> PICK i : i = tag[s][c]
    OBVIOUS
  <2>1. i \in 0..head /\ c <= head /\ SameCode(s, i, c)
    BY <1>6 DEF TagsHold, Imaged
  <2>2. c \in 0..head /\ c <= head'
    BY <2>1, <1>2, WebhookConstants DEF Commits
  <2>3. SameCode(s, i, c)'
    BY <2>1, <2>2, <1>4
  <2>4. tag'[s][c] = i
    BY <1>1
  <2> QED  BY <2>2, <2>3, <2>4, <1>1 DEF SameCode
<1> QED  BY <1>1, <1>5, <1>6 DEF TagsHold

LEMMA TagsInit == Init => Imaged /\ TagsHold
<1> SUFFICES ASSUME Init PROVE Imaged /\ TagsHold
  OBVIOUS
<1>1. head = 0 /\ 0..head = {0} /\ 0 \in 0..MaxPush
  BY WebhookConstants DEF Init
<1>2. Imaged
  BY <1>1 DEF Init, Imaged, None
<1>3. ASSUME NEW s \in Services, NEW c \in Commits, tag[s][c] # None
      PROVE  c <= head /\ SameCode(s, tag[s][c], c)
  <2>1. c = 0 /\ tag[s][c] = 0
    BY <1>3 DEF Init
  <2> QED  BY <2>1, <1>1, SameCodeOfItself
<1> QED  BY <1>2, <1>3 DEF TagsHold

LEMMA TagsNext == ASSUME Labelled, Imaged, TagsHold, [Next]_vars PROVE Imaged' /\ TagsHold'
<1>1. ASSUME NEW u \in HomeUnits, Fetch(u) PROVE Imaged' /\ TagsHold'
  BY <1>1, FetchTags
<1>2. ASSUME NEW u \in HomeUnits, Build(u) PROVE Imaged' /\ TagsHold'
  BY <1>2, BuildTags
<1>3. ASSUME NEW u \in HomeUnits, NEW h \in BOOLEAN, BuildFails(u, h) PROVE Imaged' /\ TagsHold'
  BY <1>3, BuildFailsTags
<1>4. ASSUME NEW s \in Services, BayUp(s) PROVE Imaged' /\ TagsHold'
  BY <1>4, BayUpTags
<1>5. CASE Push
  BY <1>5, PushTags
<1>6. CASE UNCHANGED <<head, changed, sha, latest, run, tag>>
  <2>1. /\ sha' \in [HomeUnits -> 0..head] /\ tag' \in [Services -> [Commits -> Int]]
        /\ latest' \in [Services -> 0..head] /\ run' \in [Services -> 0..head]
    BY <1>6 DEF Imaged, None
  <2> QED  BY <1>6, <2>1, TagsMove
<1>7. ASSUME NEW c \in Conns, Handle(c) \/ OpenFails(c) \/ ForwardFails(c)
      PROVE  UNCHANGED <<head, changed, sha, latest, run, tag>>
  BY <1>7 DEF Handle, SkipSeen, NotHere, KeepWaiting, OpenTrigger, Write, Forward, Respond,
              OpenFails, ForwardFails, repoVars, buildVars, imageVars
<1>8. CASE \/ \E b \in Boxes : Restart(b)
           \/ PullImage \/ \E p \in Pushes, h \in Hooks : Post(p, h)
           \/ \E s \in Services : Reset(s)
           \/ UNCHANGED vars
  BY <1>6, <1>8 DEF Restart, PullImage, Post, Reset, vars, repoVars, buildVars, imageVars
<1>9. ASSUME NEW u \in HomeUnits,
             Consume(u) \/ Blocked(u) \/ PullRun(u) \/ LockTimeout(u) \/ Killed(u)
      PROVE  UNCHANGED <<head, changed, sha, latest, run, tag>>
  BY <1>9 DEF Consume, Blocked, PullRun, LockTimeout, Killed, repoVars, buildVars, imageVars
<1> QED  BY <1>1, <1>2, <1>3, <1>4, <1>5, <1>6, <1>7, <1>8, <1>9
         DEF Next, Rebuild, Fault, Outside

(* CommitTagHoldsItsInputs holds of every behaviour whose first image names    *)
(* its commit: an image tagged with a commit differs from it in no file the    *)
(* service is built from, whatever failed, was held or skipped in between.     *)
THEOREM TagsAreBuiltFrom == ASSUME Labelled PROVE Spec => []CommitTagHoldsItsInputs
<1>1. Init => Imaged /\ TagsHold
  BY TagsInit
<1>2. Imaged /\ TagsHold /\ [Next]_vars => Imaged' /\ TagsHold'
  BY TagsNext
<1>3. TagsHold => CommitTagHoldsItsInputs
  BY DEF TagsHold, CommitTagHoldsItsInputs, SameCode
<1> QED  BY <1>1, <1>2, <1>3, PTL DEF Spec

-----------------------------------------------------------------------------
(* What the receivers and the builds do is a step of PushPromise.              *)

PushOwed == Owed \cap BuildUnits

(* No build is owed a push that is not on the branch.                          *)
Pushed ==
    /\ settled \in [Units -> Nat]
    /\ \A u \in BuildUnits : accepted[u] <= head

LEMMA WarnsOne ==
    ASSUME UNCHANGED <<accepted, settled>>, NEW u, warned' = warned \/ warned' = warned \union {u}
    PROVE  Promise!Next \/ UNCHANGED Promise!vars
<1>1. PushOwed' = PushOwed
  BY DEF PushOwed, Owed, BuildUnits
<1>2. CASE warned' = warned \/ u \notin BuildUnits
  <2>1. (warned \cap BuildUnits)' = warned \cap BuildUnits
    BY <1>2 DEF BuildUnits
  <2> QED  BY <1>1, <2>1 DEF Promise!vars, PushOwed
<1>3. CASE warned' = warned \union {u} /\ u \in BuildUnits
  <2>1. (warned \cap BuildUnits)' = (warned \cap BuildUnits) \union {u}
    BY <1>3 DEF BuildUnits
  <2>2. Promise!Warn(u)
    BY <1>1, <2>1 DEF Promise!Warn, PushOwed
  <2> QED  BY <1>3, <2>2 DEF Promise!Next
<1> QED  BY <1>2, <1>3

LEMMA AcceptsOne ==
    ASSUME UNCHANGED <<settled, warned>>, Pushed, accepted \in [Units -> Nat],
           accepted' \in [Units -> Nat], NEW u \in Units, accepted'[u] >= accepted[u],
           \A x \in Units \ {u} : accepted'[x] = accepted[x]
    PROVE  Promise!Next \/ UNCHANGED Promise!vars
<1>1. (warned \cap BuildUnits)' = warned \cap BuildUnits
  BY DEF BuildUnits
<1>2. \A x \in Units : accepted[x] \in Nat /\ accepted'[x] \in Nat /\ settled[x] \in Nat
  BY DEF Pushed
<1>3. Owed' = Owed \/ Owed' = Owed \union {u}
  <2>1. \A x \in Units \ {u} : x \in Owed' <=> x \in Owed
    BY DEF Owed
  <2>2. u \in Owed => u \in Owed'
    BY <1>2 DEF Owed
  <2>3. Owed \subseteq Units /\ Owed' \subseteq Units
    BY DEF Owed, Units
  <2> QED  BY <2>1, <2>2, <2>3
<1>4. CASE PushOwed' = PushOwed
  BY <1>1, <1>4 DEF Promise!vars, PushOwed
<1>5. CASE PushOwed' # PushOwed
  <2>1. PushOwed' = PushOwed \union {u} /\ u \in BuildUnits
    BY <1>3, <1>5 DEF PushOwed, BuildUnits
  <2>2. Promise!Accept(u)
    BY <1>1, <2>1 DEF Promise!Accept, PushOwed
  <2> QED  BY <2>1, <2>2 DEF Promise!Next
<1> QED  BY <1>4, <1>5

LEMMA SettlesOne ==
    ASSUME accepted' = accepted, Pushed, accepted \in [Units -> Nat], head \in Nat,
           NEW u \in Units, NEW n \in Nat, settled' = [settled EXCEPT ![u] = n],
           u \in BuildUnits => n = head, warned' = warned \/ warned' = warned \union {u}
    PROVE  Promise!Next \/ UNCHANGED Promise!vars
<1>1. /\ settled'[u] = n /\ \A x \in Units \ {u} : settled'[x] = settled[x]
      /\ \A x \in Units : accepted[x] \in Nat
  BY DEF Pushed
<1>2. \A x \in Units \ {u} : x \in Owed' <=> x \in Owed
  BY <1>1 DEF Owed
<1>3. Owed \subseteq Units /\ Owed' \subseteq Units
  BY DEF Owed, Units
<1>4. CASE u \notin BuildUnits
  <2>1. PushOwed' = PushOwed /\ (warned \cap BuildUnits)' = warned \cap BuildUnits
    BY <1>2, <1>3, <1>4 DEF PushOwed, BuildUnits
  <2> QED  BY <2>1 DEF Promise!vars, PushOwed
<1>5. CASE u \in BuildUnits
  <2>1. u \notin Owed'
    BY <1>1, <1>5 DEF Owed, Pushed
  <2>2. PushOwed' = PushOwed \ {u}
    BY <1>2, <1>3, <2>1 DEF PushOwed, BuildUnits
  <2>3. CASE u \in PushOwed /\ warned' = warned
    <3>1. (warned \cap BuildUnits)' = warned \cap BuildUnits
      BY <2>3 DEF BuildUnits
    <3>2. Promise!Look(u)
      BY <2>2, <2>3, <3>1 DEF Promise!Look, PushOwed
    <3> QED  BY <1>5, <3>2 DEF Promise!Next
  <2>4. CASE u \in PushOwed /\ warned' = warned \union {u}
    <3>1. (warned \cap BuildUnits)' = (warned \cap BuildUnits) \union {u}
      BY <1>5, <2>4 DEF BuildUnits
    <3>2. Promise!Abandon(u)
      BY <2>2, <2>4, <3>1 DEF Promise!Abandon, PushOwed
    <3> QED  BY <1>5, <3>2 DEF Promise!Next
  <2>5. CASE u \notin PushOwed /\ warned' = warned
    <3>1. (warned \cap BuildUnits)' = warned \cap BuildUnits /\ PushOwed' = PushOwed
      BY <2>2, <2>5 DEF BuildUnits
    <3> QED  BY <3>1 DEF Promise!vars, PushOwed
  <2>6. CASE u \notin PushOwed /\ warned' = warned \union {u}
    <3>1. (warned \cap BuildUnits)' = (warned \cap BuildUnits) \union {u} /\ PushOwed' = PushOwed
      BY <1>5, <2>2, <2>6 DEF BuildUnits
    <3>2. Promise!Warn(u)
      BY <3>1 DEF Promise!Warn, PushOwed
    <3> QED  BY <1>5, <3>2 DEF Promise!Next
  <2> QED  BY <2>3, <2>4, <2>5, <2>6
<1> QED  BY <1>4, <1>5

(* A trigger that is opened for a build promises a push that is on the branch. *)
LEMMA AcceptSteps ==
    ASSUME RInv, Pushed, NEW c \in Conns, conn[c].todo # <<>>, conn[c].at # "free",
           Accept(c), UNCHANGED <<head, settled, warned>>
    PROVE  Pushed' /\ (Promise!Next \/ UNCHANGED Promise!vars)
<1>0. Typed /\ Requests
  BY DEF RInv
<1>1. /\ Target(c) \in Services /\ Target(c) \in Elems(conn[c].todo) /\ conn[c].box \in Boxes
      /\ conn[c].push \in Nat /\ RequestAt(c) /\ conn[c].kind \in {"push", "pull"}
  BY <1>0, ElemsOfTail DEF Typed, RequestOK, Target, Requests
<1> PICK u : u = Unit(c)
  OBVIOUS
<1> PICK n : n = Raise(accepted[u], conn[c].push)
  OBVIOUS
<1>2. u \in Units /\ accepted \in [Units -> Nat] /\ accepted' = [accepted EXCEPT ![u] = n]
      /\ u[2] = Target(c)
  BY <1>0, <1>1 DEF Unit, Units, Typed, Accept
<1>3. n \in Nat /\ n >= accepted[u] /\ n \in {accepted[u], conn[c].push}
  BY <1>1, <1>2 DEF Raise
<1>4. accepted' \in [Units -> Nat] /\ accepted'[u] = n
      /\ \A x \in Units \ {u} : accepted'[x] = accepted[x]
  BY <1>2, <1>3
<1>5. u \in BuildUnits => conn[c].push <= head
  <2>1. CASE conn[c].kind = "pull"
    <3>1. Target(c) \in Elems(ImageMap)
      BY <1>1, <2>1 DEF RequestAt, PullAt
    <3>2. PullOnly(u[2])
      BY <1>2, <3>1 DEF PullOnly, Elems
    <3> QED  BY <3>2 DEF BuildUnits
  <2>2. CASE conn[c].kind = "push"
    <3>1. conn[c].push \in 1..head
      BY <1>1, <2>2 DEF RequestAt, IsMain, IsFwd, MainAt, FwdAt
    <3> QED  BY <3>1
  <2> QED  BY <1>1, <2>1, <2>2
<1>6. Pushed'
  <2>1. \A x \in BuildUnits : x \in Units /\ accepted'[x] <= head
    BY <1>3, <1>4, <1>5 DEF Pushed, BuildUnits, HomeUnits
  <2> QED  BY <2>1 DEF Pushed, BuildUnits
<1>7. Promise!Next \/ UNCHANGED Promise!vars
  <2>1. accepted'[u] >= accepted[u]
    BY <1>3, <1>4
  <2> QED  BY <1>2, <1>4, <2>1, AcceptsOne
<1> QED  BY <1>6, <1>7

LEMMA HandlingSteps ==
    ASSUME RInv, Pushed, NEW c \in Conns, Handle(c) \/ OpenFails(c) \/ ForwardFails(c)
    PROVE  Pushed' /\ (Promise!Next \/ UNCHANGED Promise!vars)
<1>0. Typed /\ Requests
  BY DEF RInv
<1>1. CASE KeepWaiting(c) \/ Write(c)
  <2>1. Accept(c) /\ UNCHANGED <<head, settled, warned>> /\ conn[c].at # "free"
    BY <1>1 DEF KeepWaiting, Write, Handling, At, repoVars
  <2>2. conn[c].todo # <<>>
    BY <1>0, <1>1 DEF KeepWaiting, Write, Handling, At, Typed, RequestOK
  <2> QED  BY <2>1, <2>2, AcceptSteps
<1>2. CASE ~(KeepWaiting(c) \/ Write(c))
  <2>1. UNCHANGED <<accepted, settled, head>>
        /\ (warned' = warned \/ \E u : warned' = warned \union {u})
    BY <1>2 DEF Handle, SkipSeen, NotHere, OpenTrigger, Forward, Respond, OpenFails, ForwardFails,
                repoVars
  <2>2. Pushed'
    BY <2>1 DEF Pushed, BuildUnits
  <2> QED  BY <2>1, <2>2, WarnsOne
<1> QED  BY <1>1, <1>2

(* Nobody waits for Home, so its restart warns of none of its own units.       *)
LEMMA RestartSteps ==
    ASSUME RInv, Pushed, NEW b \in Boxes, Restart(b)
    PROVE  Pushed' /\ (Promise!Next \/ UNCHANGED Promise!vars)
<1> DEFINE dead == {c \in Conns : conn[c].at # "free" /\ conn[c].box = b}
           left == {c \in Conns \ dead : conn[c].at = "await" /\ \E d \in dead : conn[d].client = c}
<1>0. Typed /\ Requests
  BY DEF RInv
<1>1. UNCHANGED <<accepted, settled, head>>
      /\ warned' = warned \cup {<<b, Target(c)>> : c \in left}
  BY DEF Restart, repoVars
<1>2. ASSUME NEW c \in left PROVE b # Home
  <2>1. PICK d \in dead : conn[d].client = c
    OBVIOUS
  <2>2. c # 0 /\ d \in Conns /\ conn[d].box = b
    BY WebhookConstants
  <2>3. IsFwd(d)
    BY <1>0, <2>1, <2>2, KindsOf
  <2> QED  BY <1>0, <2>2, <2>3, KindsOf
<1> HIDE DEF left
<1>3. \A u \in BuildUnits : u[1] = Home
  BY DEF BuildUnits, HomeUnits
<1>4. (warned \cap BuildUnits)' = warned \cap BuildUnits
  <2>1. ASSUME NEW c \in left PROVE <<b, Target(c)>> \notin BuildUnits
    BY <1>2, <1>3, <2>1
  <2> QED  BY <1>1, <2>1 DEF BuildUnits
<1>5. PushOwed' = PushOwed
  BY <1>1 DEF PushOwed, Owed, BuildUnits
<1>6. Pushed'
  BY <1>1 DEF Pushed, BuildUnits
<1> QED  BY <1>4, <1>5, <1>6 DEF Promise!vars, PushOwed

LEMMA RunSteps ==
    ASSUME RInv, Pushed, NEW u \in HomeUnits,
           Rebuild(u) \/ LockTimeout(u) \/ Killed(u) \/ \E h \in BOOLEAN : BuildFails(u, h)
    PROVE  Pushed' /\ (Promise!Next \/ UNCHANGED Promise!vars)
<1>0. Typed /\ head \in Nat /\ signals \in Nat /\ accepted \in [Units -> Nat] /\ u \in Units
  BY WebhookConstants DEF RInv, Typed, HomeUnits
<1>1. UNCHANGED <<accepted, head>>
  BY DEF Rebuild, Consume, Blocked, PullRun, Fetch, Build, LockTimeout, Killed, BuildFails, repoVars
<1>2. CASE settled' = settled
  <2>1. warned' = warned \/ warned' = warned \union {u}
    BY DEF Rebuild, Consume, Blocked, PullRun, Fetch, Build, LockTimeout, Killed, BuildFails, Drop
  <2>2. Pushed'
    BY <1>1, <1>2 DEF Pushed, BuildUnits
  <2> QED  BY <1>1, <1>2, <2>1, <2>2, WarnsOne
<1>3. ASSUME NEW n \in Nat, settled' = [settled EXCEPT ![u] = n], u \in BuildUnits => n = head,
             warned' = warned \/ warned' = warned \union {u}
      PROVE  Pushed' /\ (Promise!Next \/ UNCHANGED Promise!vars)
  <2>1. Pushed'
    BY <1>0, <1>1, <1>3 DEF Pushed, BuildUnits
  <2>2. Promise!Next \/ UNCHANGED Promise!vars
    BY <1>0, <1>1, <1>3, SettlesOne
  <2> QED  BY <2>1, <2>2
<1>4. CASE Drop(u)
  <2>1. Newest(u) \in Nat /\ (u \in BuildUnits => Newest(u) = head)
    BY <1>0 DEF Newest, BuildUnits
  <2>2. settled' = [settled EXCEPT ![u] = Newest(u)] /\ warned' = warned \union {u}
    BY <1>4 DEF Drop
  <2> QED  BY <1>3, <2>1, <2>2
<1>5. CASE PullRun(u)
  <2>1. (settled' = settled \/ settled' = [settled EXCEPT ![u] = signals]) /\ warned' = warned
        /\ u \notin BuildUnits
    BY <1>5 DEF PullRun, BuildUnits
  <2> QED  BY <1>0, <1>2, <1>3, <2>1
<1>6. CASE Fetch(u)
  <2>1. settled' = [settled EXCEPT ![u] = head] /\ warned' = warned
    BY <1>6 DEF Fetch
  <2> QED  BY <1>0, <1>3, <2>1
<1>7. ASSUME NEW h \in BOOLEAN, BuildFails(u, h), settled' # settled
      PROVE  Pushed' /\ (Promise!Next \/ UNCHANGED Promise!vars)
  <2>1. settled' = [settled EXCEPT ![u] = head] /\ warned' = warned \union {u}
    BY <1>7 DEF BuildFails
  <2> QED  BY <1>0, <1>3, <2>1
<1>8. CASE Consume(u) \/ Build(u)
  <2>1. settled' = settled
    BY <1>8 DEF Consume, Build
  <2> QED  BY <1>2, <2>1
<1>9. Blocked(u) \/ LockTimeout(u) \/ Killed(u) => Drop(u)
  BY DEF Blocked, LockTimeout, Killed
<1> QED  BY <1>2, <1>4, <1>5, <1>6, <1>7, <1>8, <1>9 DEF Rebuild

LEMMA OutsideSteps ==
    ASSUME RInv, Pushed,
           \/ Push \/ PullImage \/ \E p \in Pushes, h \in Hooks : Post(p, h)
           \/ \E s \in Services : Reset(s) \/ BayUp(s)
           \/ UNCHANGED vars
    PROVE  Pushed' /\ (Promise!Next \/ UNCHANGED Promise!vars)
<1>1. UNCHANGED <<accepted, settled, warned>> /\ head' >= head /\ head \in Nat /\ head' \in Nat
  <2>1. head \in Nat
    BY WebhookConstants DEF RInv, Typed
  <2>2. CASE Push
    BY <2>1, <2>2 DEF Push
  <2>3. CASE ~Push
    <3>1. UNCHANGED <<accepted, settled, warned, head>>
      BY <2>3 DEF PullImage, Post, Reset, BayUp, vars, repoVars
    <3> QED  BY <2>1, <3>1
  <2> QED  BY <2>2, <2>3
<1>2. Pushed'
  <2>1. \A u \in BuildUnits : accepted[u] \in Nat
    BY DEF RInv, Typed, BuildUnits, HomeUnits
  <2> QED  BY <1>1, <2>1 DEF Pushed, BuildUnits
<1> QED  BY <1>1, <1>2, WarnsOne

LEMMA PromiseInit == Init => Promise!Init /\ Pushed
<1> SUFFICES ASSUME Init PROVE Promise!Init /\ Pushed
  OBVIOUS
<1>1. Owed = {} /\ warned = {}
  BY DEF Init, Owed
<1>2. Pushed
  BY DEF Init, Pushed, BuildUnits, HomeUnits
<1> QED  BY <1>1, <1>2 DEF Promise!Init

LEMMA PromiseNext ==
    ASSUME RInv, Pushed, [Next]_vars
    PROVE  Pushed' /\ [Promise!Next]_(Promise!vars)
<1>1. ASSUME NEW c \in Conns, Handle(c) \/ OpenFails(c) \/ ForwardFails(c)
      PROVE  Pushed' /\ (Promise!Next \/ UNCHANGED Promise!vars)
  BY <1>1, HandlingSteps
<1>2. ASSUME NEW b \in Boxes, Restart(b)
      PROVE  Pushed' /\ (Promise!Next \/ UNCHANGED Promise!vars)
  BY <1>2, RestartSteps
<1>3. ASSUME NEW u \in HomeUnits,
             Rebuild(u) \/ LockTimeout(u) \/ Killed(u) \/ \E h \in BOOLEAN : BuildFails(u, h)
      PROVE  Pushed' /\ (Promise!Next \/ UNCHANGED Promise!vars)
  BY <1>3, RunSteps
<1>4. CASE Outside \/ UNCHANGED vars
  BY <1>4, OutsideSteps DEF Outside
<1> QED  BY <1>1, <1>2, <1>3, <1>4 DEF Next, Fault

(* Every behaviour of the receivers and the builds is one of PushPromise, as   *)
(* far as safety goes: a push that was taken for a build is never forgotten,   *)
(* it leaves when a build looks at the branch or when the team is warned.      *)
THEOREM PromiseIsKept == Spec => Promise!Init /\ [][Promise!Next]_(Promise!vars)
<1>1. Init => RInv /\ Promise!Init /\ Pushed
  BY RInvInit, PromiseInit
<1>2. RInv /\ Pushed /\ [Next]_vars => RInv' /\ Pushed' /\ [Promise!Next]_(Promise!vars)
  BY RInvNext, PromiseNext
<1> QED  BY <1>1, <1>2, PTL DEF Spec
=============================================================================
