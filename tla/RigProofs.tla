------------------------------ MODULE RigProofs ------------------------------
(* Proofs about Rig: that a run which leaves the rig roles out leaves none of  *)
(* them behind, that a mute lasts, and that the emitters send where the fleet  *)
(* says, for any hosts, environments, alerts and recipients, and any number of *)
(* commits, runs and faults.                                                   *)
EXTENDS Rig, WellFoundedInduction, TLAPS

-----------------------------------------------------------------------------
(* Shapes.                                                                     *)

Roles == {"build", "channel", "policy", "app", "backup", "state", "monitor", "system", "outbound"}
Tags == {"none", "alert_policy", "deploy_stack"}
Verbs == {"deploy", "provision"}
Configs == [recipients : Lists \cup {FirstList}, disabled : SUBSET Alert,
            enabled : SUBSET Alert, mute : SUBSET Alert, until : Nat]
Acts == [op : {"edit", "disable", "permanent", "enable"}, ids : SUBSET Alert, until : Nat]
Entries == [config : Configs, rig : BOOLEAN, act : Acts]
Stamps == [commit : Nat, framework : Nat]
Boxes == [at : [Emitter -> Stamps], running : [at : Stamps, creds : Nat],
          creds : Nat, policy : Nat, state : [commit : Nat, framework : Nat, whole : BOOLEAN],
          lost : BOOLEAN, applied : SUBSET Verbs]
Caches == [needed : BOOLEAN, ref : Nat, framework : Nat, proved : SUBSET Host]
Playing == [verb : Verbs, hosts : SUBSET Host, tag : Tags, rig : BOOLEAN,
            proved : SUBSET Host, commit : Nat, live : SUBSET Host,
            notified : SUBSET Host, left : Seq(Roles)]

Past(stamp) == stamp.commit <= Tip /\ stamp.framework <= framework
BoxPast(b) ==
    /\ \A e \in Emitter : Past(b.at[e])
    /\ Past(b.running.at) /\ b.running.creds <= Tip
    /\ b.creds <= Tip /\ b.policy <= Tip
    /\ b.state.commit <= Tip /\ b.state.framework <= framework
Fleet ==
    /\ log \in Seq(Entries) /\ Tip \in 1..MaxCommits /\ log[1].rig
    /\ framework \in 1..MaxFramework /\ now \in 0..MaxTime
Typed ==
    /\ Fleet
    /\ cache \in Caches /\ cache.ref <= Tip /\ cache.framework <= framework
    /\ box \in [Host -> Boxes] /\ \A h \in Host : BoxPast(box[h])
    /\ run # Idle => run \in Playing /\ run.live \subseteq run.hosts /\ run.commit \in 1..Tip

-----------------------------------------------------------------------------
(* The last commit that touches the rig.                                       *)

Less == OpToRel(<, Nat)
LEMMA LessIsWellFounded == IsWellFoundedOn(Less, Nat)
BY NatLessThanWellFounded DEF Less
LEMMA LessMeans == ASSUME NEW a \in Nat, NEW b \in Nat, a < b PROVE <<a, b>> \in Less
BY DEF Less, OpToRel

LEMMA LeastNumber == ASSUME NEW T, T \subseteq Nat, T # {} PROVE \E m \in T : \A k \in T : m <= k
<1>1. PICK m \in T : \A k \in T : ~(<<k, m>> \in Less)
  BY WFMin, LessIsWellFounded
<1>2. \A k \in T : ~(k < m)
  BY <1>1, LessMeans
<1> QED  BY <1>1, <1>2

Rigged(l) == l[1].rig
IsRef(l, i, n) == i \in 1..n /\ l[i].rig /\ \A k \in (i + 1)..n : ~l[k].rig
RefIn(l, n) == CHOOSE i \in 1..n : l[i].rig /\ \A k \in (i + 1)..n : ~l[k].rig

LEMMA RefIs ==
    ASSUME NEW l, Rigged(l), NEW n \in Nat \ {0}
    PROVE  IsRef(l, RefIn(l, n), n)
<1> DEFINE T == {n - i : i \in {k \in 1..n : l[k].rig}}
<1>1. n - 1 \in T /\ T \subseteq Nat
  BY DEF Rigged
<1>2. PICK m \in T : \A k \in T : m <= k
  <2> HIDE DEF T
  <2> QED  BY <1>1, LeastNumber
<1>3. PICK i \in 1..n : l[i].rig /\ m = n - i
  BY <1>2
<1>4. ASSUME NEW k \in (i + 1)..n, l[k].rig PROVE FALSE
  <2>1. k \in 1..n
    OBVIOUS
  <2>2. n - k \in T
    BY <2>1, <1>4
  <2>3. m <= n - k
    BY <2>2, <1>2
  <2> QED  BY <2>3, <1>3
<1> QED  BY <1>3, <1>4 DEF IsRef, RefIn

LEMMA RefOf ==
    ASSUME NEW l, Rigged(l), NEW n \in Nat \ {0}, NEW i, IsRef(l, i, n)
    PROVE  RefIn(l, n) = i
<1>1. IsRef(l, RefIn(l, n), n)
  BY RefIs
<1> HIDE DEF RefIn
<1> QED  BY <1>1 DEF IsRef

(* Earlier commits and their references stay; a commit that touches the rig    *)
(* is its own reference, and another takes over that of the one before.        *)
LEMMA LogGrows ==
    ASSUME Fleet, NEW entry, log' = Append(log, entry)
    PROVE  /\ Len(log) \in Nat \ {0} /\ Len(log') = Len(log) + 1
           /\ log'[Len(log) + 1] = entry /\ Rigged(log')
           /\ \A n \in 1..Len(log) : log'[n] = log[n] /\ RefIn(log', n) = RefIn(log, n)
           /\ RefIn(log', Len(log')) = IF entry.rig THEN Len(log) + 1 ELSE RefIn(log, Len(log))
<1> DEFINE n0 == Len(log)
<1>1. /\ Len(log') = n0 + 1 /\ n0 \in Nat \ {0} /\ log'[n0 + 1] = entry
      /\ \A n \in 1..n0 : log'[n] = log[n]
      /\ Rigged(log) /\ Rigged(log')
  BY DEF Fleet, Tip, Rigged
<1> HIDE DEF n0
<1>3. ASSUME NEW n \in 1..n0 PROVE RefIn(log', n) = RefIn(log, n)
  <2>1. PICK i : i = RefIn(log, n)
    OBVIOUS
  <2>2. IsRef(log, i, n)
    BY <1>1, <2>1, RefIs
  <2>3. IsRef(log', i, n)
    BY <1>1, <2>2 DEF IsRef
  <2> QED  BY <1>1, <2>1, <2>3, RefOf
<1>4. CASE entry.rig
  <2>1. IsRef(log', n0 + 1, n0 + 1)
    BY <1>1, <1>4 DEF IsRef
  <2>2. RefIn(log', n0 + 1) = n0 + 1
    BY <1>1, <2>1, RefOf
  <2> QED  BY <1>1, <1>3, <1>4, <2>2 DEF n0
<1>5. CASE ~entry.rig
  <2>1. PICK i : i = RefIn(log, n0)
    OBVIOUS
  <2>2. IsRef(log, i, n0)
    BY <1>1, <2>1, RefIs
  <2>3. IsRef(log', i, n0 + 1)
    BY <1>1, <1>5, <2>2 DEF IsRef
  <2>4. RefIn(log', n0 + 1) = i
    BY <1>1, <2>3, RefOf
  <2> QED  BY <1>1, <1>3, <1>5, <2>1, <2>4 DEF n0
<1> QED  BY <1>4, <1>5

LEMMA Refs == /\ \A n : ConsumerRef(n) = RefIn(log, n)
              /\ (\A n : ConsumerRef(n) = RefIn(log, n))'
BY DEF ConsumerRef, RefIn

-----------------------------------------------------------------------------
(* What a role leaves on a host.                                               *)

Renders(s) ==
    CASE s = "app" -> {"shell", "hook"}
      [] s \in {"build", "backup", "monitor", "outbound"} -> {s}
      [] OTHER -> {}
Restarts(h, s) ==
    \/ s = "monitor" /\ box[h].running.at = NoStamp
    \/ s = "system" /\ h \in run.notified

LEMMA Leaves ==
    ASSUME Typed, run # Idle, NEW h \in Host, NEW s \in Roles
    PROVE  /\ Done(h, s) \in Boxes /\ BoxPast(Done(h, s))
           /\ Done(h, s).creds = (IF s = "channel" THEN run.commit ELSE box[h].creds)
           /\ Done(h, s).policy = (IF s = "policy" THEN run.commit ELSE box[h].policy)
           /\ Done(h, s).applied = box[h].applied
           /\ \A e \in Emitter :
                 Done(h, s).at[e] = (IF e \in Renders(s) THEN Stamp ELSE box[h].at[e])
           /\ Done(h, s).running = (IF Restarts(h, s)
                 THEN [at |-> (IF s = "monitor" THEN Stamp ELSE box[h].at["monitor"]),
                       creds |-> box[h].creds]
                 ELSE box[h].running)
           /\ Done(h, s).lost = (box[h].lost /\ ~(s = "system" /\ h \in run.notified))
           /\ Done(h, s).state = (IF s = "state"
                 THEN [commit |-> Tip, framework |-> framework, whole |-> FALSE]
                 ELSE box[h].state)
<1> PICK b : b = box[h]
  OBVIOUS
<1>1. b \in Boxes /\ BoxPast(b)
  BY DEF Typed
<1>2. Stamp \in Stamps /\ Past(Stamp) /\ run.commit \in Nat /\ run.commit <= Tip
      /\ Tip \in Nat /\ framework \in Nat
  BY DEF Typed, Fleet, Stamp, Stamps, Past, Playing
<1>3. DOMAIN b.at = Emitter /\ b.at \in [Emitter -> Stamps]
      /\ \A e \in Emitter : b.at[e] \in Stamps /\ Past(b.at[e])
  BY <1>1 DEF Boxes, BoxPast
<1>4. {"build", "shell", "hook", "backup", "monitor", "outbound"} = Emitter
  BY DEF Emitter
<1>5. CASE s \in {"channel", "policy"}
  BY <1>1, <1>2, <1>5 DEF Done, Boxes, BoxPast, Renders, Restarts
<1>6. CASE s = "state"
  <2> PICK st : st = [commit |-> Tip, framework |-> framework, whole |-> FALSE]
    OBVIOUS
  <2>1. /\ st \in [commit : Nat, framework : Nat, whole : BOOLEAN]
        /\ st.commit <= Tip /\ st.framework <= framework
    BY <1>2
  <2>2. Done(h, s) = [b EXCEPT !.state = st]
    BY <1>6 DEF Done
  <2> QED  BY <1>1, <1>6, <2>1, <2>2 DEF Boxes, BoxPast, Renders, Restarts
<1>7. CASE s = "system"
  BY <1>1, <1>2, <1>3, <1>4, <1>7 DEF Done, Boxes, BoxPast, Renders, Restarts, Started
<1>8. CASE s = "monitor"
  <2> DEFINE at2 == [b.at EXCEPT !["monitor"] = Stamp]
             placed == [b EXCEPT !.at = at2]
  <2>1. at2 \in [Emitter -> Stamps] /\ \A e \in Emitter : Past(at2[e])
    BY <1>2, <1>3, <1>4
  <2> QED  BY <2>1, <1>1, <1>2, <1>3, <1>4, <1>8 DEF Done, Boxes, BoxPast, Renders, Restarts, Started
<1>9. CASE s = "app"
  BY <1>1, <1>2, <1>3, <1>4, <1>9 DEF Done, Boxes, BoxPast, Renders, Restarts
<1>10. CASE s \in {"build", "backup", "outbound"}
  BY <1>1, <1>2, <1>3, <1>4, <1>10 DEF Done, Boxes, BoxPast, Renders, Restarts
<1> QED  BY <1>5, <1>6, <1>7, <1>8, <1>9, <1>10 DEF Roles

-----------------------------------------------------------------------------
(* What an edit of the configuration means for the mutes.                      *)

Mutes(c, act, old) ==
    /\ c.mute = CASE act.op = "disable" -> old.disabled \cup act.ids
                  [] act.op = "enable" -> old.mute \ act.ids
                  [] OTHER -> old.mute
    /\ c.until = IF act.op = "disable" THEN act.until ELSE old.until
    /\ old.mute \subseteq old.disabled => c.mute \subseteq c.disabled
Edit ==
    \/ \E ids \in Pattern, for \in Duration : Disable(ids, for)
    \/ \E ids \in Pattern : Enable(ids)
    \/ \E ids \in {Alert \ OnByDefault} : ForceOn(ids)
    \/ \E list \in Lists : EditRecipients(list)
    \/ CommitOther

LEMMA EditIs ==
    ASSUME Typed, Edit
    PROVE  \E config \in Configs, rig \in BOOLEAN, act \in Acts :
              Commit(config, rig, act) /\ Mutes(config, act, Config(Tip))
<1> PICK old : old = Config(Tip)
  OBVIOUS
<1>1. old \in Configs /\ now \in Nat /\ NoAct \in Acts
  <2>1. log[Tip] \in Entries
    BY DEF Typed, Fleet, Tip
  <2> QED  BY <2>1, RigConstants DEF Entries, Config, Typed, Fleet, NoAct, Acts
<1>2. ASSUME NEW ids \in Pattern, NEW for \in Duration, Disable(ids, for)
      PROVE  \E config \in Configs, rig \in BOOLEAN, act \in Acts :
                Commit(config, rig, act) /\ Mutes(config, act, old)
  <2> PICK c : c = DisableIds(old, ids, for, now)
    OBVIOUS
  <2> PICK act : act = [op |-> IF for = Forever THEN "permanent" ELSE "disable",
                        ids |-> ids, until |-> c.until]
    OBVIOUS
  <2>1. ids \in SUBSET Alert /\ for \in Nat
    BY RigConstants
  <2>2. c \in Configs
    <3>1. now + for \in Nat /\ old.disabled \cup ids \in SUBSET Alert
      BY <1>1, <2>1 DEF Configs
    <3>2. CASE for = Forever
      BY <1>1, <3>1, <3>2 DEF DisableIds, Configs
    <3>3. CASE for # Forever
      BY <1>1, <3>1, <3>3 DEF DisableIds, Configs
    <3> QED  BY <3>2, <3>3
  <2>3. act \in Acts
    BY <2>1, <2>2 DEF Acts, Configs
  <2>4. Mutes(c, act, old)
    BY <1>1, <2>1 DEF DisableIds, Configs, Mutes
  <2>5. Commit(c, TRUE, act)
    BY <1>2 DEF Disable
  <2> QED  BY <2>2, <2>3, <2>4, <2>5
<1>3. ASSUME NEW ids \in Pattern, Enable(ids)
      PROVE  \E config \in Configs, rig \in BOOLEAN, act \in Acts :
                Commit(config, rig, act) /\ Mutes(config, act, old)
  <2> PICK c : c = EnableIds(old, ids)
    OBVIOUS
  <2> PICK act : act = [NoAct EXCEPT !.op = "enable", !.ids = ids]
    OBVIOUS
  <2>1. ids \in SUBSET Alert
    BY RigConstants
  <2>2. c \in Configs
    BY <1>1, <2>1 DEF EnableIds, Configs
  <2>3. act \in Acts /\ act.op = "enable" /\ act.ids = ids
    BY <2>1 DEF Acts, NoAct
  <2>4. Mutes(c, act, old)
    BY <1>1, <2>1, <2>3 DEF EnableIds, Configs, Mutes
  <2>5. Commit(c, TRUE, act)
    BY <1>3 DEF Enable
  <2> QED  BY <2>2, <2>3, <2>4, <2>5
<1>4. ASSUME NEW ids \in {Alert \ OnByDefault}, ForceOn(ids)
      PROVE  \E config \in Configs, rig \in BOOLEAN, act \in Acts :
                Commit(config, rig, act) /\ Mutes(config, act, old)
  <2> PICK c : c = [old EXCEPT !.enabled = ids]
    OBVIOUS
  <2>1. c \in Configs /\ Mutes(c, NoAct, old)
    BY <1>1 DEF Configs, Mutes, NoAct
  <2>2. Commit(c, TRUE, NoAct)
    BY <1>4 DEF ForceOn
  <2> QED  BY <1>1, <2>1, <2>2
<1>5. ASSUME NEW list \in Lists, EditRecipients(list)
      PROVE  \E config \in Configs, rig \in BOOLEAN, act \in Acts :
                Commit(config, rig, act) /\ Mutes(config, act, old)
  <2> PICK c : c = [old EXCEPT !.recipients = list]
    OBVIOUS
  <2>1. c \in Configs /\ Mutes(c, NoAct, old)
    BY <1>1 DEF Configs, Mutes, NoAct
  <2>2. Commit(c, TRUE, NoAct)
    BY <1>5 DEF EditRecipients
  <2> QED  BY <1>1, <2>1, <2>2
<1>6. CASE CommitOther
  <2>1. Mutes(old, NoAct, old) /\ Commit(old, FALSE, NoAct)
    BY <1>6 DEF CommitOther, Mutes, NoAct
  <2> QED  BY <1>1, <2>1
<1> QED  BY <1>2, <1>3, <1>4, <1>5, <1>6 DEF Edit

-----------------------------------------------------------------------------
(* How a run begins.                                                           *)

Begin ==
    \E env \in DOMAIN Env : \E hosts \in Targets(env) :
       \/ \E tag \in {"none", "alert_policy", "deploy_stack"} :
             DeployAsked(env, hosts, tag)
       \/ DeployFromCache(env, hosts)
       \/ \E first \in Env[env] : DeployFromState(env, hosts, first)
       \/ DeployUnread(env, hosts)
       \/ \E tag \in {"none", "alert_policy"} : Provision(env, hosts, tag)

(* Why a run may leave the rig out: the answer is that of the cache, or the    *)
(* state file of a host that is as the fleet says.                             *)
Evidence(answer) ==
    \/ answer = cache
    \/ answer.needed
    \/ \E first \in Host :
          /\ answer.ref = ConsumerRef(Tip) /\ answer.framework = framework
          /\ box[first].state.framework = framework
          /\ box[first].state.commit = ConsumerRef(Tip)
          /\ \A h \in answer.proved : h = first /\ box[first].state.whole
OfRun(r, verb, tag, rig, answer) ==
    /\ verb = "deploy" => Valid(Config(Tip))
    /\ verb = "deploy" /\ rig => tag = "none"
    /\ verb = "deploy" /\ tag = "none" /\ ~rig =>
          /\ ~answer.needed /\ r.proved = answer.proved
          /\ answer.ref = ConsumerRef(Tip) /\ answer.framework = framework
Starts(answer) ==
    run' # Idle =>
       \E verb \in Verbs, hosts \in SUBSET Host, tag \in Tags, rig \in BOOLEAN, proved \in SUBSET Host :
          run' = NewRun(verb, hosts, tag, rig, proved) /\ OfRun(run', verb, tag, rig, answer)

LEMMA BeginIs ==
    ASSUME Typed, Begin
    PROVE  /\ run = Idle /\ UNCHANGED <<log, framework, now, box>>
           /\ \E answer \in Caches :
                 /\ answer.ref <= Tip /\ answer.framework <= framework
                 /\ cache' = answer /\ Evidence(answer) /\ Starts(answer)
<1> PICK env \in DOMAIN Env : \E hosts \in Targets(env) :
       \/ \E tag \in {"none", "alert_policy", "deploy_stack"} :
             DeployAsked(env, hosts, tag)
       \/ DeployFromCache(env, hosts)
       \/ \E first \in Env[env] : DeployFromState(env, hosts, first)
       \/ DeployUnread(env, hosts)
       \/ \E tag \in {"none", "alert_policy"} : Provision(env, hosts, tag)
  BY DEF Begin
<1> PICK hosts \in Targets(env) :
       \/ \E tag \in {"none", "alert_policy", "deploy_stack"} :
             DeployAsked(env, hosts, tag)
       \/ DeployFromCache(env, hosts)
       \/ \E first \in Env[env] : DeployFromState(env, hosts, first)
       \/ DeployUnread(env, hosts)
       \/ \E tag \in {"none", "alert_policy"} : Provision(env, hosts, tag)
  OBVIOUS
<1>1. Env[env] \subseteq Host /\ hosts \in SUBSET Host
  BY RigConstants DEF Targets
<1>2. cache \in Caches /\ cache.ref <= Tip /\ cache.framework <= framework /\ Evidence(cache)
  BY DEF Typed, Evidence
<1>3. ConsumerRef(Tip) \in Nat /\ ConsumerRef(Tip) <= Tip /\ framework \in Nat
  BY Refs, RefIs DEF Typed, Fleet, IsRef, Rigged, Tip
<1>4. ASSUME NEW tag \in Tags, DeployAsked(env, hosts, tag)
      PROVE  run = Idle /\ UNCHANGED <<log, framework, now, box>> /\ cache' = cache /\ Starts(cache)
  <2>1. run' = NewRun("deploy", hosts, tag, tag = "none", {}) /\ Valid(Config(Tip))
    BY <1>4 DEF DeployAsked
  <2>2. OfRun(run', "deploy", tag, tag = "none", cache)
    BY <2>1 DEF OfRun
  <2>3. "deploy" \in Verbs /\ (tag = "none") \in BOOLEAN /\ {} \in SUBSET Host
    BY DEF Verbs
  <2> QED  BY <1>1, <1>4, <2>1, <2>2, <2>3 DEF DeployAsked, Starts
<1>5. ASSUME NEW tag \in Tags, Provision(env, hosts, tag)
      PROVE  run = Idle /\ UNCHANGED <<log, framework, now, box>> /\ cache' = cache /\ Starts(cache)
  <2>1. run' = NewRun("provision", hosts, tag, TRUE, {})
    BY <1>5 DEF Provision
  <2>2. OfRun(run', "provision", tag, TRUE, cache)
    BY <2>1 DEF OfRun
  <2>3. "provision" \in Verbs /\ TRUE \in BOOLEAN /\ {} \in SUBSET Host
    BY DEF Verbs
  <2> QED  BY <1>1, <1>5, <2>1, <2>2, <2>3 DEF Provision, Starts
<1>6. ASSUME NEW answer \in Caches, DeployChecked(env, hosts, answer),
             answer.ref = ConsumerRef(Tip) /\ answer.framework = framework
      PROVE  run = Idle /\ UNCHANGED <<log, framework, now, box>> /\ cache' = answer /\ Starts(answer)
  <2>1. answer.needed \in BOOLEAN /\ answer.proved \in SUBSET Host /\ "deploy" \in Verbs /\ "none" \in Tags
    BY DEF Caches, Verbs, Tags
  <2>2. CASE run' # Idle
    <3>1. /\ Valid(Config(Tip))
          /\ run' = NewRun("deploy", hosts, "none", answer.needed, answer.proved)
      BY <1>6, <2>2 DEF DeployChecked
    <3>2. OfRun(run', "deploy", "none", answer.needed, answer)
      BY <1>6, <3>1 DEF OfRun, NewRun
    <3> QED  BY <1>1, <1>6, <2>1, <3>1, <3>2 DEF DeployChecked, Starts
  <2> QED  BY <1>6, <2>2 DEF DeployChecked, Starts
<1>7. CASE DeployFromCache(env, hosts)
  BY <1>2, <1>6, <1>7 DEF DeployFromCache, CacheHolds
<1>8. ASSUME NEW first \in Env[env], DeployFromState(env, hosts, first)
      PROVE  /\ run = Idle /\ UNCHANGED <<log, framework, now, box>>
             /\ \E answer \in Caches :
                   /\ answer.ref <= Tip /\ answer.framework <= framework
                   /\ cache' = answer /\ Evidence(answer) /\ Starts(answer)
  <2> PICK answer : answer = Fetched(Env[env], first, ConsumerRef(Tip))
    OBVIOUS
  <2>1. first \in Host
    BY <1>1
  <2>2. answer \in Caches /\ answer.ref = ConsumerRef(Tip) /\ answer.framework = framework
    BY <1>3, <2>1 DEF Fetched, Needs, Caches
  <2>3. Evidence(answer)
    BY <2>1 DEF Fetched, Needs, Evidence
  <2> QED  BY <1>3, <1>6, <1>8, <2>2, <2>3 DEF DeployFromState
<1>9. CASE DeployUnread(env, hosts)
  <2> PICK answer : answer = Unread(ConsumerRef(Tip))
    OBVIOUS
  <2>2. answer \in Caches /\ answer.ref = ConsumerRef(Tip) /\ answer.framework = framework
    BY <1>3 DEF Unread, Caches
  <2>3. Evidence(answer)
    BY DEF Unread, Evidence
  <2> QED  BY <1>3, <1>6, <1>9, <2>2, <2>3 DEF DeployUnread
<1> QED  BY <1>2, <1>4, <1>5, <1>7, <1>8, <1>9 DEF Tags

-----------------------------------------------------------------------------
(* The order of the roles.                                                     *)

Elems(seq) == {seq[i] : i \in 1..Len(seq)}
Rank(s) ==
    CASE s = "build" -> 0 [] s = "channel" -> 1 [] s = "policy" -> 2 [] s = "app" -> 3 [] s = "backup" -> 4
      [] s = "state" -> 5 [] s = "monitor" -> 6 [] s = "system" -> 7 [] s = "outbound" -> 8
InOrder(seq) == \A i, j \in 1..Len(seq) : i < j => Rank(seq[i]) < Rank(seq[j])

LEMMA NextRole ==
    ASSUME NEW left \in Seq(Roles), left # <<>>, InOrder(left)
    PROVE  /\ Head(left) \in Roles /\ Tail(left) \in Seq(Roles) /\ InOrder(Tail(left))
           /\ Elems(left) = {Head(left)} \cup Elems(Tail(left))
           /\ \A s \in Elems(Tail(left)) : Rank(Head(left)) < Rank(s)
<1>1. /\ Len(left) \in Nat \ {0} /\ Head(left) = left[1] /\ Head(left) \in Roles
      /\ Tail(left) \in Seq(Roles) /\ Len(Tail(left)) = Len(left) - 1
      /\ \A i \in 1..Len(Tail(left)) : Tail(left)[i] = left[i + 1]
  OBVIOUS
<1>2. InOrder(Tail(left))
  <2> SUFFICES ASSUME NEW i \in 1..Len(Tail(left)), NEW j \in 1..Len(Tail(left)), i < j
               PROVE  Rank(Tail(left)[i]) < Rank(Tail(left)[j])
    BY DEF InOrder
  <2>1. i + 1 \in 1..Len(left) /\ j + 1 \in 1..Len(left) /\ i + 1 < j + 1
    BY <1>1
  <2> QED  BY <1>1, <2>1 DEF InOrder
<1>3. \A s \in Elems(Tail(left)) : \E j \in 1..Len(left) : 1 < j /\ s = left[j]
  <2> SUFFICES ASSUME NEW i \in 1..Len(Tail(left)) PROVE \E j \in 1..Len(left) : 1 < j /\ Tail(left)[i] = left[j]
    BY DEF Elems
  <2>1. i + 1 \in 1..Len(left) /\ 1 < i + 1
    BY <1>1
  <2> QED  BY <1>1, <2>1
<1>4. \A s \in Elems(left) : s = left[1] \/ s \in Elems(Tail(left))
  <2> SUFFICES ASSUME NEW i \in 1..Len(left), i # 1 PROVE left[i] \in Elems(Tail(left))
    BY DEF Elems
  <2>1. i - 1 \in 1..Len(Tail(left)) /\ Tail(left)[i - 1] = left[i]
    BY <1>1
  <2> QED  BY <2>1 DEF Elems
<1>5. 1 \in 1..Len(left)
  BY <1>1
<1> QED  BY <1>1, <1>2, <1>3, <1>4, <1>5 DEF InOrder, Elems

Rigs(verb, tag, rig) == verb = "deploy" /\ tag = "none" /\ rig
LEMMA StepsAre ==
    ASSUME NEW verb \in Verbs, NEW tag \in Tags, NEW rig \in BOOLEAN
    PROVE  LET E == Elems(Steps(verb, tag, rig)) IN
           /\ Steps(verb, tag, rig) \in Seq(Roles) /\ InOrder(Steps(verb, tag, rig))
           /\ "channel" \in E /\ (tag # "deploy_stack" => "policy" \in E)
           /\ verb = "deploy" /\ tag = "none" => {"build", "app"} \subseteq E
           /\ tag = "none" /\ verb = "provision" => "outbound" \in E
           /\ Rigs(verb, tag, rig) => {"backup", "monitor", "system"} \subseteq E
           /\ "backup" \in E \/ "monitor" \in E \/ "system" \in E \/ "state" \in E => Rigs(verb, tag, rig)
<1> DEFINE S == Steps(verb, tag, rig)
<1>1. CASE tag = "alert_policy"
  <2>1. S = <<"channel", "policy">>
    BY <1>1 DEF Steps
  <2>2. Elems(S) = {"channel", "policy"} /\ S \in Seq(Roles) /\ InOrder(S)
    <3> HIDE DEF S
    <3> QED  BY <2>1 DEF Elems, InOrder, Rank, Roles
  <2> QED  BY <1>1, <2>2 DEF Rigs
<1>2. CASE tag = "deploy_stack"
  <2>1. S = <<"build", "channel", "app">>
    BY <1>2 DEF Steps
  <2>2. Elems(S) = {"build", "channel", "app"} /\ S \in Seq(Roles) /\ InOrder(S)
    <3> HIDE DEF S
    <3> QED  BY <2>1 DEF Elems, InOrder, Rank, Roles
  <2> QED  BY <1>2, <2>2 DEF Rigs
<1>3. CASE tag = "none" /\ verb = "provision"
  <2>1. S = <<"channel", "policy", "outbound">>
    BY <1>3 DEF Steps
  <2>2. Elems(S) = {"channel", "policy", "outbound"} /\ S \in Seq(Roles) /\ InOrder(S)
    <3> HIDE DEF S
    <3> QED  BY <2>1 DEF Elems, InOrder, Rank, Roles
  <2> QED  BY <1>3, <2>2 DEF Rigs
<1>4. CASE tag = "none" /\ verb = "deploy" /\ ~rig
  <2>1. S = <<"build", "channel", "policy", "app">>
    BY <1>4 DEF Steps
  <2>2. Elems(S) = {"build", "channel", "policy", "app"} /\ S \in Seq(Roles) /\ InOrder(S)
    <3> HIDE DEF S
    <3> QED  BY <2>1 DEF Elems, InOrder, Rank, Roles
  <2> QED  BY <1>4, <2>2 DEF Rigs
<1>5. CASE tag = "none" /\ verb = "deploy" /\ rig
  <2>1. S = <<"build", "channel", "policy", "app", "backup", "state", "monitor", "system">>
    BY <1>5 DEF Steps
  <2>2. /\ Elems(S) = {"build", "channel", "policy", "app", "backup", "state", "monitor", "system"}
        /\ S \in Seq(Roles)
    <3> HIDE DEF S
    <3> QED  BY <2>1 DEF Elems, Roles
  <2>3. InOrder(S)
    <3>1. \A i \in 1..Len(S) : Rank(S[i]) = i - 1
      <4> HIDE DEF S
      <4> QED  BY <2>1 DEF Rank
    <3> HIDE DEF S
    <3> QED  BY <3>1 DEF InOrder
  <2> QED  BY <1>5, <2>2, <2>3 DEF Rigs
<1> QED  BY <1>1, <1>2, <1>3, <1>4, <1>5 DEF Tags, Verbs

-----------------------------------------------------------------------------
(* The invariants.                                                             *)

(* A run does what is not left to do on every host that is still in it.        *)
Reach == Elems(Steps(run.verb, run.tag, run.rig))
Has(h, s) ==
    /\ s = "channel" => box[h].creds = run.commit
    /\ s = "policy" => box[h].policy = run.commit
    /\ \A e \in Renders(s) : box[h].at[e] = Stamp
Runs ==
    run # Idle =>
        /\ InOrder(run.left) /\ Elems(run.left) \subseteq Reach
        /\ "monitor" \in Elems(run.left) => "system" \in Elems(run.left)
        /\ run.verb = "deploy" => Valid(Config(run.commit))
        /\ run.verb = "deploy" /\ run.rig => run.tag = "none"
        /\ \A h \in run.live : \A s \in Reach \ Elems(run.left) : Has(h, s)

(* The monitor runs the routing it has on disk, unless its restart was lost or *)
(* is yet to come.                                                             *)
Pends(h) ==
    run # Idle /\ h \in run.notified /\ h \in run.live /\ "system" \in Elems(run.left)
Script(h) ==
    /\ box[h].running.at # NoStamp => box[h].running.creds # 0 /\ box[h].running.at.commit # 0
    /\ \A e \in Emitter : box[h].at[e] # NoStamp => box[h].at[e].commit # 0
    /\ run # Idle /\ h \in run.notified =>
          Rigs(run.verb, run.tag, run.rig) /\ (h \in run.live \/ box[h].lost)
    /\ box[h].at["monitor"] # NoStamp /\ ~box[h].lost /\ ~Pends(h) =>
          /\ box[h].running.at # NoStamp
          /\ Routing(Config(box[h].running.at.commit)) = Routing(Config(box[h].at["monitor"].commit))
Scripts == \A h \in Host : Script(h)

(* What was applied is still what the fleet says, and a run under way brings   *)
(* nothing else.                                                               *)
Current(n) == n # 0 /\ Config(n) = Config(Tip)
Fit(h) ==
    /\ box[h].applied # {} =>
          /\ Current(box[h].creds) /\ Current(box[h].policy)
          /\ run # Idle => Current(run.commit)
    /\ "deploy" \in box[h].applied =>
          /\ Valid(Config(Tip))
          /\ \A e \in Emitter \ {"outbound"} : Current(box[h].at[e].commit)
    /\ "provision" \in box[h].applied => Current(box[h].at["outbound"].commit)
Fits == \A h \in Host : Fit(h)

(* What the cache and the state file are trusted for.                          *)
Newest == RefIn(log, Len(log))
FreshFrom(h, ref) ==
    \A e \in RigEmitter :
        /\ box[h].at[e].framework = framework /\ box[h].at[e].commit # 0
        /\ RefIn(log, box[h].at[e].commit) = ref
Trusted ==
    /\ ~cache.needed /\ cache.framework = framework /\ cache.ref = Newest =>
          \A h \in cache.proved : FreshFrom(h, Newest)
    /\ \A h \in Host :
          box[h].state.whole /\ box[h].state.framework = framework /\ box[h].state.commit = Newest =>
             FreshFrom(h, Newest)
    /\ run # Idle =>
          /\ cache.ref <= run.commit
          /\ \A h \in Host : box[h].state.whole => box[h].state.commit <= run.commit
          /\ RefIn(log, run.commit) = Newest \/ Newest > run.commit
    /\ Skips => \A h \in run.proved : FreshFrom(h, RefIn(log, run.commit))

(* A mute is in every later configuration, with its end or a later one, unless *)
(* it was lifted or moved.                                                     *)
Lasts(i, a, n) ==
    /\ log[i].act.op = "disable"
    /\ \A k \in (i + 1)..n :
          /\ ~(log[k].act.op = "enable" /\ a \in log[k].act.ids)
          /\ log[k].act.op = "disable" => log[k].act.until >= log[i].act.until
Muting ==
    /\ \A n \in 1..Tip : Config(n).mute \subseteq Config(n).disabled
    /\ \A n \in 1..Tip : \A i \in 1..n : \A a \in log[i].act.ids :
          Lasts(i, a, n) => a \in Config(n).mute /\ Config(n).until >= log[i].act.until

IInv == Typed /\ Runs /\ Scripts /\ Fits /\ Trusted /\ Muting

-----------------------------------------------------------------------------
(* A commit keeps the invariants.                                              *)

LEMMA CommitIs ==
    ASSUME Typed, NEW config \in Configs, NEW rig \in BOOLEAN, NEW act \in Acts,
           Commit(config, rig, act)
    PROVE  /\ Typed'
           /\ Tip \in Nat \ {0} /\ Tip' = Tip + 1 /\ log'[Tip + 1].act = act
           /\ \A n \in 1..Tip : log'[n] = log[n] /\ Config(n)' = Config(n) /\ RefIn(log', n) = RefIn(log, n)
           /\ Config(Tip)' = config
           /\ Newest' = IF rig THEN Tip + 1 ELSE Newest
           /\ \A h \in Host :
                 /\ box'[h].at = box[h].at /\ box'[h].running = box[h].running
                 /\ box'[h].creds = box[h].creds /\ box'[h].policy = box[h].policy
                 /\ box'[h].state = box[h].state /\ box'[h].lost = box[h].lost
                 /\ box'[h].applied = IF config = Config(Tip) THEN box[h].applied ELSE {}
           /\ UNCHANGED <<framework, now, cache, run>>
<1> PICK entry : entry = [config |-> config, rig |-> rig, act |-> act]
  OBVIOUS
<1>1. entry \in Entries /\ entry.config = config /\ entry.rig = rig /\ entry.act = act
  BY DEF Entries
<1>2. log' = Append(log, entry) /\ Tip < MaxCommits /\ UNCHANGED <<framework, now, cache, run>>
  BY DEF Commit
<1>3. Fleet
  BY DEF Typed
<1>4. /\ Len(log) \in Nat \ {0} /\ Len(log') = Len(log) + 1
      /\ log'[Len(log) + 1] = entry /\ Rigged(log')
      /\ \A n \in 1..Len(log) : log'[n] = log[n] /\ RefIn(log', n) = RefIn(log, n)
      /\ RefIn(log', Len(log')) = IF entry.rig THEN Len(log) + 1 ELSE RefIn(log, Len(log))
  BY <1>2, <1>3, LogGrows
<1>5. log' \in Seq(Entries)
  BY <1>1, <1>2, <1>3 DEF Fleet
<1>6. ASSUME NEW h \in Host
      PROVE  /\ box'[h] \in Boxes
             /\ box'[h].at = box[h].at /\ box'[h].running = box[h].running
             /\ box'[h].creds = box[h].creds /\ box'[h].policy = box[h].policy
             /\ box'[h].state = box[h].state /\ box'[h].lost = box[h].lost
             /\ box'[h].applied = IF config = Config(Tip) THEN box[h].applied ELSE {}
  <2> PICK b : b = box[h]
    OBVIOUS
  <2>1. b \in Boxes
    BY DEF Typed
  <2>2. box'[h] = [b EXCEPT !.applied = IF config = Config(Tip) THEN b.applied ELSE {}]
    BY DEF Commit
  <2> QED  BY <2>1, <2>2 DEF Boxes
<1>7. box' \in [Host -> Boxes]
  <2>1. DOMAIN box' = Host /\ box' = [h \in Host |-> box'[h]]
    BY DEF Commit
  <2> QED  BY <1>6, <2>1
<1>8. Fleet'
  <2>1. MaxCommits \in Nat
    BY RigConstants
  <2> QED  BY <1>2, <1>3, <1>4, <1>5, <2>1 DEF Fleet, Rigged, Tip
<1>9. \A h \in Host : BoxPast(box[h])'
  BY <1>2, <1>4, <1>6 DEF Typed, BoxPast, Past, Tip, Boxes, Stamps, Fleet
<1>10. Typed'
  <2>1. cache' \in Caches /\ cache'.ref <= Tip' /\ cache'.framework <= framework'
    BY <1>2, <1>4 DEF Typed, Caches, Tip
  <2>2. run' # Idle => run' \in Playing /\ run'.live \subseteq run'.hosts /\ run'.commit \in 1..Tip'
    BY <1>2, <1>4 DEF Typed, Playing, Tip
  <2> QED  BY <1>7, <1>8, <1>9, <2>1, <2>2 DEF Typed
<1>11. Tip \in Nat \ {0} /\ Tip' = Tip + 1 /\ log'[Tip + 1] = entry
  BY <1>4 DEF Tip
<1>12. \A n \in 1..Tip : log'[n] = log[n] /\ Config(n)' = Config(n) /\ RefIn(log', n) = RefIn(log, n)
  BY <1>4 DEF Tip, Config
<1>13. Config(Tip)' = config
  BY <1>1, <1>4 DEF Tip, Config
<1>14. Newest' = IF rig THEN Tip + 1 ELSE Newest
  BY <1>1, <1>4 DEF Tip, Newest
<1> QED  BY <1>1, <1>2, <1>6, <1>10, <1>11, <1>12, <1>13, <1>14

LEMMA CommitKeeps ==
    ASSUME IInv, NEW config \in Configs, NEW rig \in BOOLEAN, NEW act \in Acts,
           Commit(config, rig, act), Mutes(config, act, Config(Tip))
    PROVE  IInv'
<1>0. Typed /\ Runs /\ Scripts /\ Fits /\ Trusted /\ Muting
  BY DEF IInv
<1>1. /\ Typed'
      /\ Tip \in Nat \ {0} /\ Tip' = Tip + 1 /\ log'[Tip + 1].act = act
      /\ \A n \in 1..Tip : log'[n] = log[n] /\ Config(n)' = Config(n) /\ RefIn(log', n) = RefIn(log, n)
      /\ Config(Tip)' = config
      /\ Newest' = IF rig THEN Tip + 1 ELSE Newest
      /\ \A h \in Host :
            /\ box'[h].at = box[h].at /\ box'[h].running = box[h].running
            /\ box'[h].creds = box[h].creds /\ box'[h].policy = box[h].policy
            /\ box'[h].state = box[h].state /\ box'[h].lost = box[h].lost
            /\ box'[h].applied = IF config = Config(Tip) THEN box[h].applied ELSE {}
      /\ UNCHANGED <<framework, now, cache, run>>
  BY <1>0, CommitIs
<1>2. run # Idle => run \in Playing /\ run.live \subseteq run.hosts /\ run.commit \in 1..Tip
                    /\ run.live \subseteq Host
  BY <1>0 DEF Typed, Playing
<1>3. ASSUME NEW h \in Host PROVE box[h] \in Boxes /\ BoxPast(box[h])
  BY <1>0 DEF Typed
<1>4. Runs'
  <2>1. run # Idle => Config(run.commit)' = Config(run.commit)
    BY <1>1, <1>2
  <2>2. \A h \in Host : \A s : Has(h, s)' <=> Has(h, s)
    BY <1>1 DEF Has, Stamp
  <2> QED  BY <1>0, <1>1, <1>2, <2>1, <2>2 DEF Runs, Reach
<1>5. ASSUME NEW h \in Host PROVE Script(h)'
  <2>1. Script(h) /\ (Pends(h)' <=> Pends(h))
    BY <1>0, <1>1 DEF Scripts, Pends
  <2>2. /\ box[h].running.at.commit # 0 => Config(box[h].running.at.commit)' = Config(box[h].running.at.commit)
        /\ box[h].at["monitor"].commit # 0 =>
              Config(box[h].at["monitor"].commit)' = Config(box[h].at["monitor"].commit)
    BY <1>1, <1>3 DEF Boxes, BoxPast, Past, Stamps, Emitter
  <2> QED  BY <1>1, <2>1, <2>2 DEF Script, Emitter
<1>6. ASSUME NEW h \in Host PROVE Fit(h)'
  <2>1. CASE config # Config(Tip)
    BY <1>1, <2>1 DEF Fit
  <2>2. CASE config = Config(Tip)
    <3>1. \A n \in 0..Tip : Current(n) => Current(n)'
      BY <1>1, <2>2 DEF Current
    <3>2. /\ box[h].creds \in 0..Tip /\ box[h].policy \in 0..Tip
          /\ \A e \in Emitter : box[h].at[e].commit \in 0..Tip
          /\ run # Idle => run.commit \in 0..Tip
      BY <1>2, <1>3 DEF Boxes, BoxPast, Past, Stamps
    <3>3. Fit(h) /\ box'[h].applied = box[h].applied /\ "outbound" \in Emitter
      BY <1>0, <1>1, <2>2 DEF Fits, Emitter
    <3> QED  BY <1>1, <2>2, <3>1, <3>2, <3>3 DEF Fit
  <2> QED  BY <2>1, <2>2
<1>7. Trusted'
  <2>1. \A h \in Host : \A ref : FreshFrom(h, ref) => FreshFrom(h, ref)'
    BY <1>1, <1>3 DEF FreshFrom, Boxes, BoxPast, Past, Stamps, RigEmitter, Emitter
  <2>2. Newest' = Newest \/ Newest' = Tip + 1
    BY <1>1
  <2>3. cache.ref <= Tip /\ \A h \in Host : box[h].state.commit <= Tip
    BY <1>0, <1>3 DEF Typed, BoxPast
  <2>4. cache.ref \in Nat /\ cache.proved \subseteq Host /\ \A h \in Host : box[h].state.commit \in Nat
    BY <1>0, <1>3 DEF Typed, Caches, Boxes
  <2>5. run # Idle => /\ RefIn(log', run.commit) = RefIn(log, run.commit)
                      /\ run.commit < Tip + 1 /\ run.proved \subseteq Host
    BY <1>1, <1>2 DEF Playing
  <2>6. (cache.ref = Newest' => cache.ref = Newest /\ Newest' = Newest)
        /\ \A h \in Host : box[h].state.commit = Newest' => box[h].state.commit = Newest /\ Newest' = Newest
    BY <1>1, <2>2, <2>3, <2>4
  <2>7. (Skips)' <=> Skips
    BY <1>1 DEF Skips
  <2>8. run # Idle => (RefIn(log', run.commit) = Newest' \/ Newest' > run.commit)
    BY <1>0, <1>1, <2>2, <2>5 DEF Trusted
  <2>9. Skips => run # Idle
    BY DEF Skips
  <2> QED  BY <1>0, <1>1, <2>1, <2>4, <2>5, <2>6, <2>7, <2>8, <2>9 DEF Trusted
<1>8. Muting'
  <2>1. ASSUME NEW n \in 1..Tip' PROVE (Config(n).mute \subseteq Config(n).disabled)'
    <3>1. CASE n \in 1..Tip
      BY <1>0, <1>1, <3>1 DEF Muting
    <3>2. CASE n = Tip + 1
      <4>1. Config(Tip).mute \subseteq Config(Tip).disabled
        BY <1>0, <1>1 DEF Muting
      <4>2. config.mute \subseteq config.disabled
        BY <4>1 DEF Mutes
      <4> QED  BY <1>1, <3>2, <4>2
    <3> QED  BY <1>1, <3>1, <3>2
  <2>2. ASSUME NEW n \in 1..Tip', NEW i \in 1..n, NEW a \in log'[i].act.ids, Lasts(i, a, n)'
        PROVE  (a \in Config(n).mute /\ Config(n).until >= log[i].act.until)'
    <3>1. CASE n \in 1..Tip
      BY <1>0, <1>1, <2>2, <3>1 DEF Muting, Lasts
    <3>2. CASE n = Tip + 1 /\ i = n
      <4>1. act.op = "disable" /\ a \in act.ids
        BY <1>1, <2>2, <3>2 DEF Lasts
      <4>2. a \in config.mute /\ config.until = act.until /\ act.until \in Nat
        BY <4>1 DEF Mutes, Acts
      <4> QED  BY <1>1, <3>2, <4>2
    <3>3. CASE n = Tip + 1 /\ i # n
      <4>0. i \in 1..Tip /\ Tip \in 1..Tip /\ (Tip + 1) \in (i + 1)..(Tip + 1)
            /\ \A k \in (i + 1)..Tip : k \in (i + 1)..(Tip + 1) /\ k \in 1..Tip
        BY <1>1, <3>3
      <4>1. a \in log[i].act.ids /\ Lasts(i, a, Tip)
        BY <1>1, <2>2, <3>3, <4>0 DEF Lasts
      <4>2. a \in Config(Tip).mute /\ Config(Tip).until >= log[i].act.until
        BY <1>0, <4>0, <4>1 DEF Muting
      <4>3. Config(Tip).mute \subseteq Config(Tip).disabled
        BY <1>0, <4>0 DEF Muting
      <4>4. /\ ~(act.op = "enable" /\ a \in act.ids)
            /\ act.op = "disable" => act.until >= log[i].act.until
        BY <1>1, <2>2, <3>3, <4>0 DEF Lasts
      <4>5. a \in config.mute
        BY <4>2, <4>3, <4>4 DEF Mutes
      <4>6. config.until >= log[i].act.until
        BY <4>2, <4>4 DEF Mutes
      <4> QED  BY <1>1, <3>3, <4>0, <4>5, <4>6
    <3> QED  BY <1>1, <3>1, <3>2, <3>3
  <2> QED  BY <2>1, <2>2 DEF Muting
<1> QED  BY <1>1, <1>4, <1>5, <1>6, <1>7, <1>8 DEF IInv, Scripts, Fits

-----------------------------------------------------------------------------
(* An update, the clock and an old cache keep them too.                        *)

LEMMA OutsideKeeps ==
    ASSUME IInv, UpdateFramework \/ Tick \/ CacheExpires
    PROVE  IInv'
<1>0. Typed /\ Runs /\ Scripts /\ Fits /\ Trusted /\ Muting
  BY DEF IInv
<1>1. run = Idle /\ UNCHANGED <<log, box, run>>
  BY DEF UpdateFramework, Tick, CacheExpires
<1>2. /\ framework' = framework \/ (framework' = framework + 1 /\ framework' <= MaxFramework)
      /\ now' \in 0..MaxTime /\ (cache' = cache \/ cache' = NoCache)
  BY <1>0, RigConstants DEF UpdateFramework, Tick, CacheExpires, Typed, Fleet
<1>3. Fleet' /\ framework \in Nat /\ framework' \in Nat /\ framework >= 1 /\ framework' >= framework /\ Tip \in Nat
  BY <1>0, <1>1, <1>2, RigConstants DEF Typed, Fleet, Tip
<1>4. cache' \in Caches /\ cache'.ref <= Tip' /\ cache'.framework <= framework'
  <2>1. Tip' = Tip
    BY <1>1 DEF Tip
  <2>2. NoCache \in Caches /\ NoCache.ref = 0 /\ NoCache.framework = 0
    BY DEF NoCache, Caches
  <2>3. cache \in Caches /\ cache.ref <= Tip /\ cache.framework <= framework /\ cache.framework \in Nat
    BY <1>0 DEF Typed, Caches
  <2>4. CASE cache' = NoCache
    BY <1>3, <2>1, <2>2, <2>4
  <2>5. CASE cache' = cache
    BY <1>3, <2>1, <2>3, <2>5
  <2> QED  BY <1>2, <2>4, <2>5
<1>5. ASSUME NEW h \in Host PROVE BoxPast(box[h])'
  <2> PICK b : b = box[h]
    OBVIOUS
  <2>1. b \in Boxes /\ BoxPast(b)
    BY <1>0 DEF Typed
  <2>2. \A st \in Stamps : Past(st) => Past(st)'
    BY <1>1, <1>3 DEF Past, Stamps, Tip
  <2>3. /\ \A e \in Emitter : b.at[e] \in Stamps
        /\ b.running.at \in Stamps /\ b.state.framework \in Nat
    BY <2>1 DEF Boxes
  <2>4. BoxPast(b)'
    BY <1>1, <1>3, <2>1, <2>2, <2>3 DEF BoxPast, Tip
  <2>5. box'[h] = b
    BY <1>1
  <2> QED  BY <2>4, <2>5 DEF BoxPast
<1>6. Typed'
  BY <1>0, <1>1, <1>3, <1>4, <1>5 DEF Typed
<1>7. Runs' /\ Scripts' /\ Fits' /\ Muting'
  <2>1. Runs'
    BY <1>1 DEF Runs
  <2>2. Scripts'
    BY <1>0, <1>1 DEF Scripts, Script, Config, Pends
  <2>3. Fits'
    BY <1>0, <1>1 DEF Fits, Fit, Current, Config, Tip
  <2>4. Muting'
    BY <1>0, <1>1 DEF Muting, Lasts, Config, Tip
  <2> QED  BY <2>1, <2>2, <2>3, <2>4
<1>8. Trusted'
  <2>1. cache'.framework = framework' => cache' = cache /\ framework' = framework
    BY <1>0, <1>2, <1>3 DEF Typed, NoCache, Caches
  <2>2. \A h \in Host : box[h].state.framework = framework' => framework' = framework
    <3> TAKE h \in Host
    <3>1. box[h] \in Boxes /\ BoxPast(box[h])
      BY <1>0 DEF Typed
    <3> QED  BY <1>2, <1>3, <3>1 DEF Boxes, BoxPast
  <2>3. framework' = framework => \A h, ref : FreshFrom(h, ref)' <=> FreshFrom(h, ref)
    BY <1>1 DEF FreshFrom
  <2>4. Newest' = Newest /\ ~(Skips)' /\ run' = Idle
    BY <1>1 DEF Newest, Skips
  <2> QED  BY <1>0, <1>1, <2>1, <2>2, <2>3, <2>4 DEF Trusted
<1> QED  BY <1>6, <1>7, <1>8 DEF IInv

-----------------------------------------------------------------------------
(* The beginning of a run keeps them.                                          *)

LEMMA BeginKeeps == ASSUME IInv, Begin PROVE IInv'
<1>0. Typed /\ Runs /\ Scripts /\ Fits /\ Trusted /\ Muting
  BY DEF IInv
<1>1. run = Idle /\ UNCHANGED <<log, framework, now, box>>
  BY <1>0, BeginIs
<1>2. PICK answer \in Caches :
         /\ answer.ref <= Tip /\ answer.framework <= framework
         /\ cache' = answer /\ Evidence(answer) /\ Starts(answer)
  BY <1>0, BeginIs
<1>3. Fleet /\ Tip \in Nat \ {0} /\ framework \in Nat /\ Newest = ConsumerRef(Tip) /\ Newest \in 1..Tip
  <2>1. Fleet /\ Tip \in Nat \ {0} /\ framework \in Nat /\ Rigged(log)
    BY <1>0 DEF Typed, Fleet, Rigged
  <2> QED  BY <2>1, Refs, RefIs DEF Newest, Tip, IsRef
<1>4. Tip' = Tip /\ Newest' = Newest /\ Fleet'
  BY <1>1, <1>3 DEF Tip, Newest, Fleet
<1>5. ASSUME NEW h \in Host PROVE BoxPast(box[h])' /\ box'[h] = box[h] /\ box[h] \in Boxes
  BY <1>0, <1>1 DEF Typed, BoxPast, Past, Tip
<1>6. ASSUME NEW n PROVE Config(n)' = Config(n)
  BY <1>1 DEF Config
<1>7. ASSUME run' # Idle
      PROVE  /\ run' \in Playing /\ run'.live \subseteq run'.hosts /\ run'.commit \in 1..Tip'
             /\ run'.commit = Tip /\ run'.notified = {}
             /\ Runs'
             /\ run'.verb = "deploy" /\ run'.tag = "none" /\ ~run'.rig =>
                   /\ ~answer.needed /\ run'.proved = answer.proved
                   /\ answer.ref = Newest /\ answer.framework = framework
  <2> PICK verb \in Verbs, hosts \in SUBSET Host, tag \in Tags, rig \in BOOLEAN, proved \in SUBSET Host :
         run' = NewRun(verb, hosts, tag, rig, proved) /\ OfRun(run', verb, tag, rig, answer)
    BY <1>2, <1>7 DEF Starts
  <2> PICK left : left = Steps(verb, tag, rig)
    OBVIOUS
  <2>1. /\ left \in Seq(Roles) /\ InOrder(left)
        /\ "monitor" \in Elems(left) => "system" \in Elems(left)
    BY StepsAre
  <2>2. /\ run'.verb = verb /\ run'.hosts = hosts /\ run'.tag = tag /\ run'.rig = rig
        /\ run'.proved = proved /\ run'.commit = Tip /\ run'.live = hosts
        /\ run'.notified = {} /\ run'.left = left
    BY DEF NewRun
  <2>3. run' \in Playing
    BY <1>3, <2>1 DEF NewRun, Playing
  <2>4. Runs'
    <3>1. Reach' = Elems(left)
      BY <2>2 DEF Reach
    <3>2. verb = "deploy" => Valid(Config(run.commit))'
      <4>1. Config(run.commit)' = Config(Tip)
        BY <1>1, <2>2 DEF Config, Tip
      <4> QED  BY <4>1 DEF OfRun, Valid
    <3> QED  BY <1>4, <2>1, <2>2, <3>1, <3>2 DEF Runs, OfRun
  <2> QED  BY <1>3, <1>4, <2>2, <2>3, <2>4 DEF OfRun
<1>8. Typed'
  BY <1>0, <1>1, <1>2, <1>4, <1>5, <1>7 DEF Typed
<1>9. Runs'
  BY <1>7 DEF Runs
<1>10. ASSUME NEW h \in Host PROVE Script(h)'
  <2>1. Script(h) /\ ~Pends(h)
    BY <1>0, <1>1 DEF Scripts, Pends
  <2> QED  BY <1>5, <1>6, <1>7, <2>1 DEF Script, Pends
<1>11. ASSUME NEW h \in Host PROVE Fit(h)'
  <2>1. Fit(h)
    BY <1>0 DEF Fits
  <2>2. run' # Idle => (Current(run.commit))'
    BY <1>1, <1>3, <1>7 DEF Current, Config, Tip
  <2> QED  BY <1>1, <2>1, <2>2 DEF Fit, Current, Config, Tip, Valid
<1>12. Trusted'
  <2>1. \A h \in Host : \A ref : FreshFrom(h, ref)' <=> FreshFrom(h, ref)
    BY <1>1 DEF FreshFrom
  <2>2. \A h \in Host : box[h].state.commit <= Tip
    BY <1>0 DEF Typed, BoxPast
  <2>3. ~answer.needed /\ answer.framework = framework /\ answer.ref = Newest =>
           \A h \in answer.proved : FreshFrom(h, Newest)
    <3>1. CASE answer = cache
      BY <1>0, <3>1 DEF Trusted
    <3>2. CASE answer # cache
      BY <1>0, <1>2, <1>3, <3>2 DEF Trusted, Evidence
    <3> QED  BY <3>1, <3>2
  <2>4. answer.proved \subseteq Host
    BY DEF Caches
  <2>5. run' # Idle => (RefIn(log, run.commit))' = Newest
    BY <1>1, <1>7 DEF Newest, Tip
  <2>6. (Skips)' => run' # Idle /\ run'.verb = "deploy" /\ run'.tag = "none" /\ ~run'.rig
    BY DEF Skips
  <2>7. (Skips => \A h \in run.proved : FreshFrom(h, RefIn(log, run.commit)))'
    <3> SUFFICES ASSUME (Skips)', NEW h \in run'.proved PROVE FreshFrom(h, RefIn(log, run.commit))'
      OBVIOUS
    <3>1. FreshFrom(h, Newest) /\ (RefIn(log, run.commit))' = Newest
      BY <1>7, <2>3, <2>5, <2>6
    <3> QED  BY <1>1, <3>1 DEF FreshFrom
  <2>8. (~cache.needed /\ cache.framework = framework /\ cache.ref = Newest =>
           \A h \in cache.proved : FreshFrom(h, Newest))'
    BY <1>1, <1>2, <1>4, <2>1, <2>3, <2>4
  <2>9. (\A h \in Host :
           box[h].state.whole /\ box[h].state.framework = framework /\ box[h].state.commit = Newest =>
              FreshFrom(h, Newest))'
    BY <1>0, <1>1, <1>4, <2>1 DEF Trusted
  <2>10. (run # Idle =>
            /\ cache.ref <= run.commit
            /\ \A h \in Host : box[h].state.whole => box[h].state.commit <= run.commit
            /\ RefIn(log, run.commit) = Newest \/ Newest > run.commit)'
    BY <1>1, <1>2, <1>4, <1>7, <2>2, <2>5
  <2> QED  BY <2>7, <2>8, <2>9, <2>10 DEF Trusted
<1>13. Muting'
  BY <1>0, <1>1 DEF Muting, Lasts, Config, Tip
<1> QED  BY <1>8, <1>9, <1>10, <1>11, <1>12, <1>13 DEF IInv, Scripts, Fits

-----------------------------------------------------------------------------
(* A step of a run keeps them.                                                 *)

LEMMA PlayingIs ==
    ASSUME NEW r \in Playing
    PROVE  /\ r # Idle /\ r.verb \in Verbs /\ r.tag \in Tags /\ r.rig \in BOOLEAN
           /\ r.hosts \subseteq Host /\ r.proved \subseteq Host /\ r.live \subseteq Host
           /\ r.notified \subseteq Host /\ r.left \in Seq(Roles) /\ r.commit \in Nat
<1>1. r.verb \in Verbs
  BY DEF Playing
<1>2. Idle.verb = "none"
  BY DEF Idle
<1> QED  BY <1>1, <1>2 DEF Playing, Verbs

LEMMA StepIs ==
    ASSUME Typed, Runs, NEW dead \in SUBSET Host, Step(dead)
    PROVE  /\ Typed' /\ run # Idle /\ run' # Idle
           /\ UNCHANGED <<log, framework, now, cache>>
           /\ dead \subseteq run.live /\ run'.live = run.live \ dead
           /\ run'.verb = run.verb /\ run'.tag = run.tag /\ run'.rig = run.rig
           /\ run'.hosts = run.hosts /\ run'.proved = run.proved /\ run'.commit = run.commit
           /\ \E s \in Roles :
                 /\ Elems(run.left) = {s} \cup Elems(run'.left)
                 /\ \A r \in Elems(run'.left) : Rank(s) < Rank(r)
                 /\ InOrder(run'.left)
                 /\ run'.notified = run.notified \cup
                       (IF s = "monitor" THEN {h \in run.live \ dead : MonitorChanges(h)} ELSE {})
                 /\ \A h \in Host :
                       /\ h \in dead => box'[h] = [box[h] EXCEPT !.lost = @ \/ (h \in run.notified)]
                       /\ h \in run.live \ dead => box'[h] = Done(h, s)
                       /\ h \notin run.live => box'[h] = box[h]
<1>1. run # Idle /\ run \in Playing /\ run.left \in Seq(Roles) /\ run.left # <<>> /\ dead \subseteq run.live
      /\ run.live \subseteq run.hosts /\ run.commit \in 1..Tip
  BY PlayingIs DEF Typed, Step
<1> PICK s : s = Head(run.left)
  OBVIOUS
<1> PICK changed : changed = IF s = "monitor" THEN {h \in run.live \ dead : MonitorChanges(h)} ELSE {}
  OBVIOUS
<1>2. /\ s \in Roles /\ Tail(run.left) \in Seq(Roles) /\ InOrder(Tail(run.left))
      /\ Elems(run.left) = {s} \cup Elems(Tail(run.left))
      /\ \A r \in Elems(Tail(run.left)) : Rank(s) < Rank(r)
  BY <1>1, NextRole DEF Runs
<1>3. UNCHANGED <<log, framework, now, cache>>
  BY DEF Step
<1>4. run' = [run EXCEPT !.left = Tail(@), !.live = @ \ dead, !.notified = @ \cup changed]
  BY DEF Step
<1>5. changed \subseteq Host
  BY <1>1 DEF Playing
<1>6. run' \in Playing
  BY <1>1, <1>2, <1>4, <1>5 DEF Playing
<1>7. /\ run'.live = run.live \ dead /\ run'.left = Tail(run.left)
      /\ run'.notified = run.notified \cup changed
      /\ run'.verb = run.verb /\ run'.tag = run.tag /\ run'.rig = run.rig
      /\ run'.hosts = run.hosts /\ run'.proved = run.proved /\ run'.commit = run.commit
  BY <1>1, <1>4 DEF Playing
<1>8. box' = [h \in Host |->
                CASE h \in dead -> [box[h] EXCEPT !.lost = @ \/ (h \in run.notified)]
                  [] h \in run.live \ dead -> Done(h, s)
                  [] OTHER -> box[h]]
  BY DEF Step
<1>9. \A h \in Host :
         /\ h \in dead => box'[h] = [box[h] EXCEPT !.lost = @ \/ (h \in run.notified)]
         /\ h \in run.live \ dead => box'[h] = Done(h, s)
         /\ h \notin run.live => box'[h] = box[h]
  BY <1>1, <1>8
<1>10. ASSUME NEW h \in Host PROVE box'[h] \in Boxes /\ BoxPast(box'[h])
  <2> PICK b : b = box[h]
    OBVIOUS
  <2>1. b \in Boxes /\ BoxPast(b)
    BY DEF Typed
  <2>2. [b EXCEPT !.lost = @ \/ (h \in run.notified)] \in Boxes
        /\ BoxPast([b EXCEPT !.lost = @ \/ (h \in run.notified)])
    BY <2>1 DEF Boxes, BoxPast
  <2>3. Done(h, s) \in Boxes /\ BoxPast(Done(h, s))
    BY <1>1, <1>2, Leaves
  <2> QED  BY <1>1, <1>9, <2>1, <2>2, <2>3
<1>11. box' \in [Host -> Boxes]
  BY <1>8, <1>10
<1>12. Tip' = Tip /\ \A h \in Host : BoxPast(box[h])'
  BY <1>3, <1>10 DEF BoxPast, Past, Tip
<1>13. Typed'
  BY <1>1, <1>3, <1>6, <1>7, <1>11, <1>12 DEF Typed, Fleet
<1> QED  BY <1>1, <1>2, <1>3, <1>6, <1>7, <1>9, <1>13, PlayingIs

LEMMA StepKeeps == ASSUME IInv, NEW dead \in SUBSET Host, Step(dead) PROVE IInv'
<1>0. Typed /\ Runs /\ Scripts /\ Fits /\ Trusted /\ Muting
  BY DEF IInv
<1>1. /\ Typed' /\ run # Idle /\ run' # Idle
      /\ UNCHANGED <<log, framework, now, cache>>
      /\ dead \subseteq run.live /\ run'.live = run.live \ dead
      /\ run'.verb = run.verb /\ run'.tag = run.tag /\ run'.rig = run.rig
      /\ run'.hosts = run.hosts /\ run'.proved = run.proved /\ run'.commit = run.commit
  BY <1>0, StepIs
<1>2. PICK s \in Roles :
         /\ Elems(run.left) = {s} \cup Elems(run'.left)
         /\ \A r \in Elems(run'.left) : Rank(s) < Rank(r)
         /\ InOrder(run'.left)
         /\ run'.notified = run.notified \cup
               (IF s = "monitor" THEN {h \in run.live \ dead : MonitorChanges(h)} ELSE {})
         /\ \A h \in Host :
               /\ h \in dead => box'[h] = [box[h] EXCEPT !.lost = @ \/ (h \in run.notified)]
               /\ h \in run.live \ dead => box'[h] = Done(h, s)
               /\ h \notin run.live => box'[h] = box[h]
  BY <1>0, StepIs
<1>3. /\ run \in Playing /\ run.commit \in 1..Tip /\ run.live \subseteq run.hosts
      /\ run.verb \in Verbs /\ run.tag \in Tags /\ run.rig \in BOOLEAN
      /\ run.live \subseteq Host /\ run.proved \subseteq Host
  BY <1>0, <1>1, PlayingIs DEF Typed
<1>4. Reach' = Reach /\ Stamp' = Stamp /\ Stamp.commit = run.commit /\ Stamp.framework = framework
      /\ Stamp # NoStamp
  <2>1. Reach' = Reach /\ Stamp' = Stamp /\ Stamp.commit = run.commit /\ Stamp.framework = framework
    BY <1>1 DEF Reach, Stamp
  <2>2. NoStamp.commit = 0 /\ run.commit # 0
    BY <1>3 DEF NoStamp
  <2> QED  BY <2>1, <2>2
<1>5. \A n : Config(n)' = Config(n)
  BY <1>1 DEF Config
<1>6. ASSUME NEW h \in Host
      PROVE  /\ h \in dead =>
                   /\ box'[h].at = box[h].at /\ box'[h].running = box[h].running
                   /\ box'[h].creds = box[h].creds /\ box'[h].policy = box[h].policy
                   /\ box'[h].state = box[h].state /\ box'[h].applied = box[h].applied
                   /\ box'[h].lost = (box[h].lost \/ h \in run.notified)
             /\ h \in run.live \ dead =>
                   /\ box'[h].creds = (IF s = "channel" THEN run.commit ELSE box[h].creds)
                   /\ box'[h].policy = (IF s = "policy" THEN run.commit ELSE box[h].policy)
                   /\ box'[h].applied = box[h].applied
                   /\ \A e \in Emitter :
                         box'[h].at[e] = (IF e \in Renders(s) THEN Stamp ELSE box[h].at[e])
                   /\ box'[h].running = (IF Restarts(h, s)
                         THEN [at |-> (IF s = "monitor" THEN Stamp ELSE box[h].at["monitor"]),
                               creds |-> box[h].creds]
                         ELSE box[h].running)
                   /\ box'[h].lost = (box[h].lost /\ ~(s = "system" /\ h \in run.notified))
                   /\ box'[h].state = (IF s = "state"
                         THEN [commit |-> Tip, framework |-> framework, whole |-> FALSE]
                         ELSE box[h].state)
  <2>1. box[h] \in Boxes
    BY <1>0 DEF Typed
  <2>2. CASE h \in dead
    BY <1>2, <2>1, <2>2 DEF Boxes
  <2>3. CASE h \in run.live \ dead
    <3> PICK d : d = Done(h, s)
      OBVIOUS
    <3>1. box'[h] = d
      BY <1>2, <2>3
    <3>2. /\ d.creds = (IF s = "channel" THEN run.commit ELSE box[h].creds)
          /\ d.policy = (IF s = "policy" THEN run.commit ELSE box[h].policy)
          /\ d.applied = box[h].applied
          /\ \A e \in Emitter : d.at[e] = (IF e \in Renders(s) THEN Stamp ELSE box[h].at[e])
          /\ d.running = (IF Restarts(h, s)
                THEN [at |-> (IF s = "monitor" THEN Stamp ELSE box[h].at["monitor"]),
                      creds |-> box[h].creds]
                ELSE box[h].running)
          /\ d.lost = (box[h].lost /\ ~(s = "system" /\ h \in run.notified))
          /\ d.state = (IF s = "state"
                THEN [commit |-> Tip, framework |-> framework, whole |-> FALSE]
                ELSE box[h].state)
      BY <1>0, <1>1, Leaves
    <3> QED  BY <2>3, <3>1, <3>2
  <2> QED  BY <2>2, <2>3
<1>7. \A h \in Host : h \notin run.live => box'[h] = box[h]
  BY <1>2
<1>8. s \notin Elems(run'.left) /\ s \in Reach /\ Elems(run'.left) \subseteq Elems(run.left)
      /\ Elems(run.left) \subseteq Reach
  BY <1>0, <1>1, <1>2 DEF Runs, Rank, Roles
<1>9. "monitor" \in Elems(run'.left) => "system" \in Elems(run'.left)
  BY <1>0, <1>1, <1>2 DEF Runs, Rank
<1>10. Runs'
  <2>1. ASSUME NEW h \in run.live \ dead, NEW r \in Reach \ Elems(run'.left) PROVE Has(h, r)'
    <3>1. h \in Host
      BY <1>3
    <3>2. r = s \/ Has(h, r)
      BY <1>0, <1>1, <1>2 DEF Runs
    <3>3. Renders(r) \subseteq Emitter
      BY DEF Renders, Emitter
    <3> QED  BY <1>1, <1>4, <1>6, <3>1, <3>2, <3>3 DEF Has
  <2>2. run.verb = "deploy" => Valid(Config(run.commit))'
    BY <1>0, <1>1 DEF Runs, Valid, Config
  <2> QED  BY <1>0, <1>1, <1>2, <1>4, <1>8, <1>9, <2>1, <2>2 DEF Runs
<1>11. ASSUME NEW h \in Host PROVE Script(h)'
  <2>0. /\ Script(h) /\ "monitor" \in Emitter
        /\ \A n : Routing(Config(n))' = Routing(Config(n))
    BY <1>0, <1>1 DEF Scripts, Emitter, Routing, Config, AlertIds, Meets
  <2>1. CASE h \notin run.live
    <3>1. box'[h] = box[h] /\ (h \in run'.notified <=> h \in run.notified) /\ h \notin run'.live
      BY <1>1, <1>2, <2>1
    <3>2. ~Pends(h) /\ ~(Pends(h))'
      BY <2>1, <3>1 DEF Pends
    <3> QED  BY <1>1, <2>0, <2>1, <3>1, <3>2 DEF Script
  <2>2. CASE h \in dead
    <3>1. (h \in run'.notified <=> h \in run.notified) /\ h \notin run'.live /\ h \in run.live
      BY <1>1, <1>2, <2>2
    <3>2. ~(Pends(h))'
      BY <3>1 DEF Pends
    <3>3. ~box[h].lost /\ h \notin run.notified => ~Pends(h)
      BY DEF Pends
    <3>4. /\ box'[h].at = box[h].at /\ box'[h].running = box[h].running
          /\ box'[h].lost <=> (box[h].lost \/ h \in run.notified)
      BY <1>6, <2>2
    <3>5. run' # Idle /\ h \in run'.notified =>
             Rigs(run'.verb, run'.tag, run'.rig) /\ (h \in run'.live \/ box'[h].lost)
      BY <1>1, <2>0, <3>1, <3>4 DEF Script
    <3>6. box[h].at["monitor"] # NoStamp /\ ~box'[h].lost =>
             /\ box[h].running.at # NoStamp
             /\ Routing(Config(box[h].running.at.commit)) = Routing(Config(box[h].at["monitor"].commit))
      BY <2>0, <3>3, <3>4 DEF Script
    <3>7. /\ box[h].running.at # NoStamp => box[h].running.creds # 0 /\ box[h].running.at.commit # 0
          /\ \A e \in Emitter : box[h].at[e] # NoStamp => box[h].at[e].commit # 0
      BY <2>0 DEF Script
    <3> QED  BY <2>0, <3>2, <3>4, <3>5, <3>6, <3>7 DEF Script
  <2>3. CASE h \in run.live \ dead
    <3>0. h \in run.live /\ h \in run'.live /\ run.commit # 0
      BY <1>1, <1>3, <2>3
    <3>1. \A e \in Emitter : box'[h].at[e] # NoStamp => box'[h].at[e].commit # 0
      <4>1. \A e \in Emitter : box'[h].at[e] = Stamp \/ box'[h].at[e] = box[h].at[e]
        BY <1>6, <2>3
      <4>2. \A e \in Emitter : box[h].at[e] # NoStamp => box[h].at[e].commit # 0
        BY <2>0 DEF Script
      <4> QED  BY <1>4, <3>0, <4>1, <4>2
    <3>2. CASE s = "monitor"
      <4>1. Rigs(run.verb, run.tag, run.rig)
        BY <1>3, <1>8, <3>2, StepsAre DEF Reach
      <4>2. "channel" \in Reach \ Elems(run.left) /\ "system" \in Elems(run'.left)
        <5>1. "channel" \in Reach
          BY <1>3, StepsAre DEF Reach
        <5>2. "system" \in Elems(run.left)
          BY <1>0, <1>1, <1>2, <3>2 DEF Runs
        <5> QED  BY <1>2, <3>2, <5>1, <5>2 DEF Rank
      <4>3. box[h].creds = run.commit
        BY <1>0, <1>1, <3>0, <4>2 DEF Runs, Has
      <4>4. box'[h].at["monitor"] = Stamp /\ (box'[h].lost <=> box[h].lost)
        BY <1>6, <2>0, <2>3, <3>2 DEF Renders
      <4>5. CASE box[h].running.at = NoStamp
        <5>1. box'[h].running = [at |-> Stamp, creds |-> run.commit]
          BY <1>6, <2>3, <3>2, <4>3, <4>5 DEF Restarts
        <5> QED  BY <1>1, <1>3, <1>4, <2>0, <3>0, <3>1, <4>1, <4>4, <5>1 DEF Script
      <4>6. CASE box[h].running.at # NoStamp
        <5>1. box'[h].running = box[h].running
          BY <1>6, <2>3, <3>2, <4>6 DEF Restarts
        <5>2. /\ box'[h].running.at # NoStamp => box'[h].running.creds # 0 /\ box'[h].running.at.commit # 0
              /\ h \in run'.notified => Rigs(run'.verb, run'.tag, run'.rig) /\ h \in run'.live
          BY <1>1, <2>0, <3>0, <4>1, <5>1 DEF Script
        <5>3. CASE h \in run'.notified
          <6>1. (Pends(h))'
            BY <1>1, <3>0, <4>2, <5>3 DEF Pends
          <6> QED  BY <3>1, <5>2, <6>1 DEF Script
        <5>4. CASE h \notin run'.notified
          <6>1. ~MonitorChanges(h) /\ h \notin run.notified
            BY <1>2, <2>3, <3>2, <5>4
          <6>2. /\ box[h].at["monitor"] # NoStamp
                /\ Routing(Config(box[h].at["monitor"].commit)) = Routing(Config(run.commit))
            BY <6>1 DEF MonitorChanges
          <6>3. ~Pends(h)
            BY <6>1 DEF Pends
          <6>4. ~box[h].lost => Routing(Config(box[h].running.at.commit)) = Routing(Config(run.commit))
            BY <2>0, <6>2, <6>3 DEF Script
          <6> QED  BY <1>1, <1>4, <2>0, <3>1, <4>4, <4>6, <5>1, <5>2, <5>4, <6>4 DEF Script
        <5> QED  BY <5>3, <5>4
      <4> QED  BY <4>5, <4>6
    <3>3. CASE s # "monitor"
      <4>1. (h \in run'.notified <=> h \in run.notified) /\ box'[h].at["monitor"] = box[h].at["monitor"]
        <5>1. h \in run'.notified <=> h \in run.notified
          BY <1>2, <2>0, <2>3, <3>3
        <5>2. box'[h].at["monitor"] = box[h].at["monitor"]
          BY <1>6, <2>0, <2>3, <3>3 DEF Renders
        <5> QED  BY <5>1, <5>2
      <4>2. CASE s = "system" /\ h \in run.notified
        <5>1. Rigs(run.verb, run.tag, run.rig)
          BY <1>1, <2>0, <4>2 DEF Script
        <5>2. {"channel", "monitor"} \subseteq Reach
          BY <1>3, <5>1, StepsAre DEF Reach
        <5>3. {"channel", "monitor"} \subseteq Reach \ Elems(run.left)
          BY <1>2, <4>2, <5>2 DEF Rank
        <5>4. box[h].creds = run.commit /\ box[h].at["monitor"] = Stamp
          BY <1>0, <1>1, <3>0, <5>3 DEF Runs, Has, Renders
        <5>5. box'[h].running = [at |-> Stamp, creds |-> run.commit]
          BY <1>6, <2>3, <4>2, <5>4 DEF Restarts
        <5> QED  BY <1>1, <1>3, <1>4, <2>0, <3>0, <3>1, <4>1, <5>1, <5>4, <5>5 DEF Script
      <4>3. CASE ~(s = "system" /\ h \in run.notified)
        <5>1. box'[h].running = box[h].running /\ box'[h].lost = box[h].lost
          BY <1>0, <1>6, <2>3, <3>3, <4>3 DEF Restarts, Typed, Boxes
        <5>2. (Pends(h))' <=> Pends(h)
          BY <1>1, <1>2, <3>0, <4>1, <4>3 DEF Pends
        <5> QED  BY <1>1, <2>0, <3>0, <3>1, <4>1, <5>1, <5>2 DEF Script
      <4> QED  BY <4>2, <4>3
    <3> QED  BY <3>2, <3>3
  <2> QED  BY <2>1, <2>2, <2>3
<1>12. ASSUME NEW h \in Host PROVE Fit(h)'
  <2>1. Fit(h) /\ "outbound" \in Emitter /\ "outbound" \notin Emitter \ {"outbound"}
    BY <1>0 DEF Fits, Emitter
  <2>2. box'[h].applied = box[h].applied
    BY <1>6, <1>7
  <2>3. ASSUME box[h].applied # {}
        PROVE  /\ Current(run.commit) /\ (box'[h].creds = box[h].creds \/ box'[h].creds = run.commit)
               /\ box'[h].policy = box[h].policy \/ box'[h].policy = run.commit
               /\ \A e \in Emitter : box'[h].at[e] = box[h].at[e] \/ box'[h].at[e].commit = run.commit
    <3>1. Current(run.commit)
      BY <1>1, <2>1, <2>3 DEF Fit
    <3> QED  BY <1>4, <1>6, <1>7, <3>1
  <2>4. \A n : Current(n)' <=> Current(n)
    BY <1>1 DEF Current, Config, Tip
  <2>5. Valid(Config(Tip))' <=> Valid(Config(Tip))
    BY <1>1 DEF Valid, Config, Tip
  <2>6. (Current(box[h].creds))' <=> Current(box'[h].creds)
    BY <1>1 DEF Current, Config, Tip
  <2>7. (Current(box[h].policy))' <=> Current(box'[h].policy)
    BY <1>1 DEF Current, Config, Tip
  <2>8. (Current(run.commit))' <=> Current(run.commit)
    BY <1>1 DEF Current, Config, Tip
  <2>9. ASSUME NEW e \in Emitter PROVE (Current(box[h].at[e].commit))' <=> Current(box'[h].at[e].commit)
    BY <1>1 DEF Current, Config, Tip
  <2> QED  BY <1>1, <2>1, <2>2, <2>3, <2>5, <2>6, <2>7, <2>8, <2>9 DEF Fit
<1>13. Trusted'
  <2>1. ASSUME NEW h \in Host, NEW r, r = RefIn(log, run.commit), FreshFrom(h, r)
        PROVE  FreshFrom(h, r)'
    <3>1. \A e \in RigEmitter : e \in Emitter
      BY DEF RigEmitter, Emitter
    <3>2. \A e \in RigEmitter : box'[h].at[e] = box[h].at[e] \/ box'[h].at[e] = Stamp
      BY <1>6, <1>7, <3>1
    <3>3. run.commit # 0
      BY <1>3
    <3> QED  BY <1>1, <1>4, <2>1, <3>2, <3>3 DEF FreshFrom
  <2>2. /\ Newest' = Newest /\ ((Skips)' <=> Skips)
        /\ (RefIn(log, run.commit))' = RefIn(log, run.commit)
    BY <1>1 DEF Newest, Skips
  <2>3. /\ cache.ref <= run.commit /\ (RefIn(log, run.commit) = Newest \/ Newest > run.commit)
        /\ \A h \in Host : box[h].state.whole => box[h].state.commit <= run.commit
    BY <1>0, <1>1 DEF Trusted
  <2>4. /\ cache.ref \in Nat /\ run.commit \in Nat /\ cache.proved \subseteq Host
        /\ \A h \in Host : box[h].state.commit \in Nat
    BY <1>0, <1>3, PlayingIs DEF Typed, Caches, Boxes
  <2>5. ASSUME NEW h \in Host, box'[h].state.whole PROVE box'[h].state = box[h].state
    <3>1. [commit |-> Tip, framework |-> framework, whole |-> FALSE].whole = FALSE
      OBVIOUS
    <3>2. CASE h \in run.live \ dead /\ s = "state"
      BY <1>6, <2>5, <3>1, <3>2
    <3>3. CASE h \notin run.live \/ h \in dead \/ s # "state"
      BY <1>6, <1>7, <3>3
    <3> QED  BY <3>2, <3>3
  <2>10. PICK new : new = Newest
    OBVIOUS
  <2>11. PICK ref : ref = RefIn(log, run.commit)
    OBVIOUS
  <2>12. Newest' = new /\ (RefIn(log, run.commit))' = ref
    BY <2>2, <2>10, <2>11
  <2>6. ASSUME ~cache.needed, cache.framework = framework, cache.ref = new, NEW h \in cache.proved
        PROVE  FreshFrom(h, new)'
    <3>1. ref = new /\ FreshFrom(h, new) /\ h \in Host
      BY <1>0, <2>3, <2>4, <2>6, <2>10, <2>11 DEF Trusted
    <3> QED  BY <2>1, <2>11, <3>1
  <2>7. ASSUME NEW h \in Host, box'[h].state.whole, box'[h].state.framework = framework,
               box'[h].state.commit = new
        PROVE  FreshFrom(h, new)'
    <3>1. box[h].state.whole /\ box[h].state.framework = framework /\ box[h].state.commit = new
      BY <2>5, <2>7
    <3>2. ref = new /\ FreshFrom(h, new)
      BY <1>0, <2>3, <2>4, <2>10, <2>11, <3>1 DEF Trusted
    <3> QED  BY <2>1, <2>11, <3>2
  <2>8. /\ cache'.ref <= run'.commit
        /\ \A h \in Host : box'[h].state.whole => box'[h].state.commit <= run'.commit
        /\ ref = new \/ new > run'.commit
    BY <1>1, <2>3, <2>5, <2>10, <2>11
  <2>9. ASSUME (Skips)', NEW h \in run'.proved PROVE FreshFrom(h, ref)'
    <3>1. h \in Host /\ FreshFrom(h, ref)
      BY <1>0, <1>1, <1>3, <2>2, <2>9, <2>11 DEF Trusted
    <3> QED  BY <2>1, <2>11, <3>1
  <2>13. cache' = cache /\ framework' = framework
    BY <1>1
  <2> QED  BY <2>6, <2>7, <2>8, <2>9, <2>12, <2>13 DEF Trusted
<1>14. Muting'
  BY <1>0, <1>1 DEF Muting, Lasts, Config, Tip
<1> QED  BY <1>1, <1>10, <1>11, <1>12, <1>13, <1>14 DEF IInv, Scripts, Fits

-----------------------------------------------------------------------------
(* The end of a run, and a run the operator stops, keep them.                  *)

(* What does not depend on the run: log, framework and clock stay, and on each *)
(* host the files and the running monitor do.                                  *)
Settles(h) ==
    /\ box'[h].at = box[h].at /\ box'[h].running = box[h].running
    /\ box'[h].creds = box[h].creds /\ box'[h].policy = box[h].policy
Ends ==
    /\ run # Idle /\ run' = Idle /\ UNCHANGED <<log, framework, now>>
    /\ \A h \in Host : Settles(h)
LEMMA EndKeepsMutes == ASSUME Ends, Muting PROVE Muting'
BY DEF Ends, Muting, Lasts, Config, Tip

LEMMA EndIsPast ==
    ASSUME Ends, NEW h \in Host, BoxPast(box[h]), box'[h].state.commit = box[h].state.commit,
           box'[h].state.framework = box[h].state.framework
    PROVE  BoxPast(box'[h])
BY DEF Ends, Settles, BoxPast

LEMMA PastStays == ASSUME Ends, NEW h \in Host, BoxPast(box'[h]) PROVE BoxPast(box[h])'
BY DEF Ends, BoxPast, Past, Tip

LEMMA KillKeeps == ASSUME IInv, Kill PROVE IInv'
<1>0. Typed /\ Runs /\ Scripts /\ Fits /\ Trusted /\ Muting
  BY DEF IInv
<1>1. ASSUME NEW h \in Host
      PROVE  /\ Settles(h) /\ box'[h] \in Boxes /\ box'[h].state = box[h].state
             /\ box'[h].applied = box[h].applied
             /\ box'[h].lost <=> (box[h].lost \/ h \in run.notified)
  <2> PICK b : b = box[h]
    OBVIOUS
  <2>1. b \in Boxes
    BY <1>0 DEF Typed
  <2>2. box'[h] = [b EXCEPT !.lost = b.lost \/ (h \in run.notified)]
    BY DEF Kill
  <2> QED  BY <2>1, <2>2 DEF Boxes, Settles
<1>2. Ends /\ cache' = cache
  BY <1>1 DEF Kill, Ends
<1>3. Typed'
  <2>1. box' \in [Host -> Boxes]
    <3>1. DOMAIN box' = Host /\ box' = [h \in Host |-> box'[h]]
      BY DEF Kill
    <3> QED  BY <1>1, <3>1
  <2>2. \A h \in Host : BoxPast(box[h])'
    BY <1>0, <1>1, <1>2, EndIsPast, PastStays DEF Typed
  <2>3. Fleet' /\ cache' \in Caches /\ cache'.ref <= Tip' /\ cache'.framework <= framework'
    BY <1>0, <1>2 DEF Typed, Fleet, Ends, Tip
  <2> QED  BY <1>2, <2>1, <2>2, <2>3 DEF Typed, Ends
<1>4. Runs'
  BY <1>2 DEF Runs, Ends
<1>5. ASSUME NEW h \in Host PROVE Script(h)'
  <2>1. Script(h) /\ ~(Pends(h))' /\ \A n : Routing(Config(n))' = Routing(Config(n))
    BY <1>0, <1>2 DEF Scripts, Pends, Ends, Routing, Config, AlertIds, Meets
  <2>2. ~box'[h].lost => ~box[h].lost /\ ~Pends(h)
    BY <1>1 DEF Pends
  <2>3. box[h].at["monitor"] # NoStamp /\ ~box'[h].lost =>
           /\ box[h].running.at # NoStamp
           /\ Routing(Config(box[h].running.at.commit)) = Routing(Config(box[h].at["monitor"].commit))
    BY <2>1, <2>2 DEF Script
  <2>4. /\ box[h].running.at # NoStamp => box[h].running.creds # 0 /\ box[h].running.at.commit # 0
        /\ \A e \in Emitter : box[h].at[e] # NoStamp => box[h].at[e].commit # 0
    BY <2>1 DEF Script
  <2>5. box'[h].at = box[h].at /\ box'[h].running = box[h].running /\ run' = Idle
    BY <1>1, <1>2 DEF Settles, Ends
  <2> QED  BY <2>1, <2>3, <2>4, <2>5 DEF Script
<1>6. ASSUME NEW h \in Host PROVE Fit(h)'
  <2>1. Fit(h)
    BY <1>0 DEF Fits
  <2> QED  BY <1>1, <1>2, <2>1 DEF Fit, Settles, Ends, Current, Config, Tip, Valid
<1>7. Trusted'
  <2>1. \A h \in Host : \A ref : FreshFrom(h, ref)' <=> FreshFrom(h, ref)
    BY <1>1, <1>2 DEF FreshFrom, Settles, Ends
  <2>2. Newest' = Newest /\ ~(Skips)' /\ run' = Idle
    BY <1>2 DEF Newest, Skips, Ends
  <2>3. cache.proved \subseteq Host
    BY <1>0 DEF Typed, Caches
  <2> QED  BY <1>0, <1>1, <1>2, <2>1, <2>2, <2>3 DEF Trusted, Ends
<1>8. Muting'
  BY <1>0, <1>2, EndKeepsMutes
<1> QED  BY <1>3, <1>4, <1>5, <1>6, <1>7, <1>8 DEF IInv, Scripts, Fits

LEMMA FinishIs ==
    ASSUME Typed, Runs, Finish
    PROVE  /\ Ends /\ Typed'
           /\ \A h \in Host :
                 /\ box'[h].lost = box[h].lost
                 /\ box'[h].state.commit = box[h].state.commit
                 /\ box'[h].state.framework = box[h].state.framework
                 /\ h \notin run.live => box'[h] = box[h]
                 /\ box'[h].state.whole =>
                       \/ box[h].state.whole
                       \/ /\ h \in run.live /\ run.verb = "deploy" /\ run.rig
                          /\ RefIn(log, run.commit) = Newest
                 /\ box'[h].applied # box[h].applied =>
                       /\ h \in run.live /\ run.tag = "none" /\ run.rig /\ Current(run.commit)
                       /\ box'[h].applied = box[h].applied \cup {run.verb}
           /\ \A h \in run.live : \A s \in Reach : Has(h, s)
           /\ \/ cache' = cache \/ cache'.needed
              \/ /\ cache'.ref = Newest /\ run.live = run.hosts /\ run.verb = "deploy" /\ run.tag = "none"
                 /\ \/ cache'.proved = {}
                    \/ /\ RefIn(log, run.commit) = Newest
                       /\ cache'.proved = IF run.rig THEN run.hosts ELSE run.proved
<1>1. /\ run # Idle /\ run \in Playing /\ run.live \subseteq Host /\ run.commit \in 1..Tip
      /\ run.verb \in Verbs /\ run.hosts \subseteq Host /\ run.proved \subseteq Host
      /\ run' = Idle /\ UNCHANGED <<log, framework, now>>
  BY PlayingIs DEF Finish, Typed
<1>2. ConsumerRef(Tip) = Newest /\ ConsumerRef(run.commit) = RefIn(log, run.commit)
  BY Refs DEF Newest, Tip
<1>3. Newest \in 1..Tip /\ framework \in Nat /\ Tip \in Nat
  BY RefIs DEF Typed, Fleet, Rigged, Newest, Tip, IsRef
<1>4. PICK kept : kept = (Newest = RefIn(log, run.commit))
  OBVIOUS
<1>5. ASSUME NEW h \in Host
      PROVE  /\ Settles(h) /\ box'[h] \in Boxes
             /\ box'[h].lost = box[h].lost
             /\ box'[h].state.commit = box[h].state.commit
             /\ box'[h].state.framework = box[h].state.framework
             /\ h \notin run.live => box'[h] = box[h]
             /\ box'[h].state.whole =>
                   \/ box[h].state.whole
                   \/ /\ h \in run.live /\ run.verb = "deploy" /\ run.rig
                      /\ RefIn(log, run.commit) = Newest
             /\ box'[h].applied # box[h].applied =>
                   /\ h \in run.live /\ run.tag = "none" /\ run.rig /\ Current(run.commit)
                   /\ box'[h].applied = box[h].applied \cup {run.verb}
  <2> PICK b : b = box[h]
    OBVIOUS
  <2>1. b \in Boxes
    BY DEF Typed
  <2>2. CASE h \notin run.live
    <3>1. box'[h] = b
      BY <2>2 DEF Finish
    <3> QED  BY <2>1, <2>2, <3>1 DEF Settles
  <2>3. CASE h \in run.live
    <3> PICK w : w = (b.state.whole \/ (b.state.commit # 0 /\ kept /\ run.verb = "deploy" /\ run.rig))
      OBVIOUS
    <3> PICK ap : ap = IF run.tag = "none" /\ run.rig /\ Config(run.commit) = Config(Tip)
                       THEN b.applied \cup {run.verb} ELSE b.applied
      OBVIOUS
    <3> PICK st : st = [b.state EXCEPT !.whole = w]
      OBVIOUS
    <3>1. box'[h] = [b EXCEPT !.state = st, !.applied = ap]
      BY <1>2, <1>4, <2>3 DEF Finish
    <3>2. /\ st \in [commit : Nat, framework : Nat, whole : BOOLEAN] /\ st.whole = w
          /\ st.commit = b.state.commit /\ st.framework = b.state.framework
      BY <2>1 DEF Boxes
    <3>3. ap \in SUBSET Verbs
      BY <1>1, <2>1 DEF Boxes
    <3>4. /\ box'[h] \in Boxes /\ box'[h].state = st /\ box'[h].applied = ap
          /\ box'[h].lost = b.lost /\ Settles(h)
      BY <2>1, <3>1, <3>2, <3>3 DEF Boxes, Settles
    <3>5. ap # b.applied => run.tag = "none" /\ run.rig /\ Current(run.commit) /\ ap = b.applied \cup {run.verb}
      BY <1>1 DEF Current
    <3>6. w => b.state.whole \/ (run.verb = "deploy" /\ run.rig /\ RefIn(log, run.commit) = Newest)
      BY <1>4
    <3> QED  BY <2>3, <3>2, <3>4, <3>5, <3>6
  <2> QED  BY <2>2, <2>3
<1>6. Ends
  BY <1>1, <1>5 DEF Ends
<1>7. /\ cache' \in Caches /\ cache'.ref <= Tip /\ cache'.framework <= framework
      /\ \/ cache' = cache \/ cache'.needed
         \/ /\ cache'.ref = Newest /\ run.live = run.hosts /\ run.verb = "deploy" /\ run.tag = "none"
            /\ \/ cache'.proved = {}
               \/ /\ RefIn(log, run.commit) = Newest
                  /\ cache'.proved = IF run.rig THEN run.hosts ELSE run.proved
  <2>1. CASE run.live # run.hosts \/ run.verb = "provision"
    <3>1. cache' = cache
      BY <2>1 DEF Finish
    <3> QED  BY <3>1 DEF Typed
  <2>2. CASE ~(run.live # run.hosts \/ run.verb = "provision") /\ run.tag # "none"
    <3>1. cache' = NoCache
      BY <2>2 DEF Finish
    <3> QED  BY <1>3, <3>1 DEF NoCache, Caches
  <2>3. CASE ~(run.live # run.hosts \/ run.verb = "provision") /\ run.tag = "none"
    <3> PICK proved : proved = IF ~kept THEN {} ELSE IF run.rig THEN run.hosts ELSE run.proved
      OBVIOUS
    <3>1. cache' = [needed |-> FALSE, ref |-> Newest, framework |-> framework, proved |-> proved]
      BY <1>2, <1>4, <2>3 DEF Finish
    <3>2. proved \in SUBSET Host
      BY <1>1
    <3>3. cache' \in Caches /\ cache'.ref = Newest /\ cache'.framework = framework /\ cache'.proved = proved
      BY <1>3, <3>1, <3>2 DEF Caches
    <3>4. proved = {} \/ (RefIn(log, run.commit) = Newest
                           /\ proved = IF run.rig THEN run.hosts ELSE run.proved)
      BY <1>4
    <3> QED  BY <1>1, <1>3, <2>3, <3>3, <3>4 DEF Verbs
  <2> QED  BY <2>1, <2>2, <2>3
<1>8. Typed'
  <2>1. box' \in [Host -> Boxes]
    <3>1. DOMAIN box' = Host /\ box' = [h \in Host |-> box'[h]]
      BY DEF Finish
    <3> QED  BY <1>5, <3>1
  <2>2. \A h \in Host : BoxPast(box[h])'
    BY <1>5, <1>6, EndIsPast, PastStays DEF Typed
  <2>3. Fleet' /\ Tip' = Tip
    BY <1>1 DEF Typed, Fleet, Tip
  <2> QED  BY <1>1, <1>7, <2>1, <2>2, <2>3 DEF Typed
<1>9. \A h \in run.live : \A s \in Reach : Has(h, s)
  <2> SUFFICES ASSUME NEW h \in run.live PROVE \A s \in Reach : Has(h, s)
    OBVIOUS
  <2>1. run.left = <<>>
    BY DEF Finish
  <2>2. Elems(run.left) = {}
    <3>1. Elems(<<>>) = {}
      BY DEF Elems
    <3> QED  BY <2>1, <3>1
  <2> QED  BY <1>1, <2>2 DEF Runs
<1> QED  BY <1>5, <1>6, <1>7, <1>8, <1>9

LEMMA FinishKeeps == ASSUME IInv, Finish PROVE IInv'
<1>0. Typed /\ Runs /\ Scripts /\ Fits /\ Trusted /\ Muting
  BY DEF IInv
<1>1. /\ Ends /\ Typed'
      /\ \A h \in Host :
            /\ box'[h].lost = box[h].lost
            /\ box'[h].state.commit = box[h].state.commit
            /\ box'[h].state.framework = box[h].state.framework
            /\ h \notin run.live => box'[h] = box[h]
            /\ box'[h].state.whole =>
                  \/ box[h].state.whole
                  \/ /\ h \in run.live /\ run.verb = "deploy" /\ run.rig
                     /\ RefIn(log, run.commit) = Newest
            /\ box'[h].applied # box[h].applied =>
                  /\ h \in run.live /\ run.tag = "none" /\ run.rig /\ Current(run.commit)
                  /\ box'[h].applied = box[h].applied \cup {run.verb}
      /\ \A h \in run.live : \A s \in Reach : Has(h, s)
      /\ \/ cache' = cache \/ cache'.needed
         \/ /\ cache'.ref = Newest /\ run.live = run.hosts /\ run.verb = "deploy" /\ run.tag = "none"
            /\ \/ cache'.proved = {}
               \/ /\ RefIn(log, run.commit) = Newest
                  /\ cache'.proved = IF run.rig THEN run.hosts ELSE run.proved
  BY <1>0, FinishIs
<1>2. /\ run # Idle /\ run' = Idle /\ log' = log /\ framework' = framework
      /\ \A h \in Host : Settles(h)
  BY <1>1 DEF Ends
<1>3. /\ run.verb \in Verbs /\ run.tag \in Tags /\ run.rig \in BOOLEAN /\ run.commit \in 1..Tip
      /\ run.live \subseteq Host /\ run.proved \subseteq Host /\ run.hosts \subseteq Host
      /\ Stamp.commit = run.commit /\ Stamp.framework = framework
  BY <1>0, <1>2, PlayingIs DEF Typed, Stamp
<1>4. Runs'
  BY <1>2 DEF Runs
<1>5. ASSUME NEW h \in Host PROVE Script(h)'
  <2>1. Script(h) /\ ~(Pends(h))' /\ \A n : Routing(Config(n))' = Routing(Config(n))
    BY <1>0, <1>2 DEF Scripts, Pends, Routing, Config, AlertIds, Meets
  <2>2. ~Pends(h)
    <3>1. run.left = <<>> \/ run.live = {}
      BY DEF Finish
    <3>2. Elems(<<>>) = {}
      BY DEF Elems
    <3> QED  BY <3>1, <3>2 DEF Pends
  <2>3. box[h].at["monitor"] # NoStamp /\ ~box[h].lost =>
           /\ box[h].running.at # NoStamp
           /\ Routing(Config(box[h].running.at.commit)) = Routing(Config(box[h].at["monitor"].commit))
    BY <2>1, <2>2 DEF Script
  <2>4. /\ box[h].running.at # NoStamp => box[h].running.creds # 0 /\ box[h].running.at.commit # 0
        /\ \A e \in Emitter : box[h].at[e] # NoStamp => box[h].at[e].commit # 0
    BY <2>1 DEF Script
  <2>5. box'[h].at = box[h].at /\ box'[h].running = box[h].running /\ run' = Idle /\ box'[h].lost = box[h].lost
    BY <1>1, <1>2 DEF Settles
  <2> QED  BY <2>1, <2>3, <2>4, <2>5 DEF Script
<1>6. ASSUME NEW h \in Host PROVE Fit(h)'
  <2>1. Fit(h) /\ Emitter = {"build", "shell", "hook", "backup", "monitor", "outbound"}
    BY <1>0 DEF Fits, Emitter
  <2>2. /\ box'[h].at = box[h].at /\ box'[h].creds = box[h].creds /\ box'[h].policy = box[h].policy
    BY <1>2 DEF Settles
  <2>3. \A n : Current(n)' <=> Current(n)
    BY <1>2 DEF Current, Config, Tip
  <2>4. Valid(Config(Tip))' <=> Valid(Config(Tip))
    BY <1>2 DEF Valid, Config, Tip
  <2>5. PICK ap : ap = box'[h].applied
    OBVIOUS
  <2>6. /\ ap # {} => Current(box[h].creds) /\ Current(box[h].policy)
        /\ "deploy" \in ap =>
              /\ Valid(Config(Tip))
              /\ \A e \in Emitter \ {"outbound"} : Current(box[h].at[e].commit)
        /\ "provision" \in ap => Current(box[h].at["outbound"].commit)
    <3>1. CASE ap = box[h].applied
      BY <2>1, <3>1 DEF Fit
    <3>2. CASE ap # box[h].applied
      <4>1. /\ h \in run.live /\ run.tag = "none" /\ run.rig /\ Current(run.commit)
            /\ ap = box[h].applied \cup {run.verb} /\ \A s \in Reach : Has(h, s)
        BY <1>1, <2>5, <3>2
      <4>2. /\ "channel" \in Reach /\ "policy" \in Reach
            /\ run.verb = "deploy" => {"build", "app", "backup", "monitor"} \subseteq Reach
            /\ run.verb = "provision" => "outbound" \in Reach
        <5>1. run.verb = "deploy" => Rigs(run.verb, run.tag, run.rig)
          BY <4>1 DEF Rigs
        <5>2. run.tag # "deploy_stack"
          BY <4>1
        <5> QED  BY <1>3, <4>1, <5>1, <5>2, StepsAre DEF Reach
      <4>3. Current(box[h].creds) /\ Current(box[h].policy)
        BY <4>1, <4>2 DEF Has
      <4>4. CASE run.verb = "deploy"
        <5>1. \A e \in Emitter \ {"outbound"} : box[h].at[e] = Stamp
          <6>1. Has(h, "build") /\ Has(h, "app") /\ Has(h, "backup") /\ Has(h, "monitor")
            BY <4>1, <4>2, <4>4
          <6>2. /\ Renders("app") = {"shell", "hook"} /\ Renders("backup") = {"backup"}
                /\ Renders("monitor") = {"monitor"} /\ Renders("build") = {"build"}
            BY DEF Renders
          <6> QED  BY <2>1, <6>1, <6>2 DEF Has
        <5>2. \A e \in Emitter \ {"outbound"} : Current(box[h].at[e].commit)
          BY <1>3, <4>1, <5>1
        <5>3. Valid(Config(run.commit)) /\ Config(run.commit) = Config(Tip)
          BY <1>0, <1>2, <4>1, <4>4 DEF Runs, Current
        <5>4. "provision" \in ap => "provision" \in box[h].applied
          BY <4>1, <4>4
        <5> QED  BY <2>1, <4>3, <5>2, <5>3, <5>4 DEF Fit
      <4>5. CASE run.verb = "provision"
        <5>1. Has(h, "outbound") /\ Renders("outbound") = {"outbound"}
          BY <4>1, <4>2, <4>5 DEF Renders
        <5>2. Current(box[h].at["outbound"].commit)
          BY <1>3, <4>1, <5>1 DEF Has
        <5>3. "deploy" \in ap => "deploy" \in box[h].applied
          BY <4>1, <4>5
        <5> QED  BY <2>1, <4>3, <5>2, <5>3 DEF Fit
      <4> QED  BY <1>3, <4>4, <4>5 DEF Verbs
    <3> QED  BY <3>1, <3>2
  <2>7. (Current(box[h].creds) /\ Current(box[h].policy))' <=> Current(box[h].creds) /\ Current(box[h].policy)
    BY <1>2, <2>2 DEF Current, Config, Tip
  <2>8. \A e \in Emitter : (Current(box[h].at[e].commit))' <=> Current(box[h].at[e].commit)
    BY <1>2, <2>2 DEF Current, Config, Tip
  <2> QED  BY <1>2, <2>1, <2>4, <2>5, <2>6, <2>7, <2>8 DEF Fit
<1>7. Trusted'
  <2>1. PICK new : new = Newest
    OBVIOUS
  <2>2. Newest' = new /\ ~(Skips)' /\ run' = Idle /\ framework' = framework
    BY <1>2, <2>1 DEF Newest, Skips
  <2>3. \A h \in Host : \A ref : FreshFrom(h, ref)' <=> FreshFrom(h, ref)
    BY <1>2 DEF FreshFrom, Settles
  <2>4. ASSUME NEW h \in run.live, run.verb = "deploy", run.tag = "none", run.rig,
               RefIn(log, run.commit) = new
        PROVE  FreshFrom(h, new)
    <3>0. Rigs(run.verb, run.tag, run.rig)
      BY <2>4 DEF Rigs
    <3>1. {"backup", "monitor"} \subseteq Reach
      BY <1>3, <3>0, StepsAre DEF Reach
    <3>2. Has(h, "backup") /\ Has(h, "monitor")
      BY <1>1, <3>1
    <3>3. box[h].at["backup"] = Stamp /\ box[h].at["monitor"] = Stamp
      BY <3>2 DEF Has, Renders
    <3> QED  BY <1>3, <2>4, <3>3 DEF FreshFrom, RigEmitter
  <2>5. cache.proved \subseteq Host /\ cache'.proved \subseteq Host
    BY <1>0, <1>1 DEF Typed, Caches
  <2>6. ASSUME ~cache'.needed, cache'.framework = framework, cache'.ref = new, NEW h \in cache'.proved
        PROVE  FreshFrom(h, new)
    <3>1. CASE cache' = cache
      BY <1>0, <2>1, <2>6, <3>1 DEF Trusted
    <3>2. CASE cache' # cache
      <4>1. /\ run.live = run.hosts /\ run.verb = "deploy" /\ run.tag = "none"
            /\ RefIn(log, run.commit) = new
            /\ h \in IF run.rig THEN run.hosts ELSE run.proved
        BY <1>1, <2>1, <2>6, <3>2
      <4>2. CASE run.rig
        BY <2>4, <4>1, <4>2
      <4>3. CASE ~run.rig
        BY <1>0, <1>2, <4>1, <4>3 DEF Trusted, Skips
      <4> QED  BY <4>2, <4>3
    <3> QED  BY <3>1, <3>2
  <2>7. ASSUME NEW h \in Host, box'[h].state.whole, box'[h].state.framework = framework,
               box'[h].state.commit = new
        PROVE  FreshFrom(h, new)
    <3>1. CASE box[h].state.whole
      BY <1>0, <1>1, <2>1, <2>7, <3>1 DEF Trusted
    <3>2. CASE ~box[h].state.whole
      <4>1. /\ h \in run.live /\ run.verb = "deploy" /\ run.rig /\ RefIn(log, run.commit) = new
            /\ run.tag = "none"
        BY <1>0, <1>1, <1>2, <2>1, <2>7, <3>2 DEF Runs
      <4> QED  BY <2>4, <4>1
    <3> QED  BY <3>1, <3>2
  <2> QED  BY <2>2, <2>3, <2>5, <2>6, <2>7 DEF Trusted
<1>8. Muting'
  BY <1>0, <1>1, EndKeepsMutes
<1> QED  BY <1>1, <1>4, <1>5, <1>6, <1>7, <1>8 DEF IInv, Scripts, Fits

-----------------------------------------------------------------------------
(* The invariants hold.                                                        *)

LEMMA InitIInv == ASSUME Init PROVE IInv
<1>0. /\ log = <<[config |-> FirstConfig, rig |-> TRUE, act |-> NoAct]>>
      /\ framework = 1 /\ now = 0 /\ cache = NoCache /\ run = Idle
      /\ box \in [Host -> {NewBox, SetUpBox}]
  BY DEF Init
<1>1. Len(log) = 1 /\ Tip = 1 /\ log[1] = [config |-> FirstConfig, rig |-> TRUE, act |-> NoAct]
  BY <1>0 DEF Tip
<1>2. FirstConfig \in Configs /\ NoAct \in Acts /\ log[1] \in Entries
  BY <1>1 DEF FirstConfig, Configs, NoAct, Acts, Entries
<1>3. Fleet
  <2>1. log \in Seq(Entries)
    BY <1>0, <1>1, <1>2
  <2>2. MaxCommits \in Nat \ {0} /\ MaxFramework \in Nat \ {0} /\ MaxTime \in Nat
    BY RigConstants
  <2> QED  BY <1>0, <1>1, <2>1, <2>2 DEF Fleet
<1>4. Newest = 1 /\ RefIn(log, 1) = 1 /\ \A n : n = 1 => Config(n) = FirstConfig
  <2>1. IsRef(log, 1, 1)
    BY <1>1 DEF IsRef
  <2>2. RefIn(log, 1) = 1
    BY <1>1, <2>1, RefOf DEF Rigged
  <2> QED  BY <1>1, <2>2 DEF Newest, Config
<1>5. PICK first : first = [commit |-> 1, framework |-> 1]
  OBVIOUS
<1>6. first \in Stamps /\ NoStamp \in Stamps /\ Past(first) /\ Past(NoStamp)
      /\ first.commit = 1 /\ first.framework = 1 /\ NoStamp.commit = 0 /\ first # NoStamp
  BY <1>0, <1>1, <1>5 DEF Stamps, NoStamp, Past
<1>7. PICK stamped : stamped = [e \in Emitter |-> first]
  OBVIOUS
<1>8. PICK unstamped : unstamped = [e \in Emitter |-> NoStamp]
  OBVIOUS
<1>9. /\ stamped \in [Emitter -> Stamps] /\ \A e \in Emitter : stamped[e] = first
      /\ unstamped \in [Emitter -> Stamps] /\ \A e \in Emitter : unstamped[e] = NoStamp
  BY <1>6, <1>7, <1>8
<1>10. ASSUME NEW b, b = SetUpBox
       PROVE  /\ b \in Boxes /\ b.at = stamped /\ b.running = [at |-> first, creds |-> 1]
              /\ b.creds = 1 /\ b.policy = 1 /\ b.lost = FALSE
              /\ b.state = [commit |-> 1, framework |-> 1, whole |-> TRUE]
              /\ b.running.at = first /\ b.running.creds = 1
              /\ b.state.commit = 1 /\ b.state.framework = 1
  <2>1. b = [at |-> stamped, running |-> [at |-> first, creds |-> 1], creds |-> 1, policy |-> 1,
             state |-> [commit |-> 1, framework |-> 1, whole |-> TRUE], lost |-> FALSE,
             applied |-> {"deploy", "provision"}]
    BY <1>5, <1>7, <1>10 DEF SetUpBox
  <2> QED  BY <1>6, <1>9, <2>1 DEF Boxes, Verbs
<1>11. ASSUME NEW b, b = NewBox
       PROVE  /\ b \in Boxes /\ b.at = unstamped /\ b.running = [at |-> NoStamp, creds |-> 0]
              /\ b.creds = 0 /\ b.policy = 0 /\ b.lost = FALSE /\ b.applied = {}
              /\ b.state = [commit |-> 0, framework |-> 0, whole |-> FALSE]
              /\ b.running.at = NoStamp /\ b.running.creds = 0
              /\ b.state.commit = 0 /\ b.state.framework = 0
  <2>1. b = [at |-> unstamped, running |-> [at |-> NoStamp, creds |-> 0], creds |-> 0, policy |-> 0,
             state |-> [commit |-> 0, framework |-> 0, whole |-> FALSE], lost |-> FALSE,
             applied |-> {}]
    BY <1>8, <1>11 DEF NewBox, NoState
  <2> QED  BY <1>6, <1>9, <2>1 DEF Boxes
<1>12. \A h \in Host : box[h] = NewBox \/ box[h] = SetUpBox
  BY <1>0
<1>13. ASSUME NEW h \in Host PROVE box[h] \in Boxes /\ BoxPast(box[h])
  <2> PICK b : b = box[h]
    OBVIOUS
  <2>1. CASE b = SetUpBox
    <3>1. /\ b \in Boxes /\ b.at = stamped /\ b.running.at = first /\ b.running.creds = 1
          /\ b.creds = 1 /\ b.policy = 1 /\ b.state.commit = 1 /\ b.state.framework = 1
      BY <1>10, <2>1
    <3> QED  BY <1>0, <1>1, <1>6, <1>9, <3>1 DEF BoxPast
  <2>2. CASE b = NewBox
    <3>1. /\ b \in Boxes /\ b.at = unstamped /\ b.running.at = NoStamp /\ b.running.creds = 0
          /\ b.creds = 0 /\ b.policy = 0 /\ b.state.commit = 0 /\ b.state.framework = 0
      BY <1>11, <2>2
    <3> QED  BY <1>0, <1>1, <1>6, <1>9, <3>1 DEF BoxPast
  <2> QED  BY <1>12, <2>1, <2>2
<1>14. Typed
  BY <1>0, <1>1, <1>3, <1>13 DEF Typed, NoCache, Caches
<1>15. Scripts
  <2> SUFFICES ASSUME NEW h \in Host PROVE Script(h)
    BY DEF Scripts
  <2>1. "monitor" \in Emitter
    BY DEF Emitter
  <2>2. CASE box[h] = SetUpBox
    <3>1. box[h].at = stamped /\ box[h].running.at = first /\ box[h].running.creds = 1
      BY <1>10, <2>2
    <3> QED  BY <1>0, <1>6, <1>9, <2>1, <3>1 DEF Script
  <2>3. CASE box[h] = NewBox
    <3>1. box[h].at = unstamped /\ box[h].running.at = NoStamp
      BY <1>11, <2>3
    <3> QED  BY <1>0, <1>6, <1>9, <2>1, <3>1 DEF Script
  <2> QED  BY <1>12, <2>2, <2>3
<1>16. Fits
  <2> SUFFICES ASSUME NEW h \in Host PROVE Fit(h)
    BY DEF Fits
  <2>1. CASE box[h] = SetUpBox
    <3>1. Current(1) /\ Valid(Config(Tip)) /\ "outbound" \in Emitter
      BY <1>1, <1>4, RigConstants DEF Current, Emitter
    <3> QED  BY <1>0, <1>6, <1>9, <1>10, <2>1, <3>1 DEF Fit
  <2>2. CASE box[h] = NewBox
    BY <1>11, <2>2 DEF Fit
  <2> QED  BY <1>12, <2>1, <2>2
<1>17. Trusted
  <2>1. cache.needed
    BY <1>0 DEF NoCache
  <2>2. ASSUME NEW h \in Host, box[h].state.whole PROVE FreshFrom(h, Newest)
    <3>1. box[h] = SetUpBox
      <4>1. [commit |-> 0, framework |-> 0, whole |-> FALSE].whole = FALSE
        OBVIOUS
      <4> QED  BY <1>11, <1>12, <2>2, <4>1
    <3>2. \A e \in RigEmitter : box[h].at[e] = first
      BY <1>9, <1>10, <3>1 DEF RigEmitter, Emitter
    <3> QED  BY <1>0, <1>4, <1>6, <3>2 DEF FreshFrom
  <2> QED  BY <1>0, <2>1, <2>2 DEF Trusted, Skips
<1>18. Muting
  <2>1. FirstConfig.mute = {}
    BY DEF FirstConfig
  <2>2. log[1].act.op # "disable"
    BY <1>1 DEF NoAct
  <2> QED  BY <1>1, <1>4, <2>1, <2>2 DEF Muting, Lasts
<1> QED  BY <1>0, <1>14, <1>15, <1>16, <1>17, <1>18 DEF IInv, Runs

LEMMA NextKeeps == ASSUME IInv, [Next]_vars PROVE IInv'
<1>0. Typed
  BY DEF IInv
<1>1. CASE Edit
  BY <1>0, <1>1, EditIs, CommitKeeps
<1>2. CASE UpdateFramework \/ Tick \/ CacheExpires
  BY <1>2, OutsideKeeps
<1>3. CASE Begin
  BY <1>3, BeginKeeps
<1>4. CASE \E dead \in SUBSET Host : Step(dead)
  BY <1>4, StepKeeps
<1>5. CASE Finish
  BY <1>5, FinishKeeps
<1>6. CASE Kill
  BY <1>6, KillKeeps
<1>7. CASE UNCHANGED vars
  <2>1. UNCHANGED <<log, framework, now, cache, box, run>>
    BY <1>7 DEF vars
  <2>2. Typed'
    BY <1>0, <2>1 DEF Typed, Fleet, BoxPast, Past, Tip
  <2>3. Runs'
    BY <2>1, SMTT(30) DEF IInv, Runs, Reach, Has, Stamp, Valid, Config
  <2>4. Scripts'
    BY <2>1 DEF IInv, Scripts, Script, Pends, Config
  <2>5. Fits'
    BY <2>1 DEF IInv, Fits, Fit, Current, Config, Tip
  <2>6. Trusted'
    BY <2>1 DEF IInv, Trusted, FreshFrom, Newest, Skips
  <2>7. Muting'
    BY <2>1 DEF IInv, Muting, Lasts, Config, Tip
  <2> QED  BY <2>2, <2>3, <2>4, <2>5, <2>6, <2>7 DEF IInv
<1>8. Next => \/ Edit \/ UpdateFramework \/ Tick \/ CacheExpires \/ Begin
              \/ (\E dead \in SUBSET Host : Step(dead)) \/ Finish \/ Kill
  BY DEF Next, Edit, Begin
<1> QED  BY <1>1, <1>2, <1>3, <1>4, <1>5, <1>6, <1>7, <1>8

(* What the fleet's hosts, the operator's cache and a run hold together.       *)
THEOREM Invariant == Spec => []IInv
<1>1. Init => IInv
  BY InitIInv
<1>2. IInv /\ [Next]_vars => IInv'
  BY NextKeeps
<1> QED  BY <1>1, <1>2, PTL DEF Spec

-----------------------------------------------------------------------------
(* Types: stamps, credentials and override files are of commits the fleet has  *)
(* and of framework versions that were installed.                              *)
THEOREM TypeCorrect == Spec => []TypeOK
<1>1. ASSUME IInv PROVE TypeOK
  <2>1. Fleet /\ Tip \in Nat /\ framework \in Nat
    BY <1>1 DEF IInv, Typed, Fleet, Tip
  <2>2. cache \in [needed : BOOLEAN, ref : 0..Tip, framework : 0..framework, proved : SUBSET Host]
    BY <1>1, <2>1 DEF IInv, Typed, Caches
  <2>3. ASSUME NEW h \in Host
        PROVE  /\ box[h].at \in [Emitter -> StampSet]
               /\ box[h].running \in [at : StampSet, creds : 0..Tip]
               /\ box[h].creds \in 0..Tip /\ box[h].policy \in 0..Tip
               /\ box[h].applied \subseteq {"deploy", "provision"}
    <3>1. box[h] \in Boxes /\ BoxPast(box[h])
      BY <1>1 DEF IInv, Typed
    <3>2. \A st \in Stamps : Past(st) => st \in StampSet
      BY <2>1 DEF Stamps, Past, StampSet
    <3> QED  BY <2>1, <3>1, <3>2 DEF Boxes, BoxPast, Verbs
  <2>4. run = Idle \/ (run.live \subseteq run.hosts /\ run.commit \in Ref)
    BY <1>1 DEF IInv, Typed, Ref
  <2> QED  BY <2>1, <2>2, <2>3, <2>4 DEF TypeOK, Fleet
<1> QED  BY <1>1, Invariant, PTL

(* A deploy that leaves the rig roles out leaves none behind on the hosts its  *)
(* evidence is about (ops.py, rig state).                                      *)
THEOREM SkipsAreSafe == Spec => []SkipIsSafe
<1>1. ASSUME IInv PROVE SkipIsSafe
  <2> SUFFICES ASSUME Skips, NEW h \in run.hosts \cap run.proved PROVE Fresh(h)
    BY DEF SkipIsSafe
  <2>1. FreshFrom(h, RefIn(log, run.commit))
    BY <1>1 DEF IInv, Trusted
  <2> QED  BY <2>1, Refs DEF FreshFrom, Fresh
<1> QED  BY <1>1, Invariant, PTL

(* A mute the operator set lasts as long as it said on every host that has an  *)
(* override file at or after it (alerts.py, disable).                          *)
THEOREM MutesLast == Spec => []MutedStaysQuiet
<1>1. ASSUME IInv PROVE MutedStaysQuiet
  <2> SUFFICES ASSUME NEW h \in Host, NEW i \in 1..box[h].policy, NEW a \in log[i].act.ids,
                      log[i].act.op = "disable", now < log[i].act.until,
                      \A act \in {log[k].act : k \in (i + 1)..box[h].policy} :
                         /\ ~(act.op = "enable" /\ a \in act.ids)
                         /\ act.op = "disable" => act.until >= log[i].act.until,
                      NEW e \in Emitter
               PROVE  Delivered(h, e, a) = {}
    BY DEF MutedStaysQuiet
  <2>1. PICK n : n = box[h].policy
    OBVIOUS
  <2>2. n \in 1..Tip /\ Tip \in Nat /\ i \in 1..n /\ n # 0
    <3>1. box[h] \in Boxes /\ box[h].policy <= Tip /\ Tip \in Nat
      BY <1>1 DEF IInv, Typed, BoxPast, Fleet, Tip
    <3> QED  BY <2>1, <3>1 DEF Boxes
  <2>3. Lasts(i, a, n)
    BY <2>1 DEF Lasts
  <2>4. a \in Config(n).mute /\ Config(n).until >= log[i].act.until
    BY <1>1, <2>2, <2>3 DEF IInv, Muting
  <2>5. log[i] \in Entries /\ log[n] \in Entries /\ now \in Nat
    BY <1>1, <2>2 DEF IInv, Typed, Fleet, Tip
  <2>6. Config(n).until \in Nat /\ log[i].act.until \in Nat
    BY <2>5 DEF Entries, Configs, Acts, Config
  <2>7. Silenced(h, a)
    BY <2>1, <2>2, <2>4, <2>5, <2>6 DEF Silenced, Muted
  <2> QED  BY <2>7 DEF Delivered
<1> QED  BY <1>1, Invariant, PTL

-----------------------------------------------------------------------------
(* Whom an alert of a valid configuration reaches.                             *)

LEMMA SentIs ==
    ASSUME NEW c, NEW a
    PROVE  Sent(Routing(c), Credentials(c), a) =
              {<<0, Legacy>>} \cup
              {<<i, c.recipients[i].target>> : i \in
                  {k \in DOMAIN c.recipients : a \in AlertIds(c.recipients[k], c)}}
BY DEF Sent, Routing, Credentials

LEMMA ListedIs ==
    ASSUME NEW c, NEW a
    PROVE  {r.target : r \in Listed(c, a)} =
              {c.recipients[i].target : i \in
                  {k \in DOMAIN c.recipients : a \in AlertIds(c.recipients[k], c)}}
<1>1. Listed(c, a) = {c.recipients[i] : i \in {k \in DOMAIN c.recipients : a \in AlertIds(c.recipients[k], c)}}
  BY DEF Listed, ToSet, AlertIds
<1> QED  BY <1>1

(* Without the legacy sink it goes to whom `bay alerts list` names.            *)
LEMMA SentToListed ==
    ASSUME NEW c, NEW a, 0 \notin DOMAIN c.recipients
    PROVE  {p[2] : p \in {q \in Sent(Routing(c), Credentials(c), a) : q[1] # 0}} =
              {r.target : r \in Listed(c, a)}
<1> DEFINE I == {k \in DOMAIN c.recipients : a \in AlertIds(c.recipients[k], c)}
           S == Sent(Routing(c), Credentials(c), a)
<1>1. S = {<<0, Legacy>>} \cup {<<i, c.recipients[i].target>> : i \in I}
  BY SentIs
<1>2. {r.target : r \in Listed(c, a)} = {c.recipients[i].target : i \in I}
  BY ListedIs
<1>3. 0 \notin I
  OBVIOUS
<1> HIDE DEF I, S
<1>4. ASSUME NEW p \in {q \in S : q[1] # 0} PROVE p[2] \in {c.recipients[i].target : i \in I}
  BY <1>1
<1>5. ASSUME NEW i \in I PROVE \E p \in {q \in S : q[1] # 0} : p[2] = c.recipients[i].target
  <2>1. <<i, c.recipients[i].target>> \in S /\ i # 0
    BY <1>1, <1>3
  <2> QED  BY <2>1
<1>6. {p[2] : p \in {q \in S : q[1] # 0}} = {c.recipients[i].target : i \in I}
  BY <1>4, <1>5
<1> QED  BY <1>2, <1>6 DEF S

LEMMA LegacyHears ==
    ASSUME NEW c, NEW a
    PROVE  Legacy \in {p[2] : p \in Sent(Routing(c), Credentials(c), a)}
<1> DEFINE S == Sent(Routing(c), Credentials(c), a)
<1>1. <<0, Legacy>> \in S /\ <<0, Legacy>>[2] = Legacy
  BY DEF Sent
<1> HIDE DEF S
<1>2. Legacy \in {p[2] : p \in S}
  BY <1>1
<1> QED  BY <1>2 DEF S

LEMMA SentOnce ==
    ASSUME NEW c, Valid(c), NEW a,
           NEW p \in Sent(Routing(c), Credentials(c), a), NEW q \in Sent(Routing(c), Credentials(c), a),
           p[2] = q[2]
    PROVE  p = q
BY SentIs DEF Valid

LEMMA EveryoneHears ==
    ASSUME NEW c, 0 \notin DOMAIN c.recipients, DoctorIsQuiet(c), NEW r \in ToSet(c.recipients)
    PROVE  \E a \in Alert :
              r.target \in {p[2] : p \in {q \in Sent(Routing(c), Credentials(c), a) : q[1] # 0}}
<1>1. PICK i \in DOMAIN c.recipients : r = c.recipients[i]
  BY DEF ToSet
<1>2. PICK a : a \in AlertIds(r, c)
  BY <1>1 DEF DoctorIsQuiet
<1>3. a \in Alert /\ r \in Listed(c, a)
  BY <1>1, <1>2 DEF AlertIds, Listed, ToSet
<1>4. r.target \in {r2.target : r2 \in Listed(c, a)}
  BY <1>3
<1>5. {p[2] : p \in {q \in Sent(Routing(c), Credentials(c), a) : q[1] # 0}} = {r2.target : r2 \in Listed(c, a)}
  BY SentToListed
<1>6. r.target \in {p[2] : p \in {q \in Sent(Routing(c), Credentials(c), a) : q[1] # 0}}
  BY <1>4, <1>5
<1> QED  BY <1>3, <1>6

-----------------------------------------------------------------------------
(* After a deploy with the rig and a provision of the fleet as it is, each     *)
(* emitter sends an alert to exactly the recipients `bay alerts list` names,   *)
(* one that is not switched off to the legacy sink too, once to each, and to   *)
(* nobody while the mute lasts; when the doctor is quiet and no mute is active *)
(* every recipient hears of something. The monitor is left out where its restart was lost and where     *)
(* nothing but a credential changed.                                           *)
THEOREM AppliedIsTrue == Spec => []AppliedIsListed
<1>1. ASSUME IInv PROVE AppliedIsListed
  <2> SUFFICES ASSUME NEW h \in Host, NEW e \in Emitter, Applied(h), ~Excused(h, e)
               PROVE  /\ \A a \in Alert :
                            LET muted == Muted(Config(Tip), a, now)
                            IN  /\ Heard(h, e, a) =
                                      IF muted THEN {} ELSE {r.target : r \in Listed(Config(Tip), a)}
                                /\ muted => Delivered(h, e, a) = {}
                                /\ ~muted /\ a \notin Config(Tip).disabled => Legacy \in Reached(h, e, a)
                                /\ \A p, q \in Delivered(h, e, a) : p[2] = q[2] => p = q
                      /\ DoctorIsQuiet(Config(Tip)) /\ now >= Config(Tip).until =>
                            \A r \in ToSet(Config(Tip).recipients) :
                                \E a \in Alert : r.target \in Heard(h, e, a)
    BY DEF AppliedIsListed
  <2>1. Fit(h) /\ Script(h) /\ run = Idle /\ box[h].applied = {"deploy", "provision"}
    BY <1>1 DEF IInv, Fits, Scripts, Applied
  <2>2. PICK c : c = Config(Tip)
    OBVIOUS
  <2>0. 0 \notin DOMAIN c.recipients
    <3>1. log[Tip] \in Entries
      BY <1>1 DEF IInv, Typed, Fleet, Tip
    <3>2. c.recipients \in Lists \cup {FirstList}
      BY <2>2, <3>1 DEF Entries, Configs, Config
    <3> QED  BY <3>2, RigConstants
  <2>3. /\ Valid(c)
        /\ box[h].creds # 0 /\ Config(box[h].creds) = c
        /\ box[h].policy # 0 /\ Config(box[h].policy) = c
        /\ \A em \in Emitter : box[h].at[em].commit # 0 /\ Config(box[h].at[em].commit) = c
    BY <2>1, <2>2 DEF Fit, Current
  <2>4. \A em \in Emitter : box[h].at[em] # NoStamp
    BY <2>3 DEF NoStamp
  <2>5. PICK carried : carried = Carried(h, e)
    OBVIOUS
  <2>6. /\ carried.at # NoStamp /\ carried.creds # 0
        /\ Routing(Config(carried.at.commit)) = Routing(c)
        /\ Credentials(Config(carried.creds)) = Credentials(c)
    <3>1. CASE e = "hook"
      <4>1. carried = [at |-> box[h].at[e], creds |-> box[h].at[e].commit]
        BY <2>5, <3>1 DEF Carried
      <4> QED  BY <2>3, <2>4, <4>1
    <3>2. CASE e = "monitor"
      <4>1. carried = box[h].running
        BY <2>5, <3>2 DEF Carried
      <4>2. ~box[h].lost /\ ~MonitorKeptOldKey(h) /\ ~Pends(h)
        BY <2>1, <3>2 DEF Excused, Pends
      <4>3. /\ carried.at # NoStamp /\ carried.creds # 0
            /\ Routing(Config(carried.at.commit)) = Routing(Config(box[h].at["monitor"].commit))
        BY <2>1, <2>4, <3>2, <4>1, <4>2 DEF Script
      <4>4. Routing(Config(carried.at.commit)) = Routing(c)
        BY <2>3, <3>2, <4>3
      <4> QED  BY <2>2, <4>1, <4>2, <4>3, <4>4 DEF MonitorKeptOldKey
    <3>3. CASE e # "hook" /\ e # "monitor"
      <4>1. carried = [at |-> box[h].at[e], creds |-> box[h].creds]
        BY <2>5, <3>3 DEF Carried
      <4> QED  BY <2>3, <2>4, <4>1
    <3> QED  BY <3>1, <3>2, <3>3
  <2>7. ASSUME NEW a
        PROVE  Delivered(h, e, a) = IF Muted(c, a, now) THEN {} ELSE Sent(Routing(c), Credentials(c), a)
    <3>1. Silenced(h, a) <=> Muted(c, a, now)
      BY <2>3 DEF Silenced
    <3> QED  BY <2>5, <2>6, <3>1 DEF Delivered
  <2>8. ASSUME NEW a \in Alert
        PROVE  /\ Heard(h, e, a) = IF Muted(c, a, now) THEN {} ELSE {r.target : r \in Listed(c, a)}
               /\ Muted(c, a, now) => Delivered(h, e, a) = {}
               /\ ~Muted(c, a, now) => Legacy \in Reached(h, e, a)
               /\ \A p, q \in Delivered(h, e, a) : p[2] = q[2] => p = q
    <3>1. CASE Muted(c, a, now)
      <4>1. Delivered(h, e, a) = {}
        BY <2>7, <3>1
      <4> QED  BY <3>1, <4>1 DEF Heard
    <3>2. CASE ~Muted(c, a, now)
      <4>1. Delivered(h, e, a) = Sent(Routing(c), Credentials(c), a)
        BY <2>7, <3>2
      <4>2. Heard(h, e, a) = {r.target : r \in Listed(c, a)}
        BY <2>0, <4>1, SentToListed DEF Heard
      <4>3. \A p, q \in Delivered(h, e, a) : p[2] = q[2] => p = q
        BY <2>3, <4>1, SentOnce
      <4>4. Legacy \in Reached(h, e, a)
        BY <4>1, LegacyHears DEF Reached
      <4> QED  BY <3>2, <4>2, <4>3, <4>4
    <3> QED  BY <3>1, <3>2
  <2>9. ASSUME DoctorIsQuiet(c), now >= c.until, NEW r \in ToSet(c.recipients)
        PROVE  \E a \in Alert : r.target \in Heard(h, e, a)
    <3>1. PICK a \in Alert :
              r.target \in {p[2] : p \in {q \in Sent(Routing(c), Credentials(c), a) : q[1] # 0}}
      BY <2>0, <2>9, EveryoneHears
    <3>2. ~Muted(c, a, now)
      <4>1. now \in Nat /\ log[Tip] \in Entries
        BY <1>1 DEF IInv, Typed, Fleet, Tip
      <4>2. c.until \in Nat
        BY <2>2, <4>1 DEF Entries, Configs, Config
      <4> QED  BY <2>9, <4>1, <4>2 DEF Muted
    <3>3. Delivered(h, e, a) = Sent(Routing(c), Credentials(c), a)
      BY <2>7, <3>2
    <3> QED  BY <3>1, <3>3 DEF Heard
  <2> QED  BY <2>2, <2>8, <2>9
<1> QED  BY <1>1, Invariant, PTL
=============================================================================
