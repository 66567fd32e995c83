-------------------------------- MODULE Rig --------------------------------
(***************************************************************************)
(* `bay deploy` and `bay provision` on the hosts of a fleet, seen from the   *)
(* alert emitters they install: which roles a run reaches (its tags, the    *)
(* rig decision), what each of them takes from the fleet's configuration,   *)
(* and when it takes it. commands/ops.py decides whether the rig roles run, *)
(* from a cache on the operator's machine and a state file on the host.     *)
(*                                                                         *)
(* Emitters, by the role that renders them:                                *)
(*   build     the build scripts, before the credential file is written     *)
(*   shell     the log archive, after it                                    *)
(*   hook      the webhook receiver: routing and credentials in one file    *)
(*   backup    the backup scripts, a rig role                              *)
(*   monitor   docker-monitor, a rig role of the last play; it reads the    *)
(*             credentials when it starts                                  *)
(*   outbound  the outbound probe, only in provision                       *)
(*                                                                         *)
(* One run at a time: the fleet's run lock (FleetRun is about two machines).*)
(* Left out: --skip-validate, --allow-dirty, dry runs, a framework update   *)
(* during a run.                                                           *)
(***************************************************************************)
EXTENDS Alerts

CONSTANTS
    Host,           \* the hosts of the fleet
    Env,            \* environment -> the set of its hosts
    Pattern,        \* the id sets a glob of `bay alerts` may match
    Duration,       \* the values of --for, with Forever
    Lists,          \* the recipient lists the operator may write
    FirstList,      \* the one the fleet starts with
    MaxCommits,     \* commits of the fleet, the first one included
    MaxFramework,   \* framework versions
    MaxRuns,        \* playbook runs
    MaxFaults,      \* hosts that fail in a run, kills, unreachable reads
    MaxEvents,      \* all of these together
    MaxTime         \* the clock

FirstConfig ==
    [recipients |-> FirstList, disabled |-> {}, enabled |-> {}, mute |-> {}, until |-> 0]

\* A host that is set up when the fleet starts passed validation. The places of
\* a recipient list count from 1.
ASSUME RigConstants ==
    /\ Valid(FirstConfig)
    /\ {MaxCommits, MaxFramework} \subseteq Nat \ {0} /\ MaxTime \in Nat
    /\ \A env \in DOMAIN Env : Env[env] \subseteq Host
    /\ \A list \in Lists \cup {FirstList} : DOMAIN list \subseteq Nat \ {0}
    /\ Pattern \subseteq SUBSET Alert /\ OnByDefault \subseteq Alert /\ Duration \subseteq Nat

VARIABLES
    log,            \* the fleet's commits
    framework,      \* the installed framework version
    now,            \* the clock of the mutes
    cache,          \* .rig-state-cache of the operator's machine
    box,            \* what each host holds
    run,            \* the running playbook, or Idle
    runs, faults    \* counters for the bounds

vars == <<log, framework, now, cache, box, run, runs, faults>>

Emitter == {"build", "shell", "hook", "backup", "monitor", "outbound"}
RigEmitter == {"backup", "monitor"}
NoCache == [needed |-> TRUE, ref |-> 0, framework |-> 0, proved |-> {}]
NoStamp == [commit |-> 0, framework |-> 0]
NoState == [commit |-> 0, framework |-> 0, whole |-> FALSE]
Idle == [verb |-> "none"]

(***************************************************************************)
(* The fleet                                                                *)
(***************************************************************************)
Tip == Len(log)
Config(n) == log[n].config

\* The last commit up to n that touches group_vars, hosts or files.
ConsumerRef(n) ==
    CHOOSE i \in 1..n : log[i].rig /\ \A k \in (i + 1)..n : ~log[k].rig

\* What the bounds count.
Spent == (Tip - 1) + (framework - 1) + runs + faults
Left == Spent < MaxEvents

\* A playbook reads its variables when it starts and HEAD twice later: for the
\* state file and, in the CLI, at the end. A commit during a run counts from the
\* next of these.
ReadsHead == run # Idle => run.left \in {<<>>, <<"state", "monitor", "system">>}

NoAct == [op |-> "edit", ids |-> {}, until |-> 0]

Commit(config, rig, act) ==
    /\ Tip < MaxCommits /\ Left
    /\ ReadsHead
    /\ rig => config # Config(Tip)
    /\ log' = Append(log, [config |-> config, rig |-> rig, act |-> act])
    \* what was applied before is not what the fleet says now
    /\ box' = [h \in Host |-> [box[h] EXCEPT !.applied = IF config = Config(Tip) THEN @ ELSE {}]]
    /\ UNCHANGED <<framework, now, cache, run, runs, faults>>

Disable(ids, for) ==
    LET c == DisableIds(Config(Tip), ids, for, now)
    IN Commit(c, TRUE, [op |-> IF for = Forever THEN "permanent" ELSE "disable",
                        ids |-> ids, until |-> c.until])

Enable(ids) == Commit(EnableIds(Config(Tip), ids), TRUE, [NoAct EXCEPT !.op = "enable", !.ids = ids])

\* The operator edits alert_recipients by hand and commits.
EditRecipients(list) ==
    Commit([Config(Tip) EXCEPT !.recipients = list], TRUE, NoAct)

\* The operator edits alerts_enabled by hand and commits.
ForceOn(ids) == Commit([Config(Tip) EXCEPT !.enabled = ids], TRUE, NoAct)

\* A commit that touches nothing the rig reads: docs, an application's lock.
CommitOther == Commit(Config(Tip), FALSE, NoAct)

\* bay self update
UpdateFramework ==
    /\ run = Idle
    /\ framework < MaxFramework /\ Left
    /\ framework' = framework + 1
    /\ UNCHANGED <<log, now, cache, box, run, runs, faults>>

\* Time matters to mutes only.
Tick ==
    /\ run = Idle
    /\ now < MaxTime /\ now < Config(Tip).until
    /\ now' = now + 1
    /\ UNCHANGED <<log, framework, cache, box, run, runs, faults>>

\* The cache is older than _RIG_CACHE_MAX_AGE: the next read has none.
CacheExpires ==
    /\ run = Idle /\ cache # NoCache
    /\ cache' = NoCache
    /\ UNCHANGED <<log, framework, now, box, run, runs, faults>>

(***************************************************************************)
(* The rig decision                                                         *)
(***************************************************************************)
\* A mutant of CacheHolds: the cache is trusted whatever it was computed for.
CacheOfAnyRef(ref) == cache # NoCache /\ cache.framework = framework

\* _read_rig_cache: computed for this framework version and this ref. The
\* environment it was computed for is not asked.
CacheHolds(ref) == cache # NoCache /\ cache.framework = framework /\ cache.ref = ref

\* _fetch_rig_state over the hosts of the environment: a host without a state
\* file is a need, and of several states the first one printed decides.
Needs(hosts, first, ref) ==
    \/ \E h \in hosts : box[h].state = NoState
    \/ box[first].state.framework # framework
    \/ box[first].state.commit # ref

\* proved: the hosts the answer speaks for (no code reads it).
Fetched(hosts, first, ref) ==
    [needed |-> Needs(hosts, first, ref), ref |-> ref, framework |-> framework,
     proved |-> IF box[first].state.whole THEN {first} ELSE {}]

\* The host cannot be read: the rig is needed.
Unread(ref) == [needed |-> TRUE, ref |-> ref, framework |-> framework, proved |-> {}]

(***************************************************************************)
(* A run and the roles it reaches                                           *)
(***************************************************************************)
\* The roles a run reaches, in play order: the credential file always, the
\* override file in both playbooks, the application roles without the rig too. A
\* tag sets rig mode (_rig_mode), but none of these two selects a rig role.
\* "build" is git_deploy, whose scripts a deploy_stack run renders too, "app" is
\* log_archive and deploy_stack with the receiver, "system" what follows
\* docker_monitor in the last play, and the handler that ends it.
Steps(verb, tag, rig) ==
    CASE tag = "alert_policy" -> <<"channel", "policy">>
      [] tag = "deploy_stack" -> <<"build", "channel", "app">>
      [] tag = "none" /\ verb = "provision" -> <<"channel", "policy", "outbound">>
      [] tag = "none" /\ verb = "deploy" /\ ~rig -> <<"build", "channel", "policy", "app">>
      [] OTHER -> <<"build", "channel", "policy", "app", "backup", "state", "monitor", "system">>

NewRun(verb, hosts, tag, rig, proved) ==
    [verb |-> verb, hosts |-> hosts, tag |-> tag, rig |-> rig, proved |-> proved,
     commit |-> Tip, live |-> hosts, notified |-> {}, left |-> Steps(verb, tag, rig)]

\* A whole environment, or one host of it (--region).
Targets(env) == {Env[env]} \cup {{h} : h \in Env[env]}

\* bay deploy --rig, or with --tags: no rig check.
DeployAsked(env, hosts, tag) ==
    /\ run = Idle /\ runs < MaxRuns /\ Left
    /\ Valid(Config(Tip))
    /\ run' = NewRun("deploy", hosts, tag, tag = "none", {})
    /\ runs' = runs + 1
    /\ UNCHANGED <<log, framework, now, cache, box, faults>>

\* bay deploy: the rig check, its cache, then validation. The cache keeps the
\* answer even when validation stops the run.
DeployChecked(env, hosts, answer) ==
    /\ run = Idle /\ runs < MaxRuns /\ Left
    /\ cache' = answer
    /\ run' = IF Valid(Config(Tip))
              THEN NewRun("deploy", hosts, "none", answer.needed, answer.proved)
              ELSE Idle
    /\ runs' = runs + 1
    /\ UNCHANGED <<log, framework, now, box>>

DeployFromCache(env, hosts) ==
    /\ CacheHolds(ConsumerRef(Tip))
    /\ DeployChecked(env, hosts, cache)
    /\ UNCHANGED faults

DeployFromState(env, hosts, first) ==
    /\ ~CacheHolds(ConsumerRef(Tip))
    /\ DeployChecked(env, hosts, Fetched(Env[env], first, ConsumerRef(Tip)))
    /\ UNCHANGED faults

DeployUnread(env, hosts) ==
    /\ ~CacheHolds(ConsumerRef(Tip))
    /\ faults < MaxFaults /\ Left
    /\ DeployChecked(env, hosts, Unread(ConsumerRef(Tip)))
    /\ faults' = faults + 1

\* bay provision validates nothing and asks no rig state.
Provision(env, hosts, tag) ==
    /\ run = Idle /\ runs < MaxRuns /\ Left
    /\ run' = NewRun("provision", hosts, tag, TRUE, {})
    /\ runs' = runs + 1
    /\ UNCHANGED <<log, framework, now, cache, box, faults>>

(***************************************************************************)
(* The roles                                                                *)
(***************************************************************************)
Stamp == [commit |-> run.commit, framework |-> framework]

\* A mutant of MonitorChanges: a changed script does not notify the restart.
MonitorNotNotified(h) == box[h].at["monitor"] = NoStamp

\* The script of the monitor changed: its routing or the framework's template.
MonitorChanges(h) ==
    LET old == box[h].at["monitor"]
    IN \/ old = NoStamp
       \/ old.framework # framework
       \/ Routing(Config(old.commit)) # Routing(Config(run.commit))

\* A (re)started monitor holds its script and the credentials of that moment.
Started(b) == [at |-> b.at["monitor"], creds |-> b.creds]

\* What step s leaves on host h.
Done(h, s) ==
    LET b == box[h] IN
    CASE s = "channel" -> [b EXCEPT !.creds = run.commit]
      [] s = "policy"  -> [b EXCEPT !.policy = run.commit]
      [] s = "monitor" ->
            LET placed == [b EXCEPT !.at["monitor"] = Stamp]
            IN IF b.running.at = NoStamp THEN [placed EXCEPT !.running = Started(placed)] ELSE placed
      [] s = "system"  -> IF h \in run.notified
                          THEN [b EXCEPT !.running = Started(b), !.lost = FALSE] ELSE b
      \* consumer_ref is HEAD at this moment, the variables are of the start
      [] s = "state"   -> [b EXCEPT !.state = [commit |-> Tip, framework |-> framework, whole |-> FALSE]]
      [] s = "app"     -> [b EXCEPT !.at["shell"] = Stamp, !.at["hook"] = Stamp]
      [] OTHER         -> [b EXCEPT !.at[s] = Stamp]

\* Step s of the run on every live host. A host that fails leaves the run; a
\* handler it was owed never runs, and the next run finds its script unchanged.
Step(dead) ==
    /\ run # Idle /\ run.left # <<>> /\ run.live # {}
    /\ dead \subseteq run.live
    /\ faults + Cardinality(dead) <= MaxFaults
    /\ Spent + Cardinality(dead) <= MaxEvents
    /\ faults' = faults + Cardinality(dead)
    /\ LET s == Head(run.left)
           changed == IF s = "monitor" THEN {h \in run.live \ dead : MonitorChanges(h)} ELSE {}
       IN /\ box' = [h \in Host |->
                CASE h \in dead -> [box[h] EXCEPT !.lost = @ \/ (h \in run.notified)]
                  [] h \in run.live \ dead -> Done(h, s)
                  [] OTHER -> box[h]]
          /\ run' = [run EXCEPT !.left = Tail(@), !.live = @ \ dead,
                                !.notified = @ \cup changed]
    /\ UNCHANGED <<log, framework, now, cache, runs>>

\* The playbook is over. A host that failed fails the command: nothing more is
\* recorded. _record_rig_matched asks for the ref again; a tagged run drops the
\* cache.
Finish ==
    /\ run # Idle
    /\ run.left = <<>> \/ run.live = {}
    /\ LET whole == run.live = run.hosts
           kept == ConsumerRef(Tip) = ConsumerRef(run.commit)
       IN /\ cache' =
                IF ~whole \/ run.verb = "provision" THEN cache
                ELSE IF run.tag # "none" THEN NoCache
                ELSE [needed |-> FALSE, ref |-> ConsumerRef(Tip), framework |-> framework,
                      proved |-> IF ~kept THEN {}
                                 ELSE IF run.rig THEN run.hosts ELSE run.proved]
          /\ box' = [h \in Host |->
                IF h \notin run.live THEN box[h]
                ELSE [box[h] EXCEPT
                    !.state.whole = @ \/ (box[h].state.commit # 0 /\ kept /\ run.verb = "deploy" /\ run.rig),
                    !.applied = IF run.tag = "none" /\ run.rig
                                   /\ Config(run.commit) = Config(Tip)
                                THEN @ \cup {run.verb} ELSE @]]
    /\ run' = Idle
    /\ UNCHANGED <<log, framework, now, runs, faults>>

\* The operator stops the command between two roles.
Kill ==
    /\ run # Idle
    /\ faults < MaxFaults /\ Left
    /\ box' = [h \in Host |-> [box[h] EXCEPT !.lost = @ \/ (h \in run.notified)]]
    /\ run' = Idle
    /\ faults' = faults + 1
    /\ UNCHANGED <<log, framework, now, cache, runs>>

(***************************************************************************)
(* What an alert does                                                       *)
(***************************************************************************)
\* The routing and the credentials an emitter sends with: the receiver holds
\* both, the monitor those of its start, the others read the file each time.
Carried(h, e) ==
    LET b == box[h] IN
    CASE e = "hook"    -> [at |-> b.at[e], creds |-> b.at[e].commit]
      [] e = "monitor" -> b.running
      [] OTHER         -> [at |-> b.at[e], creds |-> b.creds]

Silenced(h, a) == box[h].policy # 0 /\ Muted(Config(box[h].policy), a, now)

\* Whom an alert of emitter e on host h reaches now.
Delivered(h, e, a) ==
    LET c == Carried(h, e) IN
    IF c.at = NoStamp \/ c.creds = 0 \/ Silenced(h, a) THEN {}
    ELSE Sent(Routing(Config(c.at.commit)), Credentials(Config(c.creds)), a)

(***************************************************************************)
(* Specification                                                            *)
(***************************************************************************)
NewBox ==
    [at |-> [e \in Emitter |-> NoStamp], running |-> [at |-> NoStamp, creds |-> 0],
     creds |-> 0, policy |-> 0, state |-> NoState, lost |-> FALSE, applied |-> {}]

\* A host the first commit was deployed and provisioned to.
SetUpBox ==
    LET first == [commit |-> 1, framework |-> 1]
    IN [at |-> [e \in Emitter |-> first], running |-> [at |-> first, creds |-> 1],
        creds |-> 1, policy |-> 1, state |-> [commit |-> 1, framework |-> 1, whole |-> TRUE],
        lost |-> FALSE, applied |-> {"deploy", "provision"}]

Init ==
    /\ log = <<[config |-> FirstConfig, rig |-> TRUE, act |-> NoAct]>>
    /\ framework = 1
    /\ now = 0
    /\ cache = NoCache
    /\ box \in [Host -> {NewBox, SetUpBox}]
    /\ run = Idle
    /\ runs = 0 /\ faults = 0

Next ==
    \/ \E ids \in Pattern, for \in Duration : Disable(ids, for)
    \/ \E ids \in Pattern : Enable(ids)
    \/ \E ids \in {Alert \ OnByDefault} : ForceOn(ids)
    \/ \E list \in Lists : EditRecipients(list)
    \/ CommitOther
    \/ UpdateFramework
    \/ Tick
    \/ CacheExpires
    \/ \E env \in DOMAIN Env : \E hosts \in Targets(env) :
          \/ \E tag \in {"none", "alert_policy", "deploy_stack"} :
                DeployAsked(env, hosts, tag)
          \/ DeployFromCache(env, hosts)
          \/ \E first \in Env[env] : DeployFromState(env, hosts, first)
          \/ DeployUnread(env, hosts)
          \/ \E tag \in {"none", "alert_policy"} : Provision(env, hosts, tag)
    \/ \E dead \in SUBSET Host : Step(dead)
    \/ Finish
    \/ Kill

Spec == Init /\ [][Next]_vars

(***************************************************************************)
(* Properties                                                               *)
(***************************************************************************)
Ref == 1..Tip
StampSet == [commit : 0..Tip, framework : 0..framework]

\* Types.
TypeOK ==
    /\ Tip \in 1..MaxCommits /\ now \in 0..MaxTime /\ framework \in 1..MaxFramework
    /\ cache \in [needed : BOOLEAN, ref : 0..Tip, framework : 0..framework, proved : SUBSET Host]
    /\ \A h \in Host :
          /\ box[h].at \in [Emitter -> StampSet]
          /\ box[h].running \in [at : StampSet, creds : 0..Tip]
          /\ box[h].creds \in 0..Tip /\ box[h].policy \in 0..Tip
          /\ box[h].applied \subseteq {"deploy", "provision"}
    /\ run = Idle \/ (run.live \subseteq run.hosts /\ run.commit \in Ref)

Applied(h) == box[h].applied = {"deploy", "provision"} /\ run = Idle

\* The monitor misses a credential when nothing but a credential changed: its
\* script is the same, so nothing starts it again.
MonitorKeptOldKey(h) ==
    LET r == box[h].running
    IN r.at # NoStamp /\ Credentials(Config(r.creds)) # Credentials(Config(Tip))
       /\ Routing(Config(r.at.commit)) = Routing(Config(Tip))

Excused(h, e) == e = "monitor" /\ (box[h].lost \/ MonitorKeptOldKey(h))

\* The targets of the recipients an alert reaches, and of them with the legacy
\* sink, which has place 0.
Reached(h, e, a) == {p[2] : p \in Delivered(h, e, a)}
Heard(h, e, a) == {p[2] : p \in {q \in Delivered(h, e, a) : q[1] # 0}}

\* After a deploy with the rig and a provision of the fleet as it is, each
\* emitter sends an alert to exactly the recipients `bay alerts list` names, and
\* one that is not switched off to the legacy sink too, once to each target, and
\* to nobody while the mute lasts (bay_alert.py, deploy.yml, provision.yml): no
\* emitter routes by an older list, and no place in the routing table meets
\* another recipient's credential.  When the doctor is quiet and no mute is active
\* every recipient hears of something.  What the legacy sink gets of an alert
\* that is switched off, docs/alerting.md and the code disagree on: see
\* MuteIsAbsolute.
AppliedIsListed ==
    \A h \in Host, e \in Emitter :
        Applied(h) /\ ~Excused(h, e) =>
            /\ \A a \in Alert :
                  LET muted == Muted(Config(Tip), a, now)
                  IN  /\ Heard(h, e, a) =
                            IF muted THEN {} ELSE {r.target : r \in Listed(Config(Tip), a)}
                      /\ muted => Delivered(h, e, a) = {}
                      /\ ~muted /\ a \notin Config(Tip).disabled => Legacy \in Reached(h, e, a)
                      /\ \A p, q \in Delivered(h, e, a) : p[2] = q[2] => p = q
            /\ DoctorIsQuiet(Config(Tip)) /\ now >= Config(Tip).until =>
                  \A r \in ToSet(Config(Tip).recipients) :
                      \E a \in Alert : r.target \in Heard(h, e, a)

\* A mute the operator set lasts as long as it said: once an override file at
\* or after it is on the host, no emitter there sends the alert before its end,
\* whatever other alerts are muted or enabled since. A later mute with an
\* earlier end moves all of them (alerts.py disable).
MutedStaysQuiet ==
    \A h \in Host : \A i \in 1..box[h].policy : \A a \in log[i].act.ids :
        LET later == {log[k].act : k \in (i + 1)..box[h].policy}
        IN ( /\ log[i].act.op = "disable"
             /\ now < log[i].act.until
             /\ \A act \in later :
                   /\ ~(act.op = "enable" /\ a \in act.ids)
                   /\ act.op = "disable" => act.until >= log[i].act.until)
           => \A e \in Emitter : Delivered(h, e, a) = {}

\* The rig roles of h are those of the last commit that touches the rig, and of
\* the installed framework.
Fresh(h) ==
    \A e \in RigEmitter :
        /\ box[h].at[e].framework = framework
        /\ box[h].at[e].commit # 0
        /\ ConsumerRef(box[h].at[e].commit) = ConsumerRef(run.commit)

Skips == run # Idle /\ run.verb = "deploy" /\ run.tag = "none" /\ ~run.rig

\* A deploy that leaves the rig roles out leaves none behind on the hosts its
\* evidence is about: the cache of a finished run over them, or the state file
\* of a run that ended well, with no commit in between (ops.py, rig state).
SkipIsSafe == Skips => \A h \in run.hosts \cap run.proved : Fresh(h)

\* What the cache's comment says of every deploy: "never a stale skip of a
\* needed rig" (ops.py:378-380). It does not hold: the cache does not say which
\* environment or region it was computed for.
NeverStaleSkip == Skips => \A h \in run.hosts : Fresh(h)

\* doctor says of a mute that is over: "they are inert" (alerts.py, doctor). It
\* does not hold for an emitter rendered since: the ids are in the off list too.
ExpiredIsInert ==
    \A h \in Host, e \in Emitter, a \in Alert :
        Applied(h) /\ ~Excused(h, e) /\ Config(Tip).until # 0 /\ now >= Config(Tip).until
            /\ (\A k \in 1..Tip : log[k].act.op # "permanent")
            => \A r \in ToSet(Config(Tip).recipients) :
                  a \in AlertIds(r, [Config(Tip) EXCEPT !.disabled = {}])
                  => r.target \in {p[2] : p \in Delivered(h, e, a)}

\* docs/alerting.md:303-304 says of the legacy sinks "Only mutes apply to them,
\* because a mute has to be absolute", alerts.py:293-295 of one with --permanent
\* "this alert will never fire again until re-enabled".  It does not hold: such
\* a mute is in the routing tables only, which the legacy sink is not in.
MutedForGood(a) ==
    \E k \in 1..Tip :
        /\ log[k].act.op = "permanent" /\ a \in log[k].act.ids
        /\ \A i \in (k + 1)..Tip : ~(log[i].act.op = "enable" /\ a \in log[i].act.ids)
MuteIsAbsolute ==
    \A h \in Host, e \in Emitter, a \in Alert :
        Applied(h) /\ ~Excused(h, e) /\ MutedForGood(a) => Delivered(h, e, a) = {}

\* _notify.sh.j2:267-269: the scripts and the credential file number the
\* recipients by the same list, "so the indices cannot diverge without both
\* changing".  It does not hold: a run of some roles writes one of the two.
IndicesAgree ==
    \A h \in Host, e \in Emitter :
        LET c == Carried(h, e)
            names == [i \in DOMAIN Config(c.creds).recipients |-> Config(c.creds).recipients[i].name]
            routing == Routing(Config(c.at.commit))
        IN  run = Idle /\ c.at # NoStamp /\ c.creds # 0 =>
                \A i \in DOMAIN names \cap DOMAIN routing : routing[i].name = names[i]
=============================================================================
