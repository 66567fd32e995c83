------------------------------- MODULE Alerts -------------------------------
(***************************************************************************)
(* Who hears of an alert, as the fleet's group_vars/all/alerts.yml says it: *)
(* the resolver every emitter is rendered with (roles/alert_channel/files/  *)
(* bay_alert.py), the commands that edit the file (bay alerts disable,      *)
(* enable), the ones that read it (list, doctor), and what `bay validate`   *)
(* accepts.                                                                 *)
(*                                                                         *)
(* A configuration is a record:                                            *)
(*   recipients  alert_recipients, a sequence of [name, min, target]; the   *)
(*               target is the credential a message is posted with         *)
(*   disabled    alerts_disabled, forced off when an emitter is rendered    *)
(*   enabled     alerts_enabled, forced on                                 *)
(*   mute, until the mute list of the host's override file and its end     *)
(***************************************************************************)
EXTENDS Naturals, Sequences, FiniteSets, SequencesExt

CONSTANTS
    Alert,          \* the alert ids of alerts/registry.yml
    Level,          \* the level of each: 0 debug, 1 info, 2 warn, 3 critical
    OnByDefault,    \* the ids with enabled_by_default
    Legacy,         \* the target of alert_webhook_url
    Forever         \* `disable --permanent`: no duration

(***************************************************************************)
(* Resolution                                                               *)
(***************************************************************************)
\* Unknown levels are left out: validation refuses them.
Meets(level, min) == level >= min

\* The ids recipient r gets, fixed when an emitter is rendered: the off list
\* wins over the on list, which wins over the default and the recipient's level.
AlertIds(r, c) ==
    {a \in Alert \ c.disabled :
        \/ a \in c.enabled
        \/ a \in OnByDefault /\ Meets(Level[a], r.min)}

\* The routing table an emitter carries: no credential is in it. Recipients are
\* known by their place in the list.
Routing(c) ==
    [i \in DOMAIN c.recipients |->
        [name |-> c.recipients[i].name, ids |-> AlertIds(c.recipients[i], c)]]

\* alert.env: BAY_RC_<place>_URL, one for each recipient.
Credentials(c) == [i \in DOMAIN c.recipients |-> c.recipients[i].target]

\* The override file of configuration c, read when an alert is sent.
Muted(c, a, time) == time < c.until /\ a \in c.mute

\* Where one alert goes, by place: the legacy sink has place 0 and never asks
\* the routing table. A recipient without a credential at its place is skipped.
Sent(routing, creds, a) ==
    {<<0, Legacy>>} \cup
    {<<i, creds[i]>> : i \in {k \in DOMAIN routing \cap DOMAIN creds : a \in routing[k].ids}}

(***************************************************************************)
(* The commands                                                             *)
(***************************************************************************)
\* A mutant of DisableIds: the mute list forgets what was muted before.
DisableForgets(c, ids, for, time) ==
    IF for = Forever
    THEN [c EXCEPT !.disabled = @ \cup ids]
    ELSE [c EXCEPT !.disabled = @ \cup ids, !.mute = ids, !.until = time + for]

\* bay alerts disable: every disabled id joins the mute list, and all of them
\* get the new end.
DisableIds(c, ids, for, time) ==
    IF for = Forever
    THEN [c EXCEPT !.disabled = @ \cup ids]
    ELSE [c EXCEPT !.disabled = @ \cup ids, !.mute = c.disabled \cup ids, !.until = time + for]

\* bay alerts enable
EnableIds(c, ids) == [c EXCEPT !.disabled = @ \ ids, !.mute = @ \ ids]

\* bay alerts list: the recipients it names for an alert, nobody for a muted one.
Listed(c, a) ==
    IF a \in c.disabled THEN {}
    ELSE {r \in ToSet(c.recipients) : a \in AlertIds(r, c)}

\* bay alerts doctor finds no problem. It looks at the explicit recipients only,
\* and a mute with an end is no problem, over or not.
DoctorIsQuiet(c) ==
    /\ \A i, j \in DOMAIN c.recipients :
          i # j => c.recipients[i].target # c.recipients[j].target
    /\ \A i \in DOMAIN c.recipients : AlertIds(c.recipients[i], c) # {}
    /\ c.disabled # {} => c.until # 0

\* What validation accepts: names and targets differ, and none of them is the
\* legacy webhook again.
Valid(c) ==
    /\ \A i, j \in DOMAIN c.recipients : i # j =>
          /\ c.recipients[i].name # c.recipients[j].name
          /\ c.recipients[i].target # c.recipients[j].target
    /\ \A i \in DOMAIN c.recipients : c.recipients[i].target # Legacy
=============================================================================
