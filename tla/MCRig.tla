------------------------------- MODULE MCRig -------------------------------
(***************************************************************************)
(* Rig and Alerts on two hosts: an alert everybody gets, one that ships     *)
(* switched off, and two recipients that may change places, share a target, *)
(* or get a new credential.                                                *)
(***************************************************************************)
EXTENDS Rig

CONSTANTS h1, h2, crash, chatter, ops, oncall, rotated, sink

MCAlert == {crash, chatter}
MCLevel == (crash :> 3) @@ (chatter :> 1)
MCDefault == {crash}

Ops == [name |-> "ops", min |-> 1, target |-> ops]
Oncall == [name |-> "oncall", min |-> 3, target |-> oncall]

MCLists == {
    <<Ops, Oncall>>, <<Oncall, Ops>>,
    <<[Ops EXCEPT !.target = rotated], Oncall>>,
    <<Ops, [Oncall EXCEPT !.target = ops]>>}
MCFirst == <<Ops, Oncall>>

MCPattern == {{crash}, {chatter}}
MCDuration == {1, 0}

Symmetry == Permutations({h1, h2})

\* One environment of two hosts; two environments of one host each.
OneEnv == [production |-> {h1, h2}]
TwoEnvs == [production |-> {h1}, staging |-> {h2}]
=============================================================================
