----------------------------- MODULE PushPromise -----------------------------
(***************************************************************************)
(* What a webhook receiver and the builds of its box promise for a push:   *)
(* once the receiver accepted it for a unit (a service on a box), a build  *)
(* of that unit looks at the branch, or the team has been warned that      *)
(* builds of this unit are being dropped.                                  *)
(***************************************************************************)
CONSTANT Units

VARIABLES
    owed,       \* units with an accepted push no build has looked at
    warned      \* units with an alert that is still fresh

vars == <<owed, warned>>

Init == owed = {} /\ warned = {}

Accept(u) == owed' = owed \cup {u} /\ UNCHANGED warned

Look(u) == u \in owed /\ owed' = owed \ {u} /\ UNCHANGED warned

Abandon(u) ==
    /\ u \in owed /\ owed' = owed \ {u}
    /\ warned' = warned \cup {u}

Warn(u) == warned' = warned \cup {u} /\ UNCHANGED owed

Forget(u) == warned' = warned \ {u} /\ UNCHANGED owed

\* Only Look and Abandon take a unit out of owed.
Next == \E u \in Units : Accept(u) \/ Look(u) \/ Abandon(u) \/ Warn(u) \/ Forget(u)

Settle(u) == Look(u) \/ Abandon(u)

Spec == Init /\ [][Next]_vars /\ \A u \in Units : WF_vars(Settle(u))
=============================================================================
