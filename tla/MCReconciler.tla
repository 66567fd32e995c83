----------------------------- MODULE MCReconciler -----------------------------
(***************************************************************************)
(* Small boxes for Reconciler: which names are services with a canary swap,*)
(* which have a release command, and which hashes publish a host port.     *)
(***************************************************************************)
EXTENDS Reconciler, TLC

CONSTANTS db, web, app, h1, h2

OneService == (web :> "service")
ThreeTiers == (db :> "accessory") @@ (web :> "service") @@ (app :> "service")
NoPorts == [h \in Configs |-> 0]
SamePort == [h \in Configs |-> 80]

=============================================================================
