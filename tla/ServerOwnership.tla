---------------------------- MODULE ServerOwnership ----------------------------
(****************************************************************************)
(* ServerController as an implementation of ChildOwnership.                 *)
(****************************************************************************)
EXTENDS ServerController

ASSUME OtherAssumption == Other # 0

StoredUids == [s \in Names |-> IF api[s] = None THEN 0 ELSE api[s].spec.uid]
LeavingNames == {s \in Names : api[s] # None /\ api[s].deleting}
OwnerOf(kid) == IF kid = None THEN 0 ELSE IF kid.owner = None THEN 0 ELSE kid.owner
Owners == [s \in Names |-> [k \in Kinds |-> OwnerOf(kids[s][k])]]

Ownership == INSTANCE ChildOwnership
               WITH server <- StoredUids, leaving <- LeavingNames, owner <- Owners

\* Whatever the caches hold, every step of the controller and its surroundings is one
\* of ChildOwnership's or none at all: no child goes back to an earlier server of the
\* name, although a Reconcile call may still run for a server that is gone and has a
\* successor, and none is taken from another controller.
KeepsOwnership == Ownership!Spec
================================================================================
