---------------------------- MODULE ChildOwnership -----------------------------
(****************************************************************************)
(* What SftpGoServerReconciler promises about who owns the children,        *)
(* without caches, watches, jobs or contents. Servers that follow each      *)
(* other under one name hand the children on in one direction: a child is   *)
(* adopted for a server that is or was stored, never for an earlier one     *)
(* than any child of the name already belongs to, and never from another    *)
(* controller. Unless people delete it, a child only goes when its owner is *)
(* gone or going.                                                           *)
(****************************************************************************)
EXTENDS Naturals

CONSTANTS Names, Kinds, MaxUid, Other

VARIABLES
  server,   \* server[s]: the uid of the stored server of that name, or 0
  leaving,  \* names of the servers whose deletion was asked for
  owner,    \* owner[s][k]: the uid of the server that child k of name s belongs
            \* to, Other, or 0 (nobody's, or not there)
  lastUid,  \* the last uid given to a server
  edits     \* how often people changed something by hand

ownership == <<server, leaving, owner, lastUid, edits>>
Uids == 1..MaxUid

Init ==
  /\ server = [s \in Names |-> 0] /\ leaving = {}
  /\ owner = [s \in Names |-> [k \in Kinds |-> 0]]
  /\ lastUid = 0 /\ edits = 0

Come(s) ==
  /\ server[s] = 0
  /\ lastUid' = lastUid + 1
  /\ edits' = edits + 1
  /\ server' = [server EXCEPT ![s] = lastUid']
  /\ UNCHANGED <<leaving, owner>>

Edit ==
  /\ edits' = edits + 1
  /\ UNCHANGED <<server, leaving, owner, lastUid>>

Ask(s) ==
  /\ server[s] # 0
  /\ leaving' = leaving \cup {s}
  /\ UNCHANGED <<server, owner, lastUid, edits>>

Go(s) ==
  /\ server[s] # 0
  /\ server' = [server EXCEPT ![s] = 0]
  /\ leaving' = leaving \ {s}
  /\ UNCHANGED <<owner, lastUid, edits>>

\* A child changes hands, for one of three reasons.
Give(s, k, whom) == owner' = [owner EXCEPT ![s][k] = whom]

Adopt(s, k, u) ==
  /\ u <= lastUid
  /\ owner[s][k] # Other
  /\ \A j \in Kinds : owner[s][j] \in Uids => owner[s][j] <= u
  /\ Give(s, k, u)
  /\ UNCHANGED edits

Collect(s, k) ==
  /\ owner[s][k] \in Uids
  /\ owner[s][k] = server[s] => s \in leaving
  /\ Give(s, k, 0)
  /\ UNCHANGED edits

\* People, or a controller of theirs, delete or create a child.
Meddle(s, k) ==
  /\ Give(s, k, 0) \/ (owner[s][k] = 0 /\ Give(s, k, Other))
  /\ edits' = edits + 1

Handover ==
  /\ UNCHANGED <<server, leaving, lastUid>>
  /\ owner' # owner
  /\ \E s \in Names, k \in Kinds :
       Collect(s, k) \/ Meddle(s, k) \/ \E u \in Uids : Adopt(s, k, u)

Next == (\E s \in Names : Come(s) \/ Ask(s) \/ Go(s)) \/ Edit \/ Handover

Spec == Init /\ [][Next]_ownership
================================================================================
