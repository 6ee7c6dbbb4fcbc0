------------------------------ MODULE TwoManagers ------------------------------
(****************************************************************************)
(* Two managers that reconcile the same objects, as while the Deployment of *)
(* the operator is rolled out: config/manager/manager.yaml turns the leader *)
(* election of cmd/main.go off. Each has an informer, a queue and a worker  *)
(* of its own; API server, SFTPGo servers and users are shared.             *)
(****************************************************************************)
EXTENDS Naturals, Sequences

CONSTANTS Users, Servers, Usernames, Contents, Specs, MaxId, MaxEdits, MaxFaults,
          MaxClock, Null

VARIABLES
  api, accounts, lastId, late, srv, now, disowned, edits, faults,
  watch1, cache1, queue1, job1,  \* of the first manager
  watch2, cache2, queue2, job2   \* of the second

First == INSTANCE UserController
           WITH watch <- watch1, cache <- cache1, queue <- queue1, job <- job1
Second == INSTANCE UserController
            WITH watch <- watch2, cache <- cache2, queue <- queue2, job <- job2

vars == <<api, accounts, lastId, late, srv, now, disowned, edits, faults,
          watch1, cache1, queue1, job1, watch2, cache2, queue2, job2>>

Init == First!Init /\ Second!Init /\ \A s \in Servers : srv[s] = "ready"

\* What a manager sees of a step that is not its own: the new versions are on its
\* watch, and the object or the accounts of its Reconcile call have changed.
Watched(watch) ==
  [o \in Users |-> IF api'[o] # api[o] THEN Append(watch[o], api'[o]) ELSE watch[o]]
Overtaken(job) ==
  IF job = Null THEN Null
  ELSE [job EXCEPT !.stale = @ \/ api'[job.key] # api[job.key],
                   !.disturbed = @ \/ accounts' # accounts]

FirstSteps ==
  /\ First!Next
  /\ watch2' = Watched(watch2)
  /\ job2' = Overtaken(job2)
  /\ UNCHANGED <<cache2, queue2>>

SecondSteps ==
  /\ Second!Next
  /\ watch1' = Watched(watch1)
  /\ job1' = Overtaken(job1)
  /\ UNCHANGED <<cache1, queue1>>

Next == FirstSteps \/ SecondSteps
Spec == Init /\ [][Next]_vars

\* "Handle deletion - remove user from SFTPGO": what NoSilentOrphan says of one
\* manager holds of two.
NoOrphanOfTwo == First!NoSilentOrphan
================================================================================
