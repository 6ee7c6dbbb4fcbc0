------------------------------ MODULE KubeObjects ------------------------------
(****************************************************************************)
(* The Kubernetes side of one controller, as the operator's code uses it    *)
(* through controller-runtime: the stored objects of one kind, the watch    *)
(* stream that carries every stored version to the manager, the informer    *)
(* cache that client reads are served from, and the work queue of keys.     *)
(*                                                                          *)
(* An object carries what the controllers look at: its spec, whether this   *)
(* controller's finalizer is on it, whether a finalizer of somebody else    *)
(* still holds it (kubectl delete --cascade=foreground), whether a deletion *)
(* timestamp is set, and its status.                                        *)
(****************************************************************************)
EXTENDS Naturals, Sequences

CONSTANTS
  Objects,      \* names of the custom resources of the kind
  ObjectSpecs,  \* the specs a user may give them
  Statuses,     \* the values of the status subresource
  NoStatus,     \* the status of an object nobody reconciled yet
  Null          \* no object

VARIABLES
  api,    \* api[o]: the version stored by the API server, or Null
  watch,  \* watch[o]: versions stored but not yet seen by the informer
  cache,  \* cache[o]: the version the informer cache holds
  queue   \* keys waiting for a worker (a key in back-off waits here too)

Object == [spec: ObjectSpecs, fin: BOOLEAN, held: BOOLEAN, deleting: BOOLEAN,
           status: Statuses]

KubeTypeOK ==
  /\ api \in [Objects -> Object \cup {Null}]
  /\ watch \in [Objects -> Seq(Object \cup {Null})]
  /\ cache \in [Objects -> Object \cup {Null}]
  /\ queue \subseteq Objects

KubeInit ==
  /\ api = [o \in Objects |-> Null]
  /\ watch = [o \in Objects |-> <<>>]
  /\ cache = [o \in Objects |-> Null]
  /\ queue = {}

\* A deleted object disappears with its last finalizer.
Settled(v) == IF v.deleting /\ ~v.fin /\ ~v.held THEN Null ELSE v

\* The API server stores a new version of o and emits it on the watch.
Store(o, v) ==
  /\ api' = [api EXCEPT ![o] = v]
  /\ watch' = [watch EXCEPT ![o] = Append(@, v)]

\* What users and other controllers do to an object.
Create(o, s) ==
  /\ api[o] = Null
  /\ Store(o, [spec |-> s, fin |-> FALSE, held |-> FALSE, deleting |-> FALSE,
               status |-> NoStatus])
  /\ UNCHANGED <<cache, queue>>

Edit(o, s) ==
  /\ api[o] # Null
  /\ api[o].spec # s
  /\ Store(o, [api[o] EXCEPT !.spec = s])
  /\ UNCHANGED <<cache, queue>>

Delete(o, foreground) ==
  /\ api[o] # Null
  /\ ~api[o].deleting
  /\ Store(o, Settled([api[o] EXCEPT !.deleting = TRUE, !.held = foreground]))
  /\ UNCHANGED <<cache, queue>>

Unhold(o) ==
  /\ api[o] # Null
  /\ api[o].held
  /\ Store(o, Settled([api[o] EXCEPT !.held = FALSE]))
  /\ UNCHANGED <<cache, queue>>

\* The informer applies the next version and its handler enqueues the key.
Deliver(o) ==
  /\ watch[o] # <<>>
  /\ cache' = [cache EXCEPT ![o] = Head(watch[o])]
  /\ watch' = [watch EXCEPT ![o] = Tail(watch[o])]
  /\ queue' = queue \cup {o}
  /\ UNCHANGED api

\* The informer's periodic resync enqueues every cached key again.
Resync(o) ==
  /\ cache[o] # Null
  /\ o \notin queue
  /\ queue' = queue \cup {o}
  /\ UNCHANGED <<api, watch, cache>>

\* A restarted manager lists the stored objects before it starts its workers.
Relist ==
  /\ cache' = api
  /\ watch' = [o \in Objects |-> <<>>]
  /\ queue' = {o \in Objects : api[o] # Null}
  /\ UNCHANGED api
================================================================================
