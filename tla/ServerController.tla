--------------------------- MODULE ServerController ----------------------------
(****************************************************************************)
(* SftpGoServerReconciler (internal/controller/sftpgoserver_controller.go): *)
(* the controller that makes a ConfigMap, a PVC, a Deployment and a Service *)
(* of every SftpGoServer.                                                   *)
(*                                                                          *)
(* As in UserController, at most one Reconcile call (the "job") is in       *)
(* progress, cut at its writes to the API server. Each createOrUpdate is    *)
(* one step: it reads the child from the informer cache and makes at most   *)
(* one call. That the cache lags behind covers a read that is old by the    *)
(* time of the call. What the children hold comes from ServerResources.     *)
(*                                                                          *)
(* The uid the API server gives an object travels with its spec: owner      *)
(* references name it, and garbage collection goes by it.                   *)
(****************************************************************************)
EXTENDS Naturals, Sequences, ServerResources

CONSTANTS
  Names,         \* names of the SftpGoServer objects
  Specs,         \* the specs their owners may give them
  InvalidSizes,  \* volume sizes that ParseQuantity does not understand
  Other,         \* some other controller that owns a child
  Foreign,       \* content of an object the operator did not make
  Loose,         \* bound: the kinds of children whose informer may lag and that
                 \* others may create and delete
  PodCounts,     \* bound: what the status of a Deployment may say of its pods
  MaxUid,        \* bound on objects created under these names
  MaxEdits,      \* bound on what users do to servers and children
  MaxFaults      \* bound on failed calls and crashes

VARIABLES
  api, watch, cache, queue,  \* see KubeObjects
  lastUid,   \* the last uid given to an SftpGoServer
  kids,      \* kids[s][k]: the stored child of kind k, or None
  kidCache,  \* kidCache[s][k]: the version the informer cache holds
  kidFresh,  \* kidFresh[s][k]: the cached version is the stored one
  job,       \* the Reconcile call in progress, or None
  edits, faults

Given == [uid: 1..MaxUid, want: ServerSpec]

\* Ready is written with Phase "Running" and the ports, and never taken back: the
\* ports stand for all three. Degraded is "no" until an error is reported.
NoPods == [replicas |-> 0, ready |-> 0]
DegradedReasons == {"no", "ConfigMapError", "DeploymentError"}
PortNumbers == Ports \cup {2022, 8080}
ServerStatus == [ports: [sftp: PortNumbers, web: PortNumbers, http: PortNumbers] \cup {None},
                 degraded: DegradedReasons, pods: PodCounts]
NewServerStatus == [ports |-> None, degraded |-> "no", pods |-> NoPods]

INSTANCE KubeObjects WITH Objects <- Names, ObjectSpecs <- Given,
  Statuses <- ServerStatus, NoStatus <- NewServerStatus, Null <- None

ASSUME SpecsAssumption == Specs \subseteq ServerSpec

(****************************************************************************)
(* Children. pods and revision are what the Deployment controller writes on *)
(* a Deployment: its status, and the annotation with the revision number.   *)
(****************************************************************************)
Kinds == {"ConfigMap", "PVC", "Deployment", "Service"}
Desired(want) == [ConfigMap |-> ConfigMapFor(want), PVC |-> PvcFor(want),
                  Deployment |-> DeploymentFor(want), Service |-> ServiceFor(want)]
Contents == [k \in Kinds |-> {Desired(want)[k] : want \in ServerSpec} \cup {Foreign}]
Kid(k) == [owner: 1..MaxUid \cup {None, Other}, content: Contents[k],
           pods: PodCounts, revision: BOOLEAN]
KidsOK(f) ==
  /\ f = [s \in Names |-> [k \in Kinds |-> f[s][k]]]
  /\ \A s \in Names, k \in Kinds : f[s][k] \in Kid(k) \cup {None}

ASSUME BoundsAssumption ==
  /\ MaxEdits \in Nat /\ MaxFaults \in Nat /\ MaxUid \in Nat
  /\ PodCounts \subseteq [replicas: Nat, ready: Nat] /\ NoPods \in PodCounts
  /\ Loose \subseteq Kinds

Stages == {"addFinalizer", "release", "ConfigMap", "PVC", "Deployment", "refresh",
           "Service", "status", "degrade"}
\* meddled is history: the children others created or deleted after this call made
\* them.
Job == [key: Names, snap: Object, stale: BOOLEAN, at: Stages, pods: PodCounts,
        reason: DegradedReasons, meddled: SUBSET Kinds]

ASSUME NoneAssumption ==
  /\ None \notin Object /\ None \notin Job
  /\ \A k \in Kinds : None \notin Kid(k)
  /\ None \notin 1..MaxUid /\ Other \notin 1..MaxUid /\ Other # None

objectVars == <<api, watch, cache, queue>>
kidVars == <<kids, kidCache, kidFresh>>
vars == <<api, watch, cache, queue, lastUid, kids, kidCache, kidFresh, job, edits,
          faults>>

TypeOK ==
  /\ KubeTypeOK
  /\ lastUid \in 0..MaxUid
  /\ KidsOK(kids) /\ KidsOK(kidCache)
  /\ kidFresh \in [Names -> [Kinds -> BOOLEAN]]
  /\ job \in Job \cup {None}
  /\ edits \in Nat /\ faults \in Nat

Init ==
  /\ KubeInit
  /\ lastUid = 0
  /\ kids = [s \in Names |-> [k \in Kinds |-> None]]
  /\ kidCache = kids
  /\ kidFresh = [s \in Names |-> [k \in Kinds |-> TRUE]]
  /\ job = None
  /\ edits = 0 /\ faults = 0

Fault == faults < MaxFaults /\ faults' = faults + 1

--------------------------------------------------------------------------------
(****************************************************************************)
(* Reconcile up to its first call.                                          *)
(****************************************************************************)
Take(s) ==
  /\ job = None
  /\ s \in queue
  /\ queue' = queue \ {s}
  /\ UNCHANGED <<api, watch, cache, lastUid, kidVars, edits, faults>>

Start(s, stage) ==
  job' = [key |-> s, snap |-> cache[s], stale |-> watch[s] # <<>>, at |-> stage,
          pods |-> NoPods, reason |-> "no", meddled |-> {}]

PlanGone(s) == Take(s) /\ cache[s] = None /\ UNCHANGED job

PlanFinalizer(s) ==
  /\ Take(s)
  /\ cache[s] # None
  /\ ~cache[s].fin
  /\ Start(s, "addFinalizer")

\* Nothing is cleaned up: the children go with their owner.
PlanRelease(s) ==
  /\ Take(s)
  /\ cache[s] # None
  /\ cache[s].fin /\ cache[s].deleting
  /\ Start(s, "release")

Live(v) == v # None /\ v.fin /\ ~v.deleting

PlanServer(s) ==
  /\ Take(s)
  /\ Live(cache[s])
  /\ Start(s, "ConfigMap")

Plan(s) == PlanGone(s) \/ PlanFinalizer(s) \/ PlanRelease(s) \/ PlanServer(s)

--------------------------------------------------------------------------------
(****************************************************************************)
(* The rest of Reconcile, one call at a time.                               *)
(****************************************************************************)
At(stage) == job # None /\ job.at = stage
Goto(stage) == job' = [job EXCEPT !.at = stage] /\ UNCHANGED queue
Return(retry) ==
  /\ job' = None
  /\ queue' = IF retry THEN queue \cup {job.key} ELSE queue

\* Mutant: the write carries no resourceVersion.
UpdateBlind(v) == Store(job.key, v) /\ UNCHANGED faults

\* A write of the server carries the resourceVersion that was read; one that changes
\* nothing makes no new version and no watch event.
Write(v) ==
  /\ ~job.stale
  /\ IF v = job.snap THEN UNCHANGED <<api, watch>> ELSE Store(job.key, v)

Update(v) == Write(v) /\ UNCHANGED faults

\* Refused, or an error on the way, after which it may be stored all the same.
UpdateFails(v) ==
  \/ job.stale /\ UNCHANGED <<api, watch, faults>>
  \/ Fault /\ (UNCHANGED <<api, watch>> \/ Write(v))

\* The API server accepts no new finalizer on an object being deleted.
AddFinalizer ==
  LET guarded == [job.snap EXCEPT !.fin = TRUE]
  IN /\ At("addFinalizer")
     /\ \/ ~job.snap.deleting /\ (Update(guarded) \/ UpdateFails(guarded))
        \/ job.snap.deleting /\ UNCHANGED <<api, watch, faults>>
     /\ Return(TRUE)
     /\ UNCHANGED <<cache, lastUid, kidVars, edits>>

\* Mutant: the finalizer is removed from a copy.
ReleaseFinalizerForgetful ==
  /\ At("release")
  /\ \/ Update(job.snap) /\ Return(FALSE)
     \/ UpdateFails(job.snap) /\ Return(TRUE)
  /\ UNCHANGED <<cache, lastUid, kidVars, edits>>

ReleaseFinalizer ==
  LET released == Settled([job.snap EXCEPT !.fin = FALSE])
  IN /\ At("release")
     /\ \/ Update(released) /\ Return(FALSE)
        \/ UpdateFails(released) /\ Return(TRUE)
     /\ UNCHANGED <<cache, lastUid, kidVars, edits>>

--------------------------------------------------------------------------------
(****************************************************************************)
(* createOrUpdate(k).                                                       *)
(****************************************************************************)
Stored(k) == kids[job.key][k]
Cached(k) == kidCache[job.key][k]
MyUid == job.snap.spec.uid
MyWant == job.snap.spec.want

\* What the API server does not take: a volume of zero bytes, a new selector on a
\* Deployment somebody else made.
Acceptable(k, new) ==
  /\ k = "PVC" => new.content \notin InvalidSizes
  /\ k = "Deployment" /\ Stored(k) # None => Stored(k).content # Foreign

\* The informer has a new version still before it, or sees it at once.
Follow(s, k, new) ==
  \/ /\ k \in Loose
     /\ kidFresh' = [kidFresh EXCEPT ![s][k] = FALSE]
     /\ UNCHANGED kidCache
  \/ /\ k \notin Loose
     /\ kidCache' = [kidCache EXCEPT ![s][k] = new]
     /\ UNCHANGED kidFresh

StoreKid(k, new) ==
  /\ kids' = [kids EXCEPT ![job.key][k] = new]
  /\ IF new = Stored(k) THEN UNCHANGED <<kidCache, kidFresh>> ELSE Follow(job.key, k, new)

\* Mutant: the owner is overwritten.
OwnedNever(v) == FALSE

\* SetControllerReference sets the owner: an earlier server of the same name is
\* taken for the same owner, any other controller is an error.
Owned(v) == v.owner = Other

\* Mutant: the ports of an existing Service are kept.
MutatedKeeping(k) ==
  [Cached(k) EXCEPT !.owner = MyUid,
                    !.content = IF k \in {"PVC", "Service"} THEN @ ELSE Desired(MyWant)[k],
                    !.revision = FALSE]

\* The mutate function: a PVC keeps its spec, the others are overwritten, and with
\* them the annotations.
Mutated(k) ==
  [Cached(k) EXCEPT !.owner = MyUid,
                    !.content = IF k = "PVC" THEN @ ELSE Desired(MyWant)[k],
                    !.revision = FALSE]
\* Mutant: SetControllerReference is forgotten when the child is made.
NewKidUnowned(k) == [owner |-> None, content |-> Desired(MyWant)[k], pods |-> NoPods,
                     revision |-> FALSE]

NewKid(k) == [owner |-> MyUid, content |-> Desired(MyWant)[k], pods |-> NoPods,
              revision |-> FALSE]

\* What is compared is the cached object: a Deployment and a Service always differ
\* from it, because the API server filled in defaults.
NothingToDo(k) == k \in {"ConfigMap", "PVC"} /\ Mutated(k) = Cached(k)

Calls(k) == Cached(k) # None => ~Owned(Cached(k)) /\ ~NothingToDo(k)

Made(k) ==
  \/ /\ Cached(k) = None
     /\ Stored(k) = None
     /\ Acceptable(k, NewKid(k))
     /\ StoreKid(k, NewKid(k))
  \/ /\ Cached(k) # None
     /\ ~Owned(Cached(k))
     /\ NothingToDo(k)
     /\ UNCHANGED kidVars
  \/ /\ Cached(k) # None
     /\ ~Owned(Cached(k))
     /\ ~NothingToDo(k)
     /\ kidFresh[job.key][k]
     /\ Acceptable(k, Mutated(k))
     /\ StoreKid(k, Mutated(k))

\* AlreadyExists, AlreadyOwned, Conflict or NotFound, Invalid.
Refused(k) ==
  \/ Cached(k) = None /\ (Stored(k) # None \/ ~Acceptable(k, NewKid(k)))
  \/ /\ Cached(k) # None
     /\ \/ Owned(Cached(k))
        \/ /\ ~NothingToDo(k)
           /\ ~kidFresh[job.key][k] \/ ~Acceptable(k, Mutated(k))

CreateOrUpdate(k, next, failed) ==
  /\ \/ Made(k) /\ UNCHANGED faults /\ Goto(next)
     \/ Refused(k) /\ UNCHANGED <<kidVars, faults>> /\ failed
     \/ Calls(k) /\ Fault /\ (UNCHANGED kidVars \/ Made(k)) /\ failed
  /\ UNCHANGED <<api, watch, cache, lastUid, edits>>

Degrade(reason) ==
  job' = [job EXCEPT !.at = "degrade", !.reason = reason] /\ UNCHANGED queue

MakeConfigMap ==
  /\ At("ConfigMap")
  /\ CreateOrUpdate("ConfigMap", IF MyWant.volume # None THEN "PVC" ELSE "Deployment",
                    Degrade("ConfigMapError"))

MakePVC == At("PVC") /\ CreateOrUpdate("PVC", "Deployment", Return(TRUE))

MakeDeployment ==
  At("Deployment") /\ CreateOrUpdate("Deployment", "refresh", Degrade("DeploymentError"))

\* "Refresh deployment to get status", from the cache, which may not have it yet.
RefreshDeployment ==
  /\ At("refresh")
  /\ \/ Cached("Deployment") = None /\ Return(TRUE)
     \/ /\ Cached("Deployment") # None
        /\ job' = [job EXCEPT !.at = "Service", !.pods = Cached("Deployment").pods]
        /\ UNCHANGED queue
  /\ UNCHANGED <<api, watch, cache, lastUid, kidVars, edits, faults>>

MakeService == At("Service") /\ CreateOrUpdate("Service", "status", Return(TRUE))

\* The error of this write is ignored, the one that led here is returned.
ReportDegraded ==
  LET reported == [job.snap EXCEPT !.status.degraded = job.reason]
  IN /\ At("degrade")
     /\ Update(reported) \/ UpdateFails(reported)
     /\ Return(TRUE)
     /\ UNCHANGED <<cache, lastUid, kidVars, edits>>

\* Mutant: the counts are never copied.
NewStatusBare == [job.snap.status EXCEPT !.ports = StatusPorts(MyWant)]

\* Mutant: the ports are those of the spec without defaults.
NewStatusRaw ==
  [job.snap.status EXCEPT !.ports = [sftp |-> MyWant.sftpPort, web |-> MyWant.webPort,
                                     http |-> MyWant.webPort],
                          !.pods = IF job.pods.replicas > 0 THEN job.pods ELSE @]

\* Counts of a Deployment without pods are not copied.
NewStatus ==
  [job.snap.status EXCEPT !.ports = StatusPorts(MyWant),
                          !.pods = IF job.pods.replicas > 0 THEN job.pods ELSE @]

ReportRunning ==
  LET reported == [job.snap EXCEPT !.status = NewStatus]
  IN /\ At("status")
     /\ \/ Update(reported) /\ Return(FALSE)
        \/ UpdateFails(reported) /\ Return(TRUE)
     /\ UNCHANGED <<cache, lastUid, kidVars, edits>>

Work == AddFinalizer \/ ReleaseFinalizer \/ MakeConfigMap \/ MakePVC \/ MakeDeployment
          \/ RefreshDeployment \/ MakeService \/ ReportDegraded \/ ReportRunning

--------------------------------------------------------------------------------
(****************************************************************************)
(* Everything else: users, the informers, the Deployment controller, the    *)
(* garbage collector, other controllers.                                    *)
(****************************************************************************)
Spend == edits < MaxEdits /\ edits' = edits + 1
Outdate(s) ==
  job' = IF job # None /\ job.key = s THEN [job EXCEPT !.stale = TRUE] ELSE job

OwnerCreates(s) ==
  /\ Spend
  /\ lastUid < MaxUid
  /\ lastUid' = lastUid + 1
  /\ \E want \in Specs : Create(s, [uid |-> lastUid', want |-> want])
  /\ Outdate(s)
  /\ UNCHANGED <<kidVars, faults>>

OwnerEdits(s) ==
  /\ Spend
  /\ \E want \in Specs : Edit(s, [uid |-> api[s].spec.uid, want |-> want])
  /\ Outdate(s)
  /\ UNCHANGED <<lastUid, kidVars, faults>>

OwnerDeletes(s) ==
  /\ \E foreground \in BOOLEAN : Delete(s, foreground)
  /\ Outdate(s)
  /\ UNCHANGED <<lastUid, kidVars, edits, faults>>

\* Whose children are garbage: gone, replaced, or deleted in the foreground.
Gone(s, uid) ==
  api[s] # None => api[s].spec.uid # uid \/ (api[s].deleting /\ api[s].held)

After == [ConfigMap |-> {"PVC", "Deployment", "refresh", "Service", "status"},
          PVC |-> {"Deployment", "refresh", "Service", "status"},
          Deployment |-> {"refresh", "Service", "status"},
          Service |-> {"status"}]
Meddle(s, k) ==
  job' = IF job # None /\ job.key = s /\ job.at \in After[k]
           THEN [job EXCEPT !.meddled = @ \cup {k}] ELSE job

\* A new version of a child, stored by somebody else than this controller.
ReplaceKid(s, k, new) ==
  /\ kids' = [kids EXCEPT ![s][k] = new]
  /\ Follow(s, k, new)
  /\ UNCHANGED <<objectVars, lastUid, faults>>

Collect(s, k) ==
  /\ kids[s][k] # None
  /\ kids[s][k].owner \in 1..MaxUid
  /\ Gone(s, kids[s][k].owner)
  /\ ReplaceKid(s, k, None)
  /\ Meddle(s, k)
  /\ UNCHANGED edits

\* The foreground finalizer goes when the children are gone.
DependentsGone(s) ==
  /\ Unhold(s)
  /\ \A k \in Kinds : kids[s][k] # None => kids[s][k].owner # api[s].spec.uid
  /\ Outdate(s)
  /\ UNCHANGED <<lastUid, kidVars, edits, faults>>

SomebodyDeletes(s, k) ==
  /\ Spend
  /\ kids[s][k] # None
  /\ ReplaceKid(s, k, None)
  /\ Meddle(s, k)

SomebodyCreates(s, k) ==
  /\ Spend
  /\ kids[s][k] = None
  /\ \E owner \in {None, Other} :
       ReplaceKid(s, k, [owner |-> owner, content |-> Foreign, pods |-> NoPods,
                         revision |-> FALSE])
  /\ Meddle(s, k)

DeploymentSyncs(s) ==
  /\ kids[s]["Deployment"] # None
  /\ \E p \in PodCounts :
       LET new == [kids[s]["Deployment"] EXCEPT !.pods = p, !.revision = TRUE]
       IN new # kids[s]["Deployment"] /\ ReplaceKid(s, "Deployment", new)
  /\ UNCHANGED <<job, edits>>

\* The informer of the children catches up (with several versions at once: it is
\* only ever asked for the last one it has).
KidDelivered(s, k) ==
  /\ ~kidFresh[s][k]
  /\ kidCache' = [kidCache EXCEPT ![s][k] = kids[s][k]]
  /\ kidFresh' = [kidFresh EXCEPT ![s][k] = TRUE]
  /\ UNCHANGED <<objectVars, lastUid, kids, job, edits, faults>>

InformerDelivers(s) == Deliver(s) /\ UNCHANGED <<lastUid, kidVars, job, edits, faults>>
InformerResyncs(s) == Resync(s) /\ UNCHANGED <<lastUid, kidVars, job, edits, faults>>

\* The manager dies and starts again, with all caches filled.
Crash ==
  /\ Fault
  /\ Relist
  /\ job' = None
  /\ kidCache' = kids
  /\ kidFresh' = [s \in Names |-> [k \in Kinds |-> TRUE]]
  /\ UNCHANGED <<lastUid, kids, edits>>

Next ==
  \/ \E s \in Names :
       \/ Plan(s)
       \/ OwnerCreates(s) \/ OwnerEdits(s) \/ OwnerDeletes(s) \/ DependentsGone(s)
       \/ DeploymentSyncs(s) \/ InformerDelivers(s) \/ InformerResyncs(s)
       \/ \E k \in Kinds : Collect(s, k) \/ KidDelivered(s, k)
       \/ \E k \in Loose : SomebodyDeletes(s, k) \/ SomebodyCreates(s, k)
  \/ Work
  \/ Crash

Spec == Init /\ [][Next]_vars

\* As for the users' controller; the garbage collector and the informers of the
\* children do their work. The Deployment controller need not do anything.
Fairness ==
  /\ \A s \in Names : /\ SF_vars(Plan(s))
                      /\ WF_vars(InformerDelivers(s))
                      /\ WF_vars(InformerResyncs(s))
                      /\ WF_vars(DependentsGone(s))
                      /\ \A k \in Kinds : WF_vars(KidDelivered(s, k)) /\ WF_vars(Collect(s, k))
  /\ WF_vars(Work)

FairSpec == Spec /\ Fairness

--------------------------------------------------------------------------------
(****************************************************************************)
(* Properties                                                               *)
(****************************************************************************)
AsDesired(s, k) ==
  /\ kids[s][k] # None
  /\ kids[s][k].owner = api[s].spec.uid
  /\ kids[s][k].content = Desired(api[s].spec.want)[k]

Reported(s) ==
  /\ api[s] # None /\ api'[s] # None
  /\ api'[s].status # api[s].status
  /\ api'[s].status.degraded = api[s].status.degraded

\* When the status of a server is written, the Deployment and the Service are those
\* of the stored (not the cached) spec and belong to the stored object, unless
\* somebody else deleted or created them since this very call wrote them.
ReadyMeansDeployed ==
  [][\A s \in Names : Reported(s) =>
       \A k \in {"Deployment", "Service"} : k \notin job.meddled => AsDesired(s, k)]_vars

\* A child that some other controller owns is never written or collected, also when
\* the cache does not show it, or still shows an object without an owner.
OthersUntouched ==
  [][\A s \in Names, k \in Kinds :
       /\ kids[s][k] # None /\ kids[s][k].owner = Other
       /\ edits' = edits
       => /\ kids'[s][k] # None
          /\ kids'[s][k].owner = Other /\ kids'[s][k].content = kids[s][k].content]_vars

\* Only its owner brings a server (back) into being, changes its spec or takes it out
\* of deletion, and until a deletion is asked for the finalizer stays: what the
\* controller writes is a whole object as it read it, by then possibly replaced.
OwnerDecides(s) ==
  /\ api'[s] # None /\ edits' = edits
       => /\ api[s] # None
          /\ api'[s].spec = api[s].spec
          /\ api[s].deleting => api'[s].deleting
  /\ Live(api[s]) => api'[s] # None /\ api'[s].fin
OwnersDecide == [][\A s \in Names : OwnerDecides(s)]_vars

\* Nothing of what the API server refuses stands in the way.
Makeable(s) ==
  /\ Live(api[s])
  /\ PvcFor(api[s].spec.want) \notin InvalidSizes
  /\ \A k \in Kinds : kids[s][k] # None => kids[s][k].owner # Other
  /\ kids[s]["Deployment"] # None => kids[s]["Deployment"].content # Foreign

\* The Deployment controller comes to an end: a Deployment whose status changes for
\* ever can be a version ahead of every update.
PodsSettle(s) ==
  \E p \in PodCounts :
    <>[](kids[s]["Deployment"] # None => kids[s]["Deployment"].pods = p)

\* Once users stop, every child is there, as the stored spec wants it and owned by
\* the stored object (a PVC only there and owned), and the ports are reported:
\* whatever was deleted, left over by an earlier server of the name, refused on a
\* stale cache or cut off by a crash.
ChildrenConverge ==
  \A s \in Names :
    <>[]Makeable(s) /\ PodsSettle(s)
    => <>[](/\ api[s] # None
            /\ \A k \in Kinds \ {"PVC"} : AsDesired(s, k)
            /\ api[s].spec.want.volume # None
                 => kids[s]["PVC"] # None /\ kids[s]["PVC"].owner = api[s].spec.uid
            /\ api[s].status.ports = StatusPorts(api[s].spec.want))

\* The children of a server that is gone for good are collected, those included that
\* a Reconcile call made from a stale cache after it was gone: what stays was made by
\* others and never adopted.
ChildrenCollected ==
  \A s \in Names :
    <>[](api[s] = None)
    => <>[](\A k \in Kinds : kids[s][k] # None =>
                kids[s][k].content = Foreign /\ kids[s][k].owner \in {None, Other})

ShowsPods(s, p) ==
  <>[](/\ Makeable(s)
       /\ kids[s]["Deployment"] # None
       /\ kids[s]["Deployment"].pods = p)
  => <>[](api[s] # None /\ api[s].status.pods = p)

\* The pods a Deployment settles on are reported, although nothing watches it; that it
\* has none is not, by the test of the code.
PodsReported == \A s \in Names : \A p \in PodCounts : p.replicas > 0 => ShowsPods(s, p)

\* A deletion that is requested completes: nothing of the children holds it up.
ServerGoes == \A s \in Names : (api[s] # None /\ api[s].deleting) ~> (api[s] = None)

--------------------------------------------------------------------------------
(****************************************************************************)
(* What comments and docs say and the code does not do.                     *)
(****************************************************************************)

\* "Create or update ConfigMap" ... "Ready", "Reconciled": the same as
\* ReadyMeansDeployed for the ConfigMap.
ReadyMeansConfigured ==
  [][\A s \in Names :
       Reported(s) /\ "ConfigMap" \notin job.meddled => AsDesired(s, "ConfigMap")]_vars
================================================================================
