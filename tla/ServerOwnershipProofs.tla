------------------------- MODULE ServerOwnershipProofs --------------------------
(****************************************************************************)
(* SftpGoServerReconciler implements ChildOwnership, and never overrules    *)
(* the owner of a server, for any number of servers, uids and faults.       *)
(*                                                                          *)
(* A Reconcile call may run for a server that is gone and has a successor.  *)
(* That it never takes a child back from the successor rests on an order:   *)
(* the children follow the calls, the calls follow the cache, the cache     *)
(* follows the watch and the watch ends in what is stored, so uids never    *)
(* decrease along this line.                                                *)
(****************************************************************************)
EXTENDS ServerOwnership, ServerControllerProofs

\* The versions of s the controller sees, from the cached one on: the last one is
\* the stored one.
Version(s, i) == IF i = 0 THEN cache[s] ELSE watch[s][i]
Slots(s) == 0..Len(watch[s])

\* Nothing still to be seen of s is an earlier server than the one with uid u.
Behind(s, u) ==
  /\ u <= lastUid
  /\ \A i \in Slots(s) : Version(s, i) # None => u <= Version(s, i).spec.uid

InOrder ==
  \A s \in Names : \A i \in Slots(s) : Version(s, i) # None =>
    /\ Version(s, i).spec.uid <= lastUid
    /\ \A j \in Slots(s) : i <= j /\ Version(s, j) # None
                             => Version(s, i).spec.uid <= Version(s, j).spec.uid

IsOwned(s, k) == kids[s][k] # None /\ kids[s][k].owner \in 1..MaxUid
KidsBehind == \A s \in Names, k \in Kinds : IsOwned(s, k) => Behind(s, kids[s][k].owner)
JobBehind ==
  job # None => /\ Behind(job.key, MyUid)
                /\ \A k \in Kinds : IsOwned(job.key, k) => kids[job.key][k].owner <= MyUid
ReleasesAreAsked == job # None /\ job.at = "release" => job.snap.deleting

OwnershipInv ==
  /\ ReportInv
  /\ InOrder /\ KidsBehind /\ JobBehind
  /\ ReleasesAreAsked

--------------------------------------------------------------------------------
(****************************************************************************)
(* What the controller makes of a server when it writes it.                 *)
(****************************************************************************)
LEMMA WritesOverTheStored ==
  ASSUME ReportInv, ReleasesAreAsked,
         AddFinalizer \/ ReleaseFinalizer \/ ReportDegraded \/ ReportRunning,
         ~UNCHANGED <<api, watch>>
  PROVE  /\ job # None /\ job.key \in Names
         /\ api[job.key] \in Object
         /\ Store(job.key, api'[job.key])
         /\ \A s \in Names \ {job.key} : api'[s] = api[s]
         /\ api'[job.key] = None => api[job.key].deleting
         /\ api'[job.key] # None =>
              /\ api'[job.key] \in Object
              /\ api'[job.key].spec = api[job.key].spec
              /\ api'[job.key].deleting = api[job.key].deleting
              /\ api[job.key].fin /\ ~api[job.key].deleting => api'[job.key].fin
<1>1. job # None /\ TypeOK
  BY DEF AddFinalizer, ReleaseFinalizer, ReportDegraded, ReportRunning, At, ReportInv
<1>2. job.key \in Names /\ job.snap \in Object /\ NewStatus \in ServerStatus
  BY <1>1, JobParts, NewStatusType
<1>3. PICK w : /\ ~job.stale /\ Store(job.key, w)
               /\ \/ w = [job.snap EXCEPT !.fin = TRUE]
                  \/ w = [job.snap EXCEPT !.status = NewStatus]
                  \/ w = [job.snap EXCEPT !.status.degraded = job.reason]
                  \/ w = Settled([job.snap EXCEPT !.fin = FALSE]) /\ job.at = "release"
  BY DEF AddFinalizer, ReleaseFinalizer, ReportDegraded, ReportRunning, Write, Update,
         UpdateFails, At
<1>4. api[job.key] = job.snap
  BY <1>1, <1>3 DEF ReportInv, FreshJob
<1>5. api'[job.key] = w /\ \A s \in Names \ {job.key} : api'[s] = api[s]
  BY <1>1, <1>2, <1>3 DEF Store, TypeOK, KubeTypeOK
<1>6. CASE w \in {[job.snap EXCEPT !.fin = TRUE], [job.snap EXCEPT !.status = NewStatus]}
  <2>1. /\ w \in Object /\ w.spec = job.snap.spec /\ w.deleting = job.snap.deleting
        /\ job.snap.fin => w.fin
    BY <1>2, <1>6 DEF Object
  <2> QED
    BY <1>1, <1>2, <1>3, <1>4, <1>5, <2>1, NoneAssumption
<1>7. CASE w = [job.snap EXCEPT !.status.degraded = job.reason]
  <2>1. [job.snap.status EXCEPT !.degraded = job.reason] \in ServerStatus
    BY <1>1, JobParts DEF Job, ServerStatus
  <2>2. /\ w \in Object /\ w.spec = job.snap.spec /\ w.deleting = job.snap.deleting
        /\ job.snap.fin => w.fin
    BY <1>2, <1>7, <2>1 DEF Object
  <2> QED
    BY <1>1, <1>2, <1>3, <1>4, <1>5, <2>2, NoneAssumption
<1>8. CASE w = Settled([job.snap EXCEPT !.fin = FALSE]) /\ job.at = "release"
  <2>1. job.snap.deleting
    BY <1>1, <1>8 DEF ReleasesAreAsked
  <2>2. w # None => /\ w \in Object /\ w.spec = job.snap.spec
                    /\ w.deleting = job.snap.deleting
    BY <1>2, <1>8 DEF Settled, Object
  <2> QED
    BY <1>1, <1>2, <1>3, <1>4, <1>5, <2>1, <2>2
<1> QED
  BY <1>3, <1>6, <1>7, <1>8

\* What owners and the garbage collector make of it, and of the uids.
LEMMA OwnersWrite ==
  ASSUME TypeOK, NEW s \in Names,
         OwnerCreates(s) \/ OwnerEdits(s) \/ OwnerDeletes(s) \/ DependentsGone(s)
  PROVE  /\ Store(s, api'[s]) /\ UNCHANGED <<cache, kidVars>>
         /\ api'[s] \in Object \cup {None}
         /\ \A t \in Names \ {s} : api'[t] = api[t]
         /\ OwnerCreates(s) => /\ api[s] = None /\ api'[s] # None
                               /\ lastUid' = lastUid + 1 /\ api'[s].spec.uid = lastUid'
                               /\ ~api'[s].deleting /\ edits' = edits + 1
         /\ OwnerEdits(s) => /\ api[s] # None /\ api'[s] # None
                             /\ lastUid' = lastUid /\ api'[s].spec.uid = api[s].spec.uid
                             /\ api'[s].deleting = api[s].deleting
                             /\ api'[s].fin = api[s].fin /\ edits' = edits + 1
         /\ OwnerDeletes(s) \/ DependentsGone(s) =>
              /\ api[s] # None /\ UNCHANGED <<lastUid, edits>>
              /\ api[s].fin => api'[s] # None
              /\ api'[s] # None => /\ api'[s].spec = api[s].spec
                                   /\ api'[s].fin = api[s].fin
                                   /\ OwnerDeletes(s) => api'[s].deleting
                                   /\ DependentsGone(s) => api'[s].deleting = api[s].deleting
<1>1. PICK v \in Object \cup {None} : Store(s, v)
  BY OwnersStore
<1>2. /\ UNCHANGED <<cache, kidVars>>
      /\ api'[s] = v /\ \A t \in Names \ {s} : api'[t] = api[t]
  BY <1>1, OwnersStore, StoreFacts
<1>3. OwnerCreates(s) => /\ api[s] = None /\ api'[s] # None
                         /\ lastUid' = lastUid + 1 /\ api'[s].spec.uid = lastUid'
                         /\ ~api'[s].deleting /\ edits' = edits + 1
  <2> SUFFICES ASSUME OwnerCreates(s)
               PROVE  /\ api[s] = None /\ api'[s] # None
                      /\ lastUid' = lastUid + 1 /\ api'[s].spec.uid = lastUid'
                      /\ ~api'[s].deleting /\ edits' = edits + 1
    OBVIOUS
  <2>1. PICK want \in Specs : Create(s, [uid |-> lastUid', want |-> want])
    BY DEF OwnerCreates
  <2> DEFINE w == [spec |-> [uid |-> lastUid', want |-> want], fin |-> FALSE,
                   held |-> FALSE, deleting |-> FALSE, status |-> NewServerStatus]
  <2>2. lastUid' \in 1..MaxUid
    BY BoundsAssumption DEF OwnerCreates, TypeOK
  <2>3. w \in Object
    BY <2>2, SpecsAssumption, NewServerStatusType DEF Object, Given
  <2>4. api'[s] = w /\ api[s] = None
    BY <2>1 DEF Create, Store, TypeOK, KubeTypeOK
  <2>5. w # None
    BY <2>3, NoneAssumption
  <2> QED
    BY <2>4, <2>5 DEF OwnerCreates, Spend
<1>4. OwnerEdits(s) => /\ api[s] # None /\ api'[s] # None
                       /\ lastUid' = lastUid /\ api'[s].spec.uid = api[s].spec.uid
                       /\ api'[s].deleting = api[s].deleting
                       /\ api'[s].fin = api[s].fin /\ edits' = edits + 1
  <2> SUFFICES ASSUME OwnerEdits(s)
               PROVE  /\ api[s] # None /\ api'[s] # None
                      /\ lastUid' = lastUid /\ api'[s].spec.uid = api[s].spec.uid
                      /\ api'[s].deleting = api[s].deleting
                      /\ api'[s].fin = api[s].fin /\ edits' = edits + 1
    OBVIOUS
  <2>1. PICK want \in Specs : Edit(s, [uid |-> api[s].spec.uid, want |-> want])
    BY DEF OwnerEdits
  <2> DEFINE new == [uid |-> api[s].spec.uid, want |-> want]
  <2>2. api[s] # None /\ api[s] \in Object
    BY <2>1 DEF Edit, TypeOK, KubeTypeOK
  <2>3. new \in Given
    BY <2>2, SpecsAssumption, ObjectParts DEF Given
  <2>4. api'[s] = [api[s] EXCEPT !.spec = new]
    BY <2>1 DEF Edit, Store, TypeOK, KubeTypeOK
  <2>5. /\ api'[s] \in Object /\ api'[s].spec = new
        /\ api'[s].deleting = api[s].deleting /\ api'[s].fin = api[s].fin
    BY <2>2, <2>3, <2>4 DEF Object
  <2> QED
    BY <2>2, <2>5, NoneAssumption DEF OwnerEdits, Spend
<1>5. OwnerDeletes(s) \/ DependentsGone(s) =>
        /\ api[s] # None /\ UNCHANGED <<lastUid, edits>>
        /\ api[s].fin => api'[s] # None
        /\ api'[s] # None => /\ api'[s].spec = api[s].spec
                             /\ api'[s].fin = api[s].fin
                             /\ OwnerDeletes(s) => api'[s].deleting
                             /\ DependentsGone(s) => api'[s].deleting = api[s].deleting
  <2>1. CASE OwnerDeletes(s)
    <3>1. PICK foreground \in BOOLEAN : Delete(s, foreground)
      BY <2>1 DEF OwnerDeletes
    <3> DEFINE w == [api[s] EXCEPT !.deleting = TRUE, !.held = foreground]
    <3>2. api[s] # None /\ api[s] \in Object /\ ~api[s].deleting
      BY <3>1 DEF Delete, TypeOK, KubeTypeOK
    <3>3. w \in Object /\ w.spec = api[s].spec /\ w.fin = api[s].fin /\ w.deleting
      BY <3>2 DEF Object
    <3>4. api'[s] = Settled(w)
      BY <3>1 DEF Delete, Store, TypeOK, KubeTypeOK
    <3>5. ~DependentsGone(s) \/ api[s].held
      BY DEF DependentsGone, Unhold
    <3>6. DependentsGone(s) => api'[s].deleting = api[s].deleting \/ api'[s] = None
      <4> SUFFICES ASSUME DependentsGone(s)
                   PROVE  api'[s].deleting = api[s].deleting \/ api'[s] = None
        OBVIOUS
      <4>1. api'[s] = Settled([api[s] EXCEPT !.held = FALSE])
        BY DEF DependentsGone, Unhold, Store, TypeOK, KubeTypeOK
      <4> QED
        BY <3>2, <4>1 DEF Settled, Object
    <3> HIDE DEF w
    <3> QED
      BY <2>1, <3>2, <3>3, <3>4, <3>6, NoneAssumption DEF Settled, OwnerDeletes
  <2>2. CASE DependentsGone(s)
    <3> DEFINE w == [api[s] EXCEPT !.held = FALSE]
    <3>1. api[s] # None /\ api[s] \in Object
      BY <2>2 DEF DependentsGone, Unhold, TypeOK, KubeTypeOK
    <3>2. /\ w \in Object /\ w.spec = api[s].spec /\ w.fin = api[s].fin
          /\ w.deleting = api[s].deleting
      BY <3>1 DEF Object
    <3>3. api'[s] = Settled(w)
      BY <2>2 DEF DependentsGone, Unhold, Store, TypeOK, KubeTypeOK
    <3>4. OwnerDeletes(s) => api'[s].deleting \/ api'[s] = None
      <4> SUFFICES ASSUME OwnerDeletes(s) PROVE api'[s].deleting \/ api'[s] = None
        OBVIOUS
      <4>1. PICK b \in BOOLEAN : api'[s] = Settled([api[s] EXCEPT !.deleting = TRUE, !.held = b])
        BY DEF OwnerDeletes, Delete, Store, TypeOK, KubeTypeOK
      <4> QED
        BY <3>1, <4>1 DEF Settled, Object
    <3> HIDE DEF w
    <3> QED
      BY <2>2, <3>1, <3>2, <3>3, <3>4, NoneAssumption DEF Settled, DependentsGone
  <2> QED
    BY <2>1, <2>2
<1> QED
  BY <1>1, <1>2, <1>3, <1>4, <1>5

\* Who stores versions of servers; nobody else does.
LEMMA WhoStores ==
  ASSUME TypeOK, [Next]_vars
  PROVE  \/ \E s \in Names : \/ OwnerCreates(s) \/ OwnerEdits(s)
                             \/ OwnerDeletes(s) \/ DependentsGone(s)
         \/ /\ AddFinalizer \/ ReleaseFinalizer \/ ReportDegraded \/ ReportRunning
            /\ ~UNCHANGED <<api, watch>> /\ UNCHANGED <<cache, lastUid, kidVars, edits>>
         \/ \E s \in Names : InformerDelivers(s)
         \/ Crash
         \/ UNCHANGED <<api, watch, cache, lastUid>>
<1>1. CASE AddFinalizer \/ ReleaseFinalizer \/ ReportDegraded \/ ReportRunning
  BY <1>1 DEF AddFinalizer, ReleaseFinalizer, ReportDegraded, ReportRunning
<1>2. CASE MakeConfigMap \/ MakePVC \/ MakeDeployment \/ MakeService
  BY <1>2, ChildCalls
<1>3. CASE \E s \in Names, k \in Kinds :
             \/ Collect(s, k) \/ SomebodyDeletes(s, k) \/ SomebodyCreates(s, k)
             \/ k = "Deployment" /\ DeploymentSyncs(s)
  BY <1>3, OthersReplace DEF ReplaceKid, objectVars
<1>4. CASE \/ RefreshDeployment \/ UNCHANGED vars
           \/ \E s \in Names : \/ Plan(s) \/ InformerResyncs(s)
                               \/ \E k \in Kinds : KidDelivered(s, k)
  BY <1>4 DEF RefreshDeployment, vars, Plan, PlanGone, PlanFinalizer, PlanRelease, PlanServer,
       Take, InformerResyncs, Resync, KidDelivered, objectVars
<1>5. "Deployment" \in Kinds /\ Loose \subseteq Kinds
  BY BoundsAssumption DEF Kinds
<1> QED
  BY <1>1, <1>2, <1>3, <1>4, <1>5 DEF Next, Work

--------------------------------------------------------------------------------
(****************************************************************************)
(* The job.                                                                 *)
(****************************************************************************)
Continues == /\ job # None /\ job'.key = job.key /\ job'.snap = job.snap
             /\ job'.at = "release" => job.at = "release"
Begins(s) == /\ job'.key = s /\ job'.snap = cache[s] /\ cache[s] # None
             /\ job'.at = "release" => cache[s].deleting
             /\ UNCHANGED <<api, watch, cache, lastUid, kids>>

LEMMA JobStep ==
  ASSUME TypeOK, [Next]_vars, job' # None
  PROVE  Continues \/ \E s \in Names : Begins(s)
<1>1. CASE \E s \in Names : Plan(s)
  <2>1. PICK s \in Names : Plan(s)
    BY <1>1
  <2>2. job = None /\ UNCHANGED <<api, watch, cache, lastUid, kids>>
    BY <2>1 DEF Plan, PlanGone, PlanFinalizer, PlanRelease, PlanServer, Take, kidVars
  <2>3. CASE PlanGone(s)
    BY <2>2, <2>3 DEF PlanGone
  <2>4. CASE PlanFinalizer(s)
    BY <2>2, <2>4 DEF PlanFinalizer, Start, Begins
  <2>5. CASE PlanRelease(s)
    BY <2>2, <2>5 DEF PlanRelease, Start, Begins
  <2>6. CASE PlanServer(s)
    BY <2>2, <2>6 DEF PlanServer, Start, Begins, Live
  <2> QED
    BY <2>1, <2>3, <2>4, <2>5, <2>6 DEF Plan
<1>2. CASE AddFinalizer \/ ReleaseFinalizer \/ ReportDegraded \/ ReportRunning
  BY <1>2 DEF AddFinalizer, ReleaseFinalizer, ReportDegraded, ReportRunning, Return
<1>3. CASE MakeConfigMap \/ MakePVC \/ MakeDeployment \/ MakeService
  <2>1. job \in Job
    BY <1>3, ChildCallsJob, JobParts
  <2>2. job'.at # "degrade" => Continues
    <3> SUFFICES ASSUME job'.at # "degrade" PROVE Continues
      OBVIOUS
    <3> DEFINE next == job'.at
    <3>1. job' = [job EXCEPT !.at = next] /\ next # "release" /\ job # None
      BY <1>3, <2>1, ChildCallsStage, ChildCallsJob
    <3> HIDE DEF next
    <3>2. job'.key = job.key /\ job'.snap = job.snap /\ job'.at = next
      BY <2>1, <3>1 DEF Job
    <3> QED
      BY <3>1, <3>2 DEF Continues
  <2>3. job'.at = "degrade" => Continues
    BY <1>3, <2>1, ChildCallsJob DEF Goto, Degrade, Return, Continues, Job
  <2> QED
    BY <2>2, <2>3
<1>4. CASE RefreshDeployment
  <2>1. job # None /\ job \in Job
    BY <1>4, JobParts DEF RefreshDeployment, At
  <2>2. \E p : job' = [job EXCEPT !.at = "Service", !.pods = p]
    BY <1>4 DEF RefreshDeployment, Return
  <2> QED
    BY <2>1, <2>2 DEF Continues, Job
<1>5. CASE \E s \in Names : \/ OwnerCreates(s) \/ OwnerEdits(s)
                            \/ OwnerDeletes(s) \/ DependentsGone(s)
  <2>1. job # None /\ (job' = job \/ job' = [job EXCEPT !.stale = TRUE])
    BY <1>5, OwnersStore DEF Outdate
  <2> QED
    BY <2>1, JobParts DEF Continues, Job
<1>6. CASE \E s \in Names, k \in Kinds :
             \/ Collect(s, k) \/ SomebodyDeletes(s, k) \/ SomebodyCreates(s, k)
             \/ k = "Deployment" /\ DeploymentSyncs(s)
  <2>1. \E s \in Names, k \in Kinds : Meddle(s, k) \/ UNCHANGED job
    BY <1>6, OthersReplace
  <2>2. job # None /\ (job' = job \/ \E k \in Kinds : job' = [job EXCEPT !.meddled = @ \cup {k}])
    BY <2>1 DEF Meddle
  <2> QED
    BY <2>2, JobParts DEF Continues, Job
<1>7. CASE \/ UNCHANGED vars
           \/ \E s \in Names : \/ InformerDelivers(s) \/ InformerResyncs(s)
                               \/ \E k \in Kinds : KidDelivered(s, k)
  BY <1>7 DEF vars, InformerDelivers, InformerResyncs, KidDelivered, Continues
<1>8. CASE Crash
  BY <1>8 DEF Crash
<1>9. "Deployment" \in Kinds /\ Loose \subseteq Kinds
  BY BoundsAssumption DEF Kinds
<1> QED
  BY <1>1, <1>2, <1>3, <1>4, <1>5, <1>6, <1>7, <1>8, <1>9 DEF Next, Work

LEMMA ReleasesStep ==
  ASSUME TypeOK, ReleasesAreAsked, [Next]_vars
  PROVE  ReleasesAreAsked'
<1> SUFFICES ASSUME job' # None, job'.at = "release" PROVE job'.snap.deleting
  BY DEF ReleasesAreAsked
<1> QED
  BY JobStep DEF Continues, Begins, ReleasesAreAsked

--------------------------------------------------------------------------------
(****************************************************************************)
(* The owners of servers decide.                                            *)
(****************************************************************************)
DecisionInv == ReportInv /\ ReleasesAreAsked

LEMMA DecisionStep ==
  ASSUME DecisionInv, [Next]_vars, NEW s \in Names
  PROVE  OwnerDecides(s)
<1> USE DEF DecisionInv
<1>1. TypeOK
  BY DEF ReportInv
<1>2. CASE UNCHANGED api
  BY <1>2 DEF OwnerDecides, Live
<1>3. CASE \E t \in Names : \/ OwnerCreates(t) \/ OwnerEdits(t)
                            \/ OwnerDeletes(t) \/ DependentsGone(t)
  <2>1. PICK t \in Names : \/ OwnerCreates(t) \/ OwnerEdits(t)
                           \/ OwnerDeletes(t) \/ DependentsGone(t)
    BY <1>3
  <2>2. CASE t # s
    <3>1. api'[s] = api[s]
      BY <1>1, <2>1, <2>2, OwnersWrite
    <3> QED
      BY <3>1 DEF OwnerDecides, Live
  <2>3. CASE t = s /\ (OwnerCreates(s) \/ OwnerEdits(s))
    <3>1. edits' # edits
      BY <1>1, <2>3 DEF OwnerCreates, OwnerEdits, Spend, TypeOK
    <3> QED
      BY <1>1, <2>3, <3>1, OwnersWrite DEF OwnerDecides, Live
  <2>4. CASE t = s /\ OwnerDeletes(s)
    BY <1>1, <2>4, OwnersWrite DEF OwnerDecides, Live
  <2>5. CASE t = s /\ DependentsGone(s)
    BY <1>1, <2>5, OwnersWrite DEF OwnerDecides, Live
  <2> QED
    BY <2>1, <2>2, <2>3, <2>4, <2>5
<1>4. CASE /\ AddFinalizer \/ ReleaseFinalizer \/ ReportDegraded \/ ReportRunning
           /\ ~UNCHANGED <<api, watch>>
  <2>1. CASE s = job.key
    BY <1>4, <2>1, WritesOverTheStored, NoneAssumption DEF OwnerDecides, Live
  <2>2. CASE s # job.key
    BY <1>4, <2>2, WritesOverTheStored DEF OwnerDecides, Live
  <2> QED
    BY <2>1, <2>2
<1> QED
  BY <1>1, <1>2, <1>3, <1>4, WhoStores DEF InformerDelivers, Deliver, Crash, Relist

LEMMA InitReports == Init => ReportInv
BY InitType DEF Init, KubeInit, ReportInv, FreshIsStored, InformerCatchesUp,
     LastVersionIsStored, FreshJob, KidsAreMade

\* The controller never undoes what the owner of a server did, however old the version
\* is that it writes back.
THEOREM OwnersAlwaysDecide == Spec => OwnersDecide
<1>1. Init => DecisionInv
  BY InitReports DEF Init, DecisionInv, ReleasesAreAsked
<1>2. DecisionInv /\ [Next]_vars => DecisionInv'
  BY ReportStep, ReleasesStep DEF DecisionInv, ReportInv
<1>3. DecisionInv /\ [Next]_vars => [\A s \in Names : OwnerDecides(s)]_vars
  BY DecisionStep
<1> QED
  BY <1>1, <1>2, <1>3, PTL DEF Spec, OwnersDecide

--------------------------------------------------------------------------------
(****************************************************************************)
(* The line of versions, one step at a time: it stays, loses its first, is  *)
(* cut to its last, or gets a new last one, which is of the stored server   *)
(* or of a new one.                                                         *)
(****************************************************************************)
SlotsKept(s) == Len(watch'[s]) = Len(watch[s])
                /\ \A i \in Slots(s) : Version(s, i)' = Version(s, i)
FirstGone(s) == Len(watch'[s]) = Len(watch[s]) - 1
                /\ \A i \in Slots(s)' : i + 1 \in Slots(s) /\ Version(s, i)' = Version(s, i + 1)
LastKept(s) == Len(watch'[s]) = 0 /\ Version(s, 0)' = Version(s, Len(watch[s]))
LastAdded(s) ==
  /\ Len(watch'[s]) = Len(watch[s]) + 1
  /\ \A i \in Slots(s) : Version(s, i)' = Version(s, i)
  /\ LET v == watch'[s][Len(watch[s]) + 1]
     IN v # None => /\ v.spec.uid \in 1..MaxUid
                    /\ \/ /\ Version(s, Len(watch[s])) # None
                          /\ v.spec.uid = Version(s, Len(watch[s])).spec.uid
                          /\ lastUid' = lastUid
                       \/ lastUid' = lastUid + 1 /\ v.spec.uid = lastUid'

LEMMA VersionType ==
  ASSUME TypeOK, NEW s \in Names
  PROVE  /\ Len(watch[s]) \in Nat
         /\ \A i \in Slots(s) : Version(s, i) \in Object \cup {None}
         /\ \A i \in Slots(s) : Version(s, i) # None => Version(s, i).spec.uid \in 1..MaxUid
<1>1. watch[s] \in Seq(Object \cup {None}) /\ cache[s] \in Object \cup {None}
  BY DEF TypeOK, KubeTypeOK
<1>2. Len(watch[s]) \in Nat /\ \A i \in 1..Len(watch[s]) : watch[s][i] \in Object \cup {None}
  BY <1>1
<1>3. \A i \in Slots(s) : Version(s, i) \in Object \cup {None}
  BY <1>1, <1>2 DEF Slots, Version
<1> QED
  BY <1>2, <1>3, ObjectParts

LEMMA LastIsStored ==
  ASSUME ReportInv, NEW s \in Names
  PROVE  Version(s, Len(watch[s])) = api[s] /\ Len(watch[s]) \in Slots(s)
<1>1. watch[s] \in Seq(Object \cup {None}) /\ Len(watch[s]) \in Nat
  BY DEF ReportInv, TypeOK, KubeTypeOK
<1>2. watch[s] = <<>> <=> Len(watch[s]) = 0
  BY <1>1
<1> QED
  BY <1>1, <1>2 DEF Version, Slots, ReportInv, InformerCatchesUp, LastVersionIsStored

\* Storing a version of the stored server, or of a new one, or none.
LEMMA StoreAdds ==
  ASSUME ReportInv, NEW s \in Names, Store(s, api'[s]), UNCHANGED cache,
         api'[s] \in Object \cup {None},
         api'[s] # None => \/ /\ api[s] # None /\ api'[s].spec.uid = api[s].spec.uid
                              /\ lastUid' = lastUid
                           \/ lastUid' = lastUid + 1 /\ api'[s].spec.uid = lastUid'
  PROVE  /\ LastAdded(s)
         /\ \A t \in Names \ {s} : SlotsKept(t)
<1> DEFINE q == watch[s]
           n == Len(watch[s])
           v == api'[s]
<1>1. q \in Seq(Object \cup {None}) /\ n \in Nat
  BY DEF ReportInv, TypeOK, KubeTypeOK
<1>2. watch'[s] = Append(q, v) /\ \A t \in Names \ {s} : watch'[t] = watch[t]
  BY DEF Store, ReportInv, TypeOK, KubeTypeOK
<1>3. /\ Len(watch'[s]) = n + 1 /\ watch'[s][n + 1] = v
      /\ \A i \in 1..n : watch'[s][i] = q[i]
  BY <1>1, <1>2, AppendFacts
<1>4. \A i \in Slots(s) : Version(s, i)' = Version(s, i)
  BY <1>1, <1>3 DEF Version, Slots
<1>5. v # None => v.spec.uid \in 1..MaxUid
  BY ObjectParts
<1>6. LastAdded(s)
  BY <1>1, <1>3, <1>4, <1>5, LastIsStored DEF LastAdded
<1>7. \A t \in Names \ {s} : SlotsKept(t)
  BY <1>2 DEF SlotsKept, Version
<1> QED
  BY <1>6, <1>7

LEMMA LineStep ==
  ASSUME OwnershipInv, [Next]_vars, NEW s \in Names
  PROVE  /\ lastUid' \in {lastUid, lastUid + 1}
         /\ SlotsKept(s) \/ FirstGone(s) \/ LastKept(s) \/ LastAdded(s)
<1> USE DEF OwnershipInv
<1>1. TypeOK
  BY DEF ReportInv
<1>2. CASE \E t \in Names : \/ OwnerCreates(t) \/ OwnerEdits(t)
                            \/ OwnerDeletes(t) \/ DependentsGone(t)
  <2>1. PICK t \in Names : \/ OwnerCreates(t) \/ OwnerEdits(t)
                           \/ OwnerDeletes(t) \/ DependentsGone(t)
    BY <1>2
  <2>2. /\ Store(t, api'[t]) /\ UNCHANGED cache /\ api'[t] \in Object \cup {None}
        /\ lastUid' \in {lastUid, lastUid + 1}
        /\ api'[t] # None => \/ /\ api[t] # None /\ api'[t].spec.uid = api[t].spec.uid
                                /\ lastUid' = lastUid
                             \/ lastUid' = lastUid + 1 /\ api'[t].spec.uid = lastUid'
    BY <1>1, <2>1, OwnersWrite
  <2> QED
    BY <2>2, StoreAdds
<1>3. CASE /\ AddFinalizer \/ ReleaseFinalizer \/ ReportDegraded \/ ReportRunning
           /\ ~UNCHANGED <<api, watch>> /\ UNCHANGED <<cache, lastUid>>
  BY <1>3, WritesOverTheStored, StoreAdds, NoneAssumption
<1>4. CASE \E t \in Names : InformerDelivers(t)
  <2>1. PICK t \in Names : InformerDelivers(t)
    BY <1>4
  <2> DEFINE q == watch[t]
  <2>2. q \in Seq(Object \cup {None}) /\ q # <<>>
    BY <1>1, <2>1 DEF InformerDelivers, Deliver, TypeOK, KubeTypeOK
  <2>3. /\ cache'[t] = Head(q) /\ watch'[t] = Tail(q) /\ UNCHANGED lastUid
        /\ s # t => cache'[s] = cache[s] /\ watch'[s] = watch[s]
    BY <1>1, <2>1 DEF InformerDelivers, Deliver, TypeOK, KubeTypeOK
  <2>4. CASE s # t
    BY <2>3, <2>4 DEF SlotsKept, Version
  <2>5. CASE s = t
    <3>1. /\ Head(q) = q[1] /\ Len(q) \in Nat /\ 1 \in 1..Len(q)
          /\ Len(Tail(q)) = Len(q) - 1
          /\ \A i \in 1..Len(Tail(q)) : i + 1 \in 1..Len(q) /\ Tail(q)[i] = q[i + 1]
      BY <2>2, TailFacts
    <3>2. Len(watch'[s]) = Len(watch[s]) - 1
      BY <2>3, <2>5, <3>1
    <3>3. ASSUME NEW i \in Slots(s)'
          PROVE  i + 1 \in Slots(s) /\ Version(s, i)' = Version(s, i + 1)
      <4>1. i \in Nat /\ i <= Len(q) - 1
        BY <2>5, <3>1, <3>2, <3>3 DEF Slots
      <4>2. i + 1 \in Slots(s) /\ i + 1 # 0 /\ (i # 0 => i \in 1..Len(Tail(q)))
        BY <2>5, <3>1, <4>1 DEF Slots
      <4>3. CASE i = 0
        BY <2>3, <2>5, <3>1, <4>2, <4>3 DEF Version
      <4>4. CASE i # 0
        BY <2>3, <2>5, <3>1, <4>2, <4>4 DEF Version
      <4> QED
        BY <4>2, <4>3, <4>4
    <3> QED
      BY <2>3, <3>2, <3>3 DEF FirstGone
  <2> QED
    BY <2>4, <2>5
<1>5. CASE Crash
  <2>1. cache'[s] = api[s] /\ watch'[s] = <<>> /\ UNCHANGED lastUid
    BY <1>5 DEF Crash, Relist
  <2>2. LastKept(s)
    BY <2>1, LastIsStored DEF LastKept, Version
  <2> QED
    BY <2>1, <2>2
<1>6. CASE UNCHANGED <<api, watch, cache, lastUid>>
  BY <1>6 DEF SlotsKept, Version
<1> QED
  BY <1>1, <1>2, <1>3, <1>4, <1>5, <1>6, WhoStores

LEMMA OrderStep ==
  ASSUME OwnershipInv, [Next]_vars
  PROVE  InOrder'
<1> SUFFICES ASSUME NEW s \in Names, NEW i \in Slots(s)', Version(s, i)' # None
             PROVE  /\ Version(s, i)'.spec.uid <= lastUid'
                    /\ \A j \in Slots(s)' : i <= j /\ Version(s, j)' # None
                         => Version(s, i)'.spec.uid <= Version(s, j)'.spec.uid
  BY DEF InOrder
<1>1. lastUid \in Nat /\ lastUid' \in Nat /\ lastUid <= lastUid' /\ Len(watch[s]) \in Nat
  BY LineStep, VersionType, BoundsAssumption DEF OwnershipInv, ReportInv, TypeOK
<1>2. \A j \in Slots(s) : Version(s, j) # None =>
        Version(s, j).spec.uid \in 1..MaxUid /\ Version(s, j).spec.uid <= lastUid
  BY VersionType DEF OwnershipInv, ReportInv, InOrder
<1>3. CASE SlotsKept(s)
  BY <1>1, <1>2, <1>3 DEF SlotsKept, Slots, OwnershipInv, InOrder
<1>4. CASE FirstGone(s)
  <2>1. i + 1 \in Slots(s) /\ Version(s, i)' = Version(s, i + 1)
    BY <1>4 DEF FirstGone
  <2>2. ASSUME NEW j \in Slots(s)', i <= j, Version(s, j)' # None
        PROVE  Version(s, i)'.spec.uid <= Version(s, j)'.spec.uid
    <3>1. j + 1 \in Slots(s) /\ Version(s, j)' = Version(s, j + 1) /\ i + 1 <= j + 1
      BY <1>4, <2>2 DEF FirstGone, Slots
    <3> QED
      BY <2>1, <2>2, <3>1 DEF OwnershipInv, InOrder
  <2> QED
    BY <1>1, <1>2, <2>1, <2>2
<1>5. CASE LastKept(s)
  <2>1. i = 0 /\ Len(watch[s]) \in Slots(s) /\ \A j \in Slots(s)' : j = 0
    BY <1>1, <1>5 DEF LastKept, Slots
  <2> QED
    BY <1>1, <1>2, <1>5, <2>1 DEF LastKept
<1>6. CASE LastAdded(s)
  <2> DEFINE n == Len(watch[s])
             v == watch'[s][n + 1]
  <2>1. /\ \A j \in Slots(s)' : j \in Slots(s) \/ j = n + 1
        /\ \A j \in Slots(s) : Version(s, j)' = Version(s, j)
        /\ n \in Slots(s) /\ n + 1 \notin Slots(s)
    BY <1>1, <1>6 DEF LastAdded, Slots
  <2>2. v # None => v.spec.uid \in 1..MaxUid /\ v.spec.uid <= lastUid'
    BY <1>1, <1>2, <1>6, <2>1 DEF LastAdded
  <2>3. ASSUME v # None, i \in Slots(s) PROVE Version(s, i).spec.uid <= v.spec.uid
    <3>1. CASE Version(s, n) # None /\ v.spec.uid = Version(s, n).spec.uid
      <4>1. i <= n
        BY <1>1, <2>3 DEF Slots
      <4> QED
        BY <2>1, <2>3, <3>1, <4>1 DEF OwnershipInv, InOrder
    <3>2. CASE lastUid' = lastUid + 1 /\ v.spec.uid = lastUid'
      BY <1>1, <1>2, <2>1, <2>3, <3>2
    <3> QED
      BY <1>6, <2>3, <3>1, <3>2 DEF LastAdded
  <2> HIDE DEF v
  <2>7. ASSUME NEW j \in Slots(s)', j = n + 1 PROVE Version(s, j)' = v
    BY <1>1, <2>7 DEF v, Version
  <2>4. CASE i = n + 1
    <3>1. \A j \in Slots(s)' : i <= j => j = n + 1
      BY <1>1, <2>1, <2>4 DEF Slots
    <3>2. v # None /\ Version(s, i)' = v
      BY <2>4, <2>7
    <3>3. v.spec.uid <= lastUid' /\ v.spec.uid <= v.spec.uid
      BY <1>1, <2>2, <3>2
    <3> QED
      BY <2>4, <2>7, <3>1, <3>2, <3>3
  <2>5. CASE i \in Slots(s)
    <3>1. Version(s, i).spec.uid <= lastUid'
      BY <1>1, <1>2, <2>1, <2>5
    <3>2. ASSUME NEW j \in Slots(s)', i <= j, Version(s, j)' # None
          PROVE  Version(s, i)'.spec.uid <= Version(s, j)'.spec.uid
      <4>1. CASE j = n + 1
        <5>1. Version(s, j)' = v /\ Version(s, i)' = Version(s, i)
          BY <2>1, <2>5, <2>7, <4>1
        <5> QED
          BY <2>3, <2>5, <3>2, <5>1
      <4>2. CASE j \in Slots(s)
        BY <2>1, <2>5, <3>2, <4>2 DEF OwnershipInv, InOrder
      <4> QED
        BY <2>1, <4>1, <4>2
    <3> QED
      BY <2>1, <2>5, <3>1, <3>2
  <2> QED
    BY <2>1, <2>4, <2>5
<1> QED
  BY <1>3, <1>4, <1>5, <1>6, LineStep

\* What is behind stays behind.
LEMMA BehindStays ==
  ASSUME OwnershipInv, [Next]_vars, NEW s \in Names, NEW u \in 1..MaxUid, Behind(s, u)
  PROVE  Behind(s, u)'
<1>1. lastUid \in Nat /\ lastUid' \in Nat /\ lastUid <= lastUid' /\ Len(watch[s]) \in Nat
  BY LineStep, VersionType, BoundsAssumption DEF OwnershipInv, ReportInv, TypeOK
<1>2. u <= lastUid' /\ u <= lastUid
  BY <1>1 DEF Behind
<1> SUFFICES ASSUME NEW i \in Slots(s)', Version(s, i)' # None
             PROVE  u <= Version(s, i)'.spec.uid
  BY <1>2 DEF Behind
<1>3. CASE SlotsKept(s)
  BY <1>3 DEF SlotsKept, Slots, Behind
<1>4. CASE FirstGone(s)
  BY <1>4 DEF FirstGone, Behind
<1>5. CASE LastKept(s)
  <2>1. i = 0 /\ Len(watch[s]) \in Slots(s)
    BY <1>1, <1>5 DEF LastKept, Slots
  <2> QED
    BY <1>5, <2>1 DEF LastKept, Behind
<1>6. CASE LastAdded(s)
  <2> DEFINE n == Len(watch[s])
  <2>1. (i \in Slots(s) \/ i = n + 1) /\ n \in Slots(s)
    BY <1>1, <1>6 DEF LastAdded, Slots
  <2>2. CASE i \in Slots(s)
    BY <1>6, <2>2 DEF LastAdded, Behind
  <2>3. CASE i = n + 1
    <3> DEFINE v == watch'[s][n + 1]
    <3>1. Version(s, i)' = v
      BY <1>1, <2>3 DEF Version
    <3>2. CASE Version(s, n) # None /\ v.spec.uid = Version(s, n).spec.uid
      BY <2>1, <3>1, <3>2 DEF Behind
    <3>3. CASE v.spec.uid = lastUid'
      BY <1>2, <3>1, <3>3
    <3> QED
      BY <1>6, <3>1, <3>2, <3>3 DEF LastAdded
  <2> QED
    BY <2>1, <2>2, <2>3
<1> QED
  BY <1>3, <1>4, <1>5, <1>6, LineStep

--------------------------------------------------------------------------------
(****************************************************************************)
(* Which child changes hands, and who gets it.                              *)
(****************************************************************************)
OneKid(s, k) == kids' = Put(kids, s, k, kids'[s][k])

LEMMA KidGiven ==
  ASSUME TypeOK, NEW s \in Names, NEW k \in Kinds, NEW new, kids' = Put(kids, s, k, new)
  PROVE  kids'[s][k] = new /\ OneKid(s, k)
BY KidReplaced DEF TypeOK, OneKid

Takes(s, k) == /\ job # None /\ job.key = s
               /\ kids[s][k] # None => kids[s][k].owner # Other
               /\ kids'[s][k] # None /\ kids'[s][k].owner = MyUid
               /\ UNCHANGED edits
Drops(s, k) == Collect(s, k) /\ kids'[s][k] = None
Meddles(s, k) == /\ \/ kids'[s][k] = None
                    \/ /\ kids[s][k] = None
                       /\ kids'[s][k] # None /\ kids'[s][k].owner \in {None, Other}
                 /\ edits' = edits + 1
Syncs(s, k) == /\ kids[s][k] # None /\ kids'[s][k] # None
               /\ kids'[s][k].owner = kids[s][k].owner

LEMMA KidChanges ==
  ASSUME TypeOK, FreshIsStored, [Next]_vars, NEW s \in Names, NEW k \in Kinds,
         kids'[s][k] # kids[s][k]
  PROVE  /\ OneKid(s, k)
         /\ UNCHANGED <<api, watch, cache, lastUid>>
         /\ Takes(s, k) \/ Drops(s, k) \/ Meddles(s, k) \/ Syncs(s, k)
<1>1. CASE /\ MakeConfigMap \/ MakePVC \/ MakeDeployment \/ MakeService
           /\ job # None /\ job.key = s /\ Made(k)
  <2>1. PICK new \in Kid(k) : /\ kids' = Put(kids, s, k, new) /\ new.owner = MyUid
                              /\ Stored(k) # None => ~Owned(Stored(k))
    BY <1>1, MadeWrites DEF kidVars, Writes, Put
  <2>2. kids'[s][k] = new /\ OneKid(s, k) /\ new # None
    BY <2>1, KidGiven, NoneAssumption
  <2>3. UNCHANGED <<api, watch, cache, lastUid, edits>>
    BY <1>1, ChildCalls
  <2> QED
    BY <1>1, <2>1, <2>2, <2>3 DEF Takes, Stored, Owned
<1>2. CASE Collect(s, k)
  <2>1. kids' = Put(kids, s, k, None) /\ UNCHANGED <<api, watch, cache, lastUid>>
    BY <1>2 DEF Collect, ReplaceKid, objectVars, Put
  <2> QED
    BY <1>2, <2>1, KidGiven DEF Drops
<1>3. CASE SomebodyDeletes(s, k)
  <2>1. /\ kids' = Put(kids, s, k, None) /\ UNCHANGED <<api, watch, cache, lastUid>>
        /\ edits' = edits + 1
    BY <1>3 DEF SomebodyDeletes, ReplaceKid, objectVars, Put, Spend
  <2> QED
    BY <2>1, KidGiven DEF Meddles
<1>4. CASE SomebodyCreates(s, k)
  <2> DEFINE new(o) == [owner |-> o, content |-> Foreign, pods |-> NoPods,
                        revision |-> FALSE]
  <2>1. PICK o \in {None, Other} : kids' = Put(kids, s, k, new(o))
    BY <1>4 DEF SomebodyCreates, ReplaceKid, Put
  <2>2. /\ UNCHANGED <<api, watch, cache, lastUid>>
        /\ edits' = edits + 1 /\ kids[s][k] = None
    BY <1>4 DEF SomebodyCreates, ReplaceKid, objectVars, Spend
  <2>3. new(o).owner = o
    OBVIOUS
  <2> HIDE DEF new
  <2>4. kids'[s][k] = new(o) /\ OneKid(s, k)
    BY <2>1, KidGiven
  <2> QED
    BY <2>2, <2>3, <2>4 DEF Meddles
<1>5. CASE k = "Deployment" /\ DeploymentSyncs(s)
  <2> DEFINE new(p) == [kids[s][k] EXCEPT !.pods = p, !.revision = TRUE]
  <2>1. PICK p \in PodCounts : kids' = Put(kids, s, k, new(p))
    BY <1>5 DEF DeploymentSyncs, ReplaceKid, Put
  <2>2. UNCHANGED <<api, watch, cache, lastUid>> /\ kids[s][k] # None
    BY <1>5 DEF DeploymentSyncs, ReplaceKid, objectVars
  <2>3. new(p) \in Kid(k) /\ new(p).owner = kids[s][k].owner
    <3>1. kids[s][k] \in Kid(k)
      BY <2>2 DEF TypeOK, KidsOK
    <3> QED
      BY <3>1 DEF Kid
  <2> HIDE DEF new
  <2>4. kids'[s][k] = new(p) /\ OneKid(s, k)
    BY <2>1, KidGiven
  <2> QED
    BY <2>2, <2>3, <2>4, NoneAssumption DEF Syncs
<1> QED
  BY <1>1, <1>2, <1>3, <1>4, <1>5, WhoWrites

LEMMA KidStep ==
  ASSUME OwnershipInv, [Next]_vars, NEW s \in Names, NEW k \in Kinds, IsOwned(s, k)'
  PROVE  \/ IsOwned(s, k) /\ kids'[s][k].owner = kids[s][k].owner
         \/ job # None /\ job.key = s /\ kids'[s][k].owner = MyUid
<1>1. kids'[s][k] # None /\ kids'[s][k].owner \in 1..MaxUid
  BY DEF IsOwned
<1>2. CASE kids'[s][k] = kids[s][k]
  BY <1>1, <1>2 DEF IsOwned
<1>3. CASE kids'[s][k] # kids[s][k]
  <2>1. Takes(s, k) \/ Drops(s, k) \/ Meddles(s, k) \/ Syncs(s, k)
    BY <1>3, KidChanges DEF OwnershipInv, ReportInv
  <2> QED
    BY <1>1, <2>1, NoneAssumption DEF Takes, Drops, Meddles, Syncs, IsOwned
<1> QED
  BY <1>2, <1>3

LEMMA KidsBehindStep ==
  ASSUME OwnershipInv, [Next]_vars
  PROVE  KidsBehind'
<1> SUFFICES ASSUME NEW s \in Names, NEW k \in Kinds, IsOwned(s, k)'
             PROVE  Behind(s, kids[s][k].owner)'
  BY DEF KidsBehind
<1>1. PICK u \in 1..MaxUid : u = kids'[s][k].owner
  BY DEF IsOwned
<1>2. Behind(s, u)
  BY <1>1, KidStep DEF OwnershipInv, KidsBehind, JobBehind
<1>3. Behind(s, u)'
  BY <1>2, BehindStays
<1> QED
  BY <1>1, <1>3 DEF Behind

LEMMA JobBehindStep ==
  ASSUME OwnershipInv, [Next]_vars
  PROVE  JobBehind'
<1> SUFFICES ASSUME job' # None
             PROVE  /\ Behind(job.key, MyUid)'
                    /\ \A k \in Kinds : IsOwned(job.key, k)' =>
                         kids'[job'.key][k].owner <= job'.snap.spec.uid
  BY DEF JobBehind, MyUid
<1>1. TypeOK
  BY DEF OwnershipInv, ReportInv
<1>2. CASE Continues
  <2>1. job # None /\ job'.key = job.key /\ job'.snap = job.snap
    BY <1>2 DEF Continues
  <2>2. job.key \in Names /\ MyUid \in 1..MaxUid
    BY <1>1, <2>1, JobParts
  <2>3. PICK s \in Names, u \in 1..MaxUid : s = job.key /\ u = MyUid
    BY <2>2
  <2>4. Behind(s, u)'
    BY <2>1, <2>3, BehindStays DEF OwnershipInv, JobBehind
  <2>5. ASSUME NEW k \in Kinds, IsOwned(s, k)' PROVE kids'[s][k].owner <= u
    BY <2>1, <2>3, <2>5, KidStep DEF OwnershipInv, JobBehind
  <2> QED
    BY <2>1, <2>3, <2>4, <2>5 DEF MyUid, Behind, IsOwned
<1>3. CASE \E s \in Names : Begins(s)
  <2>1. PICK s \in Names : Begins(s)
    BY <1>3
  <2>2. PICK u : u = cache[s].spec.uid
    OBVIOUS
  <2>3. /\ job'.key = s /\ job'.snap = cache[s] /\ cache[s] # None
        /\ UNCHANGED <<watch, cache, lastUid, kids>>
    BY <2>1 DEF Begins
  <2>4. 0 \in Slots(s) /\ Version(s, 0) = cache[s]
    BY <1>1, VersionType DEF Slots, Version
  <2>5. Behind(s, u)
    BY <2>2, <2>3, <2>4 DEF OwnershipInv, InOrder, Behind, Slots
  <2>6. ASSUME NEW k \in Kinds, IsOwned(s, k) PROVE kids[s][k].owner <= u
    BY <2>2, <2>3, <2>4, <2>6 DEF OwnershipInv, KidsBehind, Behind
  <2> QED
    BY <2>2, <2>3, <2>5, <2>6 DEF MyUid, Behind, IsOwned, Slots, Version
<1> QED
  BY <1>1, <1>2, <1>3, JobStep

LEMMA OwnershipStep == OwnershipInv /\ [Next]_vars => OwnershipInv'
<1> SUFFICES ASSUME OwnershipInv, [Next]_vars PROVE OwnershipInv'
  OBVIOUS
<1>1. ReportInv' /\ ReleasesAreAsked'
  BY ReportStep, ReleasesStep DEF OwnershipInv, ReportInv
<1> QED
  BY <1>1, OrderStep, KidsBehindStep, JobBehindStep DEF OwnershipInv

LEMMA OwnershipInit == Init => OwnershipInv
<1> SUFFICES ASSUME Init PROVE OwnershipInv
  OBVIOUS
<1>1. ReportInv /\ job = None /\ \A s \in Names : Len(watch[s]) = 0 /\ cache[s] = None
  BY InitReports DEF Init, KubeInit
<1>2. \A s \in Names, k \in Kinds : kids[s][k] = None
  BY DEF Init
<1> QED
  BY <1>1, <1>2 DEF OwnershipInv, ReleasesAreAsked, InOrder, KidsBehind, JobBehind, IsOwned,
       Version, Slots

--------------------------------------------------------------------------------
(****************************************************************************)
(* Every step is one of ChildOwnership's, or none.                          *)
(****************************************************************************)
LEMMA EditsStep == [Next]_vars => edits' \in {edits, edits + 1}
<1> SUFFICES ASSUME [Next]_vars PROVE edits' \in {edits, edits + 1}
  OBVIOUS
<1>1. CASE MakeConfigMap \/ MakePVC \/ MakeDeployment \/ MakeService
  BY <1>1, ChildCalls
<1>2. CASE \E s \in Names, k \in Kinds :
             Collect(s, k) \/ SomebodyDeletes(s, k) \/ SomebodyCreates(s, k)
  BY <1>2 DEF Collect, SomebodyDeletes, SomebodyCreates, Spend
<1>3. CASE \E s \in Names : \/ Plan(s) \/ DeploymentSyncs(s)
                            \/ InformerDelivers(s) \/ InformerResyncs(s)
                            \/ \E k \in Kinds : KidDelivered(s, k)
  BY <1>3 DEF Plan, PlanGone, PlanFinalizer, PlanRelease, PlanServer, Take, DeploymentSyncs,
       InformerDelivers, InformerResyncs, KidDelivered
<1>4. CASE \E s \in Names : \/ OwnerCreates(s) \/ OwnerEdits(s)
                            \/ OwnerDeletes(s) \/ DependentsGone(s)
  BY <1>4 DEF OwnerCreates, OwnerEdits, OwnerDeletes, DependentsGone, Spend
<1>5. CASE AddFinalizer \/ ReleaseFinalizer \/ RefreshDeployment \/ ReportDegraded
             \/ ReportRunning \/ Crash \/ UNCHANGED vars
  BY <1>5 DEF AddFinalizer, ReleaseFinalizer, RefreshDeployment, ReportDegraded,
       ReportRunning, Crash, vars
<1>6. Loose \subseteq Kinds
  BY BoundsAssumption
<1> QED
  BY <1>1, <1>2, <1>3, <1>4, <1>5, <1>6 DEF Next, Work

LEMMA OwnersPut ==
  ASSUME TypeOK, NEW s \in Names, NEW k \in Kinds, OneKid(s, k)
  PROVE  Owners' = [Owners EXCEPT ![s][k] = OwnerOf(kids'[s][k])]
<1>1. \A t \in Names, j \in Kinds : t # s \/ j # k => kids'[t][j] = kids[t][j]
  BY KidReplaced DEF TypeOK, OneKid
<1> DEFINE new == OwnerOf(kids'[s][k])
           o(t, j) == OwnerOf(kids[t][j])
           p(t, j) == OwnerOf(kids'[t][j])
<1>2. \A t \in Names, j \in Kinds : p(t, j) = IF t = s /\ j = k THEN new ELSE o(t, j)
  BY <1>1
<1>3. /\ Owners = [t \in Names |-> [j \in Kinds |-> o(t, j)]]
      /\ Owners' = [t \in Names |-> [j \in Kinds |-> p(t, j)]]
  BY DEF Owners, OwnerOf
<1> HIDE DEF new, o, p
<1>4. Owners' = [Owners EXCEPT ![s][k] = new]
  BY <1>2, <1>3
<1> QED
  BY <1>4 DEF new

\* At most people changed something else.
LEMMA NothingMoves ==
  ASSUME UNCHANGED <<StoredUids, LeavingNames, Owners, lastUid>>, [Next]_vars
  PROVE  [Ownership!Next]_Ownership!ownership
BY EditsStep DEF Ownership!Next, Ownership!Edit, Ownership!ownership

LEMMA HandoverKept ==
  ASSUME OwnershipInv, [Next]_vars, NEW s \in Names, NEW k \in Kinds,
         kids'[s][k] # kids[s][k]
  PROVE  [Ownership!Next]_Ownership!ownership
<1> DEFINE new == OwnerOf(kids'[s][k])
<1>1. /\ TypeOK /\ OneKid(s, k) /\ UNCHANGED <<api, lastUid>>
      /\ Takes(s, k) \/ Drops(s, k) \/ Meddles(s, k) \/ Syncs(s, k)
  BY KidChanges DEF OwnershipInv, ReportInv
<1>2. UNCHANGED <<StoredUids, LeavingNames, lastUid>>
  BY <1>1 DEF StoredUids, LeavingNames
<1>3. Ownership!Give(s, k, new)
  BY <1>1, OwnersPut DEF Ownership!Give
<1>4. \A j \in Kinds : Owners[s][j] = OwnerOf(kids[s][j])
  BY DEF Owners
<1>5. \A j \in Kinds : Owners[s][j] \in 1..MaxUid
                         => IsOwned(s, j) /\ Owners[s][j] = kids[s][j].owner
  BY <1>4, BoundsAssumption DEF OwnerOf, IsOwned
<1>6. CASE Owners' = Owners
  BY <1>2, <1>6, NothingMoves
<1>7. CASE Owners' # Owners /\ Takes(s, k)
  <2>1. PICK u \in 1..MaxUid : u = MyUid
    BY <1>1, <1>7, JobParts DEF Takes
  <2>2. u <= lastUid /\ \A j \in Kinds : IsOwned(s, j) => kids[s][j].owner <= u
    BY <1>7, <2>1 DEF Takes, OwnershipInv, JobBehind, Behind
  <2>3. Owners[s][k] # Other
    BY <1>4, <1>7, OtherAssumption DEF Takes, OwnerOf
  <2>4. new = u
    BY <1>7, <2>1, NoneAssumption DEF Takes, OwnerOf
  <2>5. Ownership!Adopt(s, k, u)
    BY <1>3, <1>5, <1>7, <2>2, <2>3, <2>4 DEF Ownership!Adopt, Ownership!Uids, Takes
  <2> QED
    BY <1>2, <1>7, <2>5 DEF Ownership!Next, Ownership!Handover, Ownership!Uids
<1>8. CASE Owners' # Owners /\ Drops(s, k)
  <2>1. /\ kids[s][k] # None /\ kids[s][k].owner \in 1..MaxUid
        /\ Gone(s, kids[s][k].owner) /\ UNCHANGED edits /\ kids'[s][k] = None
    BY <1>8 DEF Drops, Collect
  <2>2. Owners[s][k] = kids[s][k].owner /\ new = 0
    BY <1>4, <2>1, NoneAssumption DEF OwnerOf
  <2>3. kids[s][k].owner = StoredUids[s] => s \in LeavingNames
    BY <2>1, BoundsAssumption DEF Gone, StoredUids, LeavingNames
  <2> QED
    BY <1>2, <1>3, <1>8, <2>1, <2>2, <2>3 DEF Ownership!Next, Ownership!Handover,
       Ownership!Collect, Ownership!Uids
<1>9. CASE Owners' # Owners /\ Meddles(s, k)
  <2>1. new = 0 \/ (Owners[s][k] = 0 /\ new = Other)
    BY <1>4, <1>9 DEF Meddles, OwnerOf
  <2> QED
    BY <1>2, <1>3, <1>9, <2>1 DEF Ownership!Next, Ownership!Handover, Ownership!Meddle, Meddles
<1>10. CASE Owners' # Owners /\ Syncs(s, k)
  <2>1. new = Owners[s][k]
    BY <1>4, <1>10 DEF Syncs, OwnerOf
  <2>2. [Owners EXCEPT ![s][k] = Owners[s][k]] = Owners
    BY DEF Owners
  <2> QED
    BY <1>3, <1>10, <2>1, <2>2 DEF Ownership!Give
<1> QED
  BY <1>1, <1>6, <1>7, <1>8, <1>9, <1>10

\* A new version of one server, as ChildOwnership sees it.
LEMMA ServerMapped ==
  ASSUME NEW s \in Names, \A t \in Names \ {s} : api'[t] = api[t]
  PROVE  /\ StoredUids' = [StoredUids EXCEPT ![s] = StoredUids'[s]]
         /\ StoredUids'[s] = IF api'[s] = None THEN 0 ELSE api'[s].spec.uid
         /\ StoredUids[s] = IF api[s] = None THEN 0 ELSE api[s].spec.uid
         /\ LeavingNames' = IF api'[s] # None /\ api'[s].deleting
                              THEN LeavingNames \cup {s} ELSE LeavingNames \ {s}
<1> DEFINE uid(t) == IF api[t] = None THEN 0 ELSE api[t].spec.uid
           new(t) == IF api'[t] = None THEN 0 ELSE api'[t].spec.uid
           leaves(t) == api[t] # None /\ api[t].deleting
           newLeaves(t) == api'[t] # None /\ api'[t].deleting
<1>1. \A t \in Names \ {s} : new(t) = uid(t) /\ (newLeaves(t) <=> leaves(t))
  OBVIOUS
<1>2. /\ StoredUids = [t \in Names |-> uid(t)] /\ StoredUids' = [t \in Names |-> new(t)]
      /\ LeavingNames = {t \in Names : leaves(t)}
      /\ LeavingNames' = {t \in Names : newLeaves(t)}
  BY DEF StoredUids, LeavingNames
<1> HIDE DEF uid, new, leaves, newLeaves
<1>3. /\ StoredUids' = [StoredUids EXCEPT ![s] = StoredUids'[s]]
      /\ StoredUids'[s] = new(s) /\ StoredUids[s] = uid(s)
  BY <1>1, <1>2
<1>4. CASE newLeaves(s)
  <2>1. LeavingNames' = LeavingNames \cup {s}
    BY <1>1, <1>2, <1>4
  <2> QED
    BY <1>3, <1>4, <2>1 DEF uid, new, newLeaves
<1>5. CASE ~newLeaves(s)
  <2>1. LeavingNames' = LeavingNames \ {s}
    BY <1>1, <1>2, <1>5
  <2> QED
    BY <1>3, <1>5, <2>1 DEF uid, new, newLeaves
<1> QED
  BY <1>4, <1>5

LEMMA VersionKept ==
  ASSUME OwnershipInv, [Next]_vars, UNCHANGED <<kids, lastUid, edits>>, NEW s \in Names,
         \A t \in Names \ {s} : api'[t] = api[t], api[s] \in Object,
         api'[s] # None => /\ api'[s].spec.uid = api[s].spec.uid
                           /\ api[s].deleting => api'[s].deleting
  PROVE  [Ownership!Next]_Ownership!ownership
<1>1. UNCHANGED <<Owners, lastUid, edits>>
  BY DEF Owners, OwnerOf
<1>2. StoredUids[s] # 0 /\ StoredUids[s] = api[s].spec.uid
  <2>1. api[s] # None /\ api[s].spec.uid \in 1..MaxUid
    BY ObjectParts, NoneAssumption
  <2> QED
    BY <2>1, ServerMapped, BoundsAssumption
<1>3. CASE api'[s] = None
  <2>1. Ownership!Go(s)
    BY <1>1, <1>2, <1>3, ServerMapped DEF Ownership!Go
  <2> QED
    BY <2>1 DEF Ownership!Next
<1>4. CASE api'[s] # None
  <2>1. StoredUids'[s] = StoredUids[s]
    BY <1>2, <1>4, ServerMapped
  <2>2. UNCHANGED StoredUids
    BY <2>1, ServerMapped DEF StoredUids
  <2>3. s \in LeavingNames <=> api[s].deleting
    BY NoneAssumption DEF LeavingNames
  <2>4. LeavingNames' = LeavingNames \/ LeavingNames' = LeavingNames \cup {s}
    <3>1. CASE api'[s].deleting
      BY <1>4, <3>1, ServerMapped
    <3>2. CASE ~api'[s].deleting
      <4>1. s \notin LeavingNames /\ LeavingNames' = LeavingNames \ {s}
        BY <1>4, <2>3, <3>2, ServerMapped
      <4> QED
        BY <4>1
    <3> QED
      BY <3>1, <3>2
  <2>5. CASE LeavingNames' = LeavingNames
    BY <1>1, <2>2, <2>5, NothingMoves
  <2>6. CASE LeavingNames' = LeavingNames \cup {s}
    <3>1. Ownership!Ask(s)
      BY <1>1, <1>2, <2>2, <2>6 DEF Ownership!Ask
    <3> QED
      BY <3>1 DEF Ownership!Next
  <2> QED
    BY <2>4, <2>5, <2>6
<1> QED
  BY <1>3, <1>4

LEMMA OwnershipNext == OwnershipInv /\ [Next]_vars => [Ownership!Next]_Ownership!ownership
<1> SUFFICES ASSUME OwnershipInv, [Next]_vars PROVE [Ownership!Next]_Ownership!ownership
  OBVIOUS
<1>1. TypeOK /\ TypeOK'
  BY TypeStep DEF OwnershipInv, ReportInv
<1>2. CASE kids' # kids
  <2>1. PICK s \in Names, k \in Kinds : kids'[s][k] # kids[s][k]
    BY <1>1, <1>2 DEF TypeOK, KidsOK
  <2> QED
    BY <2>1, HandoverKept
<1>3. CASE \E s \in Names : \/ OwnerCreates(s) \/ OwnerEdits(s)
                            \/ OwnerDeletes(s) \/ DependentsGone(s)
  <2>1. PICK s \in Names : \/ OwnerCreates(s) \/ OwnerEdits(s)
                           \/ OwnerDeletes(s) \/ DependentsGone(s)
    BY <1>3
  <2>2. UNCHANGED kids /\ \A t \in Names \ {s} : api'[t] = api[t]
    BY <1>1, <2>1, OwnersWrite DEF kidVars
  <2>3. UNCHANGED Owners
    BY <2>2 DEF Owners, OwnerOf
  <2>4. CASE OwnerCreates(s)
    <3>1. /\ StoredUids' = [StoredUids EXCEPT ![s] = lastUid'] /\ StoredUids[s] = 0
          /\ UNCHANGED LeavingNames
      <4>1. api[s] = None /\ api'[s] # None /\ api'[s].spec.uid = lastUid' /\ ~api'[s].deleting
        BY <1>1, <2>4, OwnersWrite
      <4>2. s \notin LeavingNames
        BY <4>1 DEF LeavingNames
      <4> QED
        BY <2>2, <4>1, <4>2, ServerMapped
    <3>2. Ownership!Come(s)
      BY <1>1, <2>3, <2>4, <3>1, OwnersWrite DEF Ownership!Come
    <3> QED
      BY <3>2 DEF Ownership!Next
  <2>5. CASE OwnerEdits(s)
    <3>1. StoredUids'[s] = StoredUids[s] /\ UNCHANGED LeavingNames /\ UNCHANGED lastUid
      <4>1. /\ api[s] # None /\ api'[s] # None /\ lastUid' = lastUid
            /\ api'[s].spec.uid = api[s].spec.uid /\ api'[s].deleting = api[s].deleting
        BY <1>1, <2>5, OwnersWrite
      <4>2. s \in LeavingNames <=> api[s].deleting
        BY <4>1 DEF LeavingNames
      <4> QED
        BY <2>2, <4>1, <4>2, ServerMapped
    <3>2. UNCHANGED StoredUids
      BY <2>2, <3>1, ServerMapped DEF StoredUids
    <3> QED
      BY <2>3, <3>1, <3>2, NothingMoves
  <2>6. CASE OwnerDeletes(s) \/ DependentsGone(s)
    <3>1. api[s] \in Object
      BY <1>1, <2>6, OwnersWrite DEF TypeOK, KubeTypeOK
    <3>2. /\ UNCHANGED <<lastUid, edits>>
          /\ api'[s] # None => /\ api'[s].spec.uid = api[s].spec.uid
                               /\ api[s].deleting => api'[s].deleting
      BY <1>1, <2>6, OwnersWrite
    <3> QED
      BY <2>2, <3>1, <3>2, VersionKept
  <2> QED
    BY <2>1, <2>4, <2>5, <2>6
<1>4. CASE /\ AddFinalizer \/ ReleaseFinalizer \/ ReportDegraded \/ ReportRunning
           /\ ~UNCHANGED <<api, watch>> /\ UNCHANGED <<cache, lastUid, kidVars, edits>>
  <2>1. ReportInv /\ ReleasesAreAsked /\ UNCHANGED kids
    BY <1>4 DEF OwnershipInv, kidVars
  <2>2. PICK s \in Names : s = job.key
    BY <1>4, <2>1, WritesOverTheStored
  <2> QED
    BY <1>4, <2>1, <2>2, WritesOverTheStored, VersionKept
<1>5. CASE UNCHANGED <<api, lastUid, kids>>
  BY <1>5, NothingMoves DEF StoredUids, LeavingNames, Owners, OwnerOf
<1>6. CASE kids' = kids /\ \/ Crash \/ UNCHANGED <<api, watch, cache, lastUid>>
                           \/ \E s \in Names : InformerDelivers(s)
  BY <1>5, <1>6 DEF Crash, Relist, InformerDelivers, Deliver
<1> QED
  BY <1>1, <1>2, <1>3, <1>4, <1>6, WhoStores

LEMMA OwnershipStarts == Init => Ownership!Init
BY DEF Init, KubeInit, Ownership!Init, StoredUids, LeavingNames, Owners, OwnerOf

\* Every behaviour of the controller and its surroundings hands children on as
\* ChildOwnership does: never back to an earlier server of the name, and never from
\* another controller.
THEOREM OwnershipIsKept == Spec => KeepsOwnership
<1>1. Spec => []OwnershipInv
  BY OwnershipInit, OwnershipStep, PTL DEF Spec
<1> QED
  BY <1>1, OwnershipStarts, OwnershipNext, PTL DEF Spec, KeepsOwnership, Ownership!Spec

MovesForward(s, k) ==
  IsOwned(s, k) /\ IsOwned(s, k)' => kids[s][k].owner <= kids'[s][k].owner

\* In the terms of the controller: a child that passes from one server directly to
\* another passes to a later one, also when createOrUpdate works on an old version.
THEOREM ChildrenMoveForward == Spec => [][\A s \in Names, k \in Kinds : MovesForward(s, k)]_vars
<1>1. Spec => []OwnershipInv
  BY OwnershipInit, OwnershipStep, PTL DEF Spec
<1>2. OwnershipInv /\ [Next]_vars => [\A s \in Names, k \in Kinds : MovesForward(s, k)]_vars
  <2> SUFFICES ASSUME OwnershipInv, [Next]_vars, NEW s \in Names, NEW k \in Kinds,
                      IsOwned(s, k), IsOwned(s, k)'
               PROVE  kids[s][k].owner <= kids'[s][k].owner
    BY DEF MovesForward
  <2>1. kids[s][k].owner \in Nat
    BY BoundsAssumption DEF IsOwned
  <2> QED
    BY <2>1, KidStep DEF OwnershipInv, JobBehind
<1> QED
  BY <1>1, <1>2, PTL DEF Spec
================================================================================
