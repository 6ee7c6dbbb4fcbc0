------------------------ MODULE ServerControllerProofs -------------------------
(****************************************************************************)
(* Theorems about SftpGoServerReconciler as ServerController models it:     *)
(* type correctness, OthersUntouched and ReadyMeansDeployed, for any number *)
(* of servers and specs, any lag of the caches, and any number of faults.   *)
(*                                                                          *)
(* ReadyMeansDeployed relates a write of the status to writes of other      *)
(* objects that the same call made earlier, from a spec read before all of  *)
(* them. What carries it: a child that a call has made stays as it made it, *)
(* unless somebody meddles (KidsAreMade), and a status write that is not    *)
(* refused stores a version of the object the call read (FreshJob).         *)
(****************************************************************************)
EXTENDS ServerController, QueueFacts, TLAPS

--------------------------------------------------------------------------------
(****************************************************************************)
(* Types of the parts.                                                      *)
(****************************************************************************)
LEMMA StoreType ==
  ASSUME KubeTypeOK, NEW s \in Names, NEW v \in Object \cup {None}, Store(s, v)
  PROVE  /\ api' \in [Names -> Object \cup {None}]
         /\ watch' \in [Names -> Seq(Object \cup {None})]
BY DEF KubeTypeOK, Store

LEMMA SettledType ==
  ASSUME NEW v \in Object
  PROVE  Settled(v) \in Object \cup {None}
BY DEF Settled

LEMMA ObjectParts ==
  ASSUME NEW v \in Object
  PROVE  /\ v.spec \in Given /\ v.spec.uid \in 1..MaxUid /\ v.spec.want \in ServerSpec
         /\ v.fin \in BOOLEAN /\ v.deleting \in BOOLEAN /\ v.held \in BOOLEAN
         /\ v.status \in ServerStatus
BY DEF Object, Given

LEMMA NewServerStatusType == NewServerStatus \in ServerStatus
BY BoundsAssumption DEF NewServerStatus, ServerStatus, DegradedReasons

\* What the parts of a job are.
LEMMA JobParts ==
  ASSUME TypeOK, job # None
  PROVE  /\ job \in Job
         /\ job.key \in Names
         /\ job.snap \in Object
         /\ job.snap.spec \in Given
         /\ MyUid \in 1..MaxUid
         /\ MyWant \in ServerSpec
         /\ job.snap.status \in ServerStatus
         /\ job.pods \in PodCounts
<1>1. job \in Job /\ job.key \in Names /\ job.snap \in Object /\ job.pods \in PodCounts
  BY DEF TypeOK, Job
<1> QED
  BY <1>1, ObjectParts DEF MyUid, MyWant

\* Replacing one child of one server.
LEMMA KidPut ==
  ASSUME NEW f, KidsOK(f), NEW s \in Names, NEW k \in Kinds
  PROVE  /\ \A new : [f EXCEPT ![s][k] = new][s][k] = new
         /\ \A new : \A t \in Names, j \in Kinds :
              t # s \/ j # k => [f EXCEPT ![s][k] = new][t][j] = f[t][j]
         /\ \A new \in Kid(k) \cup {None} : KidsOK([f EXCEPT ![s][k] = new])
<1>1. /\ f = [t \in Names |-> [j \in Kinds |-> f[t][j]]]
      /\ \A t \in Names, j \in Kinds : f[t][j] \in Kid(j) \cup {None}
  BY DEF KidsOK
<1>2. DOMAIN f = Names /\ \A t \in Names : DOMAIN f[t] = Kinds
  BY <1>1
<1> DEFINE g(new) == [f EXCEPT ![s][k] = new]
<1>3. ASSUME NEW new
      PROVE  /\ g(new)[s][k] = new
             /\ \A t \in Names, j \in Kinds : t # s \/ j # k => g(new)[t][j] = f[t][j]
  BY <1>2
<1>4. ASSUME NEW new \in Kid(k) \cup {None}
      PROVE  KidsOK(g(new))
  <2>1. \A t \in Names, j \in Kinds : g(new)[t][j] \in Kid(j) \cup {None}
    <3> SUFFICES ASSUME NEW t \in Names, NEW j \in Kinds
                 PROVE  g(new)[t][j] \in Kid(j) \cup {None}
      OBVIOUS
    <3>1. CASE t = s /\ j = k
      BY <1>3, <3>1
    <3>2. CASE t # s \/ j # k
      BY <1>1, <1>3, <3>2
    <3> QED
      BY <3>1, <3>2
  <2>2. g(new) = [t \in Names |-> [j \in Kinds |-> g(new)[t][j]]]
    <3>1. \A t \in Names : g(new)[t] = [j \in Kinds |-> g(new)[t][j]]
      BY <1>1, <1>2
    <3>2. g(new) = [t \in Names |-> g(new)[t]]
      BY <1>2
    <3> QED
      BY <3>1, <3>2
  <2> QED
    BY <2>1, <2>2 DEF KidsOK
<1> QED
  BY <1>3, <1>4

\* The same for use in a step: f becomes Put(f, s, k, new).
Put(f, s, k, new) == [f EXCEPT ![s][k] = new]

LEMMA KidReplaced ==
  ASSUME NEW f, KidsOK(f), NEW s \in Names, NEW k \in Kinds, NEW new
  PROVE  /\ Put(f, s, k, new)[s][k] = new
         /\ \A t \in Names, j \in Kinds :
              t # s \/ j # k => Put(f, s, k, new)[t][j] = f[t][j]
BY KidPut DEF Put

LEMMA DesiredType ==
  ASSUME NEW want \in ServerSpec, NEW k \in Kinds
  PROVE  Desired(want)[k] \in Contents[k]
BY DEF Contents

LEMMA NewKidType ==
  ASSUME TypeOK, job # None, NEW k \in Kinds
  PROVE  NewKid(k) \in Kid(k)
BY JobParts, DesiredType, BoundsAssumption DEF NewKid, Kid

LEMMA MutatedType ==
  ASSUME TypeOK, job # None, NEW k \in Kinds, Cached(k) # None
  PROVE  Mutated(k) \in Kid(k)
<1>1. Cached(k) \in Kid(k)
  BY JobParts DEF TypeOK, KidsOK, Cached
<1>2. (IF k = "PVC" THEN Cached(k).content ELSE Desired(MyWant)[k]) \in Contents[k]
  BY <1>1, JobParts, DesiredType DEF Kid
<1> QED
  BY <1>1, <1>2, JobParts DEF Mutated, Kid

LEMMA StatusPortsType ==
  ASSUME NEW want \in ServerSpec
  PROVE  StatusPorts(want) \in [sftp: PortNumbers, web: PortNumbers, http: PortNumbers]
<1> DEFINE spec == ApplyDefaults(want)
<1>1. /\ spec.sftpPort \in Ports \cup {2022}
      /\ spec.webPort \in Ports \cup {8080}
      /\ spec.sftp = want.sftp /\ spec.http = want.http
      /\ want.sftp \in Ports \cup {0, None} /\ want.http \in Ports \cup {0, None}
  BY DEF ApplyDefaults, ServerSpec
<1>2. GetSFTPPort(spec) \in PortNumbers
  BY <1>1 DEF GetSFTPPort, Overrides, PortNumbers
<1>3. GetWebPort(spec) \in PortNumbers
  BY <1>1 DEF GetWebPort, Overrides, PortNumbers
<1> QED
  BY <1>2, <1>3 DEF StatusPorts

LEMMA NewStatusType ==
  ASSUME TypeOK, job # None
  PROVE  NewStatus \in ServerStatus
<1>1. StatusPorts(MyWant) \in [sftp: PortNumbers, web: PortNumbers, http: PortNumbers]
  BY JobParts, StatusPortsType
<1> QED
  BY <1>1, JobParts DEF NewStatus, ServerStatus

--------------------------------------------------------------------------------
(****************************************************************************)
(* Type correctness.                                                        *)
(****************************************************************************)
LEMMA FollowType ==
  ASSUME TypeOK, NEW s \in Names, NEW k \in Kinds, NEW new \in Kid(k) \cup {None},
         Follow(s, k, new)
  PROVE  KidsOK(kidCache') /\ kidFresh' \in [Names -> [Kinds -> BOOLEAN]]
<1>1. CASE k \in Loose
  <2>1. UNCHANGED kidCache /\ kidFresh' = [kidFresh EXCEPT ![s][k] = FALSE]
    BY <1>1 DEF Follow
  <2> QED
    BY <2>1 DEF TypeOK, KidsOK
<1>2. CASE k \notin Loose
  <2>1. kidCache' = [kidCache EXCEPT ![s][k] = new] /\ UNCHANGED kidFresh
    BY <1>2 DEF Follow
  <2>2. KidsOK([kidCache EXCEPT ![s][k] = new])
    BY KidPut DEF TypeOK
  <2> QED
    BY <2>1, <2>2 DEF TypeOK, KidsOK
<1> QED
  BY <1>1, <1>2

LEMMA MadeType ==
  ASSUME TypeOK, job # None, NEW k \in Kinds, Made(k) \/ UNCHANGED kidVars
  PROVE  /\ KidsOK(kids') /\ KidsOK(kidCache')
         /\ kidFresh' \in [Names -> [Kinds -> BOOLEAN]]
<1>1. CASE UNCHANGED kidVars
  BY <1>1 DEF kidVars, TypeOK
<1>2. CASE \E new \in Kid(k) : StoreKid(k, new)
  <2>1. PICK new \in Kid(k) : StoreKid(k, new)
    BY <1>2
  <2>2. KidsOK(kids')
    BY <2>1, JobParts, KidPut DEF StoreKid, TypeOK
  <2>3. CASE UNCHANGED <<kidCache, kidFresh>>
    BY <2>2, <2>3 DEF TypeOK
  <2>4. CASE Follow(job.key, k, new)
    BY <2>2, <2>4, JobParts, FollowType
  <2> QED
    BY <2>1, <2>3, <2>4 DEF StoreKid
<1> QED
  BY <1>1, <1>2, NewKidType, MutatedType DEF Made

LEMMA PlanType ==
  ASSUME TypeOK, NEW s \in Names, Plan(s)
  PROVE  TypeOK'
<1>1. queue' \subseteq Names /\ UNCHANGED <<api, watch, cache, lastUid, kidVars, edits, faults>>
  BY DEF Plan, PlanGone, PlanFinalizer, PlanRelease, PlanServer, Take, TypeOK, KubeTypeOK
<1>2. job' \in Job \cup {None}
  <2>1. CASE UNCHANGED job
    BY <2>1 DEF TypeOK
  <2>2. CASE /\ cache[s] # None
             /\ \E stage \in Stages : Start(s, stage)
    BY <2>2, BoundsAssumption DEF Start, Job, TypeOK, KubeTypeOK, DegradedReasons
  <2> QED
    BY <2>1, <2>2 DEF Plan, PlanGone, PlanFinalizer, PlanRelease, PlanServer, Live, Stages
<1> QED
  BY <1>1, <1>2 DEF TypeOK, KubeTypeOK, kidVars

LEMMA UpdateType ==
  ASSUME TypeOK, job # None, NEW v \in Object \cup {None},
         Update(v) \/ UpdateFails(v) \/ UNCHANGED <<api, watch, faults>>
  PROVE  /\ api' \in [Names -> Object \cup {None}]
         /\ watch' \in [Names -> Seq(Object \cup {None})]
         /\ faults' \in Nat
BY StoreType, JobParts DEF TypeOK, KubeTypeOK, Write, Update, UpdateFails, Fault

LEMMA ReturnType ==
  ASSUME TypeOK, job # None, NEW retry \in BOOLEAN, Return(retry)
  PROVE  queue' \subseteq Names /\ job' = None
BY JobParts DEF TypeOK, KubeTypeOK, Return

LEMMA ApiCallsType ==
  ASSUME TypeOK, AddFinalizer \/ ReleaseFinalizer \/ ReportDegraded \/ ReportRunning
  PROVE  TypeOK'
<1>1. job # None
  BY DEF AddFinalizer, ReleaseFinalizer, ReportDegraded, ReportRunning, At
<1>2. /\ [job.snap EXCEPT !.fin = TRUE] \in Object
      /\ [job.snap EXCEPT !.fin = FALSE] \in Object
      /\ [job.snap EXCEPT !.status = NewStatus] \in Object
  BY <1>1, JobParts, NewStatusType DEF Object
<1>3. [job.snap EXCEPT !.status.degraded = job.reason] \in Object
  <2>1. [job.snap.status EXCEPT !.degraded = job.reason] \in ServerStatus
    BY <1>1, JobParts DEF Job, ServerStatus
  <2> QED
    BY <1>1, <2>1, JobParts DEF Object
<1>4. /\ api' \in [Names -> Object \cup {None}]
      /\ watch' \in [Names -> Seq(Object \cup {None})]
      /\ faults' \in Nat
  BY <1>1, <1>2, <1>3, UpdateType, SettledType
     DEF AddFinalizer, ReleaseFinalizer, ReportDegraded, ReportRunning
<1>5. queue' \subseteq Names /\ job' = None
  BY <1>1, ReturnType DEF AddFinalizer, ReleaseFinalizer, ReportDegraded, ReportRunning
<1> QED
  BY <1>4, <1>5 DEF AddFinalizer, ReleaseFinalizer, ReportDegraded, ReportRunning, TypeOK,
       KubeTypeOK, kidVars

\* Where a call that writes a child leaves the job.
LEMMA ChildCallsJob ==
  ASSUME TypeOK, MakeConfigMap \/ MakePVC \/ MakeDeployment \/ MakeService
  PROVE  /\ job # None
         /\ \/ \E next \in Stages : Goto(next)
            \/ \E reason \in DegradedReasons : Degrade(reason)
            \/ Return(TRUE)
<1>1. job # None
  BY DEF MakeConfigMap, MakePVC, MakeDeployment, MakeService, At
<1>2. CASE MakeConfigMap
  BY <1>1, <1>2 DEF MakeConfigMap, CreateOrUpdate, Stages, DegradedReasons
<1>3. CASE MakePVC
  BY <1>1, <1>3 DEF MakePVC, CreateOrUpdate, Stages
<1>4. CASE MakeDeployment
  BY <1>1, <1>4 DEF MakeDeployment, CreateOrUpdate, Stages, DegradedReasons
<1>5. CASE MakeService
  BY <1>1, <1>5 DEF MakeService, CreateOrUpdate, Stages
<1> QED
  BY <1>2, <1>3, <1>4, <1>5

\* What a call that writes the child k does to everything but the job.
LEMMA ChildCalls ==
  ASSUME MakeConfigMap \/ MakePVC \/ MakeDeployment \/ MakeService
  PROVE  \E k \in Kinds : /\ job.at = k
                          /\ Made(k) \/ UNCHANGED kidVars
                          /\ UNCHANGED faults \/ Fault
                          /\ UNCHANGED <<api, watch, cache, lastUid, edits>>
BY DEF MakeConfigMap, MakePVC, MakeDeployment, MakeService, CreateOrUpdate, At, Kinds, kidVars

LEMMA ChildCallsType ==
  ASSUME TypeOK, MakeConfigMap \/ MakePVC \/ MakeDeployment \/ MakeService
  PROVE  TypeOK'
<1>1. job # None
  BY ChildCallsJob
<1>2. job' \in Job \cup {None} /\ queue' \subseteq Names
  BY ChildCallsJob, JobParts DEF Goto, Degrade, Return, Job, Stages, TypeOK, KubeTypeOK
<1>3. PICK k \in Kinds : /\ Made(k) \/ UNCHANGED kidVars
                         /\ UNCHANGED faults \/ Fault
                         /\ UNCHANGED <<api, watch, cache, lastUid, edits>>
  BY ChildCalls
<1>4. faults' \in Nat
  BY <1>3 DEF Fault, TypeOK
<1>5. /\ KidsOK(kids') /\ KidsOK(kidCache')
      /\ kidFresh' \in [Names -> [Kinds -> BOOLEAN]]
  BY <1>1, <1>3, MadeType
<1> QED
  BY <1>2, <1>3, <1>4, <1>5 DEF TypeOK, KubeTypeOK, KidsOK

LEMMA RefreshType ==
  ASSUME TypeOK, RefreshDeployment
  PROVE  TypeOK'
<1>1. job # None /\ "Deployment" \in Kinds
  BY DEF RefreshDeployment, At, Kinds
<1>2. CASE Return(TRUE)
  BY <1>1, <1>2, ReturnType DEF RefreshDeployment, TypeOK, KubeTypeOK, kidVars
<1>3. CASE /\ Cached("Deployment") # None
           /\ job' = [job EXCEPT !.at = "Service", !.pods = Cached("Deployment").pods]
           /\ UNCHANGED queue
  <2>1. Cached("Deployment").pods \in PodCounts
    BY <1>1, <1>3, JobParts DEF Cached, TypeOK, KidsOK, Kid
  <2>2. job' \in Job
    BY <1>1, <1>3, <2>1, JobParts DEF Job, Stages
  <2> QED
    BY <1>3, <2>2 DEF RefreshDeployment, TypeOK, KubeTypeOK, kidVars
<1> QED
  BY <1>2, <1>3 DEF RefreshDeployment

LEMMA OutdateType ==
  ASSUME TypeOK, NEW s \in Names, Outdate(s)
  PROVE  job' \in Job \cup {None}
<1>1. CASE job # None /\ job.key = s
  <2>1. job \in Job
    BY <1>1 DEF TypeOK
  <2> QED
    BY <1>1, <2>1 DEF Outdate, Job
<1>2. CASE ~(job # None /\ job.key = s)
  BY <1>2 DEF Outdate, TypeOK
<1> QED
  BY <1>1, <1>2

LEMMA MeddleType ==
  ASSUME TypeOK, NEW s \in Names, NEW k \in Kinds, Meddle(s, k) \/ UNCHANGED job
  PROVE  job' \in Job \cup {None}
<1>1. CASE job # None /\ job' = [job EXCEPT !.meddled = @ \cup {k}]
  BY <1>1 DEF TypeOK, Job
<1>2. CASE UNCHANGED job
  BY <1>2 DEF TypeOK
<1> QED
  BY <1>1, <1>2 DEF Meddle

\* What owners, and the collector of children in the foreground, do to a server is a
\* Store.
LEMMA OwnersStore ==
  ASSUME TypeOK, NEW s \in Names,
         OwnerCreates(s) \/ OwnerEdits(s) \/ OwnerDeletes(s) \/ DependentsGone(s)
  PROVE  /\ \E v \in Object \cup {None} : Store(s, v)
         /\ lastUid' \in 0..MaxUid /\ edits' \in Nat
         /\ Outdate(s)
         /\ UNCHANGED <<cache, queue, kidVars, faults>>
<1>1. api[s] \in Object \cup {None}
  BY DEF TypeOK, KubeTypeOK
<1>2. CASE OwnerCreates(s)
  <2>1. lastUid' \in 1..MaxUid /\ lastUid' \in 0..MaxUid
    BY <1>2, BoundsAssumption DEF OwnerCreates, TypeOK
  <2>2. PICK want \in Specs : Create(s, [uid |-> lastUid', want |-> want])
    BY <1>2 DEF OwnerCreates
  <2> DEFINE v == [spec |-> [uid |-> lastUid', want |-> want], fin |-> FALSE,
                   held |-> FALSE, deleting |-> FALSE, status |-> NewServerStatus]
  <2>3. v \in Object
    BY <2>1, SpecsAssumption, NewServerStatusType DEF Object, Given
  <2>4. Store(s, v) /\ UNCHANGED <<cache, queue>>
    BY <2>2 DEF Create
  <2> QED
    BY <1>2, <2>1, <2>3, <2>4 DEF OwnerCreates, Spend, TypeOK
<1>3. CASE OwnerEdits(s)
  <2>1. PICK want \in Specs : Edit(s, [uid |-> api[s].spec.uid, want |-> want])
    BY <1>3 DEF OwnerEdits
  <2> DEFINE new == [uid |-> api[s].spec.uid, want |-> want]
  <2>2. api[s] \in Object
    BY <1>1, <2>1 DEF Edit
  <2>3. new \in Given
    BY <2>2, SpecsAssumption, ObjectParts DEF Given
  <2>4. [api[s] EXCEPT !.spec = new] \in Object
    BY <2>2, <2>3 DEF Object
  <2>5. Store(s, [api[s] EXCEPT !.spec = new]) /\ UNCHANGED <<cache, queue>>
    BY <2>1 DEF Edit
  <2> QED
    BY <1>3, <2>4, <2>5 DEF OwnerEdits, Spend, TypeOK
<1>4. CASE OwnerDeletes(s)
  <2>1. PICK foreground \in BOOLEAN : Delete(s, foreground)
    BY <1>4 DEF OwnerDeletes
  <2> DEFINE w == [api[s] EXCEPT !.deleting = TRUE, !.held = foreground]
  <2>2. w \in Object
    BY <1>1, <2>1 DEF Delete, Object
  <2>3. Store(s, Settled(w)) /\ UNCHANGED <<cache, queue>>
    BY <2>1 DEF Delete
  <2>4. Settled(w) \in Object \cup {None}
    BY <2>2, SettledType
  <2> QED
    BY <1>4, <2>3, <2>4 DEF OwnerDeletes, TypeOK
<1>5. CASE DependentsGone(s)
  <2> DEFINE w == [api[s] EXCEPT !.held = FALSE]
  <2>1. w \in Object
    BY <1>1, <1>5 DEF DependentsGone, Unhold, Object
  <2>2. Store(s, Settled(w)) /\ UNCHANGED <<cache, queue>>
    BY <1>5 DEF DependentsGone, Unhold
  <2>3. Settled(w) \in Object \cup {None}
    BY <2>1, SettledType
  <2> QED
    BY <1>5, <2>2, <2>3 DEF DependentsGone, TypeOK
<1> QED
  BY <1>2, <1>3, <1>4, <1>5

LEMMA OwnersType ==
  ASSUME TypeOK, NEW s \in Names,
         OwnerCreates(s) \/ OwnerEdits(s) \/ OwnerDeletes(s) \/ DependentsGone(s)
  PROVE  TypeOK'
<1>1. /\ api' \in [Names -> Object \cup {None}]
      /\ watch' \in [Names -> Seq(Object \cup {None})]
      /\ job' \in Job \cup {None}
      /\ lastUid' \in 0..MaxUid /\ edits' \in Nat
      /\ UNCHANGED <<cache, queue, kidVars, faults>>
  BY OwnersStore, StoreType, OutdateType DEF TypeOK
<1> QED
  BY <1>1 DEF TypeOK, KubeTypeOK, KidsOK, kidVars

\* The steps of others that replace the child k of s, and by what.
LEMMA OthersReplace ==
  ASSUME TypeOK, NEW s \in Names, NEW k \in Kinds,
         \/ Collect(s, k) \/ SomebodyDeletes(s, k) \/ SomebodyCreates(s, k)
         \/ k = "Deployment" /\ DeploymentSyncs(s)
  PROVE  /\ \E new \in Kid(k) \cup {None} : ReplaceKid(s, k, new)
         /\ Meddle(s, k) \/ UNCHANGED job
         /\ edits' \in Nat
<1>1. edits' \in Nat
  <2>1. UNCHANGED edits \/ Spend
    BY DEF Collect, SomebodyDeletes, SomebodyCreates, DeploymentSyncs
  <2> QED
    BY <2>1 DEF Spend, TypeOK
<1>2. Meddle(s, k) \/ UNCHANGED job
  BY DEF Collect, SomebodyDeletes, SomebodyCreates, DeploymentSyncs
<1>3. CASE Collect(s, k) \/ SomebodyDeletes(s, k)
  <2>1. ReplaceKid(s, k, None)
    BY <1>3 DEF Collect, SomebodyDeletes
  <2> QED
    BY <1>1, <1>2, <2>1
<1>4. CASE SomebodyCreates(s, k)
  <2> DEFINE new(owner) == [owner |-> owner, content |-> Foreign, pods |-> NoPods,
                            revision |-> FALSE]
  <2>1. \A owner \in {None, Other} : new(owner) \in Kid(k)
    BY BoundsAssumption DEF Kid, Contents
  <2>2. PICK owner \in {None, Other} : ReplaceKid(s, k, new(owner))
    BY <1>4 DEF SomebodyCreates
  <2>3. new(owner) \in Kid(k) \cup {None}
    BY <2>1
  <2> QED
    BY <1>1, <1>2, <2>2, <2>3
<1>5. CASE k = "Deployment" /\ DeploymentSyncs(s)
  <2> DEFINE new(p) == [kids[s][k] EXCEPT !.pods = p, !.revision = TRUE]
  <2>1. kids[s][k] \in Kid(k)
    BY <1>5 DEF DeploymentSyncs, TypeOK, KidsOK
  <2>2. PICK p \in PodCounts : ReplaceKid(s, k, new(p))
    BY <1>5 DEF DeploymentSyncs
  <2>3. new(p) \in Kid(k) \cup {None}
    BY <2>1 DEF Kid
  <2> QED
    BY <1>1, <1>2, <2>2, <2>3
<1> QED
  BY <1>3, <1>4, <1>5

LEMMA OthersType ==
  ASSUME TypeOK, NEW s \in Names, NEW k \in Kinds,
         \/ Collect(s, k) \/ SomebodyDeletes(s, k) \/ SomebodyCreates(s, k)
         \/ k = "Deployment" /\ DeploymentSyncs(s)
  PROVE  TypeOK'
<1>1. PICK new \in Kid(k) \cup {None} : ReplaceKid(s, k, new)
  BY OthersReplace
<1>2. KidsOK([kids EXCEPT ![s][k] = new])
  BY KidPut DEF TypeOK
<1>3. KidsOK(kidCache') /\ kidFresh' \in [Names -> [Kinds -> BOOLEAN]]
  BY <1>1, FollowType DEF ReplaceKid
<1>4. job' \in Job \cup {None} /\ edits' \in Nat
  BY OthersReplace, MeddleType
<1> QED
  BY <1>1, <1>2, <1>3, <1>4 DEF ReplaceKid, objectVars, TypeOK, KubeTypeOK, KidsOK

LEMMA InformersType ==
  ASSUME TypeOK, NEW s \in Names,
         InformerDelivers(s) \/ InformerResyncs(s) \/ \E k \in Kinds : KidDelivered(s, k)
  PROVE  TypeOK'
<1>1. CASE InformerDelivers(s)
  <2>1. watch[s] \in Seq(Object \cup {None}) /\ watch[s] # <<>>
    BY <1>1 DEF InformerDelivers, Deliver, TypeOK, KubeTypeOK
  <2>2. Head(watch[s]) \in Object \cup {None} /\ Tail(watch[s]) \in Seq(Object \cup {None})
    BY <2>1
  <2> QED
    BY <1>1, <2>2 DEF InformerDelivers, Deliver, TypeOK, KubeTypeOK, KidsOK, kidVars
<1>2. CASE InformerResyncs(s)
  BY <1>2 DEF InformerResyncs, Resync, TypeOK, KubeTypeOK, KidsOK, kidVars
<1>3. CASE \E k \in Kinds : KidDelivered(s, k)
  <2>1. PICK k \in Kinds : KidDelivered(s, k)
    BY <1>3
  <2>2. kids[s][k] \in Kid(k) \cup {None}
    BY DEF TypeOK, KidsOK
  <2>3. KidsOK([kidCache EXCEPT ![s][k] = kids[s][k]])
    BY <2>2, KidPut DEF TypeOK
  <2> QED
    BY <2>1, <2>3 DEF KidDelivered, objectVars, TypeOK, KubeTypeOK, KidsOK
<1> QED
  BY <1>1, <1>2, <1>3

LEMMA CrashType ==
  ASSUME TypeOK, Crash
  PROVE  TypeOK'
BY DEF Crash, Relist, Fault, TypeOK, KubeTypeOK, KidsOK

LEMMA InitType == Init => TypeOK
<1> SUFFICES ASSUME Init PROVE TypeOK
  OBVIOUS
<1>1. KubeTypeOK
  BY DEF Init, KubeInit, KubeTypeOK
<1>2. KidsOK(kids) /\ KidsOK(kidCache)
  BY DEF Init, KidsOK
<1> QED
  BY <1>1, <1>2, BoundsAssumption DEF Init, TypeOK

LEMMA TypeStep == TypeOK /\ [Next]_vars => TypeOK'
<1> SUFFICES ASSUME TypeOK, [Next]_vars PROVE TypeOK'
  OBVIOUS
<1>1. CASE \E s \in Names : Plan(s)
  BY <1>1, PlanType
<1>2. CASE \E s \in Names : \/ OwnerCreates(s) \/ OwnerEdits(s)
                            \/ OwnerDeletes(s) \/ DependentsGone(s)
  BY <1>2, OwnersType
<1>3. CASE \E s \in Names, k \in Kinds :
             \/ Collect(s, k) \/ SomebodyDeletes(s, k) \/ SomebodyCreates(s, k)
             \/ k = "Deployment" /\ DeploymentSyncs(s)
  BY <1>3, OthersType
<1>4. CASE \E s \in Names : \/ InformerDelivers(s) \/ InformerResyncs(s)
                            \/ \E k \in Kinds : KidDelivered(s, k)
  BY <1>4, InformersType
<1>5. CASE Work
  BY <1>5, ApiCallsType, ChildCallsType, RefreshType DEF Work
<1>6. CASE Crash
  BY <1>6, CrashType
<1>7. CASE UNCHANGED vars
  BY <1>7 DEF vars, TypeOK, KubeTypeOK, KidsOK
<1>8. "Deployment" \in Kinds /\ Loose \subseteq Kinds
  BY BoundsAssumption DEF Kinds
<1> QED
  BY <1>1, <1>2, <1>3, <1>4, <1>5, <1>6, <1>7, <1>8 DEF Next

\* Every variable keeps its type, whatever the interleaving and the faults.
THEOREM TypeCorrect == Spec => []TypeOK
BY InitType, TypeStep, PTL DEF Spec

--------------------------------------------------------------------------------
(****************************************************************************)
(* Who writes a child. An informer that has caught up shows what is stored. *)
(****************************************************************************)
FreshIsStored ==
  \A s \in Names, k \in Kinds : kidFresh[s][k] => kidCache[s][k] = kids[s][k]

\* The child k of s becomes new, and its informer gets to know it now or later.
Writes(s, k, new) ==
  /\ kids' = [kids EXCEPT ![s][k] = new]
  /\ \/ Follow(s, k, new)
     \/ new = kids[s][k] /\ UNCHANGED <<kidCache, kidFresh>>

LEMMA WritesFresh ==
  ASSUME TypeOK, FreshIsStored, NEW s \in Names, NEW k \in Kinds, NEW new, Writes(s, k, new)
  PROVE  FreshIsStored'
<1>1. /\ kids'[s][k] = new
      /\ \A t \in Names, j \in Kinds : t # s \/ j # k => kids'[t][j] = kids[t][j]
  <2>1. KidsOK(kids) /\ kids' = Put(kids, s, k, new)
    BY DEF TypeOK, Writes, Put
  <2> QED
    BY <2>1, KidReplaced
<1>2. CASE k \in Loose /\ Follow(s, k, new)
  <2>1. kidFresh' = [kidFresh EXCEPT ![s][k] = FALSE] /\ UNCHANGED kidCache
    BY <1>2 DEF Follow
  <2>2. /\ ~kidFresh'[s][k]
        /\ \A t \in Names, j \in Kinds : t # s \/ j # k => kidFresh'[t][j] = kidFresh[t][j]
    BY <2>1 DEF TypeOK
  <2> QED
    BY <1>1, <2>1, <2>2 DEF FreshIsStored
<1>3. CASE k \notin Loose /\ Follow(s, k, new)
  <2>1. kidCache' = [kidCache EXCEPT ![s][k] = new] /\ UNCHANGED kidFresh
    BY <1>3 DEF Follow
  <2>2. /\ kidCache'[s][k] = new
        /\ \A t \in Names, j \in Kinds : t # s \/ j # k => kidCache'[t][j] = kidCache[t][j]
    <3>1. KidsOK(kidCache) /\ kidCache' = Put(kidCache, s, k, new)
      BY <2>1 DEF TypeOK, Put
    <3> QED
      BY <3>1, KidReplaced
  <2> QED
    BY <1>1, <2>1, <2>2 DEF FreshIsStored
<1>4. CASE new = kids[s][k] /\ UNCHANGED <<kidCache, kidFresh>>
  BY <1>1, <1>4 DEF FreshIsStored
<1> QED
  BY <1>2, <1>3, <1>4 DEF Writes

\* What createOrUpdate makes of a child: the version it replaces is not another
\* controller's, and the new one is as this call wants it.
LEMMA MadeWrites ==
  ASSUME TypeOK, FreshIsStored, job # None, NEW k \in Kinds, Made(k)
  PROVE  \/ UNCHANGED kidVars /\ k \in {"ConfigMap", "PVC"}
         \/ /\ Stored(k) # None => ~Owned(Stored(k))
            /\ \E new \in Kid(k) : /\ Writes(job.key, k, new)
                                   /\ new.owner = MyUid
                                   /\ k # "PVC" => new.content = Desired(MyWant)[k]
<1>1. CASE Cached(k) = None /\ Stored(k) = None /\ StoreKid(k, NewKid(k))
  BY <1>1, NewKidType DEF Writes, StoreKid, NewKid, Stored
<1>2. CASE UNCHANGED kidVars /\ NothingToDo(k)
  BY <1>2 DEF NothingToDo
<1>3. CASE /\ Cached(k) # None /\ ~Owned(Cached(k)) /\ kidFresh[job.key][k]
           /\ StoreKid(k, Mutated(k))
  <2>1. Stored(k) = Cached(k)
    BY <1>3, JobParts DEF FreshIsStored, Stored, Cached
  <2>2. Mutated(k) \in Kid(k)
    BY <1>3, MutatedType
  <2>3. Cached(k) \in Kid(k)
    BY <1>3, JobParts DEF TypeOK, KidsOK, Cached
  <2>4. /\ Mutated(k).owner = MyUid
        /\ k # "PVC" => Mutated(k).content = Desired(MyWant)[k]
    BY <2>3 DEF Mutated, Kid
  <2>5. Writes(job.key, k, Mutated(k))
    BY <1>3 DEF Writes, StoreKid, Stored
  <2> QED
    BY <1>3, <2>1, <2>2, <2>4, <2>5
<1> QED
  BY <1>1, <1>2, <1>3 DEF Made

LEMMA FreshStep == TypeOK /\ FreshIsStored /\ [Next]_vars => FreshIsStored'
<1> SUFFICES ASSUME TypeOK, FreshIsStored, [Next]_vars PROVE FreshIsStored'
  OBVIOUS
<1>1. CASE UNCHANGED kidVars
  BY <1>1 DEF kidVars, FreshIsStored
<1>2. CASE MakeConfigMap \/ MakePVC \/ MakeDeployment \/ MakeService
  <2>1. PICK k \in Kinds : Made(k) \/ UNCHANGED kidVars
    BY <1>2, ChildCalls
  <2>2. job # None
    BY <1>2, ChildCallsJob
  <2> QED
    BY <1>1, <2>1, <2>2, JobParts, MadeWrites, WritesFresh
<1>3. CASE \E s \in Names, k \in Kinds :
             \/ Collect(s, k) \/ SomebodyDeletes(s, k) \/ SomebodyCreates(s, k)
             \/ k = "Deployment" /\ DeploymentSyncs(s)
  <2>1. PICK s \in Names, k \in Kinds : \E new \in Kid(k) \cup {None} : ReplaceKid(s, k, new)
    BY <1>3, OthersReplace
  <2> QED
    BY <2>1, WritesFresh DEF ReplaceKid, Writes
<1>4. CASE \E s \in Names, k \in Kinds : KidDelivered(s, k)
  <2>1. PICK s \in Names, k \in Kinds : KidDelivered(s, k)
    BY <1>4
  <2>2. /\ kidCache'[s][k] = kids[s][k] /\ UNCHANGED kids
        /\ \A t \in Names, j \in Kinds : t # s \/ j # k => kidCache'[t][j] = kidCache[t][j]
    <3>1. /\ KidsOK(kidCache) /\ UNCHANGED kids
          /\ kidCache' = Put(kidCache, s, k, kids[s][k])
      BY <2>1 DEF TypeOK, KidDelivered, Put
    <3> QED
      BY <3>1, KidReplaced
  <2>3. \A t \in Names, j \in Kinds : t # s \/ j # k => kidFresh'[t][j] = kidFresh[t][j]
    BY <2>1 DEF KidDelivered, TypeOK
  <2> QED
    BY <2>2, <2>3 DEF FreshIsStored
<1>5. CASE Crash
  BY <1>5 DEF Crash, FreshIsStored
<1>6. CASE \E s \in Names : \/ Plan(s) \/ OwnerCreates(s) \/ OwnerEdits(s)
                            \/ OwnerDeletes(s) \/ DependentsGone(s)
                            \/ InformerDelivers(s) \/ InformerResyncs(s)
  BY <1>1, <1>6 DEF Plan, PlanGone, PlanFinalizer, PlanRelease, PlanServer, Take,
       OwnerCreates, OwnerEdits, OwnerDeletes, DependentsGone, InformerDelivers,
       InformerResyncs
<1>7. CASE AddFinalizer \/ ReleaseFinalizer \/ RefreshDeployment \/ ReportDegraded
             \/ ReportRunning
  BY <1>1, <1>7 DEF AddFinalizer, ReleaseFinalizer, RefreshDeployment, ReportDegraded,
       ReportRunning
<1>8. CASE UNCHANGED vars
  BY <1>1, <1>8 DEF vars, kidVars
<1>9. "Deployment" \in Kinds /\ Loose \subseteq Kinds
  BY BoundsAssumption DEF Kinds
<1> QED
  BY <1>2, <1>3, <1>4, <1>5, <1>6, <1>7, <1>8, <1>9 DEF Next, Work

\* The steps that change a child: the call in progress, which then is at that child,
\* or others.
LEMMA WhoWrites ==
  ASSUME TypeOK, [Next]_vars, NEW s \in Names, NEW k \in Kinds, kids'[s][k] # kids[s][k]
  PROVE  \/ /\ MakeConfigMap \/ MakePVC \/ MakeDeployment \/ MakeService
            /\ job # None /\ job.at = k /\ job.key = s
            /\ Made(k)
         \/ Collect(s, k) \/ SomebodyDeletes(s, k) \/ SomebodyCreates(s, k)
         \/ k = "Deployment" /\ DeploymentSyncs(s)
<1>1. kids' # kids
  OBVIOUS
<1>2. CASE MakeConfigMap \/ MakePVC \/ MakeDeployment \/ MakeService
  <2>1. PICK j \in Kinds : job.at = j /\ (Made(j) \/ UNCHANGED kidVars)
    BY <1>2, ChildCalls
  <2>2. job # None /\ job.key \in Names /\ Made(j)
    BY <1>1, <1>2, <2>1, ChildCallsJob, JobParts DEF kidVars
  <2>3. \E new : kids' = [kids EXCEPT ![job.key][j] = new]
    BY <1>1, <2>2 DEF Made, StoreKid, kidVars
  <2>4. j = k /\ job.key = s
    BY <2>2, <2>3, KidPut DEF TypeOK
  <2> QED
    BY <1>2, <2>1, <2>2, <2>4
<1>3. CASE \E t \in Names, j \in Kinds :
             \/ Collect(t, j) \/ SomebodyDeletes(t, j) \/ SomebodyCreates(t, j)
             \/ j = "Deployment" /\ DeploymentSyncs(t)
  <2>1. PICK t \in Names, j \in Kinds :
             \/ Collect(t, j) \/ SomebodyDeletes(t, j) \/ SomebodyCreates(t, j)
             \/ j = "Deployment" /\ DeploymentSyncs(t)
    BY <1>3
  <2>2. \E new : kids' = [kids EXCEPT ![t][j] = new]
    BY <2>1, OthersReplace DEF ReplaceKid
  <2>3. j = k /\ t = s
    BY <2>2, KidPut DEF TypeOK
  <2> QED
    BY <2>1, <2>3
<1>4. CASE \E t \in Names : \/ Plan(t) \/ OwnerCreates(t) \/ OwnerEdits(t)
                            \/ OwnerDeletes(t) \/ DependentsGone(t)
                            \/ InformerDelivers(t) \/ InformerResyncs(t)
                            \/ \E j \in Kinds : KidDelivered(t, j)
  BY <1>1, <1>4 DEF Plan, PlanGone, PlanFinalizer, PlanRelease, PlanServer, Take,
       OwnerCreates, OwnerEdits, OwnerDeletes, DependentsGone, InformerDelivers,
       InformerResyncs, KidDelivered, kidVars
<1>5. CASE AddFinalizer \/ ReleaseFinalizer \/ RefreshDeployment \/ ReportDegraded
             \/ ReportRunning \/ Crash \/ UNCHANGED vars
  BY <1>1, <1>5 DEF AddFinalizer, ReleaseFinalizer, RefreshDeployment, ReportDegraded,
       ReportRunning, Crash, kidVars, vars
<1>6. "Deployment" \in Kinds /\ Loose \subseteq Kinds
  BY BoundsAssumption DEF Kinds
<1> QED
  BY <1>2, <1>3, <1>4, <1>5, <1>6 DEF Next, Work

LEMMA OthersUntouchedStep ==
  ASSUME TypeOK, FreshIsStored, [Next]_vars, NEW s \in Names, NEW k \in Kinds,
         kids[s][k] # None, kids[s][k].owner = Other, edits' = edits
  PROVE  /\ kids'[s][k] # None
         /\ kids'[s][k].owner = Other /\ kids'[s][k].content = kids[s][k].content
<1>1. ~Spend
  BY DEF Spend, TypeOK
<1>2. CASE kids'[s][k] = kids[s][k]
  BY <1>2
<1>3. CASE job # None /\ job.key = s /\ Made(k) /\ kids'[s][k] # kids[s][k]
  <2>1. Owned(Stored(k)) /\ Stored(k) # None
    BY <1>3 DEF Owned, Stored
  <2> QED
    BY <1>3, <2>1, MadeWrites DEF kidVars
<1>4. CASE Collect(s, k)
  BY <1>4, NoneAssumption DEF Collect
<1>5. CASE k = "Deployment" /\ DeploymentSyncs(s)
  <2> DEFINE new(p) == [kids[s][k] EXCEPT !.pods = p, !.revision = TRUE]
  <2>1. PICK p \in PodCounts : kids' = [kids EXCEPT ![s][k] = new(p)]
    BY <1>5 DEF DeploymentSyncs, ReplaceKid
  <2>2. kids'[s][k] = new(p)
    <3> HIDE DEF new
    <3>1. KidsOK(kids) /\ kids' = Put(kids, s, k, new(p))
      BY <2>1 DEF TypeOK, Put
    <3> QED
      BY <3>1, KidReplaced
  <2>3. kids[s][k] \in Kid(k)
    BY DEF TypeOK, KidsOK
  <2>4. new(p) \in Kid(k) /\ new(p).owner = Other /\ new(p).content = kids[s][k].content
    BY <2>3 DEF Kid
  <2> QED
    BY <2>2, <2>4, NoneAssumption
<1> QED
  BY <1>1, <1>2, <1>3, <1>4, <1>5, WhoWrites DEF SomebodyDeletes, SomebodyCreates

UntouchedInv == TypeOK /\ FreshIsStored

\* A child that some other controller owns is left alone, however old the cache is
\* that createOrUpdate looks it up in.
THEOREM OthersAreUntouched == Spec => OthersUntouched
<1>1. Init => UntouchedInv
  BY InitType DEF UntouchedInv, Init, FreshIsStored
<1>2. UntouchedInv /\ [Next]_vars => UntouchedInv'
  BY TypeStep, FreshStep DEF UntouchedInv
<1> DEFINE Untouched(s, k) ==
       /\ kids[s][k] # None /\ kids[s][k].owner = Other
       /\ edits' = edits
       => /\ kids'[s][k] # None
          /\ kids'[s][k].owner = Other /\ kids'[s][k].content = kids[s][k].content
<1>3. UntouchedInv /\ [Next]_vars => [\A s \in Names, k \in Kinds : Untouched(s, k)]_vars
  BY OthersUntouchedStep DEF UntouchedInv
<1> QED
  BY <1>1, <1>2, <1>3, PTL DEF Spec, OthersUntouched

--------------------------------------------------------------------------------
(****************************************************************************)
(* What a Reconcile call knows when it writes the status.                   *)
(****************************************************************************)
InformerCatchesUp == \A s \in Names : watch[s] = <<>> => cache[s] = api[s]
LastVersionIsStored ==
  \A s \in Names : watch[s] # <<>> => watch[s][Len(watch[s])] = api[s]

\* The version a call read is the stored one as long as its writes are not refused.
FreshJob == job # None /\ ~job.stale => api[job.key] = job.snap

\* The children a call does not leave to their makers.
Overwritten == {"Deployment", "Service"}
AsRead(k) ==
  /\ Stored(k) # None
  /\ Stored(k).owner = MyUid
  /\ Stored(k).content = Desired(MyWant)[k]

\* A child that a call has made stays as it made it, unless somebody meddles.
KidsAreMade ==
  job # None =>
    \A k \in Overwritten : job.at \in After[k] /\ k \notin job.meddled => AsRead(k)

ReportInv ==
  /\ TypeOK /\ FreshIsStored
  /\ InformerCatchesUp /\ LastVersionIsStored
  /\ FreshJob
  /\ KidsAreMade

\* What a Store leaves: the last version on the watch is the stored one.
LEMMA StoreFacts ==
  ASSUME TypeOK, NEW s \in Names, NEW v \in Object \cup {None}, Store(s, v)
  PROVE  /\ api'[s] = v /\ \A t \in Names \ {s} : api'[t] = api[t]
         /\ watch'[s] # <<>> /\ watch'[s][Len(watch'[s])] = v
         /\ \A t \in Names \ {s} : watch'[t] = watch[t]
<1>1. /\ api'[s] = v /\ \A t \in Names \ {s} : api'[t] = api[t]
      /\ watch'[s] = Append(watch[s], v) /\ \A t \in Names \ {s} : watch'[t] = watch[t]
  BY DEF TypeOK, KubeTypeOK, Store
<1>2. watch[s] \in Seq(Object \cup {None})
  BY DEF TypeOK, KubeTypeOK
<1> QED
  BY <1>1, <1>2, AppendFacts

LEMMA StoreInforms ==
  ASSUME ReportInv, NEW s \in Names, NEW v \in Object \cup {None}, Store(s, v), UNCHANGED cache
  PROVE  InformerCatchesUp' /\ LastVersionIsStored'
BY StoreFacts DEF ReportInv, InformerCatchesUp, LastVersionIsStored

\* What a call writes to the server, if it writes to it at all.
LEMMA CallsStore ==
  ASSUME TypeOK, AddFinalizer \/ ReleaseFinalizer \/ ReportDegraded \/ ReportRunning
  PROVE  \/ UNCHANGED <<api, watch>>
         \/ \E v \in Object \cup {None} : Store(job.key, v)
<1>1. job # None
  BY DEF AddFinalizer, ReleaseFinalizer, ReportDegraded, ReportRunning, At
<1>2. /\ [job.snap EXCEPT !.fin = TRUE] \in Object
      /\ Settled([job.snap EXCEPT !.fin = FALSE]) \in Object \cup {None}
      /\ [job.snap EXCEPT !.status = NewStatus] \in Object
  BY <1>1, JobParts, NewStatusType, SettledType DEF Object
<1>3. [job.snap EXCEPT !.status.degraded = job.reason] \in Object
  <2>1. [job.snap.status EXCEPT !.degraded = job.reason] \in ServerStatus
    BY <1>1, JobParts DEF Job, ServerStatus
  <2> QED
    BY <1>1, <2>1, JobParts DEF Object
<1> QED
  BY <1>2, <1>3
     DEF AddFinalizer, ReleaseFinalizer, ReportDegraded, ReportRunning, Write, Update,
         UpdateFails

\* A call that writes a child and goes on has made the child, and goes where Reconcile
\* goes.
LEMMA ChildCallsStage ==
  ASSUME MakeConfigMap \/ MakePVC \/ MakeDeployment \/ MakeService,
         job \in Job, job' # None, job'.at # "degrade"
  PROVE  /\ Made(job.at)
         /\ job' = [job EXCEPT !.at = job'.at]
         /\ \/ job.at = "ConfigMap" /\ job'.at \in {"PVC", "Deployment"}
            \/ job.at = "PVC" /\ job'.at = "Deployment"
            \/ job.at = "Deployment" /\ job'.at = "refresh"
            \/ job.at = "Service" /\ job'.at = "status"
<1>1. CASE MakeConfigMap
  BY <1>1 DEF MakeConfigMap, CreateOrUpdate, At, Goto, Degrade, Job
<1>2. CASE MakePVC
  BY <1>2 DEF MakePVC, CreateOrUpdate, At, Goto, Return, Job
<1>3. CASE MakeDeployment
  BY <1>3 DEF MakeDeployment, CreateOrUpdate, At, Goto, Degrade, Job
<1>4. CASE MakeService
  BY <1>4 DEF MakeService, CreateOrUpdate, At, Goto, Return, Job
<1> QED
  BY <1>1, <1>2, <1>3, <1>4

LEMMA PlanReports ==
  ASSUME ReportInv, NEW s \in Names, Plan(s)
  PROVE  ReportInv'
<1>1. job = None /\ UNCHANGED <<api, watch, cache, kidVars>>
  BY DEF Plan, PlanGone, PlanFinalizer, PlanRelease, PlanServer, Take
<1>2. TypeOK' /\ FreshIsStored'
  BY <1>1, PlanType DEF ReportInv, FreshIsStored, kidVars
<1>3. InformerCatchesUp' /\ LastVersionIsStored'
  BY <1>1 DEF ReportInv, InformerCatchesUp, LastVersionIsStored
<1>4. job' = None \/ \E stage \in {"addFinalizer", "release", "ConfigMap"} : Start(s, stage)
  BY <1>1 DEF Plan, PlanGone, PlanFinalizer, PlanRelease, PlanServer
<1>5. FreshJob'
  <2>1. CASE job' = None
    BY <2>1 DEF FreshJob
  <2>2. CASE \E stage \in Stages : Start(s, stage)
    <3>1. PICK stage \in Stages : Start(s, stage)
      BY <2>2
    <3>2. job'.key = s /\ job'.snap = cache[s] /\ (~job'.stale => watch[s] = <<>>)
      BY <3>1 DEF Start
    <3> QED
      BY <1>1, <3>2 DEF FreshJob, ReportInv, InformerCatchesUp
  <2> QED
    BY <1>4, <2>1, <2>2 DEF Stages
<1>6. KidsAreMade'
  BY <1>4 DEF KidsAreMade, Start, After, Overwritten
<1> QED
  BY <1>2, <1>3, <1>5, <1>6 DEF ReportInv

LEMMA ApiCallsReport ==
  ASSUME ReportInv, AddFinalizer \/ ReleaseFinalizer \/ ReportDegraded \/ ReportRunning
  PROVE  ReportInv'
<1>1. /\ job # None /\ job' = None
      /\ UNCHANGED <<cache, kidVars>>
  BY DEF AddFinalizer, ReleaseFinalizer, ReportDegraded, ReportRunning, Return, At
<1>2. TypeOK' /\ FreshIsStored'
  BY <1>1, ApiCallsType DEF ReportInv, FreshIsStored, kidVars
<1>3. InformerCatchesUp' /\ LastVersionIsStored'
  <2>1. CASE UNCHANGED <<api, watch>>
    BY <1>1, <2>1 DEF ReportInv, InformerCatchesUp, LastVersionIsStored
  <2>2. CASE \E v \in Object \cup {None} : Store(job.key, v)
    BY <1>1, <2>2, StoreInforms, JobParts DEF ReportInv
  <2> QED
    BY <2>1, <2>2, CallsStore DEF ReportInv
<1> QED
  BY <1>1, <1>2, <1>3 DEF ReportInv, FreshJob, KidsAreMade

LEMMA ChildCallsReport ==
  ASSUME ReportInv, MakeConfigMap \/ MakePVC \/ MakeDeployment \/ MakeService
  PROVE  ReportInv'
<1>1. job # None /\ job \in Job /\ job.key \in Names /\ TypeOK
  BY ChildCallsJob, JobParts DEF ReportInv
<1>2. PICK k \in Kinds : /\ job.at = k
                         /\ Made(k) \/ UNCHANGED kidVars
                         /\ UNCHANGED <<api, watch, cache, lastUid, edits>>
  BY ChildCalls
<1>3. TypeOK' /\ FreshIsStored'
  <2>1. Next
    BY DEF Next, Work
  <2> QED
    BY <2>1, TypeStep, FreshStep DEF ReportInv
<1>4. InformerCatchesUp' /\ LastVersionIsStored'
  BY <1>2 DEF ReportInv, InformerCatchesUp, LastVersionIsStored
<1>5. FreshJob'
  <2>1. job' # None => job'.key = job.key /\ job'.snap = job.snap /\ job'.stale = job.stale
    BY <1>1, ChildCallsJob DEF Goto, Degrade, Return, Job
  <2> QED
    BY <1>1, <1>2, <2>1 DEF ReportInv, FreshJob
<1>6. KidsAreMade'
  <2> SUFFICES ASSUME job' # None, NEW j \in Overwritten,
                      job'.at \in After[j], j \notin job'.meddled
               PROVE  AsRead(j)'
    BY DEF KidsAreMade
  <2>1. "degrade" \notin After[j] /\ j \in Kinds /\ j \notin {"ConfigMap", "PVC"}
    BY DEF After, Overwritten, Kinds
  <2>2. job'.at # "degrade"
    BY <2>1
  <2> DEFINE next == job'.at
  <2>3. /\ Made(job.at)
        /\ job' = [job EXCEPT !.at = next]
        /\ \/ job.at = "ConfigMap" /\ next \in {"PVC", "Deployment"}
           \/ job.at = "PVC" /\ next = "Deployment"
           \/ job.at = "Deployment" /\ next = "refresh"
           \/ job.at = "Service" /\ next = "status"
    BY <1>1, <2>2, ChildCallsStage
  <2>4. job'.key = job.key /\ job'.snap = job.snap /\ job'.meddled = job.meddled
    BY <1>1, <2>3 DEF Job
  <2>5. Made(k) /\ (k # j => job.at \in After[j])
    <3>1. /\ After["Deployment"] = {"refresh", "Service", "status"}
          /\ After["Service"] = {"status"}
      BY DEF After
    <3>2. /\ \/ k = "ConfigMap" /\ next \in {"PVC", "Deployment"}
             \/ k = "PVC" /\ next = "Deployment"
             \/ k = "Deployment" /\ next = "refresh"
             \/ k = "Service" /\ next = "status"
          /\ next \in After[j] /\ Made(k) /\ job.at = k
      BY <1>2, <2>3
    <3> HIDE DEF next
    <3>3. CASE j = "Deployment"
      BY <3>1, <3>2, <3>3
    <3>4. CASE j = "Service"
      BY <3>1, <3>2, <3>4
    <3> QED
      BY <3>3, <3>4 DEF Overwritten
  <2>6. CASE UNCHANGED kidVars /\ k \in {"ConfigMap", "PVC"}
    <3>1. k # j /\ job.at \in After[j]
      BY <2>1, <2>5, <2>6
    <3> QED
      BY <1>1, <2>6, <2>4, <3>1
         DEF ReportInv, KidsAreMade, AsRead, Stored, MyUid, MyWant, kidVars
  <2>7. CASE \E new \in Kid(k) : /\ Writes(job.key, k, new)
                                 /\ new.owner = MyUid
                                 /\ k # "PVC" => new.content = Desired(MyWant)[k]
    <3>1. PICK new \in Kid(k) : /\ Writes(job.key, k, new)
                                /\ new.owner = MyUid
                                /\ k # "PVC" => new.content = Desired(MyWant)[k]
      BY <2>7
    <3>2. KidsOK(kids) /\ kids' = Put(kids, job.key, k, new)
      BY <1>1, <3>1 DEF TypeOK, Put, Writes
    <3>3. kids'[job.key][k] = new /\ (k # j => kids'[job.key][j] = kids[job.key][j])
      BY <1>1, <2>1, <3>2, KidReplaced
    <3>4. CASE k = j
      <4>1. new # None
        BY NoneAssumption
      <4> QED
        BY <2>1, <2>4, <3>1, <3>3, <3>4, <4>1 DEF AsRead, Stored, MyUid, MyWant
    <3>5. CASE k # j
      <4>1. AsRead(j)
        BY <1>1, <2>5, <2>4, <3>5 DEF ReportInv, KidsAreMade
      <4> QED
        BY <2>4, <3>3, <3>5, <4>1 DEF AsRead, Stored, MyUid, MyWant
    <3> QED
      BY <3>4, <3>5
  <2> QED
    BY <1>1, <2>5, <2>6, <2>7, MadeWrites DEF ReportInv
<1> QED
  BY <1>3, <1>4, <1>5, <1>6 DEF ReportInv

LEMMA RefreshReports ==
  ASSUME ReportInv, RefreshDeployment
  PROVE  ReportInv'
<1>1. /\ job # None /\ job \in Job /\ job.at = "refresh"
      /\ UNCHANGED <<api, watch, cache, kidVars>>
  BY JobParts DEF RefreshDeployment, At, ReportInv
<1>2. TypeOK' /\ FreshIsStored'
  BY <1>1, RefreshType DEF ReportInv, FreshIsStored, kidVars
<1>3. InformerCatchesUp' /\ LastVersionIsStored'
  BY <1>1 DEF ReportInv, InformerCatchesUp, LastVersionIsStored
<1>4. job' # None => /\ job'.key = job.key /\ job'.snap = job.snap
                     /\ job'.stale = job.stale /\ job'.meddled = job.meddled
                     /\ job'.at = "Service"
  BY <1>1 DEF RefreshDeployment, Return, Job
<1>5. FreshJob'
  BY <1>1, <1>4 DEF ReportInv, FreshJob
<1>6. KidsAreMade'
  BY <1>1, <1>4 DEF ReportInv, KidsAreMade, AsRead, Stored, MyUid, MyWant, After,
       Overwritten, kidVars
<1> QED
  BY <1>2, <1>3, <1>5, <1>6 DEF ReportInv

LEMMA OwnersReport ==
  ASSUME ReportInv, NEW s \in Names,
         OwnerCreates(s) \/ OwnerEdits(s) \/ OwnerDeletes(s) \/ DependentsGone(s)
  PROVE  ReportInv'
<1>1. PICK v \in Object \cup {None} : Store(s, v)
  BY OwnersStore DEF ReportInv
<1>2. Outdate(s) /\ UNCHANGED <<cache, kidVars>>
  BY OwnersStore DEF ReportInv
<1>3. TypeOK' /\ FreshIsStored'
  BY <1>2, OwnersType DEF ReportInv, FreshIsStored, kidVars
<1>4. InformerCatchesUp' /\ LastVersionIsStored'
  BY <1>1, <1>2, StoreInforms
<1>5. job' # None => /\ job # None /\ job'.key = job.key /\ job'.snap = job.snap
                     /\ job'.meddled = job.meddled /\ job'.at = job.at
                     /\ ~job'.stale => ~job.stale /\ job.key # s
  BY <1>2 DEF Outdate, Job, ReportInv, TypeOK
<1>6. FreshJob'
  BY <1>1, <1>5, StoreFacts, JobParts DEF ReportInv, FreshJob
<1>7. KidsAreMade'
  BY <1>2, <1>5 DEF ReportInv, KidsAreMade, AsRead, Stored, MyUid, MyWant, kidVars
<1> QED
  BY <1>3, <1>4, <1>6, <1>7 DEF ReportInv

LEMMA OthersReport ==
  ASSUME ReportInv, NEW s \in Names, NEW k \in Kinds,
         \/ Collect(s, k) \/ SomebodyDeletes(s, k) \/ SomebodyCreates(s, k)
         \/ k = "Deployment" /\ DeploymentSyncs(s)
  PROVE  ReportInv'
<1>1. PICK new \in Kid(k) \cup {None} : ReplaceKid(s, k, new)
  BY OthersReplace DEF ReportInv
<1>2. UNCHANGED <<api, watch, cache>>
  BY <1>1 DEF ReplaceKid, objectVars
<1>3. TypeOK'
  BY OthersType DEF ReportInv
<1>4. FreshIsStored'
  BY <1>1, WritesFresh DEF ReportInv, ReplaceKid, Writes
<1>5. InformerCatchesUp' /\ LastVersionIsStored'
  BY <1>2 DEF ReportInv, InformerCatchesUp, LastVersionIsStored
<1>6. Meddle(s, k) \/ UNCHANGED job
  BY OthersReplace DEF ReportInv
<1>7. job' # None => /\ job # None /\ job'.key = job.key /\ job'.snap = job.snap
                     /\ job'.stale = job.stale /\ job'.at = job.at
                     /\ job.meddled \subseteq job'.meddled
  BY <1>6 DEF Meddle, Job, ReportInv, TypeOK
<1>8. FreshJob'
  BY <1>2, <1>7 DEF ReportInv, FreshJob
<1>9. KidsAreMade'
  <2> SUFFICES ASSUME job' # None, NEW j \in Overwritten,
                      job'.at \in After[j], j \notin job'.meddled
               PROVE  AsRead(j)'
    BY DEF KidsAreMade
  <2>1. AsRead(j)
    BY <1>7 DEF ReportInv, KidsAreMade
  <2>2. KidsOK(kids) /\ kids' = Put(kids, s, k, new)
    BY <1>1 DEF ReplaceKid, Put, ReportInv, TypeOK
  <2>3. j \in Kinds /\ job.key \in Names
    BY <1>7, JobParts DEF Overwritten, Kinds, ReportInv
  <2>4. CASE s # job.key \/ k # j
    <3>1. kids'[job.key][j] = kids[job.key][j]
      BY <2>2, <2>3, <2>4, KidReplaced
    <3> QED
      BY <1>7, <2>1, <3>1 DEF AsRead, Stored, MyUid, MyWant
  <2>5. CASE s = job.key /\ k = j /\ Meddle(s, k)
    <3>1. job' = [job EXCEPT !.meddled = @ \cup {k}]
      BY <1>7, <2>5 DEF Meddle
    <3>2. job \in Job
      BY <1>7, JobParts DEF ReportInv
    <3> QED
      BY <2>5, <3>1, <3>2 DEF Job
  <2>6. CASE s = job.key /\ k = j /\ k = "Deployment" /\ DeploymentSyncs(s)
    <3> DEFINE synced(p) == [kids[s][k] EXCEPT !.pods = p, !.revision = TRUE]
    <3>1. PICK p \in PodCounts : ReplaceKid(s, k, synced(p))
      BY <2>6 DEF DeploymentSyncs
    <3>2. kids[s][k] \in Kid(k)
      BY <2>1, <2>6 DEF ReportInv, TypeOK, KidsOK, AsRead, Stored
    <3>3. /\ synced(p) \in Kid(k) /\ synced(p).owner = kids[s][k].owner
          /\ synced(p).content = kids[s][k].content
      BY <3>2 DEF Kid
    <3> HIDE DEF synced
    <3>4. kids' = Put(kids, s, k, synced(p))
      BY <3>1 DEF ReplaceKid, Put
    <3>5. kids'[s][k] = synced(p)
      BY <2>2, <3>4, KidReplaced
    <3>6. synced(p) # None
      BY <3>3, NoneAssumption
    <3> QED
      BY <1>7, <2>1, <2>6, <3>3, <3>5, <3>6 DEF AsRead, Stored, MyUid, MyWant
  <2> QED
    BY <2>4, <2>5, <2>6 DEF Collect, SomebodyDeletes, SomebodyCreates
<1> QED
  BY <1>3, <1>4, <1>5, <1>8, <1>9 DEF ReportInv

LEMMA InformersReport ==
  ASSUME ReportInv, NEW s \in Names,
         InformerDelivers(s) \/ InformerResyncs(s) \/ \E k \in Kinds : KidDelivered(s, k)
  PROVE  ReportInv'
<1>1. UNCHANGED <<api, job, kids>>
  BY DEF InformerDelivers, InformerResyncs, Deliver, Resync, KidDelivered, objectVars, kidVars
<1>2. TypeOK' /\ FreshIsStored'
  <2>1. Next
    BY DEF Next
  <2> QED
    BY <2>1, TypeStep, FreshStep DEF ReportInv
<1>3. FreshJob' /\ KidsAreMade'
  BY <1>1 DEF ReportInv, FreshJob, KidsAreMade, AsRead, Stored, MyUid, MyWant
<1>4. InformerCatchesUp' /\ LastVersionIsStored'
  <2>1. CASE UNCHANGED <<watch, cache>>
    BY <1>1, <2>1 DEF ReportInv, InformerCatchesUp, LastVersionIsStored
  <2>2. CASE InformerDelivers(s)
    <3> DEFINE q == watch[s]
    <3>1. q \in Seq(Object \cup {None}) /\ q # <<>>
      BY <2>2 DEF InformerDelivers, Deliver, ReportInv, TypeOK, KubeTypeOK
    <3>2. /\ watch'[s] = Tail(q) /\ cache'[s] = Head(q)
          /\ \A t \in Names \ {s} : watch'[t] = watch[t] /\ cache'[t] = cache[t]
      BY <2>2 DEF InformerDelivers, Deliver, ReportInv, TypeOK, KubeTypeOK
    <3>3. q[Len(q)] = api[s]
      BY <3>1 DEF ReportInv, LastVersionIsStored
    <3>4. /\ Tail(q) # <<>> => Tail(q)[Len(Tail(q))] = q[Len(q)]
          /\ Tail(q) = <<>> => Head(q) = q[Len(q)]
      BY <3>1, TailFacts
    <3> QED
      BY <1>1, <3>2, <3>3, <3>4 DEF ReportInv, InformerCatchesUp, LastVersionIsStored
  <2> QED
    BY <2>1, <2>2 DEF InformerResyncs, Resync, KidDelivered, objectVars
<1> QED
  BY <1>2, <1>3, <1>4 DEF ReportInv

LEMMA CrashReports ==
  ASSUME ReportInv, Crash
  PROVE  ReportInv'
<1>1. TypeOK' /\ FreshIsStored'
  <2>1. Next
    BY DEF Next
  <2> QED
    BY <2>1, TypeStep, FreshStep DEF ReportInv
<1>2. InformerCatchesUp' /\ LastVersionIsStored'
  BY DEF Crash, Relist, InformerCatchesUp, LastVersionIsStored
<1>3. FreshJob' /\ KidsAreMade'
  BY DEF Crash, FreshJob, KidsAreMade
<1> QED
  BY <1>1, <1>2, <1>3 DEF ReportInv

LEMMA ReportStep == ReportInv /\ [Next]_vars => ReportInv'
<1> SUFFICES ASSUME ReportInv, [Next]_vars PROVE ReportInv'
  OBVIOUS
<1>1. CASE \E s \in Names : Plan(s)
  BY <1>1, PlanReports
<1>2. CASE \E s \in Names : \/ OwnerCreates(s) \/ OwnerEdits(s)
                            \/ OwnerDeletes(s) \/ DependentsGone(s)
  BY <1>2, OwnersReport
<1>3. CASE \E s \in Names, k \in Kinds :
             \/ Collect(s, k) \/ SomebodyDeletes(s, k) \/ SomebodyCreates(s, k)
             \/ k = "Deployment" /\ DeploymentSyncs(s)
  BY <1>3, OthersReport
<1>4. CASE \E s \in Names : \/ InformerDelivers(s) \/ InformerResyncs(s)
                            \/ \E k \in Kinds : KidDelivered(s, k)
  BY <1>4, InformersReport
<1>5. CASE Work
  BY <1>5, ApiCallsReport, ChildCallsReport, RefreshReports DEF Work
<1>6. CASE Crash
  BY <1>6, CrashReports
<1>7. CASE UNCHANGED vars
  <2>1. TypeOK' /\ FreshIsStored'
    BY TypeStep, FreshStep DEF ReportInv
  <2> QED
    BY <1>7, <2>1 DEF vars, ReportInv, InformerCatchesUp, LastVersionIsStored, FreshJob,
         KidsAreMade, AsRead, Stored, MyUid, MyWant
<1>8. "Deployment" \in Kinds /\ Loose \subseteq Kinds
  BY BoundsAssumption DEF Kinds
<1> QED
  BY <1>1, <1>2, <1>3, <1>4, <1>5, <1>6, <1>7, <1>8 DEF Next

\* Of all steps only the last one of Reconcile writes what Reported looks for.
LEMMA Reporter ==
  ASSUME ReportInv, [Next]_vars, NEW s \in Names, Reported(s)
  PROVE  job # None /\ job.key = s /\ job.at = "status" /\ api[s] = job.snap
<1>1. api[s] # None /\ api'[s] # None /\ api[s] \in Object
  BY DEF Reported, ReportInv, TypeOK, KubeTypeOK
<1>2. api[s].status # api'[s].status /\ api'[s].status.degraded = api[s].status.degraded
  BY DEF Reported
<1>3. CASE AddFinalizer \/ ReleaseFinalizer \/ ReportDegraded \/ ReportRunning
  <2>1. job # None /\ job.key \in Names /\ job.snap \in Object /\ TypeOK
    BY <1>3, JobParts
       DEF AddFinalizer, ReleaseFinalizer, ReportDegraded, ReportRunning, At, ReportInv
  <2>2. /\ [job.snap EXCEPT !.fin = TRUE] \in Object
        /\ [job.snap EXCEPT !.fin = FALSE] \in Object
        /\ [job.snap EXCEPT !.fin = TRUE].status = job.snap.status
        /\ [job.snap EXCEPT !.fin = FALSE].status = job.snap.status
    BY <2>1 DEF Object
  <2>3. PICK v : /\ ~job.stale /\ v # job.snap /\ Store(job.key, v)
                 /\ \/ v = [job.snap EXCEPT !.fin = TRUE]
                    \/ v = Settled([job.snap EXCEPT !.fin = FALSE])
                    \/ v = [job.snap EXCEPT !.status.degraded = job.reason]
                    \/ job.at = "status"
    BY <1>1, <1>2, <1>3
       DEF AddFinalizer, ReleaseFinalizer, ReportDegraded, ReportRunning, Write, Update,
           UpdateFails, At
  <2>4. api[job.key] = job.snap
    BY <2>1, <2>3 DEF ReportInv, FreshJob
  <2>5. job.key = s /\ api'[s] = v
    BY <1>2, <2>1, <2>3 DEF Store, ReportInv, TypeOK, KubeTypeOK
  <2>6. v # [job.snap EXCEPT !.fin = TRUE]
    BY <1>2, <2>2, <2>4, <2>5
  <2>7. v # Settled([job.snap EXCEPT !.fin = FALSE])
    BY <1>1, <1>2, <2>2, <2>4, <2>5 DEF Settled
  <2>8. v # [job.snap EXCEPT !.status.degraded = job.reason]
    <3> SUFFICES ASSUME v = [job.snap EXCEPT !.status.degraded = job.reason]
                 PROVE  FALSE
      OBVIOUS
    <3>1. /\ v.status.degraded = job.reason
          /\ job.snap.status.degraded = job.reason
               => [job.snap EXCEPT !.status.degraded = job.reason] = job.snap
      BY <2>1, JobParts DEF Object, ServerStatus
    <3> QED
      BY <1>2, <2>3, <2>4, <2>5, <3>1
  <2> QED
    BY <2>1, <2>3, <2>4, <2>5, <2>6, <2>7, <2>8
<1>4. CASE OwnerCreates(s) \/ OwnerEdits(s) \/ OwnerDeletes(s) \/ DependentsGone(s)
  <2>1. ~OwnerCreates(s)
    BY <1>1 DEF OwnerCreates, Create
  <2>3. \A foreground :
          [api[s] EXCEPT !.deleting = TRUE, !.held = foreground].status = api[s].status
    BY <1>1 DEF Object
  <2>4. [api[s] EXCEPT !.held = FALSE].status = api[s].status
    BY <1>1 DEF Object
  <2>5. ~OwnerEdits(s)
    <3> SUFFICES ASSUME OwnerEdits(s) PROVE FALSE
      OBVIOUS
    <3>1. PICK w : api' = [api EXCEPT ![s] = [api[s] EXCEPT !.spec = w]]
      BY DEF OwnerEdits, Edit, Store
    <3>2. api'[s].status = api[s].status
      BY <1>1, <3>1 DEF ReportInv, TypeOK, KubeTypeOK, Object
    <3> QED
      BY <1>2, <3>2
  <2>6. ~OwnerDeletes(s)
    <3> SUFFICES ASSUME OwnerDeletes(s) PROVE FALSE
      OBVIOUS
    <3> DEFINE w(foreground) == [api[s] EXCEPT !.deleting = TRUE, !.held = foreground]
    <3>1. PICK foreground \in BOOLEAN : api' = [api EXCEPT ![s] = Settled(w(foreground))]
      BY DEF OwnerDeletes, Delete, Store
    <3>2. w(foreground).status = api[s].status
      BY <2>3
    <3> HIDE DEF w
    <3>3. api'[s] = Settled(w(foreground))
      BY <3>1 DEF ReportInv, TypeOK, KubeTypeOK
    <3> QED
      BY <1>1, <1>2, <3>2, <3>3 DEF Settled
  <2>7. ~DependentsGone(s)
    BY <1>1, <1>2, <2>4
       DEF DependentsGone, Unhold, Store, Settled, ReportInv, TypeOK, KubeTypeOK
  <2> QED
    BY <1>4, <2>1, <2>5, <2>6, <2>7
<1>5. CASE \E t \in Names \ {s} : \/ OwnerCreates(t) \/ OwnerEdits(t)
                                  \/ OwnerDeletes(t) \/ DependentsGone(t)
  <2>1. PICK t \in Names \ {s}, v \in Object \cup {None} : Store(t, v)
    BY <1>5, OwnersStore DEF ReportInv
  <2> QED
    BY <1>2, <2>1, StoreFacts DEF ReportInv
<1>6. CASE MakeConfigMap \/ MakePVC \/ MakeDeployment \/ MakeService
  BY <1>2, <1>6, ChildCalls
<1>7. CASE \E t \in Names, k \in Kinds :
             \/ Collect(t, k) \/ SomebodyDeletes(t, k) \/ SomebodyCreates(t, k)
             \/ k = "Deployment" /\ DeploymentSyncs(t)
  BY <1>2, <1>7, OthersReplace DEF ReplaceKid, objectVars, ReportInv
<1>8. CASE \/ RefreshDeployment \/ Crash \/ UNCHANGED vars
           \/ \E t \in Names : \/ Plan(t) \/ InformerDelivers(t) \/ InformerResyncs(t)
                               \/ \E k \in Kinds : KidDelivered(t, k)
  <2>1. UNCHANGED api
    BY <1>8 DEF RefreshDeployment, Crash, Relist, vars, Plan, PlanGone, PlanFinalizer,
         PlanRelease, PlanServer, Take, InformerDelivers, InformerResyncs, Deliver, Resync,
         KidDelivered, objectVars
  <2> QED
    BY <1>2, <2>1
<1>9. "Deployment" \in Kinds /\ Loose \subseteq Kinds
  BY BoundsAssumption DEF Kinds
<1> QED
  BY <1>3, <1>4, <1>5, <1>6, <1>7, <1>8, <1>9 DEF Next, Work

\* A status that is written over another says what is so: the Deployment and the
\* Service are those of the stored spec and belong to the stored object, but for what
\* others did to them since the very call made them.
THEOREM ReadyIsTrue == Spec => ReadyMeansDeployed
<1>1. Init => ReportInv
  BY InitType DEF Init, KubeInit, ReportInv, FreshIsStored, InformerCatchesUp,
       LastVersionIsStored, FreshJob, KidsAreMade
<1>2. ReportInv /\ [Next]_vars => ReportInv'
  BY ReportStep
<1> DEFINE Truthful(s) ==
       Reported(s) =>
         \A k \in {"Deployment", "Service"} : k \notin job.meddled => AsDesired(s, k)
<1>3. ReportInv /\ [Next]_vars => [\A s \in Names : Truthful(s)]_vars
  <2> SUFFICES ASSUME ReportInv, [Next]_vars, NEW s \in Names, Reported(s),
                      NEW k \in {"Deployment", "Service"}, k \notin job.meddled
               PROVE  AsDesired(s, k)
    OBVIOUS
  <2>1. job # None /\ job.key = s /\ job.at = "status" /\ api[s] = job.snap
    BY Reporter
  <2>2. k \in Overwritten /\ job.at \in After[k]
    BY <2>1 DEF Overwritten, After
  <2>3. AsRead(k)
    BY <2>1, <2>2 DEF ReportInv, KidsAreMade
  <2> QED
    BY <2>1, <2>3 DEF AsRead, Stored, MyUid, MyWant, AsDesired
<1> QED
  BY <1>1, <1>2, <1>3, PTL DEF Spec, ReadyMeansDeployed
================================================================================
