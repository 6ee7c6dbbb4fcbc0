------------------------- MODULE UserControllerProofs -------------------------
(****************************************************************************)
(* Theorems about SftpGoUserReconciler as UserController models it: type    *)
(* correctness, NoSilentOrphan and SyncedMeansApplied, for any number of    *)
(* objects, servers and accounts, and any number of faults.                 *)
(*                                                                          *)
(* NoSilentOrphan is not inductive: the controller acts on what it read     *)
(* from a cache that lags behind the API server. What makes it safe is a    *)
(* fact about every version the controller may still act on (in the watch   *)
(* stream, in the cache, in the hands of a job): a version that was live    *)
(* is vouched for, because the stored object still has the finalizer and    *)
(* names the same account, or the account is disowned.                      *)
(****************************************************************************)
EXTENDS UserController, QueueFacts, TLAPS

Vouched(o, v) == Live(v) => \/ v.spec.account \in disowned
                            \/ Claims(o, v.spec.account)

\* Every version that has not been superseded in the controller's eyes.
WatchVouched == \A o \in Users : \A i \in 1..Len(watch[o]) : Vouched(o, watch[o][i])
CacheVouched == \A o \in Users : Vouched(o, cache[o])
JobVouched == job # Null => Vouched(job.key, job.snap)

\* The cache is the stored object once the watch stream is empty.
InformerCatchesUp == \A o \in Users : watch[o] = <<>> => cache[o] = api[o]
LastVersionIsStored ==
  \A o \in Users : watch[o] # <<>> => watch[o][Len(watch[o])] = api[o]

\* A job whose resourceVersion is current holds the stored object.
FreshJob ==
  job # Null /\ ~job.stale
  => watch[job.key] = <<>> /\ api[job.key] = job.snap

\* What a job read entitles it to the call it is about to make.
JobStage ==
  job # Null =>
    /\ job.at \in {"get", "upsert", "report", "fail"} => Live(job.snap)
    /\ job.at \in {"delete", "release"} => job.snap.fin /\ job.snap.deleting
    /\ job.at = "release" => \/ accounts[job.snap.spec.account] = Null
                             \/ job.snap.spec.account \in disowned

VouchInv ==
  /\ TypeOK
  /\ WatchVouched /\ CacheVouched /\ JobVouched
  /\ InformerCatchesUp /\ LastVersionIsStored
  /\ FreshJob /\ JobStage
  /\ NoSilentOrphan

--------------------------------------------------------------------------------
(****************************************************************************)
(* Type correctness.                                                        *)
(****************************************************************************)
LEMMA StoreType ==
  ASSUME KubeTypeOK, NEW o \in Users, NEW v \in Object \cup {Null}, Store(o, v)
  PROVE  /\ api' \in [Users -> Object \cup {Null}]
         /\ watch' \in [Users -> Seq(Object \cup {Null})]
BY DEF KubeTypeOK, Store

LEMMA SettledType ==
  ASSUME NEW v \in Object
  PROVE  Settled(v) \in Object \cup {Null}
BY DEF Settled

LEMMA NoUserStatusType == NoUserStatus \in UserStatus
BY DEF NoUserStatus, UserStatus

LEMMA ExecuteType ==
  ASSUME SftpgoTypeOK, NEW r \in Request, Execute(r)
  PROVE  /\ accounts' \in [Account -> [content: Contents, id: 1..MaxId] \cup {Null}]
         /\ lastId' \in 0..MaxId
<1>1. NextId \in 1..MaxId
  BY MaxIdAssumption DEF NextId, SftpgoTypeOK
<1>2. r.account \in Account /\ r.content \in Contents
  BY DEF Request
<1>3. CASE r.method = "POST"
  BY <1>1, <1>2, <1>3 DEF Execute, Accepts, SftpgoTypeOK
<1>4. CASE r.method = "PUT"
  BY <1>1, <1>2, <1>4 DEF Execute, Accepts, SftpgoTypeOK
<1>5. CASE r.method = "DELETE"
  BY <1>1, <1>2, <1>5 DEF Execute, Accepts, SftpgoTypeOK
<1> QED
  BY <1>3, <1>4, <1>5 DEF Request

LEMMA SendType ==
  ASSUME SftpgoTypeOK, NEW r \in Request, NEW outcome, Send(r, outcome)
  PROVE  SftpgoTypeOK'
BY ExecuteType DEF Send, SftpgoTypeOK, sftpgoVars

LEMMA InitType == Init => TypeOK
<1> SUFFICES ASSUME Init PROVE TypeOK
  OBVIOUS
<1>1. KubeTypeOK
  BY DEF Init, KubeInit, KubeTypeOK
<1>2. SftpgoTypeOK
  BY MaxIdAssumption DEF Init, SftpgoInit, SftpgoTypeOK
<1> QED
  BY <1>1, <1>2 DEF Init, TypeOK

LEMMA StartType ==
  ASSUME TypeOK, NEW o \in Users, cache[o] # Null,
         NEW stage \in Stages, NEW reason \in Reasons, NEW retry \in BOOLEAN,
         Start(o, stage, reason, retry)
  PROVE  job' \in Job
BY DEF TypeOK, KubeTypeOK, Start, Job

LEMMA PlanType ==
  ASSUME TypeOK, NEW o \in Users, Plan(o)
  PROVE  TypeOK'
<1>1. queue' \subseteq Users /\ faults' \in Nat /\ srv' = srv /\ now' = now /\ edits' = edits
  BY DEF Plan, PlanGone, PlanFinalizer, PlanDelete, PlanRefusal, PlanSync, Take,
         envVars, TypeOK, KubeTypeOK
<1>2. UNCHANGED <<api, watch, cache, sftpgoVars>>
  BY DEF Plan, PlanGone, PlanFinalizer, PlanDelete, PlanRefusal, PlanSync, Take
<1>3. job' \in Job \cup {Null}
  BY StartType DEF Plan, PlanGone, PlanFinalizer, PlanDelete, PlanRefusal, PlanSync,
         Live, Stages, Reasons, TypeOK
<1>4. disowned' \subseteq Account
  BY NullAssumption DEF Plan, PlanGone, PlanFinalizer, PlanDelete, PlanRefusal, PlanSync,
         TypeOK, KubeTypeOK, Object, UserSpec, Account
<1> QED
  BY <1>1, <1>2, <1>3, <1>4 DEF TypeOK, KubeTypeOK, SftpgoTypeOK, sftpgoVars

\* What the parts of a job are.
LEMMA JobParts ==
  ASSUME TypeOK, job # Null
  PROVE  /\ job \in Job
         /\ job.key \in Users
         /\ job.snap \in Object
         /\ job.snap.spec \in UserSpec
         /\ MyAccount \in Account
         /\ MyContent \in Contents
BY DEF TypeOK, Job, Object, UserSpec, Account, MyAccount, MyContent

LEMMA UpdateType ==
  ASSUME TypeOK, job # Null, NEW v \in Object \cup {Null},
         Update(v) \/ UpdateFails(v) \/ UNCHANGED <<api, watch, faults>>
  PROVE  /\ api' \in [Users -> Object \cup {Null}]
         /\ watch' \in [Users -> Seq(Object \cup {Null})]
         /\ faults' \in Nat
BY StoreType, JobParts DEF TypeOK, KubeTypeOK, Update, UpdateFails, Write, Fault

LEMMA ReturnType ==
  ASSUME TypeOK, job # Null, NEW retry \in BOOLEAN, Return(retry)
  PROVE  queue' \subseteq Users /\ job' = Null
BY JobParts DEF TypeOK, KubeTypeOK, Return

LEMMA NewStatusType ==
  ASSUME TypeOK, job # Null
  PROVE  NewStatus \in UserStatus
BY JobParts DEF NewStatus, Job, Object, UserStatus, TypeOK, Reasons

LEMMA ApiCallsType ==
  ASSUME TypeOK, AddFinalizer \/ ReleaseFinalizer \/ ReportStatus
  PROVE  TypeOK'
<1>1. job # Null
  BY DEF AddFinalizer, ReleaseFinalizer, ReportStatus, At
<1>2. /\ [job.snap EXCEPT !.fin = TRUE] \in Object
      /\ [job.snap EXCEPT !.fin = FALSE] \in Object
      /\ [job.snap EXCEPT !.status = NewStatus] \in Object
  BY <1>1, JobParts, NewStatusType DEF Object
<1>3. /\ api' \in [Users -> Object \cup {Null}]
      /\ watch' \in [Users -> Seq(Object \cup {Null})]
      /\ faults' \in Nat
  BY <1>1, <1>2, UpdateType, SettledType DEF AddFinalizer, ReleaseFinalizer, ReportStatus
<1>4. queue' \subseteq Users /\ job' = Null
  BY <1>1, ReturnType, JobParts DEF AddFinalizer, ReleaseFinalizer, ReportStatus, Job
<1> QED
  BY <1>3, <1>4 DEF AddFinalizer, ReleaseFinalizer, ReportStatus, TypeOK, KubeTypeOK,
       SftpgoTypeOK, sftpgoVars, envVars

LEMMA HttpCallsType ==
  ASSUME TypeOK, RemoveAccount \/ LookUpAccount \/ WriteAccount \/ Fail
  PROVE  TypeOK'
<1>1. job # Null
  BY DEF RemoveAccount, LookUpAccount, WriteAccount, Fail, At
<1>2. SftpgoTypeOK'
  <2>1. CASE RemoveAccount
    <3> DEFINE r == [method |-> "DELETE", account |-> MyAccount, content |-> MyContent]
    <3>1. r \in Request
      BY <1>1, JobParts DEF Request
    <3>2. \E outcome \in {"ok", "refused", "lost"} : Send(r, outcome)
      BY <2>1 DEF RemoveAccount, Delete404, DeleteUser
    <3> QED
      BY <3>1, <3>2, SendType DEF TypeOK
  <2>2. CASE WriteAccount
    <3> DEFINE r == [method |-> IF job.found # 0 THEN "PUT" ELSE "POST",
                     account |-> MyAccount, content |-> MyContent]
    <3>1. r \in Request
      BY <1>1, JobParts DEF Request
    <3>2. \E outcome \in {"ok", "refused", "lost"} : Send(r, outcome)
      BY <2>2 DEF WriteAccount, Upsert, UpsertUser
    <3> QED
      BY <3>1, <3>2, SendType DEF TypeOK
  <2>3. CASE LookUpAccount \/ Fail
    BY <2>3 DEF LookUpAccount, Fail, TypeOK, SftpgoTypeOK, sftpgoVars
  <2> QED
    BY <2>1, <2>2, <2>3
<1>3. GetUser(MyAccount) \in Nat
  BY <1>1, JobParts DEF GetUser, TypeOK, SftpgoTypeOK
<1>4. job' \in Job \cup {Null}
  BY <1>1, <1>3, JobParts DEF RemoveAccount, LookUpAccount, WriteAccount, Fail, Return,
       Goto, Report, Job, Stages, Reasons
<1>5. queue' \subseteq Users
  BY <1>1, JobParts DEF RemoveAccount, LookUpAccount, WriteAccount, Fail, Return,
       Goto, Report, TypeOK, KubeTypeOK
<1>6. faults' \in Nat
  <2>1. UNCHANGED faults \/ Fault
    BY DEF RemoveAccount, LookUpAccount, WriteAccount, Fail, Delete404
  <2> QED
    BY <2>1 DEF Fault, TypeOK
<1>7. UNCHANGED <<api, watch, cache, srv, now, edits, disowned>>
  BY DEF RemoveAccount, LookUpAccount, WriteAccount, Fail, envVars
<1> QED
  BY <1>2, <1>4, <1>5, <1>6, <1>7 DEF TypeOK, KubeTypeOK

LEMMA OutdateType ==
  ASSUME TypeOK, NEW o \in Users, Outdate(o)
  PROVE  job' \in Job \cup {Null}
<1>1. CASE job # Null /\ job.key = o
  <2>1. job \in Job
    BY <1>1 DEF TypeOK
  <2> QED
    BY <1>1, <2>1 DEF Outdate, Job
<1>2. CASE ~(job # Null /\ job.key = o)
  BY <1>2 DEF Outdate, TypeOK
<1> QED
  BY <1>1, <1>2

LEMMA DisturbType ==
  ASSUME TypeOK, Disturb
  PROVE  job' \in Job \cup {Null}
<1>1. CASE job # Null
  <2>1. job \in Job
    BY <1>1 DEF TypeOK
  <2> QED
    BY <1>1, <2>1 DEF Disturb, Job
<1>2. CASE job = Null
  BY <1>2 DEF Disturb
<1> QED
  BY <1>1, <1>2

\* After v is stored, o still claims what it claimed, or that is disowned.
KeepsClaims(o, v) ==
  \A a \in Account : Claims(o, a) => a \in disowned' \/ (v # Null /\ v.fin /\ v.spec.account = a)

\* What users, and the owners of other finalizers, do to an object is a Store
\* that keeps its claims.
LEMMA OwnersStore ==
  ASSUME TypeOK, NEW o \in Users,
         UserCreates(o) \/ UserEdits(o) \/ UserDeletes(o) \/ OtherFinalizerGoes(o)
  PROVE  /\ \E v \in Object \cup {Null} : Store(o, v) /\ KeepsClaims(o, v)
         /\ disowned \subseteq disowned'
         /\ Outdate(o)
         /\ UNCHANGED <<cache, queue, sftpgoVars, srv, now, faults>>
<1>1. api[o] \in Object \cup {Null}
  BY DEF TypeOK, KubeTypeOK
<1>2. CASE UserCreates(o)
  <2>1. PICK s \in Specs : Create(o, s)
    BY <1>2 DEF UserCreates
  <2>2. [spec |-> s, fin |-> FALSE, held |-> FALSE, deleting |-> FALSE,
         status |-> NoUserStatus] \in Object
    BY SpecsAssumption, NoUserStatusType DEF Object
  <2> QED
    BY <1>2, <2>1, <2>2 DEF UserCreates, Create, KeepsClaims, Claims
<1>3. CASE UserEdits(o)
  <2>1. PICK s \in Specs :
          /\ Edit(o, s)
          /\ disowned' = IF api[o].fin /\ s.account # api[o].spec.account
                         THEN disowned \cup {api[o].spec.account} ELSE disowned
    BY <1>3 DEF UserEdits
  <2>2. [api[o] EXCEPT !.spec = s] \in Object
    BY <1>1, <2>1, SpecsAssumption DEF Edit, Object
  <2>3. disowned \subseteq disowned' /\ KeepsClaims(o, [api[o] EXCEPT !.spec = s])
    <3> DEFINE v == [api[o] EXCEPT !.spec = s]
    <3>1. api[o] \in Object /\ v # Null /\ v.fin = api[o].fin /\ v.spec = s
      BY <1>1, <2>1, <2>2, NullAssumption DEF Edit, Object
    <3>2. disowned \subseteq disowned'
      BY <2>1
    <3>3. ASSUME NEW a \in Account, Claims(o, a)
          PROVE  a \in disowned' \/ (v # Null /\ v.fin /\ v.spec.account = a)
      BY <2>1, <3>1, <3>3 DEF Claims
    <3> QED
      BY <3>2, <3>3 DEF KeepsClaims
  <2> QED
    BY <1>3, <2>1, <2>2, <2>3 DEF UserEdits, Edit
<1>4. CASE UserDeletes(o)
  <2>1. PICK foreground \in BOOLEAN : Delete(o, foreground)
    BY <1>4 DEF UserDeletes
  <2>2. [api[o] EXCEPT !.deleting = TRUE, !.held = foreground] \in Object
    BY <1>1, <2>1 DEF Delete, Object
  <2>3. KeepsClaims(o, Settled([api[o] EXCEPT !.deleting = TRUE, !.held = foreground]))
    BY <1>1, <2>1, <2>2, NullAssumption DEF Delete, Settled, KeepsClaims, Claims, Object
  <2> QED
    BY <1>4, <2>1, <2>2, <2>3, SettledType DEF UserDeletes, Delete, envVars
<1>5. CASE OtherFinalizerGoes(o)
  <2>1. [api[o] EXCEPT !.held = FALSE] \in Object
    BY <1>1, <1>5 DEF OtherFinalizerGoes, Unhold, Object
  <2>2. KeepsClaims(o, Settled([api[o] EXCEPT !.held = FALSE]))
    BY <1>1, <1>5, <2>1, NullAssumption
       DEF OtherFinalizerGoes, Unhold, Settled, KeepsClaims, Claims, Object
  <2> QED
    BY <1>5, <2>1, <2>2, SettledType DEF OtherFinalizerGoes, Unhold, envVars
<1> QED
  BY <1>2, <1>3, <1>4, <1>5

LEMMA OwnersType ==
  ASSUME TypeOK, NEW o \in Users,
         UserCreates(o) \/ UserEdits(o) \/ UserDeletes(o) \/ OtherFinalizerGoes(o)
  PROVE  TypeOK'
<1>1. /\ api' \in [Users -> Object \cup {Null}]
      /\ watch' \in [Users -> Seq(Object \cup {Null})]
      /\ job' \in Job \cup {Null}
      /\ UNCHANGED <<cache, queue, sftpgoVars, srv, now, faults>>
  BY OwnersStore, StoreType, OutdateType DEF TypeOK
<1>2. disowned' \subseteq Account
  BY DEF UserCreates, UserEdits, UserDeletes, OtherFinalizerGoes, Edit, TypeOK,
     KubeTypeOK, Object, UserSpec, Account
<1>3. edits' \in Nat
  BY DEF UserCreates, UserEdits, UserDeletes, OtherFinalizerGoes, Spend, envVars, TypeOK
<1> QED
  BY <1>1, <1>2, <1>3 DEF TypeOK, KubeTypeOK, SftpgoTypeOK, sftpgoVars

LEMMA InformerType ==
  ASSUME TypeOK, NEW o \in Users, InformerDelivers(o) \/ InformerResyncs(o)
  PROVE  TypeOK'
<1>1. CASE InformerDelivers(o)
  <2>1. watch[o] \in Seq(Object \cup {Null}) /\ watch[o] # <<>>
    BY <1>1 DEF InformerDelivers, Deliver, TypeOK, KubeTypeOK
  <2>2. Head(watch[o]) \in Object \cup {Null} /\ Tail(watch[o]) \in Seq(Object \cup {Null})
    BY <2>1
  <2> QED
    BY <1>1, <2>2 DEF InformerDelivers, Deliver, TypeOK, KubeTypeOK, SftpgoTypeOK,
         sftpgoVars, envVars
<1>2. CASE InformerResyncs(o)
  BY <1>2 DEF InformerResyncs, Resync, TypeOK, KubeTypeOK, SftpgoTypeOK, sftpgoVars,
       envVars
<1> QED
  BY <1>1, <1>2

LEMMA ServersType ==
  ASSUME TypeOK, NEW s \in Servers, ServerChanges(s) \/ DatabaseLost(s)
  PROVE  TypeOK'
<1>1. CASE ServerChanges(s)
  BY <1>1 DEF ServerChanges, Spend, objectVars, sftpgoVars, TypeOK, KubeTypeOK,
       SftpgoTypeOK
<1>2. CASE DatabaseLost(s)
  <2>1. SftpgoTypeOK'
    BY <1>2 DEF DatabaseLost, LoseData, TypeOK, SftpgoTypeOK
  <2> QED
    BY <1>2, <2>1, DisturbType DEF DatabaseLost, Fault, objectVars, envVars, TypeOK,
         KubeTypeOK
<1> QED
  BY <1>1, <1>2

LEMMA LateRequestType ==
  ASSUME TypeOK, LateRequest
  PROVE  TypeOK'
<1>1. PICK r \in late :
        /\ Arrive(r)
        /\ disowned' \in {disowned, disowned \cup {r.account}}
  BY DEF LateRequest
<1>2. r \in Request
  BY DEF TypeOK, SftpgoTypeOK
<1>3. SftpgoTypeOK'
  BY <1>1, <1>2, ExecuteType DEF Arrive, TypeOK, SftpgoTypeOK
<1>4. disowned' \subseteq Account
  BY <1>1, <1>2 DEF TypeOK, Request
<1> QED
  BY <1>3, <1>4, DisturbType DEF LateRequest, objectVars, envVars, TypeOK, KubeTypeOK

\* The request a crash leaves behind is one the job was about to make.
LEMMA CrashSends ==
  ASSUME TypeOK, Crash
  PROVE  \/ UNCHANGED sftpgoVars
         \/ \E r \in Request : /\ job # Null /\ r.account = MyAccount /\ Send(r, "lost")
                               /\ r.method = "POST" => job.at = "upsert"
<1>1. CASE UNCHANGED sftpgoVars
  BY <1>1
<1>2. CASE At("delete") /\ DeleteUser(MyAccount, MyContent, "lost")
  <2> DEFINE r == [method |-> "DELETE", account |-> MyAccount, content |-> MyContent]
  <2>1. r \in Request /\ r.account = MyAccount /\ r.method # "POST"
    BY <1>2, JobParts DEF At, Request
  <2>2. Send(r, "lost")
    BY <1>2 DEF DeleteUser
  <2> QED
    BY <1>2, <2>1, <2>2 DEF At
<1>3. CASE At("upsert") /\ Upsert("lost")
  <2> DEFINE r == [method |-> IF job.found # 0 THEN "PUT" ELSE "POST",
                   account |-> MyAccount, content |-> MyContent]
  <2>1. r \in Request /\ r.account = MyAccount
    BY <1>3, JobParts DEF At, Request
  <2>2. Send(r, "lost")
    BY <1>3 DEF Upsert, UpsertUser
  <2> QED
    BY <1>3, <2>1, <2>2 DEF At
<1> QED
  BY <1>1, <1>2, <1>3 DEF Crash

LEMMA CrashLeavesAccounts ==
  ASSUME TypeOK, Crash
  PROVE  UNCHANGED accounts
<1>1. CASE UNCHANGED sftpgoVars
  BY <1>1 DEF sftpgoVars
<1>2. CASE ~UNCHANGED sftpgoVars
  <2>1. PICK r \in Request : Send(r, "lost")
    BY <1>2, CrashSends
  <2> QED
    BY <2>1 DEF Send
<1> QED
  BY <1>1, <1>2

LEMMA ManagerType ==
  ASSUME TypeOK, Crash \/ Tick
  PROVE  TypeOK'
<1>1. CASE Crash
  <2>1. SftpgoTypeOK'
    <3>1. CASE UNCHANGED sftpgoVars
      BY <3>1 DEF sftpgoVars, TypeOK, SftpgoTypeOK
    <3>2. CASE ~UNCHANGED sftpgoVars
      <4>1. PICK r \in Request : Send(r, "lost")
        BY <1>1, <3>2, CrashSends
      <4> QED
        BY <4>1, SendType DEF TypeOK
    <3> QED
      BY <3>1, <3>2
  <2> QED
    BY <1>1, <2>1 DEF Crash, Relist, Fault, envVars, TypeOK, KubeTypeOK
<1>2. CASE Tick
  BY <1>2 DEF Tick, objectVars, sftpgoVars, TypeOK, KubeTypeOK, SftpgoTypeOK
<1> QED
  BY <1>1, <1>2

LEMMA TypeStep == TypeOK /\ [Next]_vars => TypeOK'
<1> SUFFICES ASSUME TypeOK, [Next]_vars PROVE TypeOK'
  OBVIOUS
<1>1. CASE \E o \in Users : Plan(o)
  BY <1>1, PlanType
<1>2. CASE \E o \in Users : \/ UserCreates(o) \/ UserEdits(o)
                            \/ UserDeletes(o) \/ OtherFinalizerGoes(o)
  BY <1>2, OwnersType
<1>3. CASE \E o \in Users : InformerDelivers(o) \/ InformerResyncs(o)
  BY <1>3, InformerType
<1>4. CASE Work
  BY <1>4, ApiCallsType, HttpCallsType DEF Work
<1>5. CASE \E s \in Servers : ServerChanges(s) \/ DatabaseLost(s)
  BY <1>5, ServersType
<1>6. CASE LateRequest
  BY <1>6, LateRequestType
<1>7. CASE Crash \/ Tick
  BY <1>7, ManagerType
<1>8. CASE UNCHANGED vars
  BY <1>8 DEF vars, TypeOK, KubeTypeOK, SftpgoTypeOK
<1> QED
  BY <1>1, <1>2, <1>3, <1>4, <1>5, <1>6, <1>7, <1>8 DEF Next

\* Every variable keeps its type, whatever the interleaving and the faults.
THEOREM TypeCorrect == Spec => []TypeOK
BY InitType, TypeStep, PTL DEF Spec

--------------------------------------------------------------------------------
(****************************************************************************)
(* NoSilentOrphan.                                                          *)
(****************************************************************************)
NothingLive(o) == watch[o] = <<>> /\ ~Live(cache[o])

\* x, a version some controller state holds before the step, is vouched for after it.
StaysVouched(o, x) ==
  Live(x) => \/ x.spec.account \in disowned'
             \/ api'[o] # Null /\ api'[o].fin /\ api'[o].spec.account = x.spec.account

\* A store keeps every version vouched for if the new version keeps the claim of
\* the old one, or if the controller can no longer see a live version.
LEMMA StoreVouches ==
  ASSUME VouchInv, NEW o \in Users, NEW v \in Object \cup {Null}, Store(o, v),
         cache' = cache, disowned \subseteq disowned',
         KeepsClaims(o, v) \/ (NothingLive(o) /\ ~Live(v))
  PROVE  WatchVouched' /\ CacheVouched' /\ InformerCatchesUp' /\ LastVersionIsStored'
<1> DEFINE q == watch[o]
<1>1. /\ api' = [api EXCEPT ![o] = v] /\ api'[o] = v
      /\ watch' = [watch EXCEPT ![o] = Append(q, v)]
      /\ watch'[o] = Append(q, v)
      /\ \A p \in Users \ {o} : api'[p] = api[p] /\ watch'[p] = watch[p]
  BY DEF Store, VouchInv, TypeOK, KubeTypeOK
<1>2. q \in Seq(Object \cup {Null})
  BY DEF VouchInv, TypeOK, KubeTypeOK
<1>3. StaysVouched(o, v)
  BY <1>1 DEF Live, StaysVouched
<1>4. \A x \in Object \cup {Null} : Vouched(o, x) /\ ~NothingLive(o) => StaysVouched(o, x)
  BY <1>1 DEF Vouched, KeepsClaims, Claims, Object, UserSpec, Account, Live, StaysVouched
<1>5. \A p \in Users \ {o} : \A x : Vouched(p, x) => StaysVouched(p, x)
  BY <1>1 DEF Vouched, Claims, StaysVouched
<1>6. \A i \in 1..Len(q) : StaysVouched(o, q[i])
  <2> SUFFICES ASSUME NEW i \in 1..Len(q) PROVE StaysVouched(o, q[i])
    OBVIOUS
  <2>1. q # <<>> /\ q[i] \in Object \cup {Null}
    BY <1>2
  <2> QED
    BY <2>1, <1>4 DEF VouchInv, WatchVouched, NothingLive
<1>7. \A p \in Users : \A i \in 1..Len(watch'[p]) : StaysVouched(p, watch'[p][i])
  <2> SUFFICES ASSUME NEW p \in Users, NEW i \in 1..Len(watch'[p])
               PROVE  StaysVouched(p, watch'[p][i])
    OBVIOUS
  <2>1. CASE p # o
    BY <2>1, <1>1, <1>5 DEF VouchInv, WatchVouched
  <2>2. CASE p = o
    <3>1. i \in 1..Len(q) \/ i = Len(q) + 1
      BY <2>2, <1>1, <1>2, AppendFacts
    <3>2. CASE i \in 1..Len(q)
      <4>1. watch'[o][i] = q[i]
        BY <3>2, <1>1, <1>2, AppendFacts
      <4> QED
        BY <2>2, <3>2, <4>1, <1>6
    <3>3. CASE i = Len(q) + 1
      <4>1. watch'[o][i] = v
        BY <3>3, <1>1, <1>2, AppendFacts
      <4> QED
        BY <2>2, <4>1, <1>3
    <3> QED
      BY <3>1, <3>2, <3>3
  <2> QED
    BY <2>1, <2>2
<1>8. WatchVouched'
  BY <1>7 DEF WatchVouched, Vouched, Claims, StaysVouched
<1>9. CacheVouched'
  <2>1. \A p \in Users : StaysVouched(p, cache[p])
    BY <1>4, <1>5 DEF VouchInv, CacheVouched, TypeOK, KubeTypeOK, NothingLive, StaysVouched
  <2> QED
    BY <2>1 DEF CacheVouched, Vouched, Claims, StaysVouched
<1>10. InformerCatchesUp' /\ LastVersionIsStored'
  <2>1. watch'[o] # <<>> /\ watch'[o][Len(watch'[o])] = v
    BY <1>1, <1>2, AppendFacts
  <2> QED
    BY <2>1, <1>1 DEF VouchInv, InformerCatchesUp, LastVersionIsStored
<1> QED
  BY <1>8, <1>9, <1>10

\* Where neither the stored objects nor what the controller sees of them change.
LEMMA QuietVouches ==
  ASSUME VouchInv, UNCHANGED <<api, watch, cache>>, disowned \subseteq disowned'
  PROVE  WatchVouched' /\ CacheVouched' /\ InformerCatchesUp' /\ LastVersionIsStored'
BY DEF VouchInv, WatchVouched, CacheVouched, InformerCatchesUp, LastVersionIsStored,
     Vouched, Claims

LEMMA PlanVouches ==
  ASSUME VouchInv, NEW o \in Users, Plan(o)
  PROVE  VouchInv'
<1>1. TypeOK /\ TypeOK'
  BY PlanType DEF VouchInv
<1>2. /\ UNCHANGED <<api, watch, cache, accounts>>
      /\ disowned \subseteq disowned'
  BY DEF Plan, PlanGone, PlanFinalizer, PlanDelete, PlanRefusal, PlanSync, Take, sftpgoVars
<1>3. NoSilentOrphan'
  BY <1>2 DEF VouchInv, NoSilentOrphan, Claims
<1>4. job = Null
  BY DEF Plan, PlanGone, PlanFinalizer, PlanDelete, PlanRefusal, PlanSync, Take
<1>5. CASE PlanGone(o)
  <2>1. job' = Null
    BY <1>4, <1>5 DEF PlanGone
  <2> QED
    BY <1>1, <1>2, <1>3, <2>1, QuietVouches DEF VouchInv, JobVouched, FreshJob, JobStage
<1>6. CASE ~PlanGone(o)
  <2>1. cache[o] # Null /\ \E stage, reason, retry : Start(o, stage, reason, retry)
    BY <1>6 DEF Plan, PlanFinalizer, PlanDelete, PlanRefusal, PlanSync, Live
  <2>2. /\ job'.key = o /\ job'.snap = cache[o]
        /\ job'.stale = (watch[o] # <<>>)
    BY <2>1 DEF Start
  <2>3. JobVouched'
    BY <1>2, <2>2 DEF VouchInv, JobVouched, CacheVouched, Vouched, Claims
  <2>4. FreshJob'
    BY <1>2, <2>2 DEF VouchInv, FreshJob, InformerCatchesUp
  <2>5. JobStage'
    <3>1. CASE PlanFinalizer(o)
      BY <3>1 DEF PlanFinalizer, Start, JobStage
    <3>2. CASE PlanDelete(o)
      BY <3>2 DEF PlanDelete, Start, JobStage
    <3>3. CASE PlanRefusal(o)
      BY <3>3 DEF PlanRefusal, Start, JobStage
    <3>4. CASE PlanSync(o)
      BY <3>4 DEF PlanSync, Start, JobStage
    <3> QED
      BY <1>6, <3>1, <3>2, <3>3, <3>4 DEF Plan
  <2> QED
    BY <1>1, <1>2, <1>3, <2>3, <2>4, <2>5, QuietVouches DEF VouchInv
<1> QED
  BY <1>5, <1>6

\* A request changes only the account it names, and only a DELETE removes one.
LEMMA SendChanges ==
  ASSUME SftpgoTypeOK, NEW r \in Request, NEW outcome, Send(r, outcome)
  PROVE  /\ \A a \in Account : a # r.account => accounts'[a] = accounts[a]
         /\ outcome = "ok" /\ r.method = "DELETE" => accounts'[r.account] = Null
         /\ r.method # "POST" /\ accounts[r.account] = Null => accounts'[r.account] = Null
BY DEF Send, Execute, Accepts, SftpgoTypeOK, sftpgoVars, Request

LEMMA HttpCallsVouch ==
  ASSUME VouchInv, RemoveAccount \/ LookUpAccount \/ WriteAccount \/ Fail
  PROVE  VouchInv'
<1>1. job # Null /\ TypeOK /\ TypeOK' /\ SftpgoTypeOK
  BY HttpCallsType DEF VouchInv, TypeOK, RemoveAccount, LookUpAccount, WriteAccount, Fail, At
<1>2. UNCHANGED <<api, watch, cache, disowned>>
  BY DEF RemoveAccount, LookUpAccount, WriteAccount, Fail
<1>3. job' # Null => /\ job'.key = job.key /\ job'.snap = job.snap
                     /\ job'.stale = job.stale
  BY <1>1, JobParts DEF RemoveAccount, LookUpAccount, WriteAccount, Fail, Return, Goto,
       Report, Job
<1>4. JobVouched' /\ FreshJob'
  BY <1>1, <1>2, <1>3 DEF VouchInv, JobVouched, FreshJob, Vouched, Claims
<1>5. CASE RemoveAccount
  <2> DEFINE r == [method |-> "DELETE", account |-> MyAccount, content |-> MyContent]
  <2>1. r \in Request /\ r.method = "DELETE" /\ r.account = MyAccount
    BY <1>1, JobParts DEF Request
  <2>2. PICK outcome : Send(r, outcome) /\ (outcome = "ok" \/ job' = Null)
    BY <1>5 DEF RemoveAccount, Delete404, DeleteUser, Return
  <2>3. \A a \in Account : accounts'[a] # Null => accounts[a] # Null
    BY <1>1, <2>1, <2>2, SendChanges
  <2>4. NoSilentOrphan'
    BY <1>2, <2>3 DEF VouchInv, NoSilentOrphan, Claims
  <2>5. job' # Null => /\ job' = [job EXCEPT !.at = "release"]
                       /\ accounts'[MyAccount] = Null
    BY <1>1, <1>5, <2>1, <2>2, SendChanges
       DEF RemoveAccount, Goto, Return, Delete404, DeleteUser
  <2>6. JobStage'
    BY <1>1, <1>3, <1>5, <2>5, JobParts DEF VouchInv, JobStage, RemoveAccount, At, MyAccount, Job
  <2> QED
    BY <1>1, <1>2, <1>4, <2>4, <2>6, QuietVouches DEF VouchInv
<1>6. CASE WriteAccount
  <2> DEFINE r == [method |-> IF job.found # 0 THEN "PUT" ELSE "POST",
                   account |-> MyAccount, content |-> MyContent]
  <2>1. r \in Request /\ r.account = MyAccount
    BY <1>1, JobParts DEF Request
  <2>2. PICK outcome : Send(r, outcome)
    BY <1>6 DEF WriteAccount, Upsert, UpsertUser
  <2>3. \A a \in Account : a # MyAccount => accounts'[a] = accounts[a]
    BY <1>1, <2>1, <2>2, SendChanges
  <2>4. MyAccount \in disowned \/ Claims(job.key, MyAccount)
    BY <1>1, <1>6 DEF VouchInv, JobVouched, JobStage, Vouched, WriteAccount, At, MyAccount
  <2>5. NoSilentOrphan'
    BY <1>1, <1>2, <2>3, <2>4, JobParts DEF VouchInv, NoSilentOrphan, Claims
  <2>6. JobStage'
    <3>1. job.at = "upsert" /\ \E reason, retry : Report(reason, retry)
      BY <1>6 DEF WriteAccount, At
    <3> QED
      BY <1>1, <3>1, JobParts DEF VouchInv, JobStage, Report, Job
  <2> QED
    BY <1>1, <1>2, <1>4, <2>5, <2>6, QuietVouches DEF VouchInv
<1>7. CASE LookUpAccount \/ Fail
  <2>1. UNCHANGED accounts
    BY <1>7 DEF LookUpAccount, Fail, sftpgoVars
  <2>2. NoSilentOrphan'
    BY <1>2, <2>1 DEF VouchInv, NoSilentOrphan, Claims
  <2>3. job' # Null => job'.at \in {"upsert", "report"} /\ Live(job'.snap)
    BY <1>1, <1>7, JobParts DEF VouchInv, JobStage, LookUpAccount, Fail, At, Report,
         Return, Job
  <2> QED
    BY <1>1, <1>2, <1>4, <2>2, <2>3, QuietVouches DEF VouchInv, JobStage
<1> QED
  BY <1>5, <1>6, <1>7

\* The object a job that is not stale holds is the stored one.
LEMMA FreshSnapshot ==
  ASSUME VouchInv, job # Null, ~job.stale
  PROVE  /\ job.key \in Users /\ job.snap \in Object
         /\ watch[job.key] = <<>>
         /\ api[job.key] = job.snap /\ cache[job.key] = job.snap
BY JobParts DEF VouchInv, FreshJob, InformerCatchesUp

LEMMA ApiCallsVouch ==
  ASSUME VouchInv, AddFinalizer \/ ReleaseFinalizer \/ ReportStatus
  PROVE  VouchInv'
<1>1. job # Null /\ job \in Job /\ job.key \in Users /\ job.snap \in Object /\ TypeOK /\ TypeOK'
  BY ApiCallsType, JobParts DEF VouchInv, AddFinalizer, ReleaseFinalizer, ReportStatus, At
<1>2. UNCHANGED <<cache, accounts, disowned>> /\ job' = Null
  BY DEF AddFinalizer, ReleaseFinalizer, ReportStatus, sftpgoVars, Return
<1>3. JobVouched' /\ FreshJob' /\ JobStage'
  BY <1>2 DEF JobVouched, FreshJob, JobStage
<1>4. CASE UNCHANGED <<api, watch>>
  <2>1. NoSilentOrphan'
    BY <1>2, <1>4 DEF VouchInv, NoSilentOrphan, Claims
  <2> QED
    BY <1>1, <1>2, <1>3, <1>4, <2>1, QuietVouches DEF VouchInv
<1>5. CASE /\ AddFinalizer \/ ReportStatus
           /\ ~UNCHANGED <<api, watch>>
  <2>1. PICK v \in {[job.snap EXCEPT !.fin = TRUE], [job.snap EXCEPT !.status = NewStatus]} :
          Write(v)
    BY <1>5 DEF AddFinalizer, ReportStatus, Update, UpdateFails
  <2>2. ~job.stale /\ Store(job.key, v)
    BY <1>5, <2>1 DEF Write
  <2>3. v \in Object /\ v.spec = job.snap.spec /\ (job.snap.fin => v.fin)
    BY <1>1, NewStatusType DEF Object
  <2>4. api[job.key] = job.snap
    BY <1>1, <2>2, FreshSnapshot
  <2>5. v # Null /\ \A a \in Account : Claims(job.key, a) => v.fin /\ v.spec.account = a
    BY <2>3, <2>4, NullAssumption DEF Claims
  <2>6. KeepsClaims(job.key, v)
    BY <2>5 DEF KeepsClaims
  <2>7. NoSilentOrphan'
    <3>1. \A o \in Users, a \in Account : Claims(o, a) => Claims(o, a)'
      BY <1>1, <2>2, <2>5 DEF Store, Claims, TypeOK, KubeTypeOK
    <3> QED
      BY <1>2, <3>1 DEF VouchInv, NoSilentOrphan
  <2> QED
    BY <1>1, <1>2, <1>3, <2>2, <2>3, <2>6, <2>7, StoreVouches DEF VouchInv
<1>6. CASE ReleaseFinalizer /\ ~UNCHANGED <<api, watch>>
  <2> DEFINE v == Settled([job.snap EXCEPT !.fin = FALSE])
  <2>1. Write(v) /\ job.at = "release"
    BY <1>6 DEF ReleaseFinalizer, Update, UpdateFails, At
  <2>2. ~job.stale /\ Store(job.key, v)
    BY <1>6, <2>1 DEF Write
  <2>3. v \in Object \cup {Null}
    <3>1. [job.snap EXCEPT !.fin = FALSE] \in Object
      BY <1>1 DEF Object
    <3> QED
      BY <3>1, SettledType
  <2>4. ~Live(v)
    BY <1>1 DEF Settled, Live, Object
  <2>5. /\ api[job.key] = job.snap
        /\ NothingLive(job.key)
    BY <1>1, <2>1, <2>2, FreshSnapshot DEF VouchInv, JobStage, NothingLive, Live
  <2>6. \/ accounts[job.snap.spec.account] = Null
        \/ job.snap.spec.account \in disowned
    BY <1>1, <2>1 DEF VouchInv, JobStage
  <2>7. \A o \in Users, a \in Account :
          Claims(o, a) /\ a # job.snap.spec.account => Claims(o, a)'
    BY <1>1, <2>2, <2>5 DEF Store, Claims, TypeOK, KubeTypeOK
  <2>8. NoSilentOrphan'
    BY <1>2, <2>6, <2>7 DEF VouchInv, NoSilentOrphan
  <2> QED
    BY <1>1, <1>2, <1>3, <2>2, <2>3, <2>4, <2>5, <2>8, StoreVouches DEF VouchInv
<1> QED
  BY <1>4, <1>5, <1>6

LEMMA OwnersVouch ==
  ASSUME VouchInv, NEW o \in Users,
         UserCreates(o) \/ UserEdits(o) \/ UserDeletes(o) \/ OtherFinalizerGoes(o)
  PROVE  VouchInv'
<1>1. TypeOK /\ TypeOK'
  BY OwnersType DEF VouchInv
<1>2. /\ UNCHANGED <<cache, accounts>>
      /\ disowned \subseteq disowned'
      /\ Outdate(o)
  BY <1>1, OwnersStore DEF sftpgoVars
<1>3. PICK v \in Object \cup {Null} : Store(o, v) /\ KeepsClaims(o, v)
  BY <1>1, OwnersStore
<1>4. \A p \in Users, a \in Account :
        Claims(p, a) => a \in disowned' \/ Claims(p, a)'
  BY <1>1, <1>3 DEF Store, KeepsClaims, Claims, TypeOK, KubeTypeOK
<1>5. NoSilentOrphan'
  BY <1>2, <1>4 DEF VouchInv, NoSilentOrphan
<1>6. job = Null => job' = Null
  BY <1>2 DEF Outdate
<1>7. job # Null => /\ job' # Null
                    /\ job'.key = job.key /\ job'.snap = job.snap /\ job'.at = job.at
                    /\ ~job'.stale => ~job.stale /\ job.key # o
  <2> SUFFICES ASSUME job # Null
               PROVE  /\ job' # Null
                      /\ job'.key = job.key /\ job'.snap = job.snap /\ job'.at = job.at
                      /\ ~job'.stale => ~job.stale /\ job.key # o
    OBVIOUS
  <2>1. job \in Job
    BY <1>1 DEF TypeOK
  <2>2. CASE job.key = o
    <3>1. job' = [job EXCEPT !.stale = TRUE]
      BY <1>2, <2>2 DEF Outdate
    <3> QED
      BY <2>1, <3>1, NullAssumption DEF Job
  <2>3. CASE job.key # o
    BY <1>2, <2>3 DEF Outdate
  <2> QED
    BY <2>2, <2>3
<1>8. JobVouched'
  <2>1. job # Null => job.snap.spec.account \in Account
    BY <1>1, JobParts DEF MyAccount
  <2>2. job # Null => StaysVouched(job.key, job.snap)
    BY <1>1, <1>2, <1>4, <2>1, JobParts
       DEF VouchInv, JobVouched, Vouched, Claims, StaysVouched
  <2> QED
    BY <1>6, <1>7, <2>2 DEF JobVouched, Vouched, Claims, StaysVouched
<1>9. FreshJob'
  BY <1>1, <1>3, <1>6, <1>7 DEF VouchInv, FreshJob, Store, TypeOK, KubeTypeOK
<1>10. JobStage'
  BY <1>2, <1>6, <1>7 DEF VouchInv, JobStage
<1> QED
  BY <1>1, <1>2, <1>3, <1>5, <1>8, <1>9, <1>10, StoreVouches DEF VouchInv

LEMMA InformerVouches ==
  ASSUME VouchInv, NEW o \in Users, InformerDelivers(o) \/ InformerResyncs(o)
  PROVE  VouchInv'
<1>1. TypeOK /\ TypeOK'
  BY InformerType DEF VouchInv
<1>2. UNCHANGED <<api, accounts, disowned, job>>
  BY DEF InformerDelivers, InformerResyncs, Deliver, Resync, sftpgoVars
<1>3. NoSilentOrphan' /\ JobStage' /\ JobVouched'
  BY <1>2 DEF VouchInv, NoSilentOrphan, JobStage, JobVouched, Vouched, Claims
<1>4. CASE InformerResyncs(o)
  <2>1. UNCHANGED <<watch, cache>>
    BY <1>4 DEF InformerResyncs, Resync
  <2> QED
    BY <1>1, <1>2, <1>3, <2>1, QuietVouches DEF VouchInv, FreshJob
<1>5. CASE InformerDelivers(o)
  <2> DEFINE q == watch[o]
  <2>1. q \in Seq(Object \cup {Null}) /\ q # <<>>
    BY <1>1, <1>5 DEF InformerDelivers, Deliver, TypeOK, KubeTypeOK
  <2>2. /\ cache'[o] = Head(q) /\ watch'[o] = Tail(q)
        /\ \A p \in Users \ {o} : cache'[p] = cache[p] /\ watch'[p] = watch[p]
    BY <1>1, <1>5 DEF InformerDelivers, Deliver, TypeOK, KubeTypeOK
  <2>3. \A p \in Users : \A x : Vouched(p, x) => StaysVouched(p, x)
    BY <1>2 DEF Vouched, Claims, StaysVouched
  <2>4. \A i \in 1..Len(q) : StaysVouched(o, q[i])
    BY <2>3 DEF VouchInv, WatchVouched
  <2>5. CacheVouched'
    <3>1. StaysVouched(o, cache'[o])
      BY <2>1, <2>2, <2>4, TailFacts
    <3>2. \A p \in Users \ {o} : StaysVouched(p, cache'[p])
      BY <2>2, <2>3 DEF VouchInv, CacheVouched
    <3> QED
      BY <3>1, <3>2 DEF CacheVouched, Vouched, Claims, StaysVouched
  <2>6. WatchVouched'
    <3>1. \A i \in 1..Len(watch'[o]) : StaysVouched(o, watch'[o][i])
      BY <2>1, <2>2, <2>4, TailFacts
    <3>2. \A p \in Users \ {o} : \A i \in 1..Len(watch'[p]) : StaysVouched(p, watch'[p][i])
      BY <2>2, <2>3 DEF VouchInv, WatchVouched
    <3> QED
      BY <3>1, <3>2 DEF WatchVouched, Vouched, Claims, StaysVouched
  <2>7. q[Len(q)] = api[o]
    BY <2>1 DEF VouchInv, LastVersionIsStored
  <2>8. InformerCatchesUp' /\ LastVersionIsStored'
    <3>1. /\ watch'[o] = <<>> => cache'[o] = api'[o]
          /\ watch'[o] # <<>> => watch'[o][Len(watch'[o])] = api'[o]
      BY <1>2, <2>1, <2>2, <2>7, TailFacts
    <3> QED
      BY <1>2, <2>2, <3>1 DEF VouchInv, InformerCatchesUp, LastVersionIsStored
  <2>9. FreshJob'
    BY <1>1, <1>2, <2>1, <2>2, JobParts DEF VouchInv, FreshJob
  <2> QED
    BY <1>1, <1>3, <2>5, <2>6, <2>8, <2>9 DEF VouchInv
<1> QED
  BY <1>4, <1>5

\* The servers change behind the controller's back: accounts vanish, or come back
\* with a late POST, and are disowned then unless they are still claimed.
LEMMA ServersVouch ==
  ASSUME VouchInv, (\E s \in Servers : ServerChanges(s) \/ DatabaseLost(s)) \/ LateRequest
  PROVE  VouchInv'
<1>1. TypeOK /\ TypeOK'
  BY ServersType, LateRequestType DEF VouchInv
<1>2. UNCHANGED <<api, watch, cache>> /\ disowned \subseteq disowned'
  BY DEF ServerChanges, DatabaseLost, LateRequest, objectVars
<1>3. \A a \in Account :
        accounts'[a] # Null => accounts[a] # Null \/ a \in disowned' \/ ~GivenUp(a)
  <2>1. CASE \E s \in Servers : ServerChanges(s)
    BY <2>1 DEF ServerChanges, sftpgoVars
  <2>2. CASE \E s \in Servers : DatabaseLost(s)
    BY <2>2 DEF DatabaseLost, LoseData
  <2>3. CASE LateRequest
    <3>1. PICK r \in late :
            /\ Arrive(r)
            /\ r.method = "POST" /\ Accepts(r) /\ GivenUp(r.account)
                 => disowned' = disowned \cup {r.account}
      BY <2>3 DEF LateRequest
    <3>2. r \in Request
      BY <1>1 DEF TypeOK, SftpgoTypeOK
    <3>3. CASE Execute(r)
      BY <1>1, <3>1, <3>2, <3>3 DEF Execute, Accepts, TypeOK, SftpgoTypeOK, Request
    <3>4. CASE UNCHANGED accounts
      BY <3>4
    <3> QED
      BY <3>1, <3>3, <3>4 DEF Arrive
  <2> QED
    BY <2>1, <2>2, <2>3
<1>4. NoSilentOrphan'
  BY <1>2, <1>3 DEF VouchInv, NoSilentOrphan, Claims, GivenUp
<1>5. job = Null => job' = Null
  BY DEF ServerChanges, DatabaseLost, LateRequest, Disturb
<1>6. job # Null => /\ job' # Null
                    /\ job'.key = job.key /\ job'.snap = job.snap /\ job'.at = job.at
                    /\ job'.stale = job.stale
  BY <1>1, NullAssumption DEF TypeOK, ServerChanges, DatabaseLost, LateRequest, Disturb, Job
<1>7. JobVouched'
  <2>1. job # Null => StaysVouched(job.key, job.snap)
    BY <1>2 DEF VouchInv, JobVouched, Vouched, Claims, StaysVouched
  <2> QED
    BY <1>5, <1>6, <2>1 DEF JobVouched, Vouched, Claims, StaysVouched
<1>8. FreshJob'
  BY <1>2, <1>5, <1>6 DEF VouchInv, FreshJob
<1>9. JobStage'
  <2>1. job # Null /\ job.at = "release" => \/ accounts'[job.snap.spec.account] = Null
                                            \/ job.snap.spec.account \in disowned'
    BY <1>1, <1>2, <1>3, JobParts DEF VouchInv, JobStage, MyAccount, GivenUp, At
  <2> QED
    BY <1>5, <1>6, <2>1 DEF VouchInv, JobStage
<1> QED
  BY <1>1, <1>2, <1>4, <1>7, <1>8, <1>9, QuietVouches DEF VouchInv

LEMMA ManagerVouches ==
  ASSUME VouchInv, Crash \/ Tick
  PROVE  VouchInv'
<1>1. TypeOK /\ TypeOK'
  BY ManagerType DEF VouchInv
<1>2. UNCHANGED <<api, accounts, disowned>>
  <2>1. UNCHANGED <<api, disowned>>
    BY DEF Crash, Tick, Relist, objectVars
  <2>2. UNCHANGED accounts
    BY <1>1, CrashLeavesAccounts DEF Tick, sftpgoVars
  <2> QED
    BY <2>1, <2>2
<1>3. NoSilentOrphan'
  BY <1>2 DEF VouchInv, NoSilentOrphan, Claims
<1>4. CASE Crash
  <2>1. job' = Null /\ cache' = api /\ watch' = [p \in Users |-> <<>>]
    BY <1>4 DEF Crash, Relist
  <2>2. CacheVouched'
    BY <1>2, <2>1 DEF CacheVouched, Vouched, Live, Claims
  <2> QED
    BY <1>1, <1>2, <1>3, <2>1, <2>2
       DEF VouchInv, WatchVouched, JobVouched, InformerCatchesUp, LastVersionIsStored,
           FreshJob, JobStage
<1>5. CASE Tick
  <2>1. UNCHANGED <<watch, cache, job>>
    BY <1>5 DEF Tick, objectVars
  <2> QED
    BY <1>1, <1>2, <1>3, <2>1, QuietVouches
       DEF VouchInv, JobVouched, FreshJob, JobStage, Vouched, Claims
<1> QED
  BY <1>4, <1>5

LEMMA InitVouches == Init => VouchInv
<1> SUFFICES ASSUME Init PROVE VouchInv
  OBVIOUS
<1>1. TypeOK
  BY InitType
<1>2. WatchVouched /\ InformerCatchesUp /\ LastVersionIsStored
  BY DEF Init, KubeInit, WatchVouched, InformerCatchesUp, LastVersionIsStored
<1>3. CacheVouched
  BY DEF Init, KubeInit, CacheVouched, Vouched, Live
<1> QED
  BY <1>1, <1>2, <1>3 DEF Init, SftpgoInit, VouchInv, JobVouched, FreshJob, JobStage,
       NoSilentOrphan

LEMMA StepVouches == VouchInv /\ [Next]_vars => VouchInv'
<1> SUFFICES ASSUME VouchInv, [Next]_vars PROVE VouchInv'
  OBVIOUS
<1>1. CASE \E o \in Users : Plan(o)
  BY <1>1, PlanVouches
<1>2. CASE \E o \in Users : \/ UserCreates(o) \/ UserEdits(o)
                            \/ UserDeletes(o) \/ OtherFinalizerGoes(o)
  BY <1>2, OwnersVouch
<1>3. CASE \E o \in Users : InformerDelivers(o) \/ InformerResyncs(o)
  BY <1>3, InformerVouches
<1>4. CASE Work
  BY <1>4, ApiCallsVouch, HttpCallsVouch DEF Work
<1>5. CASE (\E s \in Servers : ServerChanges(s) \/ DatabaseLost(s)) \/ LateRequest
  BY <1>5, ServersVouch
<1>6. CASE Crash \/ Tick
  BY <1>6, ManagerVouches
<1>7. CASE UNCHANGED vars
  <2>1. TypeOK'
    BY <1>7, TypeStep DEF VouchInv
  <2> QED
    BY <1>7, <2>1 DEF vars, VouchInv, WatchVouched, CacheVouched, JobVouched,
         InformerCatchesUp, LastVersionIsStored, FreshJob, JobStage, NoSilentOrphan,
         Vouched, Claims
<1> QED
  BY <1>1, <1>2, <1>3, <1>4, <1>5, <1>6, <1>7 DEF Next

\* No account is ever left on a server without an object that answers for it,
\* unless the controller knowingly let go of it: for any number of objects (also
\* several that name one account), servers, crashes, lost and late calls.
THEOREM NoOrphans == Spec => []NoSilentOrphan
<1>1. Spec => []VouchInv
  BY InitVouches, StepVouches, PTL DEF Spec
<1>2. VouchInv => NoSilentOrphan
  BY DEF VouchInv
<1> QED
  BY <1>1, <1>2, PTL

--------------------------------------------------------------------------------
(****************************************************************************)
(* SyncedMeansApplied. The write of Synced comes after the answer to the    *)
(* PUT or POST, and other steps may run in between: the strengthening says  *)
(* what a job about to report Synced knows of its account. That the spec it *)
(* applied is the stored one comes from the resourceVersion (FreshJob).     *)
(****************************************************************************)
ReportIsTrue ==
  job # Null /\ job.at = "report" /\ job.reason = "Synced" /\ ~job.disturbed
  => /\ accounts[MyAccount] # Null
     /\ accounts[MyAccount].content = MyContent

SyncInv == VouchInv /\ ReportIsTrue

LEMMA UpsertApplies ==
  ASSUME SftpgoTypeOK, NEW a \in Account, NEW content \in Contents,
         NEW method \in {"PUT", "POST"}, UpsertUser(method, a, content, "ok")
  PROVE  accounts'[a] # Null /\ accounts'[a].content = content
<1> DEFINE r == [method |-> method, account |-> a, content |-> content]
<1>1. Execute(r)
  BY DEF UpsertUser, Send
<1>2. NextId \in 1..MaxId
  BY MaxIdAssumption DEF NextId, SftpgoTypeOK
<1>3. CASE method = "POST"
  <2>1. accounts' = [accounts EXCEPT ![a] = [content |-> content, id |-> NextId]]
    BY <1>1, <1>3 DEF Execute
  <2>2. accounts'[a] = [content |-> content, id |-> NextId]
    BY <2>1 DEF SftpgoTypeOK
  <2> QED
    BY <1>2, <2>2, NullAssumption
<1>4. CASE method = "PUT"
  <2>1. accounts[a] # Null /\ accounts' = [accounts EXCEPT ![a].content = content]
    BY <1>1, <1>4 DEF Execute, Accepts
  <2>2. accounts[a] \in [content: Contents, id: 1..MaxId]
    BY <2>1 DEF SftpgoTypeOK
  <2>3. /\ accounts'[a] = [accounts[a] EXCEPT !.content = content]
        /\ accounts'[a] \in [content: Contents, id: 1..MaxId]
    BY <2>1, <2>2 DEF SftpgoTypeOK
  <2> QED
    BY <2>2, <2>3, NullAssumption
<1> QED
  BY <1>3, <1>4

\* A job that begins, ends or is disturbed has nothing to report; one left alone,
\* with the accounts, keeps what it knows.
LEMMA QuietReport ==
  ASSUME TypeOK, ReportIsTrue,
         \/ job' = Null
         \/ job'.at # "report" \/ job'.reason # "Synced" \/ job'.disturbed
         \/ /\ job # Null /\ job' # Null /\ job'.snap = job.snap /\ job'.at = job.at
            /\ job'.reason = job.reason /\ job'.disturbed = job.disturbed
            /\ UNCHANGED accounts
         \/ UNCHANGED <<job, accounts>>
  PROVE  ReportIsTrue'
BY DEF ReportIsTrue, MyAccount, MyContent

LEMMA WorkReports ==
  ASSUME TypeOK, ReportIsTrue, Work
  PROVE  ReportIsTrue'
<1>1. job # Null /\ job \in Job
  BY JobParts DEF Work, AddFinalizer, ReleaseFinalizer, Fail, RemoveAccount, LookUpAccount,
       WriteAccount, ReportStatus, At
<1>2. CASE AddFinalizer \/ ReleaseFinalizer \/ Fail \/ ReportStatus
  <2>1. job' = Null
    BY <1>2 DEF AddFinalizer, ReleaseFinalizer, Fail, ReportStatus, Return
  <2> QED
    BY <2>1, QuietReport
<1>3. CASE RemoveAccount
  <2>1. job' = Null \/ job' = [job EXCEPT !.at = "release"]
    BY <1>3 DEF RemoveAccount, Goto, Return
  <2>2. job' = Null \/ (job' # Null /\ job'.at # "report")
    BY <1>1, <2>1, JobParts DEF Job
  <2> QED
    BY <2>2, QuietReport
<1>4. CASE LookUpAccount
  <2>1. \/ job' = [job EXCEPT !.at = "upsert", !.found = GetUser(MyAccount)]
        \/ \E retry : Report("ValidationError", retry) \/ Report("APIError", retry)
    BY <1>4 DEF LookUpAccount
  <2>2. job'.at = "upsert" \/ job'.reason \in {"ValidationError", "APIError"}
    BY <1>1, <2>1 DEF Report, Job
  <2> QED
    BY <2>2, QuietReport
<1>5. CASE WriteAccount
  <2> DEFINE method == IF job.found # 0 THEN "PUT" ELSE "POST"
  <2>1. \/ UpsertUser(method, MyAccount, MyContent, "ok")
        \/ \E retry : Report("APIError", retry)
    BY <1>5 DEF WriteAccount, Upsert
  <2>2. CASE \E retry : Report("APIError", retry)
    <3>1. job'.reason = "APIError" \/ job' = Null
      BY <1>1, <2>2 DEF Report, Job
    <3> QED
      BY <3>1, QuietReport
  <2>3. CASE UpsertUser(method, MyAccount, MyContent, "ok")
    <3>1. accounts'[MyAccount] # Null /\ accounts'[MyAccount].content = MyContent
      <4>1. MyAccount \in Account /\ MyContent \in Contents /\ SftpgoTypeOK
        BY <1>1, JobParts DEF TypeOK
      <4>2. method \in {"PUT", "POST"}
        OBVIOUS
      <4> HIDE DEF method
      <4> QED
        BY <2>3, <4>1, <4>2, UpsertApplies
    <3>2. job'.snap = job.snap
      BY <1>1, <1>5 DEF WriteAccount, Report, Job
    <3> QED
      BY <3>1, <3>2 DEF ReportIsTrue, MyAccount, MyContent
  <2> QED
    BY <2>1, <2>2, <2>3
<1> QED
  BY <1>2, <1>3, <1>4, <1>5 DEF Work

LEMMA StepReports == TypeOK /\ ReportIsTrue /\ [Next]_vars => ReportIsTrue'
<1> SUFFICES ASSUME TypeOK, ReportIsTrue, [Next]_vars PROVE ReportIsTrue'
  OBVIOUS
<1>1. CASE \E o \in Users : Plan(o)
  <2>1. PICK o \in Users : Plan(o)
    BY <1>1
  <2>2. \/ UNCHANGED <<job, accounts>>
        \/ /\ job'.at # "report" \/ job'.reason # "Synced"
           /\ UNCHANGED accounts
    BY <2>1 DEF Plan, PlanGone, PlanFinalizer, PlanDelete, PlanRefusal, PlanSync, Take,
         Start, sftpgoVars
  <2> QED
    BY <2>2, QuietReport
<1>2. CASE \E o \in Users : \/ UserCreates(o) \/ UserEdits(o)
                            \/ UserDeletes(o) \/ OtherFinalizerGoes(o)
  <2>1. PICK o \in Users : Outdate(o) /\ UNCHANGED accounts
    BY <1>2 DEF UserCreates, UserEdits, UserDeletes, OtherFinalizerGoes, sftpgoVars
  <2>2. \/ UNCHANGED job
        \/ job # Null /\ job' = [job EXCEPT !.stale = TRUE]
    BY <2>1 DEF Outdate
  <2>3. \/ UNCHANGED job
        \/ job' = Null
        \/ /\ job # Null /\ job' # Null /\ job'.snap = job.snap /\ job'.at = job.at
           /\ job'.reason = job.reason /\ job'.disturbed = job.disturbed
    BY <2>2, JobParts DEF Job
  <2> QED
    BY <2>1, <2>3, QuietReport
<1>3. CASE \E o \in Users : InformerDelivers(o) \/ InformerResyncs(o)
  <2>1. UNCHANGED <<job, accounts>>
    BY <1>3 DEF InformerDelivers, InformerResyncs, sftpgoVars
  <2> QED
    BY <2>1, QuietReport
<1>4. CASE Work
  BY <1>4, WorkReports
<1>5. CASE (\E s \in Servers : DatabaseLost(s)) \/ LateRequest
  <2>1. Disturb
    BY <1>5 DEF DatabaseLost, LateRequest
  <2>2. job' = Null \/ (job' # Null /\ job'.disturbed)
    BY <2>1, JobParts DEF Disturb, Job
  <2> QED
    BY <2>2, QuietReport
<1>6. CASE (\E s \in Servers : ServerChanges(s)) \/ Crash \/ Tick \/ UNCHANGED vars
  <2>1. job' = Null \/ UNCHANGED <<job, accounts>>
    BY <1>6 DEF ServerChanges, Crash, Tick, vars, sftpgoVars
  <2> QED
    BY <2>1, QuietReport
<1> QED
  BY <1>1, <1>2, <1>3, <1>4, <1>5, <1>6 DEF Next

\* Which steps write a status.
LEMMA StatusWriters ==
  ASSUME VouchInv, [Next]_vars, NEW o \in Users,
         api[o] # Null, api'[o] # Null, api'[o].status # api[o].status
  PROVE  ReportStatus /\ o = job.key /\ ~job.stale /\ api'[o].status = NewStatus
<1> USE DEF VouchInv
<1>1. api[o] \in Object /\ api'[o] # api[o]
  BY DEF TypeOK, KubeTypeOK
<1>2. ~UNCHANGED api
  BY <1>1
<1>3. CASE \E p \in Users : \/ UserCreates(p) \/ UserEdits(p)
                            \/ UserDeletes(p) \/ OtherFinalizerGoes(p)
  <2>1. PICK p \in Users : UserCreates(p) \/ UserEdits(p)
                             \/ UserDeletes(p) \/ OtherFinalizerGoes(p)
    BY <1>3
  <2>2. p = o
    BY <1>1, <2>1 DEF UserCreates, UserEdits, UserDeletes, OtherFinalizerGoes,
         Create, Edit, Delete, Unhold, Store, TypeOK, KubeTypeOK
  <2>3. \/ \E s \in Specs : api'[o] = [api[o] EXCEPT !.spec = s]
        \/ \E b \in BOOLEAN : api'[o] = Settled([api[o] EXCEPT !.deleting = TRUE, !.held = b])
        \/ api'[o] = Settled([api[o] EXCEPT !.held = FALSE])
    BY <2>1, <2>2 DEF UserCreates, UserEdits, UserDeletes, OtherFinalizerGoes,
         Create, Edit, Delete, Unhold, Store, TypeOK, KubeTypeOK
  <2>4. api'[o].status = api[o].status
    BY <1>1, <2>3 DEF Settled, Object
  <2> QED
    BY <2>4
<1>4. CASE Work
  <2>1. job # Null /\ job \in Job /\ job.key \in Users /\ job.snap \in Object
    BY <1>4, JobParts DEF Work, AddFinalizer, ReleaseFinalizer, Fail, RemoveAccount,
         LookUpAccount, WriteAccount, ReportStatus, At
  <2>2. CASE AddFinalizer \/ ReleaseFinalizer
    <3>1. PICK v \in {[job.snap EXCEPT !.fin = TRUE],
                      Settled([job.snap EXCEPT !.fin = FALSE])} : Write(v)
      BY <1>2, <2>2 DEF AddFinalizer, ReleaseFinalizer, Update, UpdateFails
    <3>2. ~job.stale /\ Store(job.key, v)
      BY <1>2, <3>1 DEF Write
    <3>3. api[job.key] = job.snap
      BY <2>1, <3>2, FreshSnapshot
    <3>4. o = job.key /\ api'[o] = v
      BY <1>1, <2>1, <3>2 DEF Store, TypeOK, KubeTypeOK
    <3>5. api'[o].status = api[o].status
      BY <2>1, <3>1, <3>3, <3>4 DEF Settled, Object
    <3> QED
      BY <3>5
  <2>3. CASE ReportStatus
    <3> DEFINE v == [job.snap EXCEPT !.status = NewStatus]
    <3>1. ~job.stale /\ Store(job.key, v)
      BY <1>2, <2>3 DEF ReportStatus, Update, UpdateFails, Write
    <3>2. o = job.key /\ api'[o] = v
      BY <1>1, <2>1, <3>1 DEF Store, TypeOK, KubeTypeOK
    <3>3. v.status = NewStatus
      BY <2>1 DEF Object
    <3> QED
      BY <2>3, <3>1, <3>2, <3>3
  <2>4. CASE Fail \/ RemoveAccount \/ LookUpAccount \/ WriteAccount
    BY <1>2, <2>4 DEF Fail, RemoveAccount, LookUpAccount, WriteAccount
  <2> QED
    BY <1>4, <2>2, <2>3, <2>4 DEF Work
<1>5. CASE \/ \E p \in Users : Plan(p) \/ InformerDelivers(p) \/ InformerResyncs(p)
           \/ \E s \in Servers : ServerChanges(s) \/ DatabaseLost(s)
           \/ LateRequest \/ Crash \/ Tick \/ UNCHANGED vars
  <2>1. UNCHANGED api
    BY <1>5 DEF Plan, PlanGone, PlanFinalizer, PlanDelete, PlanRefusal, PlanSync, Take,
         InformerDelivers, InformerResyncs, Deliver, Resync, ServerChanges, DatabaseLost,
         LateRequest, Crash, Relist, Tick, objectVars, vars
  <2> QED
    BY <1>2, <2>1
<1> QED
  BY <1>3, <1>4, <1>5 DEF Next

\* A status write that says Synced tells the truth about the stored spec and the
\* account on the server, however old the controller's cache is: for any number
\* of objects (also several that name one account), servers, crashes and lost calls.
THEOREM SyncedIsTrue == Spec => SyncedMeansApplied
<1>1. Init => SyncInv
  BY InitVouches DEF SyncInv, ReportIsTrue, Init
<1>2. SyncInv /\ [Next]_vars => SyncInv'
  BY StepVouches, StepReports DEF SyncInv, VouchInv
<1> DEFINE Truthful(o) ==
       /\ api[o] # Null /\ api'[o] # Null
       /\ api'[o].status # api[o].status
       /\ api'[o].status.reason = "Synced"
       /\ ~job.disturbed
       => LET a == accounts[api[o].spec.account]
          IN a # Null /\ a.content = api[o].spec.content
<1>3. SyncInv /\ [Next]_vars => [\A o \in Users : Truthful(o)]_vars
  <2> SUFFICES ASSUME SyncInv, [Next]_vars, NEW o \in Users,
                      api[o] # Null, api'[o] # Null, api'[o].status # api[o].status,
                      api'[o].status.reason = "Synced", ~job.disturbed
               PROVE  /\ accounts[api[o].spec.account] # Null
                      /\ accounts[api[o].spec.account].content = api[o].spec.content
    OBVIOUS
  <2>1. ReportStatus /\ o = job.key /\ ~job.stale /\ NewStatus.reason = "Synced"
    BY StatusWriters DEF SyncInv
  <2>2. job # Null /\ job.at = "report" /\ job.snap \in Object /\ api[o] = job.snap
    BY <2>1, FreshSnapshot DEF SyncInv, ReportStatus, At
  <2>3. job.reason = "Synced"
    BY <2>1, <2>2 DEF NewStatus, Object, UserStatus
  <2> QED
    BY <2>2, <2>3 DEF SyncInv, ReportIsTrue, MyAccount, MyContent
<1> QED
  BY <1>1, <1>2, <1>3, PTL DEF Spec, SyncedMeansApplied

--------------------------------------------------------------------------------
(****************************************************************************)
(* What the controller makes of an object when it writes it.                *)
(****************************************************************************)
LEMMA WritesOverTheStored ==
  ASSUME VouchInv, AddFinalizer \/ ReleaseFinalizer \/ ReportStatus, ~UNCHANGED api
  PROVE  LET v == api[job.key]
             w == api'[job.key]
         IN /\ v \in Object
            /\ \A o \in Users \ {job.key} : api'[o] = api[o]
            /\ w = Null => v.deleting
            /\ w # Null => /\ w \in Object /\ w.spec = v.spec /\ w.deleting = v.deleting
                           /\ v.fin /\ ~v.deleting => w.fin
<1>1. job # Null /\ TypeOK
  BY DEF AddFinalizer, ReleaseFinalizer, ReportStatus, At, VouchInv
<1>2. job.key \in Users /\ job.snap \in Object /\ NewStatus \in UserStatus
  BY <1>1, JobParts, NewStatusType
<1>3. PICK w : /\ ~job.stale /\ Store(job.key, w)
               /\ \/ w = [job.snap EXCEPT !.fin = TRUE]
                  \/ w = [job.snap EXCEPT !.status = NewStatus]
                  \/ w = Settled([job.snap EXCEPT !.fin = FALSE]) /\ job.at = "release"
  BY DEF AddFinalizer, ReleaseFinalizer, ReportStatus, Update, UpdateFails, Write, At
<1>4. api[job.key] = job.snap
  BY <1>1, <1>3, FreshSnapshot
<1>5. api'[job.key] = w /\ \A o \in Users \ {job.key} : api'[o] = api[o]
  BY <1>1, <1>2, <1>3 DEF Store, TypeOK, KubeTypeOK
<1>6. CASE w \in {[job.snap EXCEPT !.fin = TRUE], [job.snap EXCEPT !.status = NewStatus]}
  <2>1. /\ w \in Object /\ w.spec = job.snap.spec /\ w.deleting = job.snap.deleting
        /\ job.snap.fin => w.fin
    BY <1>2, <1>6 DEF Object
  <2> QED
    BY <1>2, <1>4, <1>5, <2>1, NullAssumption
<1>7. CASE w = Settled([job.snap EXCEPT !.fin = FALSE]) /\ job.at = "release"
  <2>1. job.snap.deleting
    BY <1>1, <1>7 DEF VouchInv, JobStage
  <2>2. w # Null => /\ w \in Object /\ w.spec = job.snap.spec
                    /\ w.deleting = job.snap.deleting
    BY <1>2, <1>7 DEF Settled, Object
  <2> QED
    BY <1>2, <1>4, <1>5, <2>1, <2>2
<1> QED
  BY <1>3, <1>6, <1>7

LEMMA OwnersStep ==
  ASSUME TypeOK, NEW p \in Users, NEW o \in Users,
         UserCreates(p) \/ UserEdits(p) \/ UserDeletes(p) \/ OtherFinalizerGoes(p)
  PROVE  OwnerDecides(o)
<1>1. CASE p # o
  BY <1>1 DEF UserCreates, UserEdits, UserDeletes, OtherFinalizerGoes, Create, Edit, Delete,
       Unhold, Store, TypeOK, KubeTypeOK, OwnerDecides, Live, Spend
<1>2. CASE p = o /\ (UserCreates(o) \/ UserEdits(o))
  <2>1. edits' # edits
    BY <1>2 DEF UserCreates, UserEdits, Spend, TypeOK
  <2>2. CASE UserCreates(o)
    BY <2>1, <2>2 DEF UserCreates, Create, OwnerDecides, Live
  <2>3. CASE UserEdits(o)
    <3>1. PICK s \in Specs : Edit(o, s)
      BY <2>3 DEF UserEdits
    <3>2. api[o] \in Object /\ api'[o] = [api[o] EXCEPT !.spec = s]
      BY <3>1 DEF Edit, Store, TypeOK, KubeTypeOK
    <3>3. api'[o] \in Object /\ api'[o].fin = api[o].fin
      BY <3>2, SpecsAssumption DEF Object
    <3> QED
      BY <2>1, <3>3, NullAssumption DEF OwnerDecides, Live
  <2> QED
    BY <1>2, <2>2, <2>3
<1>3. CASE p = o /\ (UserDeletes(o) \/ OtherFinalizerGoes(o))
  <2>1. api[o] # Null /\ api[o] \in Object
    BY <1>3 DEF UserDeletes, OtherFinalizerGoes, Delete, Unhold, TypeOK, KubeTypeOK
  <2>2. PICK w : /\ api'[o] = Settled(w)
                 /\ \/ \E b \in BOOLEAN : w = [api[o] EXCEPT !.deleting = TRUE, !.held = b]
                    \/ w = [api[o] EXCEPT !.held = FALSE]
    BY <1>3 DEF UserDeletes, OtherFinalizerGoes, Delete, Unhold, Store, TypeOK, KubeTypeOK
  <2>3. /\ w \in Object /\ w.spec = api[o].spec /\ w.fin = api[o].fin
        /\ api[o].deleting => w.deleting
    BY <2>1, <2>2 DEF Object
  <2>4. api'[o] # Null => api'[o] = w
    BY <2>2 DEF Settled
  <2>5. api[o].fin => api'[o] = w
    BY <2>2, <2>3 DEF Settled
  <2> QED
    BY <2>1, <2>3, <2>4, <2>5, NullAssumption DEF OwnerDecides, Live
<1> QED
  BY <1>1, <1>2, <1>3

\* The controller never undoes what an owner did, however old the version is that it
\* writes back: for any number of objects, edits, conflicts and crashes.
THEOREM OwnersAlwaysDecide == Spec => OwnersDecide
<1>1. VouchInv /\ [Next]_vars => [\A o \in Users : OwnerDecides(o)]_vars
  <2> SUFFICES ASSUME VouchInv, [Next]_vars, NEW o \in Users PROVE OwnerDecides(o)
    OBVIOUS
  <2> USE DEF VouchInv
  <2>1. CASE UNCHANGED api
    BY <2>1 DEF OwnerDecides, Live
  <2>2. CASE /\ AddFinalizer \/ ReleaseFinalizer \/ ReportStatus
             /\ ~UNCHANGED api
    <3>1. CASE o = job.key
      BY <2>2, <3>1, WritesOverTheStored, NullAssumption DEF OwnerDecides, Live
    <3>2. CASE o # job.key
      BY <2>2, <3>2, WritesOverTheStored DEF OwnerDecides, Live
    <3> QED
      BY <3>1, <3>2
  <2>3. CASE \E p \in Users : \/ UserCreates(p) \/ UserEdits(p)
                              \/ UserDeletes(p) \/ OtherFinalizerGoes(p)
    BY <2>3, OwnersStep
  <2>4. CASE Fail \/ RemoveAccount \/ LookUpAccount \/ WriteAccount
    BY <2>1, <2>4 DEF Fail, RemoveAccount, LookUpAccount, WriteAccount
  <2>5. CASE \/ \E p \in Users : Plan(p) \/ InformerDelivers(p) \/ InformerResyncs(p)
             \/ \E s \in Servers : ServerChanges(s) \/ DatabaseLost(s)
             \/ LateRequest \/ Crash \/ Tick \/ UNCHANGED vars
    BY <2>1, <2>5 DEF Plan, PlanGone, PlanFinalizer, PlanDelete, PlanRefusal, PlanSync, Take,
         InformerDelivers, InformerResyncs, Deliver, Resync, ServerChanges, DatabaseLost,
         LateRequest, Crash, Relist, Tick, objectVars, vars
  <2> QED
    BY <2>1, <2>2, <2>3, <2>4, <2>5 DEF Next, Work
<1> QED
  BY <1>1, InitVouches, StepVouches, PTL DEF Spec, OwnersDecide
================================================================================
