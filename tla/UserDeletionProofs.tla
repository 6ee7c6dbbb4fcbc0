-------------------------- MODULE UserDeletionProofs ---------------------------
(****************************************************************************)
(* DeletesOnlyTheDeleted, for any number of objects no two of which ever    *)
(* name one account. (Where two do, it fails: the second DELETE of an       *)
(* object that is already gone hits what the other one created.)            *)
(*                                                                          *)
(* The DELETE is sent on behalf of a version that may have been superseded  *)
(* several times. The argument follows the versions with a deletion         *)
(* timestamp from the watch to the job: the object they belong to is still  *)
(* being deleted, or its finalizer is gone, but then so is the account.     *)
(* Only a job of the same object, created again, could bring it back, or a  *)
(* late POST while that object claims it, and an object created again is    *)
(* given the finalizer by a job that has seen its new version first.        *)
(****************************************************************************)
EXTENDS UserControllerProofs

\* own[a] is the one object that may name account a.
Apart(own) == \A o \in Users : api[o] # Null => own[api[o].spec.account] = o

Dying(v) == v # Null /\ v.fin /\ v.deleting

\* A DELETE on behalf of version v of o is what o's owner asked for.
Asked(o, v) == \/ v.spec.account \in disowned
               \/ Claims(o, v.spec.account) /\ api[o].deleting

AskedOrGone(o, v) == Asked(o, v) \/ accounts[v.spec.account] = Null

Named(own, o, v) == v # Null => own[v.spec.account] = o

\* Every version the controller may still act on names an account of its object.
NamedApart(own) ==
  \A o \in Users : /\ \A i \in 1..Len(watch[o]) : Named(own, o, watch[o][i])
                   /\ Named(own, o, cache[o])
JobNamed(own) == job # Null => Named(own, job.key, job.snap)

WatchAsked == \A o \in Users : \A i \in 1..Len(watch[o]) :
                Dying(watch[o][i]) => Asked(o, watch[o][i])
CacheAsked == \A o \in Users : Dying(cache[o]) => AskedOrGone(o, cache[o])
DeleteAsked == job # Null /\ job.at = "delete" => AskedOrGone(job.key, job.snap)
\* A job about to write an account has not yet released the object's finalizer.
WriterPrecedes == job # Null /\ job.at \in {"get", "upsert"} /\ Dying(cache[job.key])
                  => Asked(job.key, cache[job.key])

\* While the controller may act on a version of o that was being deleted, the stored
\* o has not been given the finalizer again, after it was created again.
NotRevived ==
  \A o \in Users :
    \/ \E i \in 1..Len(watch[o]) : Dying(watch[o][i])
    \/ Dying(cache[o])
    \/ job # Null /\ job.at = "delete" /\ job.key = o
    => ~Live(api[o])

DeletionInv(own) ==
  /\ VouchInv
  /\ NamedApart(own) /\ JobNamed(own)
  /\ NotRevived
  /\ WatchAsked /\ CacheAsked /\ DeleteAsked /\ WriterPrecedes

--------------------------------------------------------------------------------
(****************************************************************************)
(* What one step does to versions, to the job, to claims and to accounts.   *)
(****************************************************************************)
LEMMA StoreAppends ==
  ASSUME TypeOK, NEW p \in Users, NEW v \in Object \cup {Null}, Store(p, v),
         NEW o \in Users, NEW i \in 1..Len(watch'[o])
  PROVE  watch'[o][i] = api'[o] \/ \E j \in 1..Len(watch[o]) : watch'[o][i] = watch[o][j]
<1> DEFINE q == watch[p]
<1>1. q \in Seq(Object \cup {Null})
  BY DEF TypeOK, KubeTypeOK
<1>2. api'[p] = v /\ watch'[p] = Append(q, v) /\ (o # p => watch'[o] = watch[o])
  BY DEF Store, TypeOK, KubeTypeOK
<1>3. CASE o # p
  BY <1>2, <1>3
<1>4. CASE o = p
  <2>1. i \in 1..Len(q) \/ i = Len(q) + 1
    BY <1>1, <1>2, <1>4, AppendFacts
  <2>2. i \in 1..Len(q) => watch'[o][i] = q[i]
    BY <1>1, <1>2, <1>4, AppendFacts
  <2>3. i = Len(q) + 1 => watch'[o][i] = v
    BY <1>1, <1>2, <1>4, AppendFacts
  <2> QED
    BY <1>2, <1>4, <2>1, <2>2, <2>3
<1> QED
  BY <1>3, <1>4

\* Which steps store a version, and what else they leave alone.
LEMMA Storers ==
  ASSUME TypeOK, [Next]_vars
  PROVE  \/ /\ \E p \in Users, v \in Object \cup {Null} : Store(p, v)
            /\ UNCHANGED cache
         \/ \E p \in Users : Deliver(p)
         \/ Relist
         \/ UNCHANGED <<api, watch, cache>>
<1>1. CASE \E o \in Users : Plan(o) \/ InformerDelivers(o) \/ InformerResyncs(o)
  BY <1>1 DEF Plan, PlanGone, PlanFinalizer, PlanDelete, PlanRefusal, PlanSync, Take,
       InformerDelivers, InformerResyncs, Resync
<1>2. CASE \E o \in Users : \/ UserCreates(o) \/ UserEdits(o)
                            \/ UserDeletes(o) \/ OtherFinalizerGoes(o)
  BY <1>2, OwnersStore
<1>3. CASE AddFinalizer \/ ReleaseFinalizer \/ ReportStatus
  <2>1. job # Null
    BY <1>3 DEF AddFinalizer, ReleaseFinalizer, ReportStatus, At
  <2>2. job.key \in Users /\ job.snap \in Object /\ NewStatus \in UserStatus
    BY <2>1, JobParts, NewStatusType
  <2>3. /\ [job.snap EXCEPT !.fin = TRUE] \in Object
        /\ [job.snap EXCEPT !.status = NewStatus] \in Object
        /\ Settled([job.snap EXCEPT !.fin = FALSE]) \in Object \cup {Null}
    <3>1. [job.snap EXCEPT !.fin = FALSE] \in Object
      BY <2>2 DEF Object
    <3> QED
      BY <2>2, <3>1, SettledType DEF Object
  <2> QED
    BY <1>3, <2>2, <2>3 DEF AddFinalizer, ReleaseFinalizer, ReportStatus, Update, UpdateFails,
         Write
<1>4. CASE Fail \/ RemoveAccount \/ LookUpAccount \/ WriteAccount
  BY <1>4 DEF Fail, RemoveAccount, LookUpAccount, WriteAccount
<1>5. CASE \/ \E s \in Servers : ServerChanges(s) \/ DatabaseLost(s)
           \/ LateRequest \/ Tick \/ UNCHANGED vars
  BY <1>5 DEF ServerChanges, DatabaseLost, LateRequest, Tick, objectVars, vars
<1>6. CASE Crash
  BY <1>6 DEF Crash
<1> QED
  BY <1>1, <1>2, <1>3, <1>4, <1>5, <1>6 DEF Next, Work

\* A version the controller can see was seen before, or is the stored one.
LEMMA Pipeline ==
  ASSUME TypeOK, [Next]_vars, NEW o \in Users
  PROVE  /\ \A i \in 1..Len(watch'[o]) :
              \/ watch'[o][i] = api'[o]
              \/ \E j \in 1..Len(watch[o]) : watch'[o][i] = watch[o][j]
         /\ \/ cache'[o] = cache[o]
            \/ cache'[o] = api'[o]
            \/ \E j \in 1..Len(watch[o]) : cache'[o] = watch[o][j]
<1>1. CASE \E p \in Users, v \in Object \cup {Null} : Store(p, v) /\ UNCHANGED cache
  BY <1>1, StoreAppends
<1>2. CASE \E p \in Users : Deliver(p)
  <2>1. PICK p \in Users : Deliver(p)
    BY <1>2
  <2> DEFINE q == watch[p]
  <2>2. q \in Seq(Object \cup {Null}) /\ q # <<>>
    BY <2>1 DEF Deliver, TypeOK, KubeTypeOK
  <2>3. /\ cache'[p] = Head(q) /\ watch'[p] = Tail(q)
        /\ o # p => cache'[o] = cache[o] /\ watch'[o] = watch[o]
    BY <2>1 DEF Deliver, TypeOK, KubeTypeOK
  <2>4. Head(q) = q[1] /\ 1 \in 1..Len(q)
    BY <2>2, TailFacts
  <2>5. \A i \in 1..Len(Tail(q)) : i + 1 \in 1..Len(q) /\ Tail(q)[i] = q[i + 1]
    BY <2>2, TailFacts
  <2> QED
    BY <2>3, <2>4, <2>5
<1>3. CASE Relist
  <2>1. cache'[o] = api'[o] /\ watch'[o] = <<>>
    BY <1>3 DEF Relist
  <2> QED
    BY <2>1
<1>4. CASE UNCHANGED <<api, watch, cache>>
  BY <1>4
<1> QED
  BY <1>1, <1>2, <1>3, <1>4, Storers

\* A job goes on with the version it holds, or begins with the cached one.
Continues ==
  /\ job # Null /\ job'.key = job.key /\ job'.snap = job.snap
  /\ job'.at = "delete" => job.at = "delete"
  /\ job'.at \in {"get", "upsert"} => job.at \in {"get", "upsert"}
Begins(o) ==
  /\ job'.key = o /\ job'.snap = cache[o]
  /\ job'.at = "delete" => Dying(cache[o])
  /\ job'.at \in {"get", "upsert"} => Live(cache[o])
  /\ UNCHANGED <<api, watch, cache, accounts>>

LEMMA JobStep ==
  ASSUME TypeOK, [Next]_vars, job' # Null
  PROVE  Continues \/ \E o \in Users : Begins(o)
<1>1. CASE \E o \in Users : Plan(o)
  <2>1. PICK o \in Users : Plan(o)
    BY <1>1
  <2>2. UNCHANGED <<api, watch, cache, accounts>> /\ job = Null
    BY <2>1 DEF Plan, PlanGone, PlanFinalizer, PlanDelete, PlanRefusal, PlanSync, Take,
         sftpgoVars
  <2>3. CASE PlanGone(o)
    BY <2>2, <2>3 DEF PlanGone
  <2>4. CASE PlanFinalizer(o)
    BY <2>2, <2>4 DEF PlanFinalizer, Start, Begins
  <2>5. CASE PlanDelete(o)
    BY <2>2, <2>5 DEF PlanDelete, Start, Begins, Dying
  <2>6. CASE PlanRefusal(o)
    BY <2>2, <2>6 DEF PlanRefusal, Start, Begins
  <2>7. CASE PlanSync(o)
    BY <2>2, <2>7 DEF PlanSync, Start, Begins
  <2> QED
    BY <2>1, <2>3, <2>4, <2>5, <2>6, <2>7 DEF Plan
<1>2. CASE Work
  <2>1. job # Null /\ job \in Job
    BY <1>2, JobParts DEF Work, AddFinalizer, ReleaseFinalizer, Fail, RemoveAccount,
         LookUpAccount, WriteAccount, ReportStatus, At
  <2>2. CASE AddFinalizer \/ ReleaseFinalizer \/ Fail \/ ReportStatus
    BY <2>2 DEF AddFinalizer, ReleaseFinalizer, Fail, ReportStatus, Return
  <2>3. CASE RemoveAccount
    BY <2>1, <2>3 DEF RemoveAccount, Goto, Return, Continues, Job
  <2>4. CASE LookUpAccount
    BY <2>1, <2>4 DEF LookUpAccount, Report, At, Continues, Job
  <2>5. CASE WriteAccount
    BY <2>1, <2>5 DEF WriteAccount, Report, Continues, Job
  <2> QED
    BY <1>2, <2>2, <2>3, <2>4, <2>5 DEF Work
<1>3. CASE \E o \in Users : \/ UserCreates(o) \/ UserEdits(o)
                            \/ UserDeletes(o) \/ OtherFinalizerGoes(o)
  <2>1. \E o \in Users : Outdate(o)
    BY <1>3 DEF UserCreates, UserEdits, UserDeletes, OtherFinalizerGoes
  <2>2. job # Null /\ (job' = job \/ job' = [job EXCEPT !.stale = TRUE])
    BY <2>1 DEF Outdate
  <2> QED
    BY <2>2, JobParts DEF Continues, Job
<1>4. CASE (\E s \in Servers : DatabaseLost(s)) \/ LateRequest
  <2>1. job # Null /\ job' = [job EXCEPT !.disturbed = TRUE]
    BY <1>4 DEF DatabaseLost, LateRequest, Disturb
  <2> QED
    BY <2>1, JobParts DEF Continues, Job
<1>5. CASE \/ \E o \in Users : InformerDelivers(o) \/ InformerResyncs(o)
           \/ \E s \in Servers : ServerChanges(s)
           \/ Tick \/ UNCHANGED vars
  BY <1>5 DEF InformerDelivers, InformerResyncs, ServerChanges, Tick, vars, Continues
<1>6. CASE Crash
  BY <1>6 DEF Crash
<1> QED
  BY <1>1, <1>2, <1>3, <1>4, <1>5, <1>6 DEF Next

LEMMA DisownedGrows ==
  ASSUME TypeOK, [Next]_vars
  PROVE  disowned \subseteq disowned'
<1>1. CASE \E o \in Users : Plan(o)
  BY <1>1 DEF Plan, PlanGone, PlanFinalizer, PlanDelete, PlanRefusal, PlanSync
<1>2. CASE \E o \in Users : \/ UserCreates(o) \/ UserEdits(o)
                            \/ UserDeletes(o) \/ OtherFinalizerGoes(o)
  BY <1>2, OwnersStore
<1>3. CASE Work
  BY <1>3 DEF Work, AddFinalizer, ReleaseFinalizer, Fail, RemoveAccount, LookUpAccount,
       WriteAccount, ReportStatus
<1>4. CASE LateRequest
  BY <1>4 DEF LateRequest
<1>5. CASE \/ \E o \in Users : InformerDelivers(o) \/ InformerResyncs(o)
           \/ \E s \in Servers : ServerChanges(s) \/ DatabaseLost(s)
           \/ Crash \/ Tick \/ UNCHANGED vars
  BY <1>5 DEF InformerDelivers, InformerResyncs, ServerChanges, DatabaseLost, Crash, Tick, vars
<1> QED
  BY <1>1, <1>2, <1>3, <1>4, <1>5 DEF Next

\* An owner's step on an object that is being deleted and has the controller's
\* finalizer leaves it so; renamed, the account is disowned.
LEMMA OwnersKeepAsking ==
  ASSUME TypeOK, NEW p \in Users,
         UserCreates(p) \/ UserEdits(p) \/ UserDeletes(p) \/ OtherFinalizerGoes(p),
         NEW o \in Users, NEW a \in Account, Claims(o, a), api[o].deleting
  PROVE  a \in disowned' \/ (Claims(o, a)' /\ api'[o].deleting)
<1>1. api[o] \in Object /\ api[o] # Null /\ api[o].fin /\ api[o].spec.account = a
  BY DEF Claims, TypeOK, KubeTypeOK
<1>2. CASE p # o
  <2>1. api'[o] = api[o]
    BY <1>2 DEF UserCreates, UserEdits, UserDeletes, OtherFinalizerGoes, Create, Edit,
         Delete, Unhold, Store, TypeOK, KubeTypeOK
  <2> QED
    BY <2>1 DEF Claims
<1>3. CASE p = o /\ UserEdits(o)
  <2>1. PICK s \in Specs :
          /\ Edit(o, s)
          /\ disowned' = IF api[o].fin /\ s.account # api[o].spec.account
                         THEN disowned \cup {api[o].spec.account} ELSE disowned
    BY <1>3 DEF UserEdits
  <2>2. api'[o] = [api[o] EXCEPT !.spec = s]
    BY <2>1 DEF Edit, Store, TypeOK, KubeTypeOK
  <2>3. /\ api'[o] \in Object /\ api'[o].fin /\ api'[o].deleting /\ api'[o].spec = s
    BY <1>1, <2>2, SpecsAssumption DEF Object
  <2> QED
    BY <1>1, <2>1, <2>3, NullAssumption DEF Claims
<1>4. CASE p = o /\ OtherFinalizerGoes(o)
  <2>1. api'[o] = Settled([api[o] EXCEPT !.held = FALSE])
    BY <1>4 DEF OtherFinalizerGoes, Unhold, Store, TypeOK, KubeTypeOK
  <2>2. api'[o] = [api[o] EXCEPT !.held = FALSE]
    BY <1>1, <2>1 DEF Settled, Object
  <2>3. api'[o] \in Object /\ api'[o].fin /\ api'[o].deleting /\ api'[o].spec = api[o].spec
    BY <1>1, <2>2 DEF Object
  <2> QED
    BY <1>1, <2>3, NullAssumption DEF Claims
<1>5. CASE p = o /\ (UserCreates(o) \/ UserDeletes(o))
  BY <1>1, <1>5 DEF UserCreates, UserDeletes, Create, Delete
<1> QED
  BY <1>2, <1>3, <1>4, <1>5

\* The only step that gives an object the finalizer is that of a job which has seen
\* its stored version, and that version is not being deleted.
LEMMA WhoRevives ==
  ASSUME VouchInv, [Next]_vars, NEW o \in Users, ~Live(api[o]), Live(api'[o])
  PROVE  /\ watch[o] = <<>>
         /\ cache' = cache /\ ~Dying(cache[o])
         /\ job' = Null
<1> USE DEF VouchInv
<1>1. ~UNCHANGED api /\ TypeOK /\ api[o] \in Object \cup {Null}
  BY DEF Live, TypeOK, KubeTypeOK
<1>2. CASE \E p \in Users : \/ UserCreates(p) \/ UserEdits(p)
                            \/ UserDeletes(p) \/ OtherFinalizerGoes(p)
  <2>1. PICK p \in Users : UserCreates(p) \/ UserEdits(p)
                             \/ UserDeletes(p) \/ OtherFinalizerGoes(p)
    BY <1>2
  <2>2. p = o
    BY <1>1, <2>1 DEF UserCreates, UserEdits, UserDeletes, OtherFinalizerGoes,
         Create, Edit, Delete, Unhold, Store, Live, TypeOK, KubeTypeOK
  <2>3. \/ \E s \in Specs : api'[o] = [spec |-> s, fin |-> FALSE, held |-> FALSE,
                                       deleting |-> FALSE, status |-> NoUserStatus]
        \/ /\ api[o] # Null
           /\ \/ \E s \in Specs : api'[o] = [api[o] EXCEPT !.spec = s]
              \/ \E b \in BOOLEAN :
                   api'[o] = Settled([api[o] EXCEPT !.deleting = TRUE, !.held = b])
              \/ api'[o] = Settled([api[o] EXCEPT !.held = FALSE])
    BY <2>1, <2>2 DEF UserCreates, UserEdits, UserDeletes, OtherFinalizerGoes,
         Create, Edit, Delete, Unhold, Store, TypeOK, KubeTypeOK
  <2>4. ASSUME NEW s \in Specs,
               api'[o] = [spec |-> s, fin |-> FALSE, held |-> FALSE,
                          deleting |-> FALSE, status |-> NoUserStatus]
        PROVE  FALSE
    BY <2>4 DEF Live
  <2>5. ASSUME api[o] # Null, NEW s \in Specs, api'[o] = [api[o] EXCEPT !.spec = s]
        PROVE  FALSE
    <3>1. api'[o].fin = api[o].fin /\ api'[o].deleting = api[o].deleting
      BY <1>1, <2>5 DEF Object
    <3> QED
      BY <2>5, <3>1 DEF Live
  <2>6. ASSUME api[o] # Null, NEW b \in BOOLEAN,
               api'[o] = Settled([api[o] EXCEPT !.deleting = TRUE, !.held = b])
        PROVE  FALSE
    <3>1. [api[o] EXCEPT !.deleting = TRUE, !.held = b].deleting
      BY <1>1, <2>6 DEF Object
    <3> QED
      BY <2>6, <3>1 DEF Settled, Live
  <2>7. ASSUME api[o] # Null, api'[o] = Settled([api[o] EXCEPT !.held = FALSE])
        PROVE  FALSE
    <3>1. /\ [api[o] EXCEPT !.held = FALSE].fin = api[o].fin
          /\ [api[o] EXCEPT !.held = FALSE].deleting = api[o].deleting
      BY <1>1, <2>7 DEF Object
    <3> QED
      BY <2>7, <3>1 DEF Settled, Live
  <2> QED
    BY <2>3, <2>4, <2>5, <2>6, <2>7
<1>3. CASE AddFinalizer \/ ReleaseFinalizer \/ ReportStatus
  <2>1. job # Null /\ job.key \in Users /\ job.snap \in Object
    BY <1>1, <1>3, JobParts DEF AddFinalizer, ReleaseFinalizer, ReportStatus, At
  <2>2. PICK v \in {[job.snap EXCEPT !.fin = TRUE], [job.snap EXCEPT !.status = NewStatus],
                    Settled([job.snap EXCEPT !.fin = FALSE])} :
          ~job.stale /\ Store(job.key, v)
    BY <1>1, <1>3 DEF AddFinalizer, ReleaseFinalizer, ReportStatus, Update, UpdateFails, Write
  <2>3. api[job.key] = job.snap /\ cache[job.key] = job.snap /\ watch[job.key] = <<>>
    BY <2>1, <2>2, FreshSnapshot
  <2>4. o = job.key /\ api'[o] = v
    BY <1>1, <2>1, <2>2 DEF Store, Live, TypeOK, KubeTypeOK
  <2>5. ~job.snap.deleting
    BY <2>1, <2>4 DEF Live, Settled, Object
  <2>6. job' = Null /\ cache' = cache
    BY <1>3 DEF AddFinalizer, ReleaseFinalizer, ReportStatus, Return
  <2> QED
    BY <2>3, <2>4, <2>5, <2>6 DEF Dying
<1>4. CASE \/ \E p \in Users : Plan(p) \/ InformerDelivers(p) \/ InformerResyncs(p)
           \/ Fail \/ RemoveAccount \/ LookUpAccount \/ WriteAccount
           \/ \E s \in Servers : ServerChanges(s) \/ DatabaseLost(s)
           \/ LateRequest \/ Crash \/ Tick \/ UNCHANGED vars
  <2>1. UNCHANGED api
    BY <1>4 DEF Plan, PlanGone, PlanFinalizer, PlanDelete, PlanRefusal, PlanSync, Take,
         InformerDelivers, InformerResyncs, Deliver, Resync, Fail, RemoveAccount,
         LookUpAccount, WriteAccount, ServerChanges, DatabaseLost, LateRequest, Crash,
         Relist, Tick, objectVars, vars
  <2> QED
    BY <1>1, <2>1
<1> QED
  BY <1>2, <1>3, <1>4 DEF Next, Work

\* What was asked for stays asked for, until a job with the stored version in hand
\* takes the finalizer off; then the account is gone or disowned.
LEMMA StaysAsked ==
  ASSUME VouchInv, [Next]_vars, NEW o \in Users, NEW v \in Object, Asked(o, v)
  PROVE  \/ Asked(o, v)'
         \/ /\ job # Null /\ job.at = "release" /\ job.key = o
            /\ watch[o] = <<>> /\ cache[o] = job.snap
            /\ AskedOrGone(o, cache[o])' /\ UNCHANGED cache
<1> DEFINE a == v.spec.account
<1>1. a \in Account /\ TypeOK /\ disowned \subseteq disowned'
  BY DisownedGrows DEF VouchInv, Object, UserSpec, Account
<1>2. CASE a \in disowned \/ UNCHANGED api
  BY <1>1, <1>2 DEF Asked, Claims
<1>3. CASE a \notin disowned /\ ~UNCHANGED api
  <2>1. Claims(o, a) /\ api[o].deleting
    BY <1>3 DEF Asked
  <2>2. CASE \E p \in Users : \/ UserCreates(p) \/ UserEdits(p)
                              \/ UserDeletes(p) \/ OtherFinalizerGoes(p)
    BY <1>1, <2>1, <2>2, OwnersKeepAsking DEF Asked, Claims
  <2>3. CASE AddFinalizer \/ ReportStatus
    <3>1. job # Null /\ job.key \in Users
      BY <1>1, <2>3, JobParts DEF AddFinalizer, ReportStatus, At
    <3>2. PICK w \in {[job.snap EXCEPT !.fin = TRUE], [job.snap EXCEPT !.status = NewStatus]} :
            Write(w)
      BY <1>3, <2>3 DEF AddFinalizer, ReportStatus, Update, UpdateFails
    <3>3. ~job.stale /\ Store(job.key, w)
      BY <1>3, <3>2 DEF Write
    <3>4. api[job.key] = job.snap /\ job.snap \in Object
      BY <3>1, <3>3, FreshSnapshot
    <3>5. w \in Object /\ w.spec = job.snap.spec /\ w.deleting = job.snap.deleting
          /\ (job.snap.fin => w.fin)
      BY <1>1, <3>1, <3>4, NewStatusType DEF Object
    <3>6. api'[job.key] = w /\ \A p \in Users \ {job.key} : api'[p] = api[p]
      BY <1>1, <3>1, <3>3 DEF Store, TypeOK, KubeTypeOK
    <3>7. Claims(o, a)' /\ api'[o].deleting
      BY <2>1, <3>4, <3>5, <3>6, NullAssumption DEF Claims
    <3> QED
      BY <3>7 DEF Asked, Claims
  <2>4. CASE ReleaseFinalizer
    <3>1. job # Null /\ job.at = "release" /\ UNCHANGED <<cache, accounts, disowned>>
      BY <2>4 DEF ReleaseFinalizer, At, sftpgoVars
    <3>2. ~job.stale /\ \E w : Store(job.key, w)
      BY <1>3, <2>4 DEF ReleaseFinalizer, Update, UpdateFails, Write
    <3>3. watch[job.key] = <<>> /\ cache[job.key] = job.snap /\ job.key \in Users
      BY <3>1, <3>2, FreshSnapshot
    <3>4. CASE job.key = o
      <4>1. accounts[job.snap.spec.account] = Null \/ job.snap.spec.account \in disowned
        BY <3>1 DEF VouchInv, JobStage
      <4> QED
        BY <3>1, <3>3, <3>4, <4>1 DEF AskedOrGone, Asked
    <3>5. CASE job.key # o
      <4>1. api'[o] = api[o]
        BY <1>1, <3>2, <3>5 DEF Store, TypeOK, KubeTypeOK
      <4> QED
        BY <2>1, <4>1 DEF Asked, Claims
    <3> QED
      BY <3>4, <3>5
  <2>5. CASE \/ \E p \in Users : Plan(p) \/ InformerDelivers(p) \/ InformerResyncs(p)
             \/ Fail \/ RemoveAccount \/ LookUpAccount \/ WriteAccount
             \/ \E s \in Servers : ServerChanges(s) \/ DatabaseLost(s)
             \/ LateRequest \/ Crash \/ Tick \/ UNCHANGED vars
    <3>1. UNCHANGED api
      BY <2>5 DEF Plan, PlanGone, PlanFinalizer, PlanDelete, PlanRefusal, PlanSync, Take,
           InformerDelivers, InformerResyncs, Deliver, Resync, Fail, RemoveAccount,
           LookUpAccount, WriteAccount, ServerChanges, DatabaseLost, LateRequest, Crash,
           Relist, Tick, objectVars, vars
    <3> QED
      BY <1>3, <3>1
  <2> QED
    BY <2>2, <2>3, <2>4, <2>5 DEF Next, Work
<1> QED
  BY <1>2, <1>3

\* An account comes into being by the call of a job that writes it, or by a late POST,
\* and is disowned then unless it is still claimed.
LEMMA WhoCreates ==
  ASSUME TypeOK, [Next]_vars, NEW a \in Account, accounts[a] = Null, accounts'[a] # Null
  PROVE  \/ a \in disowned'
         \/ job # Null /\ job.at = "upsert" /\ a = MyAccount
         \/ (\E o \in Users : Claims(o, a)) /\ UNCHANGED api
<1>1. SftpgoTypeOK
  BY DEF TypeOK
<1>2. CASE WriteAccount
  <2> DEFINE r == [method |-> IF job.found # 0 THEN "PUT" ELSE "POST",
                   account |-> MyAccount, content |-> MyContent]
  <2>1. job # Null /\ job.at = "upsert"
    BY <1>2 DEF WriteAccount, At
  <2>2. r \in Request /\ r.account = MyAccount
    BY <2>1, JobParts DEF Request
  <2>3. \E outcome : Send(r, outcome)
    BY <1>2 DEF WriteAccount, Upsert, UpsertUser
  <2>4. a = MyAccount
    BY <1>1, <2>2, <2>3, SendChanges
  <2> QED
    BY <2>1, <2>4
<1>3. CASE RemoveAccount
  <2> DEFINE r == [method |-> "DELETE", account |-> MyAccount, content |-> MyContent]
  <2>1. job # Null
    BY <1>3 DEF RemoveAccount, At
  <2>2. r \in Request /\ r.method = "DELETE"
    BY <2>1, JobParts DEF Request
  <2>3. \E outcome : Send(r, outcome)
    BY <1>3 DEF RemoveAccount, Delete404, DeleteUser
  <2>4. FALSE
    BY <1>1, <2>2, <2>3, SendChanges
  <2> QED
    BY <2>4
<1>4. CASE LateRequest
  <2>1. PICK r \in late :
          /\ Arrive(r)
          /\ disowned' = IF r.method = "POST" /\ Accepts(r) /\ GivenUp(r.account)
                         THEN disowned \cup {r.account} ELSE disowned
    BY <1>4 DEF LateRequest
  <2>2. r \in Request /\ Execute(r)
    BY <1>1, <2>1 DEF Arrive, SftpgoTypeOK
  <2>3. r.method = "POST" /\ r.account = a /\ Accepts(r)
    BY <1>1, <2>2 DEF Execute, Accepts, SftpgoTypeOK, Request
  <2>4. a \in disowned' \/ \E o \in Users : Claims(o, a)
    BY <2>1, <2>3 DEF GivenUp
  <2> QED
    BY <1>4, <2>4 DEF LateRequest, objectVars
<1>5. CASE (\E s \in Servers : DatabaseLost(s)) \/ Crash
  BY <1>5, CrashLeavesAccounts DEF DatabaseLost, LoseData
<1>6. CASE \/ \E o \in Users : \/ Plan(o) \/ UserCreates(o) \/ UserEdits(o)
                               \/ UserDeletes(o) \/ OtherFinalizerGoes(o)
                               \/ InformerDelivers(o) \/ InformerResyncs(o)
           \/ AddFinalizer \/ ReleaseFinalizer \/ Fail \/ LookUpAccount \/ ReportStatus
           \/ \E s \in Servers : ServerChanges(s)
           \/ Tick \/ UNCHANGED vars
  BY <1>6 DEF Plan, PlanGone, PlanFinalizer, PlanDelete, PlanRefusal, PlanSync, Take,
       UserCreates, UserEdits, UserDeletes, OtherFinalizerGoes, InformerDelivers,
       InformerResyncs, AddFinalizer, ReleaseFinalizer, Fail, LookUpAccount, ReportStatus,
       ServerChanges, Tick, vars, sftpgoVars
<1> QED
  BY <1>2, <1>3, <1>4, <1>5, <1>6 DEF Next, Work

--------------------------------------------------------------------------------
(****************************************************************************)
(* The invariant.                                                           *)
(****************************************************************************)

\* Asked(o, v) after the step, of a version v that was there before it.
StillAsked(o, v) == \/ v.spec.account \in disowned'
                    \/ /\ api'[o] # Null /\ api'[o].fin /\ api'[o].deleting
                       /\ api'[o].spec.account = v.spec.account
StillAskedOrGone(o, v) == StillAsked(o, v) \/ accounts'[v.spec.account] = Null

LEMMA StoredIsAsked ==
  ASSUME NEW o \in Users, Dying(api'[o])
  PROVE  StillAsked(o, api'[o])
BY DEF Dying, StillAsked

\* The stored version is the last one on the watch, or the cached one.
LEMMA StoredNamed ==
  ASSUME NEW own, DeletionInv(own), NEW o \in Users
  PROVE  Named(own, o, api[o])
<1>1. CASE watch[o] = <<>>
  BY <1>1 DEF DeletionInv, VouchInv, InformerCatchesUp, NamedApart
<1>2. CASE watch[o] # <<>>
  <2>1. watch[o] \in Seq(Object \cup {Null})
    BY DEF DeletionInv, VouchInv, TypeOK, KubeTypeOK
  <2>2. Len(watch[o]) \in 1..Len(watch[o])
    BY <1>2, <2>1
  <2> QED
    BY <1>2, <2>2 DEF DeletionInv, VouchInv, LastVersionIsStored, NamedApart
<1> QED
  BY <1>1, <1>2

LEMMA WatchStaysAsked ==
  ASSUME VouchInv, WatchAsked, [Next]_vars, NEW o \in Users,
         NEW j \in 1..Len(watch[o]), Dying(watch[o][j])
  PROVE  StillAsked(o, watch[o][j])
<1>1. watch[o] \in Seq(Object \cup {Null}) /\ watch[o] # <<>>
  BY DEF VouchInv, TypeOK, KubeTypeOK
<1>2. watch[o][j] \in Object
  BY <1>1 DEF Dying
<1>3. Asked(o, watch[o][j])
  BY DEF WatchAsked
<1> QED
  BY <1>1, <1>2, <1>3, StaysAsked DEF Asked, Claims, StillAsked

\* The cached version: what brings its account back is the job of an object that
\* names the account, so of the same object, and it precedes the release.
LEMMA CacheStaysAsked ==
  ASSUME NEW own, DeletionInv(own), [Next]_vars, NEW o \in Users, Dying(cache[o])
  PROVE  StillAskedOrGone(o, cache[o])
<1>1. cache[o] \in Object /\ cache[o].spec.account \in Account /\ VouchInv /\ TypeOK
  BY DEF DeletionInv, VouchInv, TypeOK, KubeTypeOK, Dying, Object, UserSpec, Account
<1>2. CASE Asked(o, cache[o])
  BY <1>1, <1>2, StaysAsked DEF Asked, AskedOrGone, Claims, StillAsked, StillAskedOrGone
<1>3. CASE ~Asked(o, cache[o])
  <2>1. accounts[cache[o].spec.account] = Null
    BY <1>3 DEF DeletionInv, CacheAsked, AskedOrGone
  <2>2. SUFFICES ASSUME accounts'[cache[o].spec.account] # Null
                 PROVE  StillAsked(o, cache[o])
    BY DEF StillAskedOrGone
  <2>3. CASE cache[o].spec.account \in disowned'
    BY <2>3 DEF StillAsked
  <2>4. CASE job # Null /\ job.at = "upsert" /\ cache[o].spec.account = MyAccount
    <3>1. own[MyAccount] = job.key /\ own[MyAccount] = o
      BY <1>1, <2>4, JobParts, NullAssumption
         DEF DeletionInv, JobNamed, NamedApart, Named, Dying, MyAccount
    <3>2. Asked(o, cache[o])
      BY <2>4, <3>1 DEF DeletionInv, WriterPrecedes
    <3> QED
      BY <1>3, <3>2
  <2>5. CASE \E p \in Users : Claims(p, cache[o].spec.account)
    <3>1. PICK p \in Users : Claims(p, cache[o].spec.account)
      BY <2>5
    <3>2. p = own[cache[o].spec.account]
      BY <3>1, StoredNamed DEF Claims, Named
    <3>3. p = o
      BY <3>2 DEF DeletionInv, NamedApart, Named, Dying
    <3>4. Asked(o, cache[o])
      BY <3>1, <3>3 DEF DeletionInv, NotRevived, Claims, Live, Asked
    <3> QED
      BY <1>3, <3>4
  <2> QED
    BY <1>1, <2>1, <2>2, <2>3, <2>4, <2>5, WhoCreates
<1> QED
  BY <1>2, <1>3

LEMMA VersionsStayAsked ==
  ASSUME NEW own, DeletionInv(own), [Next]_vars
  PROVE  WatchAsked' /\ CacheAsked'
<1> USE DEF DeletionInv
<1>1. TypeOK
  BY DEF VouchInv
<1>2. ASSUME NEW o \in Users, NEW i \in 1..Len(watch'[o]), Dying(watch'[o][i])
      PROVE  StillAsked(o, watch'[o][i])
  <2>1. CASE watch'[o][i] = api'[o]
    BY <1>2, <2>1, StoredIsAsked
  <2>2. CASE \E j \in 1..Len(watch[o]) : watch'[o][i] = watch[o][j]
    BY <1>2, <2>2, WatchStaysAsked
  <2> QED
    BY <1>1, <2>1, <2>2, Pipeline
<1>3. ASSUME NEW o \in Users, Dying(cache'[o])
      PROVE  StillAskedOrGone(o, cache'[o])
  <2>1. CASE cache'[o] = api'[o]
    BY <1>3, <2>1, StoredIsAsked DEF StillAskedOrGone
  <2>2. CASE \E j \in 1..Len(watch[o]) : cache'[o] = watch[o][j]
    BY <1>3, <2>2, WatchStaysAsked DEF StillAskedOrGone
  <2>3. CASE cache'[o] = cache[o]
    BY <1>3, <2>3, CacheStaysAsked
  <2> QED
    BY <1>1, <2>1, <2>2, <2>3, Pipeline
<1>4. WatchAsked'
  BY <1>2 DEF WatchAsked, Asked, Claims, StillAsked, Dying
<1>5. CacheAsked'
  BY <1>3 DEF CacheAsked, Asked, AskedOrGone, Claims, StillAsked, StillAskedOrGone, Dying
<1> QED
  BY <1>4, <1>5

LEMMA DeleteStaysAsked ==
  ASSUME NEW own, DeletionInv(own), [Next]_vars
  PROVE  DeleteAsked'
<1> USE DEF DeletionInv
<1> SUFFICES ASSUME job' # Null, job'.at = "delete"
             PROVE  StillAskedOrGone(job'.key, job'.snap)
  BY DEF DeleteAsked, Asked, AskedOrGone, Claims, StillAsked, StillAskedOrGone
<1>1. TypeOK
  BY DEF VouchInv
<1>2. CASE Continues
  <2>1. /\ job # Null /\ job.at = "delete" /\ job.key \in Users /\ job.snap \in Object
        /\ job'.key = job.key /\ job'.snap = job.snap /\ MyAccount \in Account
        /\ AskedOrGone(job.key, job.snap)
    BY <1>1, <1>2, JobParts DEF Continues, DeleteAsked
  <2>2. CASE Asked(job.key, job.snap)
    BY <2>1, <2>2, StaysAsked DEF Asked, Claims, StillAsked, StillAskedOrGone
  <2>3. CASE accounts[job.snap.spec.account] = Null
    <3>1. CASE (\E p \in Users : Claims(p, MyAccount)) /\ UNCHANGED api
      <4>1. PICK p \in Users : Claims(p, MyAccount)
        BY <3>1
      <4>2. p = own[MyAccount]
        BY <4>1, StoredNamed DEF Claims, Named
      <4>3. p = job.key
        BY <2>1, <4>2, NullAssumption DEF JobNamed, Named, MyAccount
      <4> QED
        BY <2>1, <3>1, <4>1, <4>3
           DEF NotRevived, Claims, Live, StillAsked, StillAskedOrGone, MyAccount
    <3>2. CASE ~((\E p \in Users : Claims(p, MyAccount)) /\ UNCHANGED api)
      BY <1>1, <2>1, <2>3, <3>2, WhoCreates DEF StillAsked, StillAskedOrGone, MyAccount
    <3> QED
      BY <3>1, <3>2
  <2> QED
    BY <2>1, <2>2, <2>3 DEF AskedOrGone
<1>3. CASE \E o \in Users : Begins(o)
  BY <1>3, CacheStaysAsked DEF Begins
<1> QED
  BY <1>1, <1>2, <1>3, JobStep

LEMMA WriterStillPrecedes ==
  ASSUME NEW own, DeletionInv(own), [Next]_vars
  PROVE  WriterPrecedes'
<1> USE DEF DeletionInv
<1> SUFFICES ASSUME job' # Null, job'.at \in {"get", "upsert"}, Dying(cache'[job'.key])
             PROVE  StillAsked(job'.key, cache'[job'.key])
  BY DEF WriterPrecedes, Asked, Claims, StillAsked, Dying
<1>1. TypeOK
  BY DEF VouchInv
<1>2. CASE Continues
  <2> DEFINE o == job.key
  <2>1. /\ job # Null /\ job.at \in {"get", "upsert"} /\ o \in Users
        /\ job'.key = o
    BY <1>1, <1>2, JobParts DEF Continues
  <2>2. CASE cache'[o] = api'[o]
    BY <2>1, <2>2, StoredIsAsked
  <2>3. CASE \E j \in 1..Len(watch[o]) : cache'[o] = watch[o][j]
    BY <2>1, <2>3, WatchStaysAsked
  <2>4. CASE cache'[o] = cache[o]
    <3>1. cache[o] \in Object /\ Asked(o, cache[o])
      BY <1>1, <2>1, <2>4 DEF WriterPrecedes, Dying, TypeOK, KubeTypeOK
    <3>2. StillAsked(o, cache[o])
      BY <2>1, <3>1, StaysAsked DEF Asked, Claims, StillAsked
    <3> QED
      BY <2>1, <2>4, <3>2
  <2> QED
    BY <1>1, <2>1, <2>2, <2>3, <2>4, Pipeline
<1>3. CASE \E o \in Users : Begins(o)
  BY <1>3 DEF Begins, Live, Dying
<1> QED
  BY <1>1, <1>2, <1>3, JobStep

LEMMA NoneRevived ==
  ASSUME VouchInv, NotRevived, [Next]_vars
  PROVE  NotRevived'
<1> SUFFICES ASSUME NEW o \in Users, Live(api'[o])
             PROVE  /\ \A i \in 1..Len(watch'[o]) : ~Dying(watch'[o][i])
                    /\ ~Dying(cache'[o])
                    /\ ~(job' # Null /\ job'.at = "delete" /\ job'.key = o)
  BY DEF NotRevived, Live, Dying
<1>1. TypeOK
  BY DEF VouchInv
<1>2. ~Dying(api'[o])
  BY DEF Live, Dying
<1>3. \A j \in 1..Len(watch[o]) : ~Dying(watch[o][j])
  <2>1. CASE Live(api[o])
    BY <2>1 DEF NotRevived
  <2>2. CASE ~Live(api[o])
    BY <2>2, WhoRevives
  <2> QED
    BY <2>1, <2>2
<1>4. ~Dying(cache[o])
  BY WhoRevives DEF NotRevived
<1>5. ASSUME job' # Null, job'.at = "delete", job'.key = o PROVE FALSE
  <2>1. Live(api[o])
    BY <1>5, WhoRevives
  <2>2. CASE Continues
    BY <1>5, <2>1, <2>2 DEF Continues, NotRevived
  <2>3. CASE \E p \in Users : Begins(p)
    BY <1>4, <1>5, <2>3 DEF Begins
  <2> QED
    BY <1>1, <1>5, <2>2, <2>3, JobStep
<1>6. ~Dying(cache'[o]) /\ \A i \in 1..Len(watch'[o]) : ~Dying(watch'[o][i])
  BY <1>1, <1>2, <1>3, <1>4, Pipeline DEF Dying
<1> QED
  BY <1>5, <1>6

LEMMA VersionsStayNamed ==
  ASSUME NEW own, DeletionInv(own), [Next]_vars, Apart(own)'
  PROVE  NamedApart(own)' /\ JobNamed(own)'
<1> USE DEF DeletionInv
<1>1. TypeOK
  BY DEF VouchInv
<1>2. \A o \in Users : api'[o] # Null => own[api'[o].spec.account] = o
  BY DEF Apart
<1>3. ASSUME NEW o \in Users
      PROVE  /\ \A i \in 1..Len(watch'[o]) : Named(own, o, watch'[o][i])
             /\ Named(own, o, cache'[o])
  BY <1>1, <1>2, Pipeline DEF NamedApart, Named
<1>4. NamedApart(own)'
  BY <1>3 DEF NamedApart, Named
<1>5. JobNamed(own)'
  <2> SUFFICES ASSUME job' # Null PROVE Named(own, job'.key, job'.snap)
    BY DEF JobNamed, Named
  <2>1. CASE Continues
    BY <2>1 DEF Continues, JobNamed
  <2>2. CASE \E o \in Users : Begins(o)
    BY <2>2 DEF Begins, NamedApart
  <2> QED
    BY <1>1, <2>1, <2>2, JobStep
<1> QED
  BY <1>4, <1>5

LEMMA DeletionStep ==
  ASSUME NEW own
  PROVE  DeletionInv(own) /\ [Next]_vars /\ Apart(own)' => DeletionInv(own)'
BY StepVouches, VersionsStayAsked, DeleteStaysAsked, WriterStillPrecedes, VersionsStayNamed,
   NoneRevived DEF DeletionInv

LEMMA DeletionInit ==
  ASSUME NEW own
  PROVE  Init => DeletionInv(own)
BY InitVouches
   DEF Init, KubeInit, DeletionInv, NamedApart, Named, JobNamed, WatchAsked, CacheAsked,
       DeleteAsked, WriterPrecedes, NotRevived, Dying, Live

\* Which steps remove an account: with no fault and no late request, only a DELETE
\* that the server accepts.
LEMMA WhoRemoves ==
  ASSUME TypeOK, [Next]_vars, NEW a \in Account, accounts[a] # Null, accounts'[a] = Null,
         faults' = faults, late' = late
  PROVE  job # Null /\ job.at = "delete" /\ a = MyAccount
<1>1. SftpgoTypeOK
  BY DEF TypeOK
<1>2. CASE RemoveAccount
  <2> DEFINE r == [method |-> "DELETE", account |-> MyAccount, content |-> MyContent]
  <2>1. job # Null /\ job.at = "delete"
    BY <1>2 DEF RemoveAccount, At
  <2>2. r \in Request /\ r.account = MyAccount
    BY <2>1, JobParts DEF Request
  <2>3. \E outcome : Send(r, outcome)
    BY <1>2 DEF RemoveAccount, Delete404, DeleteUser
  <2> QED
    BY <1>1, <2>1, <2>2, <2>3, SendChanges
<1>3. CASE WriteAccount
  <2> DEFINE r == [method |-> IF job.found # 0 THEN "PUT" ELSE "POST",
                   account |-> MyAccount, content |-> MyContent]
  <2>1. job # Null
    BY <1>3 DEF WriteAccount, At
  <2>2. r \in Request /\ r.account = MyAccount
    BY <2>1, JobParts DEF Request
  <2>3. PICK outcome : Send(r, outcome) /\ UpsertUser(r.method, MyAccount, MyContent, outcome)
    BY <1>3 DEF WriteAccount, Upsert, UpsertUser
  <2>4. outcome = "ok" /\ a = MyAccount
    BY <1>1, <2>2, <2>3, SendChanges DEF Send, sftpgoVars
  <2>5. r.method \in {"PUT", "POST"} /\ MyAccount \in Account /\ MyContent \in Contents
    BY <2>1, JobParts
  <2>6. accounts'[a] # Null
    <3> HIDE DEF r
    <3> QED
      BY <1>1, <2>3, <2>4, <2>5, UpsertApplies
  <2> QED
    BY <2>6
<1>4. CASE LateRequest
  BY <1>4 DEF LateRequest, Arrive
<1>5. CASE (\E s \in Servers : DatabaseLost(s)) \/ Crash
  BY <1>5 DEF DatabaseLost, Crash, Fault, TypeOK
<1>6. CASE \/ \E o \in Users : \/ Plan(o) \/ UserCreates(o) \/ UserEdits(o)
                               \/ UserDeletes(o) \/ OtherFinalizerGoes(o)
                               \/ InformerDelivers(o) \/ InformerResyncs(o)
           \/ AddFinalizer \/ ReleaseFinalizer \/ Fail \/ LookUpAccount \/ ReportStatus
           \/ \E s \in Servers : ServerChanges(s)
           \/ Tick \/ UNCHANGED vars
  BY <1>6 DEF Plan, PlanGone, PlanFinalizer, PlanDelete, PlanRefusal, PlanSync, Take,
       UserCreates, UserEdits, UserDeletes, OtherFinalizerGoes, InformerDelivers,
       InformerResyncs, AddFinalizer, ReleaseFinalizer, Fail, LookUpAccount, ReportStatus,
       ServerChanges, Tick, vars, sftpgoVars
<1> QED
  BY <1>2, <1>3, <1>4, <1>5, <1>6 DEF Next, Work

\* Where no two objects ever name one account, a DELETE removes an account only
\* while the object that names it is being deleted, or after the account was
\* disowned: however old the version is on whose behalf it is sent, and whatever
\* was retried, lost, edited or created again under the name since.
THEOREM DeletionsAreAskedFor ==
  ASSUME NEW own \in [Account -> Users]
  PROVE  Spec /\ []Apart(own) => DeletesOnlyTheDeleted
<1> DEFINE AskedFor(a) ==
       /\ accounts[a] # Null /\ accounts'[a] = Null
       /\ faults' = faults /\ late' = late
       => \/ a \in disowned
          \/ \E o \in Users : Claims(o, a) /\ api[o].deleting
<1>1. Init => DeletionInv(own)
  BY DeletionInit
<1>2. DeletionInv(own) /\ [Next]_vars /\ Apart(own)' => DeletionInv(own)'
  BY DeletionStep
<1>3. DeletionInv(own) /\ [Next]_vars => [\A a \in Account : AskedFor(a)]_vars
  <2> SUFFICES ASSUME DeletionInv(own), [Next]_vars, NEW a \in Account,
                      accounts[a] # Null, accounts'[a] = Null,
                      faults' = faults, late' = late
               PROVE  a \in disowned \/ \E o \in Users : Claims(o, a) /\ api[o].deleting
    OBVIOUS
  <2>1. job # Null /\ job.at = "delete" /\ a = MyAccount /\ job.key \in Users
    BY WhoRemoves, JobParts DEF DeletionInv, VouchInv
  <2>2. Asked(job.key, job.snap)
    BY <2>1 DEF DeletionInv, DeleteAsked, AskedOrGone, MyAccount
  <2> QED
    BY <2>1, <2>2 DEF Asked, MyAccount
<1> QED
  BY <1>1, <1>2, <1>3, PTL DEF Spec, DeletesOnlyTheDeleted
================================================================================
