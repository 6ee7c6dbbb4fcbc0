--------------------------- MODULE UserLedgerProofs ----------------------------
(****************************************************************************)
(* SftpGoUserReconciler keeps the AccountLedger: the initial states of      *)
(* UserController map to initial states of the ledger, and every step maps  *)
(* to one entry or to none. The entries' guards (somebody answers for the   *)
(* account that is provided, the released account is gone) hold because of  *)
(* VouchInv: they are about what is stored, the code looked at its cache.   *)
(****************************************************************************)
EXTENDS UserLedger, UserControllerProofs

\* The ledger sees only the stored objects, the accounts, the POSTs that may still
\* come, the history of what was disowned, and which servers are usable.
LEMMA NothingEntered ==
  /\ UNCHANGED api => UNCHANGED StoredClaims
  /\ UNCHANGED accounts => UNCHANGED ExistingAccounts
  /\ UNCHANGED late => UNCHANGED LatePosts
  /\ UNCHANGED srv => UNCHANGED UsableServers
BY DEF StoredClaims, Claims, ExistingAccounts, LatePosts, UsableServers

LEMMA StutterKept ==
  ASSUME UNCHANGED <<api, accounts, late, disowned, srv>>
  PROVE  UNCHANGED Ledger!ledger
BY NothingEntered DEF Ledger!ledger

LEMMA AnsweredMeans ==
  ASSUME NEW o \in Users, NEW a \in Account, Claims(o, a) \/ a \in disowned
  PROVE  Ledger!Answered(a)
BY DEF Ledger!Answered, StoredClaims

\* What storing v in the place of o does to the claims.
LEMMA StoredClaimsChange ==
  ASSUME TypeOK, NEW o \in Users, NEW v \in Object \cup {Null}, Store(o, v)
  PROVE  StoredClaims' = {c \in StoredClaims : c[1] # o}
                           \cup (IF v # Null /\ v.fin THEN {<<o, v.spec.account>>} ELSE {})
<1>1. /\ api'[o] = v
      /\ \A p \in Users \ {o} : api'[p] = api[p]
  BY DEF Store, TypeOK, KubeTypeOK
<1>2. v # Null => v.spec.account \in Account
  BY DEF Object, UserSpec, Account
<1>3. \A p \in Users, a \in Account :
        <<p, a>> \in StoredClaims' <=> IF p = o THEN v # Null /\ v.fin /\ v.spec.account = a
                                                ELSE <<p, a>> \in StoredClaims
  BY <1>1 DEF StoredClaims, Claims
<1>4. StoredClaims \subseteq Users \X Account /\ StoredClaims' \subseteq Users \X Account
  BY DEF StoredClaims
<1> QED
  BY <1>2, <1>3, <1>4

\* The stored object's own claim is all there is of it.
LEMMA OwnClaim ==
  ASSUME TypeOK, NEW o \in Users
  PROVE  /\ {c \in StoredClaims : c[1] = o}
              = IF api[o] # Null /\ api[o].fin THEN {<<o, api[o].spec.account>>} ELSE {}
         /\ api[o] # Null => api[o] \in Object /\ api[o].spec.account \in Account
<1>1. api[o] # Null => api[o] \in Object /\ api[o].spec.account \in Account
  BY DEF TypeOK, KubeTypeOK, Object, UserSpec, Account
<1> QED
  BY <1>1 DEF StoredClaims, Claims

LEMMA PlanKept ==
  ASSUME VouchInv, NEW o \in Users, Plan(o)
  PROVE  [Ledger!Next]_Ledger!ledger
<1>1. UNCHANGED <<api, accounts, late, srv>>
  BY DEF Plan, PlanGone, PlanFinalizer, PlanDelete, PlanRefusal, PlanSync, Take,
         sftpgoVars, envVars
<1>2. CASE UNCHANGED disowned
  BY <1>1, <1>2, StutterKept
<1>3. CASE ~UNCHANGED disowned
  <2> DEFINE a == cache[o].spec.account
  <2>1. /\ cache[o] # Null /\ ServerOf(cache[o]) # "ready"
        /\ disowned' = disowned \cup {a}
    BY <1>3 DEF Plan, PlanGone, PlanFinalizer, PlanDelete, PlanRefusal, PlanSync
  <2>2. a \in Account
    BY <2>1 DEF VouchInv, TypeOK, KubeTypeOK, Object, UserSpec, Account
  <2>3. a[1] \notin UsableServers
    BY <2>1 DEF UsableServers, ServerOf
  <2>4. Ledger!Abandon(a)
    BY <1>1, <2>1, <2>3, NothingEntered DEF Ledger!Abandon
  <2> QED
    BY <2>2, <2>4 DEF Ledger!Next, Ledger!Accounts, Account
<1> QED
  BY <1>2, <1>3

\* The finalizer goes on: the object claims the account its spec names.
LEMMA AddFinalizerKept ==
  ASSUME VouchInv, AddFinalizer
  PROVE  [Ledger!Next]_Ledger!ledger
<1>1. job # Null /\ TypeOK /\ UNCHANGED <<accounts, late, srv, disowned>>
  BY DEF AddFinalizer, At, VouchInv, sftpgoVars, envVars
<1>2. CASE UNCHANGED api
  BY <1>1, <1>2, StutterKept
<1>3. CASE ~UNCHANGED api
  <2> DEFINE o == job.key
             v == [job.snap EXCEPT !.fin = TRUE]
             a == v.spec.account
  <2>1. Store(o, v) /\ ~job.stale
    BY <1>3 DEF AddFinalizer, Update, UpdateFails, Write
  <2>2. o \in Users /\ job.snap \in Object /\ api[o] = job.snap
    BY <1>1, <2>1, FreshSnapshot
  <2>3. v \in Object /\ v # Null /\ v.fin /\ v.spec = job.snap.spec /\ a \in Account
    BY <2>2, NullAssumption DEF Object, UserSpec, Account
  <2>4. StoredClaims' = {c \in StoredClaims : c[1] # o} \cup {<<o, a>>}
    BY <1>1, <2>1, <2>2, <2>3, StoredClaimsChange
  <2>5. CASE job.snap.fin
    <3>1. {c \in StoredClaims : c[1] = o} = {<<o, a>>}
      BY <1>1, <2>2, <2>3, <2>5, OwnClaim, NullAssumption
    <3>2. UNCHANGED StoredClaims
      BY <2>4, <3>1
    <3> QED
      BY <1>1, <3>2, NothingEntered DEF Ledger!ledger
  <2>6. CASE ~job.snap.fin
    <3>1. {c \in StoredClaims : c[1] = o} = {}
      BY <1>1, <2>2, <2>6, OwnClaim
    <3>2. Ledger!Claim(o, a)
      BY <1>1, <2>4, <3>1, NothingEntered DEF Ledger!Claim
    <3> QED
      BY <2>2, <2>3, <3>2 DEF Ledger!Next, Ledger!Accounts, Account
  <2> QED
    BY <2>5, <2>6
<1> QED
  BY <1>2, <1>3

\* The finalizer comes off: JobStage says that the account is gone or disowned.
LEMMA ReleaseFinalizerKept ==
  ASSUME VouchInv, ReleaseFinalizer
  PROVE  [Ledger!Next]_Ledger!ledger
<1>1. /\ job # Null /\ TypeOK /\ job.at = "release"
      /\ UNCHANGED <<accounts, late, srv, disowned>>
  BY DEF ReleaseFinalizer, At, VouchInv, sftpgoVars, envVars
<1>2. CASE UNCHANGED api
  BY <1>1, <1>2, StutterKept
<1>3. CASE ~UNCHANGED api
  <2> DEFINE o == job.key
             w == [job.snap EXCEPT !.fin = FALSE]
             v == Settled(w)
             a == job.snap.spec.account
  <2>1. Store(o, v) /\ ~job.stale
    BY <1>3 DEF ReleaseFinalizer, Update, UpdateFails, Write
  <2>2. /\ o \in Users /\ job.snap \in Object /\ api[o] = job.snap
        /\ job.snap.fin /\ job.snap # Null
    BY <1>1, <2>1, FreshSnapshot, NullAssumption DEF VouchInv, JobStage
  <2>3. w \in Object /\ ~w.fin
    BY <2>2 DEF Object
  <2>4. v \in Object \cup {Null} /\ ~(v # Null /\ v.fin)
    BY <2>3, SettledType DEF Settled
  <2>5. StoredClaims' = {c \in StoredClaims : c[1] # o}
    BY <1>1, <2>1, <2>2, <2>4, StoredClaimsChange
  <2>6. {c \in StoredClaims : c[1] = o} = {<<o, a>>} /\ a \in Account
    BY <1>1, <2>2, OwnClaim
  <2>7. a \in ExistingAccounts => a \in disowned
    BY <1>1 DEF VouchInv, JobStage, ExistingAccounts
  <2>8. <<o, a>> \in StoredClaims /\ StoredClaims' = StoredClaims \ {<<o, a>>}
    BY <2>5, <2>6
  <2>9. Ledger!Release(o, a)
    BY <1>1, <2>7, <2>8, NothingEntered DEF Ledger!Release
  <2> QED
    BY <2>2, <2>6, <2>9 DEF Ledger!Next, Ledger!Accounts, Account
<1> QED
  BY <1>2, <1>3

LEMMA ReportStatusKept ==
  ASSUME VouchInv, ReportStatus
  PROVE  [Ledger!Next]_Ledger!ledger
<1>1. job # Null /\ TypeOK /\ UNCHANGED <<accounts, late, srv, disowned>>
  BY DEF ReportStatus, At, VouchInv, sftpgoVars, envVars
<1>2. CASE UNCHANGED api
  BY <1>1, <1>2, StutterKept
<1>3. CASE ~UNCHANGED api
  <2> DEFINE o == job.key
             v == [job.snap EXCEPT !.status = NewStatus]
  <2>1. Store(o, v) /\ ~job.stale
    BY <1>3 DEF ReportStatus, Update, UpdateFails, Write
  <2>2. o \in Users /\ job.snap \in Object /\ api[o] = job.snap
    BY <1>1, <2>1, FreshSnapshot
  <2>3. /\ v \in Object /\ v # Null /\ api[o] # Null
        /\ v.fin = job.snap.fin /\ v.spec = job.snap.spec
    BY <1>1, <2>2, NewStatusType, NullAssumption DEF Object
  <2>4. UNCHANGED StoredClaims
    <3> DEFINE mine == IF v.fin THEN {<<o, v.spec.account>>} ELSE {}
    <3>1. StoredClaims' = {c \in StoredClaims : c[1] # o} \cup mine
      BY <1>1, <2>1, <2>2, <2>3, StoredClaimsChange
    <3>2. {c \in StoredClaims : c[1] = o} = mine
      BY <1>1, <2>2, <2>3, OwnClaim
    <3> HIDE DEF mine
    <3> QED
      BY <3>1, <3>2
  <2> QED
    BY <1>1, <2>4, NothingEntered DEF Ledger!ledger
<1> QED
  BY <1>2, <1>3

\* A PUT or POST the server executed leaves an account.
LEMMA ExecutionLeaves ==
  ASSUME SftpgoTypeOK, NEW r \in Request, r.method # "DELETE", Execute(r)
  PROVE  accounts'[r.account] # Null
<1>1. Execute(r) /\ r.account \in Account /\ r.content \in Contents
  BY DEF Request
<1>2. CASE r.method = "POST"
  <2>1. NextId \in 1..MaxId
    BY MaxIdAssumption DEF NextId, SftpgoTypeOK
  <2>2. accounts'[r.account] = [content |-> r.content, id |-> NextId]
    BY <1>1, <1>2 DEF Execute, SftpgoTypeOK
  <2> QED
    BY <1>1, <2>1, <2>2, NullAssumption
<1>3. CASE r.method = "PUT"
  <2>1. accounts[r.account] \in [content: Contents, id: 1..MaxId]
    BY <1>1, <1>3 DEF Execute, Accepts, SftpgoTypeOK
  <2>2. accounts'[r.account] \in [content: Contents, id: 1..MaxId]
    BY <1>1, <1>3, <2>1 DEF Execute, SftpgoTypeOK
  <2> QED
    BY <2>2, NullAssumption
<1> QED
  BY <1>2, <1>3 DEF Request

\* A request nobody waits for any longer: a POST may still come.
LEMMA LostKept ==
  ASSUME NEW r \in Request, Send(r, "lost"), UNCHANGED <<api, srv, disowned>>,
         r.method = "POST" => Ledger!Answered(r.account)
  PROVE  [Ledger!Next]_Ledger!ledger
<1>1. UNCHANGED accounts /\ late' \in {late, late \cup {r}} /\ r.account \in Account
  BY DEF Send, Request
<1>2. CASE r.method = "POST" /\ LatePosts' = LatePosts \cup {r.account}
  <2>1. Ledger!LoseTrack(r.account)
    BY <1>1, <1>2, NothingEntered DEF Ledger!LoseTrack
  <2> QED
    BY <1>1, <2>1 DEF Ledger!Next, Ledger!Accounts, Account
<1>3. CASE UNCHANGED LatePosts
  BY <1>1, <1>3, NothingEntered DEF Ledger!ledger
<1>4. \/ UNCHANGED LatePosts
      \/ r.method = "POST" /\ LatePosts' = LatePosts \cup {r.account}
  BY <1>1 DEF LatePosts
<1> QED
  BY <1>2, <1>3, <1>4

LEMMA HttpCallsKept ==
  ASSUME VouchInv, RemoveAccount \/ LookUpAccount \/ WriteAccount \/ Fail
  PROVE  [Ledger!Next]_Ledger!ledger
<1>1. /\ job # Null /\ TypeOK /\ SftpgoTypeOK
      /\ UNCHANGED <<api, srv, disowned>>
  BY DEF RemoveAccount, LookUpAccount, WriteAccount, Fail, At, VouchInv, TypeOK, envVars
<1>2. CASE RemoveAccount
  <2> DEFINE r == [method |-> "DELETE", account |-> MyAccount, content |-> MyContent]
  <2>1. r \in Request /\ r.method = "DELETE"
    BY <1>1, JobParts DEF Request
  <2>2. PICK outcome : Send(r, outcome)
    BY <1>2 DEF RemoveAccount, Delete404, DeleteUser
  <2>3. \A a \in Account : accounts'[a] # Null => accounts[a] # Null
    BY <1>1, <2>1, <2>2, SendChanges
  <2>4. ExistingAccounts' \subseteq ExistingAccounts
    BY <2>3 DEF ExistingAccounts
  <2>5. UNCHANGED LatePosts
    BY <2>1, <2>2 DEF Send, LatePosts, sftpgoVars
  <2> QED
    BY <1>1, <2>4, <2>5, NothingEntered DEF Ledger!Next, Ledger!Vanish
<1>3. CASE WriteAccount
  <2> DEFINE r == [method |-> IF job.found # 0 THEN "PUT" ELSE "POST",
                   account |-> MyAccount, content |-> MyContent]
  <2>1. r \in Request /\ r.account = MyAccount /\ MyAccount \in Account
    BY <1>1, JobParts DEF Request
  <2>2. PICK outcome : Send(r, outcome)
    BY <1>3 DEF WriteAccount, Upsert, UpsertUser
  <2>3. Ledger!Answered(MyAccount)
    <3>1. MyAccount \in disowned \/ Claims(job.key, MyAccount)
      BY <1>1, <1>3 DEF VouchInv, JobVouched, JobStage, Vouched, WriteAccount, At, MyAccount
    <3> QED
      BY <1>1, <2>1, <3>1, JobParts, AnsweredMeans
  <2>4. CASE outcome = "ok"
    <3>1. UNCHANGED late
      BY <2>2, <2>4 DEF Send
    <3>2. accounts'[MyAccount] # Null
      BY <1>1, <2>1, <2>2, <2>4, ExecutionLeaves DEF Send
    <3>3. \A a \in Account \ {MyAccount} : accounts'[a] = accounts[a]
      BY <1>1, <2>1, <2>2, SendChanges
    <3>4. ExistingAccounts' = ExistingAccounts \cup {MyAccount}
      BY <2>1, <3>2, <3>3 DEF ExistingAccounts
    <3>5. Ledger!Provide(MyAccount)
      BY <1>1, <2>3, <3>1, <3>4, NothingEntered DEF Ledger!Provide
    <3> QED
      BY <2>1, <3>5 DEF Ledger!Next, Ledger!Accounts, Account
  <2>5. CASE outcome = "refused"
    <3>1. UNCHANGED <<accounts, late>>
      BY <2>2, <2>5 DEF Send, sftpgoVars
    <3> QED
      BY <1>1, <3>1, StutterKept
  <2>6. CASE outcome = "lost"
    BY <1>1, <2>1, <2>2, <2>3, <2>6, LostKept
  <2> QED
    BY <2>2, <2>4, <2>5, <2>6 DEF Send
<1>4. CASE LookUpAccount \/ Fail
  <2>1. UNCHANGED <<accounts, late>>
    BY <1>4 DEF LookUpAccount, Fail, sftpgoVars
  <2> QED
    BY <1>1, <2>1, StutterKept
<1> QED
  BY <1>2, <1>3, <1>4

\* Storing a version that claims what the old one claimed enters nothing.
LEMMA SameClaim ==
  ASSUME TypeOK, NEW o \in Users, NEW v \in Object \cup {Null}, Store(o, v),
         (v # Null /\ v.fin) <=> (api[o] # Null /\ api[o].fin),
         v # Null /\ v.fin => v.spec.account = api[o].spec.account
  PROVE  UNCHANGED StoredClaims
<1> DEFINE mine == IF v # Null /\ v.fin THEN {<<o, v.spec.account>>} ELSE {}
<1>1. StoredClaims' = {c \in StoredClaims : c[1] # o} \cup mine
  BY StoredClaimsChange
<1>2. {c \in StoredClaims : c[1] = o} = mine
  BY OwnClaim
<1> HIDE DEF mine
<1> QED
  BY <1>1, <1>2

LEMMA EditKept ==
  ASSUME VouchInv, NEW o \in Users, UserEdits(o)
  PROVE  [Ledger!Next]_Ledger!ledger
<1>1. TypeOK /\ UNCHANGED <<accounts, late, srv>>
  BY DEF VouchInv, UserEdits, sftpgoVars
<1>2. PICK s \in Specs :
        /\ Edit(o, s)
        /\ disowned' = IF api[o].fin /\ s.account # api[o].spec.account
                       THEN disowned \cup {api[o].spec.account} ELSE disowned
  BY DEF UserEdits
<1> DEFINE v == [api[o] EXCEPT !.spec = s]
           a == api[o].spec.account
           b == s.account
<1>3. api[o] # Null /\ api[o] \in Object /\ a \in Account
  BY <1>1, <1>2, OwnClaim DEF Edit
<1>4. v \in Object /\ v # Null /\ v.fin = api[o].fin /\ v.spec = s /\ b \in Account
  BY <1>2, <1>3, SpecsAssumption, NullAssumption DEF Object, UserSpec, Account
<1>5. Store(o, v)
  BY <1>2 DEF Edit
<1>6. CASE ~(api[o].fin /\ b # a)
  <2>1. /\ v \in Object \cup {Null} /\ Store(o, v)
        /\ (v # Null /\ v.fin) <=> (api[o] # Null /\ api[o].fin)
        /\ v # Null /\ v.fin => v.spec.account = api[o].spec.account
    BY <1>3, <1>4, <1>5, <1>6
  <2> HIDE DEF v
  <2>2. UNCHANGED StoredClaims
    BY ONLY <1>1, <2>1, SameClaim
  <2> QED
    BY <1>1, <1>2, <1>6, <2>2, NothingEntered DEF Ledger!ledger
<1>7. CASE api[o].fin /\ b # a
  <2>1. StoredClaims' = {c \in StoredClaims : c[1] # o} \cup {<<o, b>>}
    <3>1. /\ v \in Object \cup {Null} /\ Store(o, v)
          /\ v # Null /\ v.fin /\ v.spec.account = b
      BY <1>4, <1>5, <1>7
    <3> HIDE DEF v
    <3> QED
      BY ONLY <1>1, <3>1, StoredClaimsChange
  <2>2. {c \in StoredClaims : c[1] = o} = {<<o, a>>}
    BY <1>1, <1>3, <1>7, OwnClaim
  <2>3. <<o, a>> \in StoredClaims /\ StoredClaims' = (StoredClaims \ {<<o, a>>}) \cup {<<o, b>>}
    BY <2>1, <2>2
  <2>4. disowned' = disowned \cup {a}
    BY <1>2, <1>7
  <2>5. Ledger!Rename(o, a, b)
    BY <1>1, <2>3, <2>4, NothingEntered DEF Ledger!Rename
  <2> QED
    BY <1>3, <1>4, <2>5 DEF Ledger!Next, Ledger!Accounts, Account
<1> QED
  BY <1>6, <1>7

LEMMA OwnersKept ==
  ASSUME VouchInv, NEW o \in Users,
         UserCreates(o) \/ UserDeletes(o) \/ OtherFinalizerGoes(o)
  PROVE  [Ledger!Next]_Ledger!ledger
<1>1. TypeOK /\ UNCHANGED <<accounts, late, srv, disowned>>
  BY DEF VouchInv, UserCreates, UserDeletes, OtherFinalizerGoes, sftpgoVars, envVars
<1>2. api[o] \in Object \cup {Null}
  BY <1>1 DEF TypeOK, KubeTypeOK
<1>3. UNCHANGED StoredClaims
  <2>1. CASE UserCreates(o)
    <3>1. PICK s \in Specs : Create(o, s)
      BY <2>1 DEF UserCreates
    <3> DEFINE v == [spec |-> s, fin |-> FALSE, held |-> FALSE, deleting |-> FALSE,
                     status |-> NoUserStatus]
    <3>2. v \in Object /\ ~v.fin
      BY SpecsAssumption, NoUserStatusType DEF Object
    <3>3. Store(o, v) /\ api[o] = Null
      BY <3>1 DEF Create
    <3> QED
      BY <1>1, <3>2, <3>3, SameClaim
  <2>2. CASE UserDeletes(o)
    <3>1. PICK foreground \in BOOLEAN : Delete(o, foreground)
      BY <2>2 DEF UserDeletes
    <3> DEFINE w == [api[o] EXCEPT !.deleting = TRUE, !.held = foreground]
    <3>2. api[o] # Null /\ w \in Object /\ w.fin = api[o].fin /\ w.spec = api[o].spec
      BY <1>2, <3>1 DEF Delete, Object
    <3>3. Store(o, Settled(w)) /\ Settled(w) \in Object \cup {Null}
      BY <3>1, <3>2, SettledType DEF Delete
    <3>4. IF w.fin THEN Settled(w) = w /\ w # Null
                   ELSE Settled(w) = Null \/ ~Settled(w).fin
      BY <3>2, NullAssumption DEF Settled
    <3> QED
      BY <1>1, <3>2, <3>3, <3>4, SameClaim
  <2>3. CASE OtherFinalizerGoes(o)
    <3> DEFINE w == [api[o] EXCEPT !.held = FALSE]
    <3>1. api[o] # Null /\ w \in Object /\ w.fin = api[o].fin /\ w.spec = api[o].spec
      BY <1>2, <2>3 DEF OtherFinalizerGoes, Unhold, Object
    <3>2. Store(o, Settled(w)) /\ Settled(w) \in Object \cup {Null}
      BY <2>3, <3>1, SettledType DEF OtherFinalizerGoes, Unhold
    <3>3. IF w.fin THEN Settled(w) = w /\ w # Null
                   ELSE Settled(w) = Null \/ ~Settled(w).fin
      BY <3>1, NullAssumption DEF Settled
    <3> QED
      BY <1>1, <3>1, <3>2, <3>3, SameClaim
  <2> QED
    BY <2>1, <2>2, <2>3
<1> QED
  BY <1>1, <1>3, NothingEntered DEF Ledger!ledger

LEMMA ServersKept ==
  ASSUME VouchInv, NEW s \in Servers, ServerChanges(s) \/ DatabaseLost(s)
  PROVE  [Ledger!Next]_Ledger!ledger
<1>1. CASE ServerChanges(s)
  <2>1. UNCHANGED <<api, accounts, late, disowned>> /\ UsableServers' \subseteq Servers
    BY <1>1 DEF ServerChanges, objectVars, sftpgoVars, UsableServers
  <2> QED
    BY <2>1, NothingEntered DEF Ledger!Next, Ledger!ServersChange
<1>2. CASE DatabaseLost(s)
  <2>1. UNCHANGED <<api, late, srv, disowned>>
    BY <1>2 DEF DatabaseLost, LoseData, objectVars, envVars
  <2>2. ExistingAccounts' \subseteq ExistingAccounts
    BY <1>2 DEF DatabaseLost, LoseData, ExistingAccounts
  <2> QED
    BY <2>1, <2>2, NothingEntered DEF Ledger!Next, Ledger!Vanish
<1> QED
  BY <1>1, <1>2

\* A request nobody waited for: a POST that is executed strays, anything else can
\* at most remove an account.
LEMMA LateRequestKept ==
  ASSUME VouchInv, LateRequest
  PROVE  [Ledger!Next]_Ledger!ledger
<1>1. PICK r \in late :
        /\ Arrive(r)
        /\ disowned' = IF r.method = "POST" /\ Accepts(r) /\ GivenUp(r.account)
                       THEN disowned \cup {r.account} ELSE disowned
  BY DEF LateRequest
<1>2. TypeOK /\ SftpgoTypeOK /\ r \in Request /\ r.account \in Account /\ late \subseteq Request
  BY DEF VouchInv, TypeOK, SftpgoTypeOK, Request
<1>3. UNCHANGED <<api, srv>> /\ late' = late \ {r}
  BY <1>1 DEF LateRequest, objectVars, envVars, Arrive
<1>4. \A a \in Account \ {r.account} : accounts'[a] = accounts[a]
  BY <1>1, <1>2 DEF Arrive, Execute, SftpgoTypeOK
<1>5. CASE r.method = "POST"
  <2>1. LatePosts' \in {LatePosts, LatePosts \ {r.account}} /\ r.account \in LatePosts
    BY <1>3, <1>5 DEF LatePosts
  <2>2. CASE ~Accepts(r)
    <3>1. UNCHANGED <<accounts, disowned>>
      BY <1>1, <2>2 DEF Arrive, Execute
    <3>2. Ledger!Stray(r.account)
      BY <1>3, <2>1, <3>1, NothingEntered DEF Ledger!Stray
    <3> QED
      BY <1>2, <3>2 DEF Ledger!Next, Ledger!Accounts, Account
  <2>3. CASE Accepts(r)
    <3>1. Execute(r)
      BY <1>1, <2>3 DEF Arrive
    <3>2. accounts'[r.account] # Null
      BY <1>2, <1>5, <3>1, ExecutionLeaves
    <3>3. ExistingAccounts' = ExistingAccounts \cup {r.account}
      BY <1>2, <1>4, <3>2 DEF ExistingAccounts
    <3>4. \/ Ledger!Answered(r.account) /\ UNCHANGED disowned
          \/ disowned' = disowned \cup {r.account}
      <4>1. CASE GivenUp(r.account)
        BY <1>1, <1>5, <2>3, <4>1
      <4>2. CASE ~GivenUp(r.account)
        <5>1. \E o \in Users : Claims(o, r.account)
          BY <4>2 DEF GivenUp
        <5> QED
          BY <1>1, <1>2, <4>2, <5>1, AnsweredMeans
      <4> QED
        BY <4>1, <4>2
    <3>5. Ledger!Stray(r.account)
      BY <1>3, <2>1, <3>3, <3>4, NothingEntered DEF Ledger!Stray
    <3> QED
      BY <1>2, <3>5 DEF Ledger!Next, Ledger!Accounts, Account
  <2> QED
    BY <2>2, <2>3
<1>6. CASE r.method # "POST"
  <2>1. UNCHANGED LatePosts
    BY <1>3, <1>6 DEF LatePosts
  <2>2. accounts[r.account] = Null => accounts'[r.account] = Null
    BY <1>1, <1>2, <1>6 DEF Arrive, Execute, Accepts, Request
  <2>3. ExistingAccounts' \subseteq ExistingAccounts
    BY <1>2, <1>4, <2>2 DEF ExistingAccounts
  <2> QED
    BY <1>1, <1>3, <1>6, <2>1, <2>3, NothingEntered DEF Ledger!Next, Ledger!Vanish
<1> QED
  BY <1>5, <1>6

\* A crash may leave a request behind: a POST only of a job entitled to it.
LEMMA CrashKept ==
  ASSUME VouchInv, Crash
  PROVE  [Ledger!Next]_Ledger!ledger
<1>1. TypeOK /\ UNCHANGED <<api, srv, disowned>>
  BY DEF VouchInv, Crash, Relist, envVars
<1>2. CASE UNCHANGED sftpgoVars
  BY <1>1, <1>2, StutterKept DEF sftpgoVars
<1>3. CASE ~UNCHANGED sftpgoVars
  <2>1. PICK r \in Request : /\ job # Null /\ r.account = MyAccount /\ Send(r, "lost")
                             /\ r.method = "POST" => job.at = "upsert"
    BY <1>1, <1>3, CrashSends
  <2>2. ASSUME r.method = "POST" PROVE Ledger!Answered(r.account)
    <3>1. MyAccount \in disowned \/ Claims(job.key, MyAccount)
      BY <2>1, <2>2 DEF VouchInv, JobVouched, JobStage, Vouched, MyAccount
    <3> QED
      BY <1>1, <2>1, <3>1, JobParts, AnsweredMeans
  <2> QED
    BY <1>1, <2>1, <2>2, LostKept
<1> QED
  BY <1>2, <1>3

LEMMA StepKept == VouchInv /\ [Next]_vars => [Ledger!Next]_Ledger!ledger
<1> SUFFICES ASSUME VouchInv, [Next]_vars PROVE [Ledger!Next]_Ledger!ledger
  OBVIOUS
<1>1. CASE \E o \in Users : Plan(o)
  BY <1>1, PlanKept
<1>2. CASE \E o \in Users : UserEdits(o)
  BY <1>2, EditKept
<1>3. CASE \E o \in Users : UserCreates(o) \/ UserDeletes(o) \/ OtherFinalizerGoes(o)
  BY <1>3, OwnersKept
<1>4. CASE Work
  BY <1>4, AddFinalizerKept, ReleaseFinalizerKept, ReportStatusKept, HttpCallsKept DEF Work
<1>5. CASE \E s \in Servers : ServerChanges(s) \/ DatabaseLost(s)
  BY <1>5, ServersKept
<1>6. CASE LateRequest
  BY <1>6, LateRequestKept
<1>7. CASE (\E o \in Users : InformerDelivers(o) \/ InformerResyncs(o))
             \/ Tick \/ UNCHANGED vars
  <2>1. UNCHANGED <<api, accounts, late, disowned, srv>>
    BY <1>7 DEF InformerDelivers, Deliver, InformerResyncs, Resync, Tick,
                objectVars, sftpgoVars, envVars, vars
  <2> QED
    BY <2>1, StutterKept
<1>8. CASE Crash
  BY <1>8, CrashKept
<1> QED
  BY <1>1, <1>2, <1>3, <1>4, <1>5, <1>6, <1>7, <1>8 DEF Next

LEMMA InitKept == Init => Ledger!Init
BY DEF Init, KubeInit, SftpgoInit, Ledger!Init, StoredClaims, Claims, ExistingAccounts,
       LatePosts, UsableServers

\* SftpGoUserReconciler, with its lagging cache, its retries, crashes, and requests
\* lost or executed late, implements the AccountLedger: it provides an account only
\* while somebody answers for it, and lets go of one that is there only for one of
\* the recorded reasons.
THEOREM LedgerIsKept == Spec => KeepsLedger
<1>1. Spec => []VouchInv
  BY InitVouches, StepVouches, PTL DEF Spec
<1> QED
  BY <1>1, InitKept, StepKept, PTL DEF Spec, KeepsLedger, Ledger!Spec
================================================================================
