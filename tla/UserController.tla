---------------------------- MODULE UserController -----------------------------
(****************************************************************************)
(* SftpGoUserReconciler (internal/controller/sftpgouser_controller.go): the *)
(* controller that keeps one SFTPGo account per SftpGoUser object.          *)
(*                                                                          *)
(* A manager runs one worker (controller-runtime's default), so there is at *)
(* most one Reconcile call at a time, the "job". A job is cut at the points *)
(* where it leaves the process: every write to the API server and every     *)
(* HTTP call is a step of its own, and everything else (users, the other    *)
(* controllers, the informer, late requests, a crash) may run in between.   *)
(* The reads before the first such call come from the local cache and are   *)
(* one step: the Plan... actions.                                           *)
(****************************************************************************)
EXTENDS Naturals, Sequences, SftpgoClient

CONSTANTS
  Users,      \* names of the SftpGoUser objects
  Specs,      \* the specs their owners may give them
  MaxEdits,   \* bound on what users do to objects, servers and secrets
  MaxFaults,  \* bound on lost calls, failed writes, lost databases, crashes
  MaxClock    \* number of different times of day

VARIABLES
  api, watch, cache, queue,   \* see KubeObjects
  srv,       \* srv[s]: what the cache says of server s and its admin secret
  job,       \* the Reconcile call in progress, or Null
  now,       \* the second metav1.Now() reads, in a cycle from 1
  disowned,  \* history: accounts left behind for a recorded reason
  edits, faults

Creds == {"none", "given", "unreadable"}
UserSpec == [account: Servers \X Usernames, content: Contents, cred: Creds]

\* "ready": found, and its secret has a username and a password.
ServerViews == {"absent", "secretMissing", "noCreds", "ready"}
Reasons == {"ServerNotFound", "AuthError", "AuthNotConfigured",
            "ValidationError", "APIError", "Synced"}
\* Phase is a function of the Ready condition's reason: one field for both.
UserStatus == [reason: Reasons \cup {"None"}, lastSynced: Nat, userID: Nat]
NoUserStatus == [reason |-> "None", lastSynced |-> 0, userID |-> 0]

INSTANCE KubeObjects WITH Objects <- Users, ObjectSpecs <- UserSpec,
  Statuses <- UserStatus, NoStatus <- NoUserStatus

ASSUME SpecsAssumption == Specs \subseteq UserSpec
ASSUME BoundsAssumption == MaxEdits \in Nat /\ MaxFaults \in Nat /\ MaxClock \in Nat

(****************************************************************************)
(* A job: the object as read from the cache, whether the API server has a   *)
(* newer version by now (its resourceVersion is stale), the call it is at,  *)
(* the id GetUser found, the reason it will report, and whether it then     *)
(* returns an error. disturbed is history: the server's accounts changed    *)
(* under this job by something else than its own calls.                     *)
(****************************************************************************)
Stages == {"addFinalizer", "delete", "release", "fail", "get", "upsert", "report"}
Job == [key: Users, snap: Object, stale: BOOLEAN, at: Stages, found: Nat,
        reason: Reasons, retry: BOOLEAN, disturbed: BOOLEAN]

ASSUME NullAssumption ==
  Null \notin Object /\ Null \notin Job /\ Null \notin [content: Contents, id: 1..MaxId]

vars == <<api, watch, cache, queue, accounts, lastId, late, srv, job, now,
          disowned, edits, faults>>
objectVars == <<api, watch, cache, queue>>
envVars == <<srv, now, edits>>

TypeOK ==
  /\ KubeTypeOK /\ SftpgoTypeOK
  /\ srv \in [Servers -> ServerViews]
  /\ job \in Job \cup {Null}
  /\ now \in Nat
  /\ disowned \subseteq Account
  /\ edits \in Nat /\ faults \in Nat

Init ==
  /\ KubeInit /\ SftpgoInit
  /\ srv \in [Servers -> ServerViews]
  /\ job = Null
  /\ now = 1
  /\ disowned = {}
  /\ edits = 0 /\ faults = 0

Fault == faults < MaxFaults /\ faults' = faults + 1

--------------------------------------------------------------------------------
(****************************************************************************)
(* Reconcile up to its first call: a worker takes a key and plans the job.  *)
(****************************************************************************)
Take(o) ==
  /\ job = Null
  /\ o \in queue
  /\ queue' = queue \ {o}
  /\ UNCHANGED <<api, watch, cache, sftpgoVars, envVars, faults>>

Start(o, stage, reason, retry) ==
  job' = [key |-> o, snap |-> cache[o], stale |-> watch[o] # <<>>, at |-> stage,
          found |-> 0, reason |-> reason, retry |-> retry, disturbed |-> FALSE]

PlanGone(o) ==
  /\ Take(o)
  /\ cache[o] = Null
  /\ UNCHANGED <<job, disowned>>

PlanFinalizer(o) ==
  /\ Take(o)
  /\ cache[o] # Null
  /\ ~cache[o].fin
  /\ Start(o, "addFinalizer", "APIError", TRUE)
  /\ UNCHANGED disowned

ServerOf(v) == srv[v.spec.account[1]]

\* Mutants: the deletion timestamp is not looked at; a server that cannot be used
\* is an error.
PlanDeleteAnyway(o) ==
  /\ Take(o)
  /\ cache[o] # Null
  /\ cache[o].fin
  /\ Start(o, "delete", "APIError", TRUE)
  /\ UNCHANGED disowned

PlanDeleteStrict(o) ==
  /\ Take(o)
  /\ cache[o] # Null
  /\ cache[o].fin /\ cache[o].deleting
  /\ Start(o, IF ServerOf(cache[o]) = "ready" THEN "delete" ELSE "fail", "APIError", TRUE)
  /\ UNCHANGED disowned

\* deleteUserFromSFTPGO: no server, or no way to log in to it, skips the DELETE.
PlanDelete(o) ==
  /\ Take(o)
  /\ cache[o] # Null
  /\ cache[o].fin /\ cache[o].deleting
  /\ \/ /\ ServerOf(cache[o]) = "ready"
        /\ Start(o, "delete", "APIError", TRUE)
        /\ UNCHANGED disowned
     \/ /\ ServerOf(cache[o]) # "ready"
        /\ Start(o, "release", "APIError", TRUE)
        /\ disowned' = disowned \cup {cache[o].spec.account}

\* Mutant: the account may be written before the finalizer is on.
LiveUnguarded(v) == v # Null /\ ~v.deleting

Live(v) == v # Null /\ v.fin /\ ~v.deleting

\* Mutant: the error of a missing secret is returned without a status.
PlanRefusalSilent(o) ==
  /\ Take(o)
  /\ Live(cache[o])
  /\ \/ ServerOf(cache[o]) = "absent" /\ Start(o, "report", "ServerNotFound", FALSE)
     \/ ServerOf(cache[o]) = "secretMissing" /\ Start(o, "fail", "AuthError", TRUE)
     \/ ServerOf(cache[o]) = "noCreds" /\ Start(o, "report", "AuthNotConfigured", FALSE)
  /\ UNCHANGED disowned

\* Server and admin credentials: the three refusals. Only a failed read of the
\* secret makes Reconcile return an error.
PlanRefusal(o) ==
  /\ Take(o)
  /\ Live(cache[o])
  /\ \/ ServerOf(cache[o]) = "absent" /\ Start(o, "report", "ServerNotFound", FALSE)
     \/ ServerOf(cache[o]) = "secretMissing" /\ Start(o, "report", "AuthError", TRUE)
     \/ ServerOf(cache[o]) = "noCreds" /\ Start(o, "report", "AuthNotConfigured", FALSE)
  /\ UNCHANGED disowned

\* A password or key secret that cannot be read returns the error and no status.
PlanSync(o) ==
  /\ Take(o)
  /\ Live(cache[o])
  /\ ServerOf(cache[o]) = "ready"
  /\ Start(o, IF cache[o].spec.cred = "unreadable" THEN "fail" ELSE "get",
           "APIError", TRUE)
  /\ UNCHANGED disowned

Plan(o) == PlanGone(o) \/ PlanFinalizer(o) \/ PlanDelete(o) \/ PlanRefusal(o)
             \/ PlanSync(o)

--------------------------------------------------------------------------------
(****************************************************************************)
(* The rest of Reconcile, one call at a time.                               *)
(****************************************************************************)
At(stage) == job # Null /\ job.at = stage
Goto(stage) == job' = [job EXCEPT !.at = stage] /\ UNCHANGED queue
Return(retry) ==
  /\ job' = Null
  /\ queue' = IF retry THEN queue \cup {job.key} ELSE queue

\* Mutant: a patch without a resourceVersion.
UpdateAnyway(v) == Store(job.key, v) /\ UNCHANGED faults

\* A write carries the resourceVersion that was read: a newer version refuses it.
\* A write that changes nothing makes no new version and no watch event.
Write(v) ==
  /\ ~job.stale
  /\ IF v = job.snap THEN UNCHANGED <<api, watch>> ELSE Store(job.key, v)

Update(v) == Write(v) /\ UNCHANGED faults

\* Refused, or an error on the way, after which it may be stored all the same.
UpdateFails(v) ==
  \/ job.stale /\ UNCHANGED <<api, watch, faults>>
  \/ Fault /\ (UNCHANGED <<api, watch>> \/ Write(v))

\* The API server accepts no new finalizer on an object being deleted.
AddFinalizer ==
  LET guarded == [job.snap EXCEPT !.fin = TRUE]
  IN /\ At("addFinalizer")
     /\ \/ ~job.snap.deleting /\ (Update(guarded) \/ UpdateFails(guarded))
        \/ job.snap.deleting /\ UNCHANGED <<api, watch, faults>>
     /\ Return(TRUE)
     /\ UNCHANGED <<cache, sftpgoVars, envVars, disowned>>

\* Mutant: the finalizer is removed from a copy.
ReleaseFinalizerForgetful ==
  /\ At("release")
  /\ \/ Update(job.snap) /\ Return(FALSE)
     \/ UpdateFails(job.snap) /\ Return(TRUE)
  /\ UNCHANGED <<cache, sftpgoVars, envVars, disowned>>

ReleaseFinalizer ==
  LET released == Settled([job.snap EXCEPT !.fin = FALSE])
  IN /\ At("release")
     /\ \/ Update(released) /\ Return(FALSE)
        \/ UpdateFails(released) /\ Return(TRUE)
     /\ UNCHANGED <<cache, sftpgoVars, envVars, disowned>>

Fail ==
  /\ At("fail")
  /\ Return(TRUE)
  /\ UNCHANGED <<api, watch, cache, sftpgoVars, envVars, disowned, faults>>

MyAccount == job.snap.spec.account
MyContent == job.snap.spec.content
Report(reason, retry) ==
  /\ job' = [job EXCEPT !.at = "report", !.reason = reason, !.retry = retry]
  /\ UNCHANGED queue

Delete404 == DeleteUser(MyAccount, MyContent, "refused") /\ UNCHANGED faults

\* Mutant: the error of DeleteUser is logged and forgotten.
RemoveAccountUnchecked ==
  /\ At("delete")
  /\ \/ DeleteUser(MyAccount, MyContent, "ok") /\ UNCHANGED faults
     \/ Delete404
     \/ Fault /\ DeleteUser(MyAccount, MyContent, "lost")
  /\ Goto("release")
  /\ UNCHANGED <<api, watch, cache, envVars, disowned>>

RemoveAccount ==
  /\ At("delete")
  /\ \/ DeleteUser(MyAccount, MyContent, "ok") /\ UNCHANGED faults /\ Goto("release")
     \/ Delete404 /\ Return(TRUE)
     \/ Fault /\ DeleteUser(MyAccount, MyContent, "lost") /\ Return(TRUE)
  /\ UNCHANGED <<api, watch, cache, envVars, disowned>>

\* Mutant: a 404 is an error like any other.
LookUpAccountStrict ==
  /\ At("get")
  /\ \/ /\ UNCHANGED faults
        /\ IF GetUser(MyAccount) = 0
             THEN Report("APIError", TRUE)
             ELSE /\ job' = [job EXCEPT !.at = "upsert", !.found = GetUser(MyAccount)]
                  /\ UNCHANGED queue
     \/ Fault /\ Report("APIError", TRUE)
  /\ UNCHANGED <<api, watch, cache, sftpgoVars, envVars, disowned>>

LookUpAccount ==
  /\ At("get")
  /\ \/ /\ UNCHANGED faults
        /\ IF GetUser(MyAccount) = 0 /\ job.snap.spec.cred = "none"
             THEN Report("ValidationError", FALSE)
             ELSE /\ job' = [job EXCEPT !.at = "upsert", !.found = GetUser(MyAccount)]
                  /\ UNCHANGED queue
     \/ Fault /\ Report("APIError", TRUE)
  /\ UNCHANGED <<api, watch, cache, sftpgoVars, envVars, disowned>>

\* PUT of what was found, POST of what was not.
Upsert(outcome) ==
  UpsertUser(IF job.found # 0 THEN "PUT" ELSE "POST", MyAccount, MyContent, outcome)

WriteAccount ==
  /\ At("upsert")
  /\ \/ Upsert("ok") /\ UNCHANGED faults /\ Report("Synced", FALSE)
     \/ Upsert("refused") /\ UNCHANGED faults /\ Report("APIError", TRUE)
     \/ Fault /\ Upsert("lost") /\ Report("APIError", TRUE)
  /\ UNCHANGED <<api, watch, cache, envVars, disowned>>

\* The status the job writes: Synced stamps the time, and the id if one was found.
NewStatus ==
  IF job.reason # "Synced"
    THEN [job.snap.status EXCEPT !.reason = job.reason]
    ELSE [reason |-> "Synced", lastSynced |-> now,
          userID |-> IF job.found # 0 THEN job.found ELSE job.snap.status.userID]

\* The refusals ignore an error of the write, the success path returns it.
ReportStatus ==
  LET reported == [job.snap EXCEPT !.status = NewStatus]
  IN /\ At("report")
     /\ \/ Update(reported) /\ Return(job.retry)
        \/ UpdateFails(reported) /\ Return(job.retry \/ job.reason = "Synced")
     /\ UNCHANGED <<cache, sftpgoVars, envVars, disowned>>

Work == AddFinalizer \/ ReleaseFinalizer \/ Fail \/ RemoveAccount
          \/ LookUpAccount \/ WriteAccount \/ ReportStatus

--------------------------------------------------------------------------------
(****************************************************************************)
(* Everything else: users, other controllers, the informer, the servers.    *)
(****************************************************************************)
Spend == edits < MaxEdits /\ edits' = edits + 1
Outdate(o) ==
  job' = IF job # Null /\ job.key = o THEN [job EXCEPT !.stale = TRUE] ELSE job
Disturb == job' = IF job = Null THEN Null ELSE [job EXCEPT !.disturbed = TRUE]

UserCreates(o) ==
  /\ Spend
  /\ \E s \in Specs : Create(o, s)
  /\ Outdate(o)
  /\ UNCHANGED <<sftpgoVars, srv, now, disowned, faults>>

\* Naming another account (user name or server) leaves the old one to nobody.
UserEdits(o) ==
  /\ Spend
  /\ \E s \in Specs :
       /\ Edit(o, s)
       /\ disowned' = IF api[o].fin /\ s.account # api[o].spec.account
                      THEN disowned \cup {api[o].spec.account} ELSE disowned
  /\ Outdate(o)
  /\ UNCHANGED <<sftpgoVars, srv, now, faults>>

UserDeletes(o) ==
  /\ \E foreground \in BOOLEAN : Delete(o, foreground)
  /\ Outdate(o)
  /\ UNCHANGED <<sftpgoVars, envVars, disowned, faults>>

OtherFinalizerGoes(o) ==
  /\ Unhold(o)
  /\ Outdate(o)
  /\ UNCHANGED <<sftpgoVars, envVars, disowned, faults>>

ServerChanges(s) ==
  /\ Spend
  /\ \E v \in ServerViews \ {srv[s]} : srv' = [srv EXCEPT ![s] = v]
  /\ UNCHANGED <<objectVars, sftpgoVars, job, now, disowned, faults>>

InformerDelivers(o) ==
  /\ Deliver(o)
  /\ UNCHANGED <<sftpgoVars, envVars, job, disowned, faults>>

InformerResyncs(o) ==
  /\ Resync(o)
  /\ UNCHANGED <<sftpgoVars, envVars, job, disowned, faults>>

Claims(o, a) == api[o] # Null /\ api[o].fin /\ api[o].spec.account = a

\* Nobody will delete account a any more: no object claims it, or its DELETE has
\* been answered and only the removal of the finalizer is left to do.
GivenUp(a) == (~\E o \in Users : Claims(o, a)) \/ (At("release") /\ MyAccount = a)

\* A late POST may bring back an account that was given up.
LateRequest ==
  /\ \E r \in late :
       /\ Arrive(r)
       /\ disowned' = IF r.method = "POST" /\ Accepts(r) /\ GivenUp(r.account)
                      THEN disowned \cup {r.account} ELSE disowned
  /\ Disturb
  /\ UNCHANGED <<objectVars, envVars, faults>>

DatabaseLost(s) ==
  /\ Fault
  /\ LoseData(s)
  /\ Disturb
  /\ UNCHANGED <<objectVars, envVars, disowned>>

\* The manager dies and starts again: the job, the queue and the cache are gone,
\* a request that was sent may still be on its way.
Crash ==
  /\ Fault
  /\ Relist
  /\ job' = Null
  /\ \/ UNCHANGED sftpgoVars
     \/ At("delete") /\ DeleteUser(MyAccount, MyContent, "lost")
     \/ At("upsert") /\ Upsert("lost")
  /\ UNCHANGED <<envVars, disowned>>

\* Only whether two stamps differ matters, so the clock may come round.
Tick ==
  /\ now' = IF now < MaxClock THEN now + 1 ELSE 1
  /\ UNCHANGED <<objectVars, sftpgoVars, srv, job, disowned, edits, faults>>

Next ==
  \/ \E o \in Users :
       \/ Plan(o)
       \/ UserCreates(o) \/ UserEdits(o) \/ UserDeletes(o) \/ OtherFinalizerGoes(o)
       \/ InformerDelivers(o) \/ InformerResyncs(o)
  \/ Work
  \/ \E s \in Servers : ServerChanges(s) \/ DatabaseLost(s)
  \/ LateRequest \/ Crash \/ Tick

Spec == Init /\ [][Next]_vars

\* The queue is FIFO, so a waiting key gets its worker (SF); a job runs on, the
\* informer delivers and resyncs, and an abandoned request arrives if it ever
\* will. Nobody has to create, edit or delete anything, nor does anything fail.
Fairness ==
  /\ \A o \in Users : /\ SF_vars(Plan(o))
                      /\ WF_vars(InformerDelivers(o))
                      /\ WF_vars(InformerResyncs(o))
                      /\ WF_vars(OtherFinalizerGoes(o))
  /\ WF_vars(Work)
  /\ WF_vars(LateRequest)

FairSpec == Spec /\ Fairness

--------------------------------------------------------------------------------
(****************************************************************************)
(* Properties                                                               *)
(****************************************************************************)

\* An account on a server is always claimed by an object that still carries the
\* controller's finalizer, except where the controller knowingly let go of it:
\* a skipped DELETE, a renamed object, a POST executed after it was given up.
\* (Finalizer before POST, DELETE before finalizer removal, on any stale cache.)
NoSilentOrphan ==
  \A a \in Account :
    accounts[a] # Null /\ a \notin disowned => \E o \in Users : Claims(o, a)

\* When the controller writes Synced on an object, the account the stored (not
\* the cached) spec names exists with that spec's content, unless the accounts
\* changed behind the back of this very Reconcile call.
SyncedMeansApplied ==
  [][\A o \in Users :
       /\ api[o] # Null /\ api'[o] # Null
       /\ api'[o].status # api[o].status
       /\ api'[o].status.reason = "Synced"
       /\ ~job.disturbed
       => LET a == accounts[api[o].spec.account]
          IN a # Null /\ a.content = api[o].spec.content]_vars

\* The controller's DELETE removes an account only while an object that names it
\* is being deleted, or after the account was disowned (an edit in mid-deletion).
DeletesOnlyTheDeleted ==
  [][\A a \in Account :
       /\ accounts[a] # Null /\ accounts'[a] = Null
       /\ faults' = faults /\ late' = late
       => \/ a \in disowned
          \/ \E o \in Users : Claims(o, a) /\ api[o].deleting]_vars

\* Only its owner brings an object (back) into being, changes its spec or takes it
\* out of deletion, and until a deletion is asked for the finalizer stays: what the
\* controller writes is a whole object as it read it, by then possibly replaced.
OwnerDecides(o) ==
  /\ api'[o] # Null /\ edits' = edits
       => /\ api[o] # Null
          /\ api'[o].spec = api[o].spec
          /\ api[o].deleting => api'[o].deleting
  /\ Live(api[o]) => api'[o] # Null /\ api'[o].fin
OwnersDecide == [][\A o \in Users : OwnerDecides(o)]_vars

Reports(o, reason) == api[o] # Null /\ api[o].status.reason = reason
Applied(o) ==
  /\ accounts[api[o].spec.account] # Null
  /\ accounts[api[o].spec.account].content = api[o].spec.content

\* The object can be synced and no other object competes for its account.
Syncable(o) ==
  /\ Live(api[o])
  /\ api[o].spec.cred = "given"
  /\ ServerOf(api[o]) = "ready"
  /\ \A p \in Users \ {o} : api[p] = Null \/ api[p].spec.account # api[o].spec.account

\* Once users stop editing, an object that can be synced ends up applied, reported
\* as Synced and showing the id of its account, whatever calls were lost, late or
\* repeated on the way, and although another object (or a late DELETE, or a lost
\* database) may have removed or overwritten the account since.
Converges ==
  \A o \in Users :
    <>[]Syncable(o)
    => <>[](/\ Reports(o, "Synced")
            /\ Applied(o)
            /\ api[o].status.userID = accounts[api[o].spec.account].id)

\* An object whose server cannot be used ends up with a status that says why,
\* although an error of that status write is ignored.
RefusalReported ==
  \A o \in Users :
    /\ <>[](Live(api[o]) /\ ServerOf(api[o]) = "absent")
         => <>[]Reports(o, "ServerNotFound")
    /\ <>[](Live(api[o]) /\ ServerOf(api[o]) = "secretMissing")
         => <>[]Reports(o, "AuthError")
    /\ <>[](Live(api[o]) /\ ServerOf(api[o]) = "noCreds")
         => <>[]Reports(o, "AuthNotConfigured")

Deleting(o) == api[o] # Null /\ api[o].deleting

\* A deletion that was just asked for, of an object that is nobody else's concern,
\* while every request is answered: its account is there to be deleted, or its
\* server cannot be used.
OrdinaryDeletion(o) ==
  /\ Deleting(o) /\ api[o].fin /\ ~api[o].held
  /\ \A v \in {cache[o]} \cup {watch[o][i] : i \in 1..Len(watch[o]) - 1} :
       v # Null => ~v.deleting
  /\ job = Null \/ job.key # o \/ ~job.snap.deleting
  /\ \A p \in Users \ {o} : api[p] = Null /\ cache[p] = Null
  /\ late = {}
  /\ ServerOf(api[o]) = "ready" => accounts[api[o].spec.account] # Null

\* Nobody edits any more and nothing fails any more.
Calm == edits = MaxEdits /\ faults = MaxFaults

\* An ordinary deletion ends with the object gone, whatever the controller is doing
\* when it is asked for, unless an edit or a fault gets in its way later (a conflict,
\* a crash or a lost call between DELETE and finalizer removal).
OrdinaryDeletionCompletes ==
  \A o \in Users : OrdinaryDeletion(o) /\ Calm ~> api[o] = Null

\* DELETE is answered 404 for as long as this holds, and the finalizer stays.
StuckOn404(o) ==
  /\ Deleting(o) /\ api[o].fin
  /\ ServerOf(api[o]) = "ready"
  /\ accounts[api[o].spec.account] = Null

\* Whatever got in its way, a deletion that never ends is one whose DELETE is
\* answered 404 for ever: no other error of a server, no conflict and no server
\* that cannot be used holds an object back for good.
OnlyA404HoldsBack == \A o \in Users : <>[]Deleting(o) => <>[]StuckOn404(o)

--------------------------------------------------------------------------------
(****************************************************************************)
(* What comments of the code say and the code does not do.                  *)
(****************************************************************************)

\* "Handle deletion - remove user from SFTPGO": a deletion that is requested
\* completes.
DeletionCompletes ==
  \A o \in Users : (api[o] # Null /\ api[o].deleting) ~> (api[o] = Null)
================================================================================
