# A TLA+ model of sftpgo-operator

sftpgo-operator is a Kubernetes operator with two custom resources. An
`SftpGoServer` becomes a ConfigMap, a PersistentVolumeClaim, a Deployment and a
Service that run an SFTPGo server; an `SftpGoUser` becomes an account on such a
server, created, updated and deleted through SFTPGo's REST API. This directory
holds a formal model of that operator, checked with TLC and partly proved with
TLAPS. Paths below are relative to the repository (`src/` in `PROJECT.json`).

1. [The system](#1-the-system)
2. [Modules and how they correspond to the code](#2-modules-and-how-they-correspond-to-the-code)
3. [Properties](#3-properties)
4. [Runs, bounds and fairness](#4-runs-bounds-and-fairness)
5. [Proofs](#5-proofs)
6. [What the model says about the code](#6-what-the-model-says-about-the-code)
7. [What is not modelled](#7-what-is-not-modelled)
8. [Plan](#8-plan)

## 1. The system

| Component | Code | State it keeps | Operations |
|---|---|---|---|
| SftpGoUser controller | `internal/controller/sftpgouser_controller.go` | none between calls; it writes the finalizer and the status of its object | `Reconcile`, `deleteUserFromSFTPGO`, `resolvePassword`, `resolvePublicKeys`, `updateStatus` |
| SFTPGo REST client | `internal/sftpgo/client.go` | the cached JWT of one client (one `Reconcile` call) | `GetUser`, `CreateUser`, `UpdateUser`, `upsertUser`, `DeleteUser`, `UserFromCR`, `getToken` |
| SftpGoServer controller | `internal/controller/sftpgoserver_controller.go` | none between calls; it writes four children and the status | `Reconcile`, `createOrUpdate`, `deploymentForSftpGo`, `serviceForSftpGo`, `pvcForSftpGo`, `configMapForSftpGo`, `sftpgoMinimalConfig` |
| Custom resource types | `api/v1alpha1/*_types.go` | the stored objects | - |
| Manager | `cmd/main.go` | the informer caches and the work queues | start, stop, leader election (off) |
| API server, controller-runtime | dependencies (`go.mod`) | stored objects, watch streams, caches, queues | create, update, delete, deliver, resync, relist |
| SFTPGo | the deployed server | accounts, administrators | `GET/POST/PUT/DELETE /api/v2/users`, `/api/v2/token` |

How they interact:

- Both controllers read their objects from the informer **cache**, which follows
  the API server's watch stream with a delay, and write to the API server, which
  refuses a write whose resourceVersion is out of date.
- A write of the status is a new version of the object, so it comes back through
  the watch and starts another `Reconcile` call.
- The user controller reads the `SftpGoServer` and its admin secret (it watches
  neither), derives URL and credentials from them, and speaks HTTP to the server.
- The two controllers never call each other. They agree, or do not, because each
  computes ports and credentials from the same spec by itself.

What is hard:

- **Stale reads.** Up to two HTTP calls of 30 seconds each lie between the read
  of the object and the write of its status.
- **Two systems without a transaction.** An account must never exist without an
  object that will delete it. The only tool is the order: finalizer before
  POST, DELETE before the finalizer's removal, each through a stale cache.
- **Calls of unknown outcome.** A request that timed out may be executed later,
  after the object is gone.
- **Retries that are not idempotent.** `DeleteUser` takes the 404 of an account
  that is already gone for an error.
- **Nobody wakes the controllers up.** The user controller watches neither servers
  nor secrets, the server controller none of its children: a repaired secret, a
  lost database, a child that somebody deleted or a pod that became ready is only
  noticed when the informer resyncs.
- **Five objects, no transaction.** The server controller writes up to four children
  from one spec and reports on all of them at the end; it compares each with a
  cache that may not show what it wrote a moment ago.
- **Names are used again.** A server created under the name of a deleted one finds
  children with the old owner's uid, which the garbage collector is removing.
- **Two managers.** Leader election is off, and a rolling update overlaps two.
- **Competing objects.** Nothing keeps two `SftpGoUser` objects from naming one account.

What makes each component correct:

- User controller: no account is orphaned; a status that says Synced tells the
  truth; only accounts of deleted objects are deleted; what can be synced
  eventually is; deletions finish.
- REST client: the body sent means what the spec says (disabled stays disabled,
  a limit stays a limit, a new account has a way to log in).
- Server controller: what it reports is true of the stored spec; the children
  end up as the stored spec wants them and belong to the stored server; what some
  other controller owns is left alone; of a deleted server nothing stays; the pods
  are reported.
- What is generated from a spec: the port an SFTP client, the Service, the pod and
  `sftpgo.json` use is one port; likewise the REST port and the user controller's
  URL; both controllers use one administrator.

The full list of hazards, each at its line, is in `PROJECT.json`.

## 2. Modules and how they correspond to the code

```
KubeObjects, SftpgoClient, ServerResources, UserPayload    parts, instantiated or
    |                                                      extended by the modules below
    |-- UserController                       the SftpGoUser controller
    |     |-- UserLedger                     ... as an implementation of AccountLedger
    |     |-- TwoManagers                    two instances of it (MCTwoManagers)
    |     |-- UserControllerProofs
    |     |     |-- UserLedgerProofs
    |     |     `-- UserDeletionProofs
    |     `-- MCUserController
    |-- ServerController                     the SftpGoServer controller
    |     |-- ServerOwnership                ... as an implementation of ChildOwnership
    |     |-- ServerControllerProofs
    |     |     `-- ServerOwnershipProofs
    |     `-- MCServerController
    `-- Generated                            the pure functions of both
          |-- GeneratedProofs
          `-- MCGenerated
AccountLedger (AccountLedgerProofs), ChildOwnership        abstract specifications
```

(`Optional` holds the one helper for fields that may be absent; `QueueFacts` the
lemmas about watch streams that the proofs of both controllers use.)

`PROJECT.json` maps every definition to the lines it translates. The main
correspondences:

**`KubeObjects`** (external: the API server and controller-runtime, as the
controllers use them). `api`, `watch`, `cache` and `queue` are the stored version
of each object, the versions the informer has not seen yet, the informer's
store, and the keys of the work queue. An object is its spec, the controller's
finalizer (`fin`), somebody else's finalizer (`held`: foreground deletion), the
deletion timestamp and the status. Resource versions are not numbers: a job
knows whether its object is `stale`. A key in rate-limited back-off is simply in
the queue. A write that changes nothing is no new version, as in the API server. In both
controllers `Write` is the stored effect of an update, and `UpdateFails` an update that
returns an error: refused, lost before it was stored, or stored with its answer lost.

**`SftpgoClient`**. `accounts` are the databases of the servers; `late` holds the
requests a caller gave up on and the server may still execute. `Send` is one
HTTP call with its possible outcomes: answered, refused (409 for a POST of a
known name, 404 for a PUT or DELETE of an unknown one), or lost, in which case
nothing happened or the request is late. Failures to log in, to connect and to
read the answer are all "lost"; so is what a crash of the manager cuts off. Ids of accounts are only compared, so `NextId`
cycles through `1..MaxId`.

**`UserController`** is `SftpGoUserReconciler`. controller-runtime gives it one
worker, so there is at most one `Reconcile` call, the `job`. The call is cut
where it leaves the process:

| Action | Part of `Reconcile` |
|---|---|
| `PlanGone`, `PlanFinalizer`, `PlanDelete`, `PlanRefusal`, `PlanSync` | the reads of object, server and secrets from the cache, up to the first outside call, with every early return |
| `AddFinalizer` | `Update` with the finalizer (refused on an object that is being deleted), then requeue |
| `RemoveAccount` | `deleteUserFromSFTPGO`: the DELETE and what each answer leads to |
| `ReleaseFinalizer` | `Update` without the finalizer |
| `LookUpAccount` | `GetUser`, and the test for missing credentials |
| `WriteAccount` | `CreateUser` or `UpdateUser`, chosen by what `GetUser` answered |
| `ReportStatus` | the write of `Phase`, `Ready`, `LastSynced`, `UserID`; its error is returned on success and ignored in a refusal |
| `Fail` | the returns with an error and no status |

Around it run `UserCreates`, `UserEdits`, `UserDeletes`, `OtherFinalizerGoes`
(owners and other controllers), `ServerChanges` (a server or its admin secret
appears, disappears, is repaired), `InformerDelivers`, `InformerResyncs`,
`LateRequest`, `DatabaseLost` (a pod on an emptyDir is replaced), `Crash` (the
manager restarts and lists everything again; the POST, PUT or DELETE it was in the
middle of may still be executed) and `Tick` (a second passes).
`LastSynced` has a resolution of one second and only matters by being another than
before, so the clock goes round in `1..MaxClock`: with two values the rewriting of
`LastSynced` really goes on for ever in the model, as in the program.

Two variables are history only: `disowned` collects the accounts the controller
let go of for a reason visible in the code (DELETE skipped because the server
cannot be used; spec renamed; a late POST that is accepted after no object claims the
account any more, or while all that is left to do is to remove the finalizer: `GivenUp`),
and `job.disturbed` notes that
accounts changed under a running job by something else than its own calls.

Data is abstracted to what properties tell apart: a spec is the account it names
(server and user name), a `content` (what `UserFromCR` makes of the rest) and
whether credentials are given, missing, or refer to a secret that cannot be
read. `Phase` is a function of the Ready reason, so one field stands for both.

**`AccountLedger`** is the abstract specification of the user controller: who
answers for which account, without caches, jobs or requests. Entries are `Claim`,
`Rename`, `Release`, `Provide`, `LoseTrack` (a request that may be executed later),
`Stray` (it was: to no effect, to make an account somebody answers for, or one that
nobody does and that is abandoned with it), `Vanish`, `Abandon`, `ServersChange`. **`UserLedger`** gives the
refinement mapping: a claim is a stored object with the finalizer, `pending` are
the late POSTs, `abandoned` is `disowned`.

**`TwoManagers`** instantiates `UserController` twice, with a watch, cache, queue
and job for each manager and everything else shared. A step of one manager
appears on the other's watch and makes the other's job `stale` or `disturbed`.

**`ServerController`** is `SftpGoServerReconciler`, in the same style, over
`KubeObjects` for the servers and over `kids`, `kidCache`, `kidFresh` for the
children: for each kind the stored child, the cached version, and whether the two
are one. A child is its owner (a uid), its content (from `ServerResources`), and what
the Deployment controller writes on it.

| Action | Part of `Reconcile` |
|---|---|
| `PlanGone`, `PlanFinalizer`, `PlanRelease`, `PlanServer` | the read of the server and the early returns |
| `AddFinalizer`, `ReleaseFinalizer` | the two finalizer updates |
| `MakeConfigMap`, `MakePVC`, `MakeDeployment`, `MakeService` | one `createOrUpdate` each, with the status write or plain return its error leads to. `CreateOrUpdate` has three outcomes: `Made` (created; left alone because the cache shows it equal; updated), `Refused` (AlreadyExists, AlreadyOwned, Conflict, Invalid), or a failed call that may have been executed all the same |
| `RefreshDeployment` | the `Get` after the Deployment's write, from the cache |
| `ReportDegraded` | the status write of the ConfigMap and Deployment errors (its own error is ignored) |
| `ReportRunning` | Phase, ports, Ready, pod counts |

Around it: `OwnerCreates`, `OwnerEdits`, `OwnerDeletes` (in the foreground or not),
`Collect` (garbage collection by owner uid), `DependentsGone` (the end of a
foreground deletion), `SomebodyCreates` and `SomebodyDeletes` (other controllers and
people), `DeploymentSyncs` (the Deployment controller's status and annotation),
`KidDelivered` (a child's informer catches up), `InformerDelivers`,
`InformerResyncs`, `Crash`. `job.meddled` is history: the children that others
created or deleted after this call made them.

**`ChildOwnership`** is the abstract specification of who owns the children: for each
name the uid of the stored server and for each child the uid it belongs to. Servers
`Come`, are `Ask`ed to leave and `Go`; a child changes hands in a `Handover` only: it is
`Adopt`ed, for a server that is or was stored and that no child of the name is already
past, `Collect`ed when its owner is gone or going, or people `Meddle`.
**`ServerOwnership`** gives the refinement mapping from the stored objects.

**`ServerResources`** holds the pure functions of the server controller from a
spec to its children, with the user controller's address and credentials of the
same spec; **`UserPayload`** those from a user spec to the JSON body, including
what `omitempty` leaves out (a key list, inline or in a secret, is the set of the kinds
of its entries: key, comment, blank, since neither their order nor their number tells a
login from none). **`Generated`** turns them into a server and a user
whose owners edit them, so that TLC visits every spec of a bounded set and the
theorems speak of all.

Operators commented "Mutant" are not part of the model. Each is the operator
after it with a plausible mistake (a dropped guard, a forgotten error, a missing
default) and must break a property: they show that the properties are about the
code. `PROJECT.json` pairs them.

## 3. Properties

User controller:

- `TypeOK`, the type invariant.
- `NoSilentOrphan`: an account on a server is claimed by an object with the
  controller's finalizer, or was disowned for a recorded reason.
- `SyncedMeansApplied`: when Synced is written, the account named by the *stored*
  spec exists with that spec's content, unless accounts changed behind the
  back of this very call.
- `DeletesOnlyTheDeleted`: the controller's DELETE hits only accounts of objects
  being deleted. It is checked for one object, proved for any number of objects no two
  of which ever name one account, and **false for two objects that do**: after the first
  is gone its stale cache entry can lead to a second DELETE, which removes what the
  other object has re-created. `Converges` in `shared_account` shows that this heals.
- `OwnersDecide`: `r.Update` and the status writes send an object as it was read, possibly
  replaced since. They never change its spec, undo a deletion, bring back an object
  that is gone or store a new one, and the finalizer of a live object stays.
- `KeepsLedger`: every step is an entry of `AccountLedger` or none. It says more
  than `NoSilentOrphan`: also *when* an account may be provided, released or given up.
- `Converges`: once edits stop, an object that can be synced ends up applied,
  Synced and with the id of its account, although every success rewrites
  `LastSynced` and thereby starts the next call.
- `RefusalReported`: an object whose server cannot be used ends up with the
  status that says so, although an error of that write is ignored.
- `OrdinaryDeletionCompletes`: a deletion ends with the object gone if no edit or fault
  comes after it was asked for, nobody else names the account or holds the object, no
  request is late, and the account is there (or the server cannot be used). Whatever the
  controller was doing when it was asked for - adding the finalizer, writing a status
  from an older version, about to POST - it sends the DELETE, takes the finalizer off
  and does not repeat the DELETE in between.
- `OnlyA404HoldsBack`: whatever did get in its way, a deletion that never ends is one
  whose DELETE is answered 404 for ever (section 6); a conflict, a lost call or a server
  that cannot be used delays it only.

Server controller:

- `TypeOK`, the type invariant.
- `ReadyMeansDeployed`: when the status is written, Deployment and Service are
  those of the *stored* spec and belong to the *stored* object (not an earlier one
  of the name), unless somebody else touched them since this call made them.
- `OthersUntouched`: what another controller owns is neither written nor
  collected, also when the cache does not show it or shows it without an owner.
- `OwnersDecide`, as for users: also the status write that comes after up to four
  writes of other objects.
- `KeepsOwnership`: every step is one of `ChildOwnership` or none. A `Reconcile` call may
  still run for a server that is gone and has a successor; what it adopts then it only
  takes from servers that are not later than its own, never from the successor.
- `ChildrenConverge`: once users stop, all children are as the stored spec wants
  them and belong to the stored object, and the ports are reported. Its premises say
  what may stand in the way: a child of another controller, a size the API server
  refuses, a foreign Deployment (its selector cannot change), and a Deployment
  controller that never comes to rest.
- `ChildrenCollected`: of a server that is gone for good no child stays, also not
  one that a `Reconcile` call made from a stale cache after the server was gone.
- `PodsReported`: the pods a Deployment settles on are reported, although the
  controller does not watch Deployments.
- `ServerGoes`: a deletion that is requested completes.

Generated objects: `SftpReachable`, `SameAdmin`, `ApiReachableByDefault` (what is computed
in several places agrees); `CreatedCanLogIn` (the test for missing credentials lets
through exactly the accounts whose body has a password or a usable key, and besides
those with an inline key list that holds no key, which nothing looks into),
`DisableIsSent`, `LimitsAreKept` (quotas, sessions, bandwidths of at least 1 KB/s).

The properties of the violation runs (`DeletionCompletes`, `NoOrphanOfTwo`,
`ReadyMeansConfigured`, `ApiReachable`, `OnlyZeroIsUnlimited`) state what comments
and documentation say.

## 4. Runs, bounds and fairness

| Run | Instance | Shows |
|---|---|---|
| `user_safety` | 1 object, 4 specs, 2 accounts, 2 edits, 1 fault | the safety properties and the refinement under every interleaving of a job with edits, deletion, informer, late requests, a lost database, a failed write or a crash |
| `user_liveness` | 1 object, 2 specs, 2 edits, 1 fault, two times of day, fair | convergence in spite of the endless rewriting, refusals reported, ordinary deletions complete and the others wait for nothing but a 404 |
| `shared_account` | 2 objects naming 1 account, 2 edits, fair, server usable at first | safety and convergence while two objects overwrite and delete each other's account, and that no write undoes what owners did |
| `generated` | every server spec over 2 ports, 2 secrets, 4 backends; every user spec over the limits 0, 1, 1023, 1024, 2047 | ports and administrator agree; credentials, disabling and limits survive the conversion |
| `server_safety` | 1 name, 2 specs, 2 uids, 3 edits, 1 fault, the Service's cache lags | reports are true, others' children untouched and owners' decisions kept, over deletion and re-creation |
| `server_liveness` | 1 name, 2 specs (one with a volume), 2 uids, 2 edits, 1 fault, fair | children converge, are collected, deletions end; the refinement of `ChildOwnership` |
| `server_pods` | 1 name, 1 spec, 1 uid, the Deployment's cache lags, two pod counts, fair | the children converge and the pods are reported although the read-back may find nothing or something old |
| `deletion_stuck`, `two_managers`, `stale_config_map`, `api_reachable`, `bandwidth_rounding` | small | each refutes one property; see section 6 |

Bounds. `MaxEdits` bounds what owners and third parties do to objects, servers,
secrets and children: two is enough for a create and a change in the middle of any
call, of the object or of what it depends on, or a second create under the same name
(deletions are not counted). `MaxFaults` bounds lost calls, failed writes, lost
databases and crashes: one fault at every possible point; the proofs of section 5
cover any number. `MaxClock` is the number of different times of day: two in
`user_liveness` and `user_safety`, so that no status write repeats the one before by accident; one in
`shared_account` and `deletion_stuck`, where a repeated write of Synced then changes
nothing. `MaxId` bounds ids that are only compared; two tell an account from its
successor (one in `shared_account`, whose question is not about ids). `MaxUid`
bounds objects created under one name: two is a server and its successor.

`Loose` are the kinds of children whose informer may lag and which third parties may create and delete;
the informers of the others show each version at once. All kinds at once is too
many states for TLC, and each kind is written by the same `createOrUpdate`: the
Service (written unconditionally, last before the status) is loose in
`server_safety`, the Deployment (read back) in `server_pods`, the ConfigMap
(compared with the cache) in `stale_config_map`, none in `server_liveness`, which
has the crash and the second server instead. The theorems leave `Loose` open.
`PodCounts` is what the Deployment controller may report: nothing, or one pod of one.

What the bounds leave out, and the theorems of section 5 do not cover because they are
about safety: in `user_liveness` the two specs name different accounts, so no late PUT
carries older content of the account in question (in `user_safety` it does); in
`server_liveness` nobody else makes or deletes children (in `server_safety` and
`server_pods` they do); in `server_pods` the one edit makes the server, so nobody deletes
its Deployment.

`KeepsOwnership` is checked in `server_liveness`, whose crash and two uids it needs; it also
holds with the constants of `server_safety` (a lagging Service), at the price of a run
twice as long, and by theorem for all.

Watch streams and queues need no bound: edits and writes bound them. Two ports
and two secrets are enough because the code only compares them with a few
constants and passes the rest on; `GeneratedProofs` shows it for all.

`CHECK_DEADLOCK FALSE` in the runs of the controllers: when all objects are gone
and nobody edits, the system really is at rest.

Fairness (`Fairness`). A running job goes on (`WF` of `Work`): each of its calls
ends, at the latest by the client's timeout. The work queue is FIFO, so a waiting
key gets its worker (`SF` of `Plan`: a job of another key disables it time and
again). The informers deliver and resync (controller-runtime's `SyncPeriod`,
ten hours unless set); another finalizer is removed eventually; a late request
arrives; the garbage collector collects. Nothing is assumed of owners, of third
parties or of the Deployment controller, and no fault ever has to happen.
Since every run allows finitely many faults, "once calls stop being lost" is
implicit in the liveness properties.

The resync is essential: without `WF` of `InformerResyncs` neither `Converges` nor
`RefusalReported` nor `PodsReported` holds, because the controllers watch neither
servers' secrets nor children.

## 5. Proofs

The theorems hold for every value of the constants: any number of objects,
servers, user names and contents, any bounds, any set of lagging caches. Their
assumptions are the named `ASSUME`s of the modules: values that stand for "nothing" are none of
the records they are told apart from (`NullAssumption`, `NoneAssumption`,
`SecretsAssumption`, `SizesAssumption`), specs are specs (`SpecsAssumption`,
`UserSpecsAssumption`), bounds are naturals (`BoundsAssumption`,
`MaxIdAssumption`), ports are positive (`PortsAssumption`), 0 is a limit
(`LimitsAssumption`), some other controller is none of the uids and not 0, which stands for
nobody in `ChildOwnership` (`NoneAssumption`, `OtherAssumption`). TLC evaluates them in the runs.

| Module | Theorem | |
|---|---|---|
| `UserControllerProofs` | `TypeCorrect` | `Spec => []TypeOK` |
| | `NoOrphans` | `Spec => []NoSilentOrphan` |
| | `SyncedIsTrue` | `Spec => SyncedMeansApplied` |
| | `OwnersAlwaysDecide` | `Spec => OwnersDecide` |
| `UserDeletionProofs` | `DeletionsAreAskedFor` | `Spec /\ []Apart(own) => DeletesOnlyTheDeleted`: `own` says which object an account is for |
| `UserLedgerProofs` | `LedgerIsKept` | `Spec => KeepsLedger`: the user controller implements `AccountLedger` |
| `AccountLedgerProofs` | `EveryAccountIsAnswered` | whoever keeps the ledger has no unanswered account |
| `ServerControllerProofs` | `TypeCorrect` | `Spec => []TypeOK` |
| | `OthersAreUntouched` | `Spec => OthersUntouched` |
| | `ReadyIsTrue` | `Spec => ReadyMeansDeployed` |
| `ServerOwnershipProofs` | `OwnersAlwaysDecide` | `Spec => OwnersDecide` |
| | `OwnershipIsKept` | `Spec => KeepsOwnership`: the server controller implements `ChildOwnership` |
| | `ChildrenMoveForward` | a child that passes from one server of the name directly to another passes to a later one |
| `GeneratedProofs` | `CreatedLogsIn`, `SftpAgrees`, `AdminAgrees`, `DefaultApiAgrees`, `StatusIsSent`, `LimitsArrive` | the invariants of `generated`, for every spec |

*The argument for `NoOrphans`.* The invariant is not inductive, since the
controller acts on versions that are no longer stored. The strengthening
`VouchInv` follows a version on its way: call a version *vouched for* if, when
live (finalizer on, no deletion timestamp), its account is still claimed by the
stored object or has been disowned. Every version in the watch stream, in the
cache and in the hands of a job is vouched for (`WatchVouched`, `CacheVouched`,
`JobVouched`). This is preserved because the finalizer of an object is only
removed by a job that read a deletion timestamp and whose write is not refused:
its version is then the stored one (`FreshJob`), which needs that an empty watch
stream means an up-to-date cache (`InformerCatchesUp`, `LastVersionIsStored`), and
at that point no live version is left anywhere in the pipeline. `JobStage` says
what a job has read or done at each stage; before the finalizer's removal, the
account is gone or disowned. A POST is then always made on behalf of a vouched,
live version, and the removal of a finalizer never abandons an account.

*The argument for `SyncedIsTrue`.* `ReportIsTrue` says that a job about to report
Synced, and undisturbed, still finds its account with the content it sent
(`UpsertApplies` and the fact that no other step touches accounts without
disturbing the job). `StatusWriters` shows that only `ReportStatus` changes a
status, and only with a current resourceVersion, so the stored spec is the one
that was applied.

*The argument for `LedgerIsKept`.* Initial states map to initial states; for each
action there is a lemma that names its entry in the ledger or shows that the mapped
variables stutter. The guards of the entries (an account is provided or tracked
only if somebody answers for it, a claim is released only from an account that is
gone or abandoned) are where `VouchInv` is needed. `EveryAccountIsAnswered` is the
other half: the ledger's own invariant, `NoSilentOrphan` in abstract terms, follows from
its entries alone, so the abstract specification is strong enough to be worth implementing.

*The argument for `OthersAreUntouched`.* The invariant is `FreshIsStored`: a child
whose informer has caught up is cached as it is stored. A write of a child that
succeeds is either a creation where nothing is stored or an update of the cached,
hence stored, version, and that one is not another controller's (`MadeWrites`).
`WhoWrites` enumerates all other steps that change a child.

*The argument for `ReadyIsTrue`.* The property relates the last write of a call
to earlier writes of other objects, from a spec read before all of them. The
invariant `ReportInv` carries this over the calls between: `KidsAreMade` (Deployment and
Service stay as this call made them unless others meddled) and `FreshJob` (a job whose
writes are not refused has read the stored version), with `InformerCatchesUp` and
`LastVersionIsStored` as above. `Reporter` shows that no other step writes what
the property looks for.

*The argument for `OwnersAlwaysDecide`.* For both controllers: a write that is not
refused is made by a job that is not stale, whose version is the stored one
(`FreshJob`). What it stores differs from that in finalizer and status only
(`WritesOverTheStored`), and the finalizer is only removed by a job that has read a
deletion timestamp (`JobStage` for users, `ReleasesAreAsked` for servers), so on a
version that has one. `WhoStores` enumerates the other steps that store a version.

*The argument for `DeletionsAreAskedFor`.* Its hypothesis is that there is a function
`own` from accounts to objects such that no object ever names an account of another
one, the condition under which section 3 says the property can hold at all. Edits that
rename an object, and objects created again under the name, remain. The invariant
`DeletionInv` adds to `VouchInv` what holds of a version on its way that has the
finalizer and a deletion timestamp (`Dying`): its object is still being deleted and
claims its account, or the account was disowned (`WatchAsked`), or, once the version is
in the cache or in the hands of a job, the account is gone (`CacheAsked`, `DeleteAsked`).
An account that is gone could only come back through the same object, created again,
and while a job is about to write, a dying version in the cache still belongs to a
stored object that claims its account, or the account was disowned (`WriterPrecedes`).
A late POST brings it back undisowned only while the stored object claims it; but while a
dying version is about, that object does not live again (`NotRevived`): it is still being
deleted, so a DELETE is what its owner asked for.

*The argument for `OwnershipIsKept`.* The hard step is the adoption: `createOrUpdate`
overwrites the owner of whatever child of the name no other controller owns, on behalf
of a server it read long ago. `OwnershipInv` orders the uids along the way a version
takes: from the children to the running call (`JobBehind`), from there to the cached
version and over the watch stream to the last one (`InOrder`, `KidsBehind`), which is the
stored one. A child's owner, or the server of a call, is never later than any version
still to be seen (`Behind`), and since a new version at the end of the stream has the
stored uid or a new, larger one, that stays so (`LineStep`, `BehindStays`). A call starts
from the cached version, hence at or after every child; while it runs only it adopts.
So what it adopts it takes from servers that are not later than its own, although a later
one may be stored already. `KidChanges` enumerates who changes a child; `OwnershipNext`
has one step per entry of `ChildOwnership`.

Only model-checked: liveness, which is outside the prover's reach like `ENABLED`. Every
invariant, action property and refinement that a passing run checks is a theorem.

## 6. What the model says about the code

Each item is a violation run and an entry under "findings".

1. `deletion_stuck`: if the account is missing when DELETE is sent (the lost answer
   of a first DELETE, a conflict or crash after it, another object's deletion, an object
   deleted before its account was made), `DeleteUser` fails with the 404 and the
   finalizer is never removed: the object cannot be deleted while the server is usable.
2. `two_managers`: during a rolling update one manager can POST an account from a live
   version it still holds, after the other has sent the DELETE and removed the
   finalizer. The object is gone, the account stays.
3. `stale_config_map`: after two edits in a row the cached ConfigMap may equal the
   one wanted now while the stored one is that of the edit between; no call is
   made, Ready is reported, and nothing but the next event or resync repairs it.
4. `api_reachable`: the generated `sftpgo.json` binds the API to 8080 whatever the
   port in the spec, while container and Service follow the spec, and the user
   controller ignores `spec.config.http.port`, which the Service follows.
5. `bandwidth_rounding`: limits below 1024 bytes/s become "unlimited".

Three more places where code and documentation disagree, each a matter of one line that a
run would only repeat:

- `spec.database` of a server, "Database config for mysql/postgres" (`README.md:107`,
  `api/v1alpha1/sftpgoserver_types.go:71`), is read nowhere, and the `mysql` and
  `postgres` backends get a file name instead of a connection.
- `status.replicas` is "the current number of replicas"
  (`sftpgoserver_types.go:289`), but a count of 0 is never copied
  (`sftpgoserver_controller.go:184`): a server scaled to nothing keeps showing its last
  pods. `PodsReported` therefore speaks of positive counts.
- `spec.maxConcurrentTransfers` and `spec.rateLimits` of a user
  (`sftpgouser_types.go:77-87`) are dropped by `UserFromCR`; `LimitsAreKept` does not
  speak of them.

Observations that no comment or document contradicts, so without a run:

- Inline `publicKeys` are counted and sent as they are, only the lines of a secret are
  filtered (`sftpgouser_controller.go:262-264`, `273-281`): a blank or a comment is
  enough to get an account that nobody can log in to.
- The database file is always under `/srv/sftpgo`, so with `dataVolume.mountPath` set to
  anything else it is not on the volume and goes with the pod.
- An object that was Synced and now refers to an unreadable secret goes on saying Synced.
- A Degraded condition is never taken back, also when the server is Ready.
- An invalid volume size fails every call at the PVC, without a status, and the
  Deployment is never made; a changed size is never applied.

## 7. What is not modelled

- The renewal of the cached token (`getToken`): a client lives for one `Reconcile`
  call of a few requests, so only its first login matters, whose failure is one
  of the causes of a lost call.
- Two managers of *servers*: all children are written under optimistic concurrency
  against the same API server, and the same children are wanted by both.
- The composition of both controllers: they share no state that either writes.
  The user controller only reads a server's spec and secret, which its owner writes
  (`ServerChanges`), and what both compute from one spec is compared in `Generated`.
- JSON, HTTP and log formats, TLS, metrics and health endpoints, labels, images,
  scheduling: passed through or pure I/O.
- Generated deep copies, scheme registration, manifests, tests.
- Fields no code reads (database, filters, filesystems, protocols, limits on rates and on
  concurrent transfers), and the mount path of the data volume, which is passed on.

## 8. Plan

Done: both controllers with their runs, their abstract specifications and the
refinements, two managers, the generated objects; all safety properties proved.

What is left, most useful first:

1. A safety theorem for two managers: which orphans overlap can and cannot make.
2. An abstract specification of the server controller that also follows the
   *contents* of the children (`ChildOwnership` follows their owners).
