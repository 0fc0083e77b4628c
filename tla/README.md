# LiteBoxd in TLA+

LiteBoxd runs sandboxes (one container each, ephemeral or with a persistent
root file system) on Kubernetes. A Go server keeps a row per sandbox in
SQLite, creates and deletes Kubernetes objects, and has several background
loops that compare the two and write the row; a gateway proxies traffic to the
sandboxes, an SDK and a command line talk to both, and an installer sets a
cluster up. This directory holds TLA+ models of the parts where that is hard to
get right, the TLC configurations that check them, and TLAPS proofs.

Contents: [inventory](#1-inventory), [modules](#2-modules-and-the-code),
[runs](#3-runs), [fairness](#4-fairness), [proofs](#5-proofs),
[findings](#6-findings), [limits](#7-abstractions-and-what-is-left-out),
[plan](#8-plan).

## 1. Inventory

Paths are relative to `src/backend/internal/` unless they begin with `src/`.

| Component | State it keeps | Operations | What makes it correct |
|---|---|---|---|
| sandbox store (`store/sandbox.go`) | rows of `sandboxes`: desired state, lifecycle status, deletion phase, start, retry time, force level, `stopped_at`, `deleted_at` | one UPDATE per operation, each with its own WHERE clause | a statement of somebody with an old copy cannot undo a later one |
| deletion executor (`service/sandbox_deletion.go`) | phase and force level, in the row | `RunPending`: list the due rows, then one handler per row and phase | `deleted` is truthful; storage goes after the runtime; Retain keeps its storage; every deletion ends, also after crashes |
| sandbox service (`service/sandbox.go`, `service/persistent_status.go`) | none besides the row; one startup monitor per created sandbox | Create, Delete, Restart, Stop, Start; monitor; TTL cleaner | the row agrees with the cluster in the end; nothing is orphaned |
| reconciler (`service/sandbox_reconcile.go`) | reports of its runs | copy the rows, read the cluster, correct each row | repairs every lost or stale write and never undoes a deletion |
| Kubernetes client (`k8s/`) | the objects, in the cluster | create, delete, scale, patch, read | a snapshot read call by call is good enough for the decision taken on it |
| Kubernetes controllers (external) | Deployments, ReplicaSets, Pods, claims, volumes | replace, collect, finalize, detach, reclaim | |
| drain and shutdown (`lifecycle/drain.go`, `src/backend/cmd/server/main.go`, `src/backend/cmd/gateway/main.go`) | draining flag, WaitGroup of tracked WebSockets | track, release, start draining, wait | a shutdown that reports itself drained has cut nothing off; SIGTERM always ends the process |
| gateway (`gateway/proxy.go`, `gateway/middleware.go`) | two connections per WebSocket, two goroutines | admit, dial, upgrade, relay, close | the end that is left is told and nothing leaks |
| interactive exec (`service/sandbox.go`, `k8s/terminal.go`, `src/sdk/go/exec_session.go`) | pipes, size queue, buffers and signal channels | read, write, resize, exit, close | the caller gets all output and the right exit code; a client that leaves frees everything |
| templates (`service/template.go`, `store/template.go`, `service/import_export.go`) | templates and their versions | create, update, rollback, delete, import, export | versions without gaps; no acknowledged update is lost; a sandbox is not labelled with a version older than its own |
| prepull (`service/prepull.go`, `store/prepull.go`) | tasks, Jobs in the cluster | create, status loop, read, delete, clean up | `completed` is truthful; no task blocks its image for ever |
| network policies (`k8s/network_policy.go`, `service/network_policy_reconciler.go`) | policies in the cluster | ensure the base policies; periodic diff of allow-lists | a sandbox reaches what its template grants and no more, at any point of either; the lists converge |
| authentication (`auth/`, `handler/auth.go`, `store/auth.go`) | administrator, sessions, keys | login, logout, keys, password, expiry | what was revoked stays refused; a logout ends its session |
| database opening (`store/sqlite.go`, `auth/admin.go`) | the schema, the administrator's row | create, migrate, ensure | every process comes up on a complete schema |
| installer (`src/tools/liteboxd-installer`) | state file; hosts and cluster | apply, resume, node remove | an apply that succeeds has installed what is configured, whatever happened before |
| persistent root file system (scripts in `k8s/persistent_runtime.go`) | marker files on a shared volume | helper and main container handshake | the main process never starts on a half-mounted root |
| PVC mapping (`service/sandbox_pvc.go`) | none | joins claims with rows | read only |
| tokens, logging, remaining handlers, SDK and CLI calls, web console | none | request and response | no protocol of their own |

**Interaction.** The row and the cluster are shared state without a lock
across them. SQLite runs one statement at a time, so a single UPDATE is atomic;
every read-decide-call-write sequence is not. The writers of a row are the
five API requests, one monitor goroutine per Create, the TTL cleaner, the
reconciler and the executor, which itself may run twice at the same time: the
pass that `main.go` starts at boot and the ticker's.

**What is hard.** Copies of rows that are old when they are used; snapshots
made of several calls; calls that fail, or succeed with a lost answer; a
server that stops between two steps; timeouts that fire while somebody else
changes what they were waiting for; objects that do not go away; goroutines
that outlive the request that started them, and channels with one place. The list in
`PROJECT.json` under `hazards` has each at its line with the properties that
watch it.

## 2. Modules and the code

| Module | Models |
|---|---|
| `SandboxStore` | each UPDATE of `store/sandbox.go` as an operator from row to row, and the WHERE clauses of the list queries |
| `SandboxCluster` | the objects of one sandbox, each client call that deletes or patches, and what the controllers do on their own |
| `SandboxDeletion` | the executor. EXTENDS the two above |
| `DeletionContract` | abstract specification: requested, runtime gone, claim gone, deleted, in this order and for good |
| `SandboxLifecycle` | the other writers of the row. EXTENDS `SandboxStore`; its executor is the contract's behaviour |
| `DeletionRetry` | the backoff of the executor on integers of a given width; the shift is multiplication by `Pow2`, a recursive function, and the result wraps around |
| `GracefulShutdown` | requests of the gateway or the API server against the shutdown of the process |
| `WebSocketRelay` | one proxied WebSocket session of the gateway |
| `InteractiveExec` | one interactive exec session, from the container's process to the SDK's caller |
| `TemplateStore` | concurrent requests about one template |
| `ImagePrepull` | the prepull tasks of one image |
| `NetworkPolicies` | base policies, allow-lists and what a sandbox can reach under them |
| `AdminAuth` | sessions, keys and the password of the administrator |
| `ServerStart` | processes that open the same database file |
| `Installer` | the installer's commands, the hosts and the cluster |
| `MCSandboxDeletion`, `MCSandboxLifecycle` | instances for TLC |
| `MCSessions` | composes `GracefulShutdown`, `WebSocketRelay` and `InteractiveExec` |
| `MCControlPlane` | composes `DeletionRetry` and the six from `TemplateStore` to `Installer` |
| `SandboxDeletionProofs`, `SandboxDeletionRefinement` | theorems about `SandboxDeletion` and its refinement of the contract |
| `SandboxLifecycleProofs`, `TemplateStoreProofs`, `InstallerProofs` | theorems about the module of their name |
| `SessionsProofs` | theorems about the three modules of `MCSessions` and about their composition |
| `ControlPlaneProofs` | theorems about `AdminAuth`, `ImagePrepull`, `NetworkPolicies`, `ServerStart` and `DeletionRetry` |
| `MCControlPlaneProofs` | theorems about the composition of `MCControlPlane` |

### SandboxDeletion

`row` holds the deletion columns, `cl` the objects, `kind` the two persistence
columns that never change. A pass `r` is a program counter `pc[r]`, the
sandboxes it still has to process (`todo`), the copies of their rows it listed
(`recs`), the current one (`cur`), the age of its deletion (`now`), the
snapshot (`snap`) and the calls and statements its handler has left (`ops`).

| Action | Code |
|---|---|
| `ListPendingDeletion` | `RunPending`: the query; the copies are used for the whole pass |
| `Begin` | `processSandbox`: `RecordDeletionAttempt` with the *copied* force level |
| `SnapshotDeployment`, `SnapshotPods`, `SnapshotStorage` | the calls of `GetSandboxDeletionSnapshot`, one step each |
| `Handle` | the switch on the copied phase: `HandleQuiescingRuntime`, `HandleDeletingStorage`, `HandleForceCleanup`, `HandleVerifying` return the sequence of calls and statements |
| `CallCluster`, `WriteRow` | one call, one statement |
| `BeginFails`, `SnapshotFails`, `OpFails` | an error, and what the code skips and records then |
| `Restart` | the server stops anywhere; only the table survives |
| `Delete`, `ListExpiredActive`, `MarkExpired` | the API request and the two halves of the TTL cleaner |
| `ControllerStep`, `Tick`, `BackoffElapses` | the environment |

Times are kept as what the program reads from them: the age of a deletion in
ticks, and whether the retry time is unset, due or later.

### SandboxLifecycle

One sandbox. `creator` is where `Create` is after it inserted the row (claim,
Deployment or Pod, status; and the error path that deletes the claim again).
`monitor` is the goroutine that `Create` leaves behind, with its timeout and
its write. `call[c]` is an API request: read and check the row (`Receive`),
call the cluster (`Act`), write (`Write`). `listed` is the TTL cleaner between
its query and its statement. `rc` is a reconcile run: the copy, the three
reads, the decision (`ReconcileEphemeral`, `ReconcilePersistent`), each
statement. A Pod has the states the code tells apart: absent, pending, running
but not ready, ready, failed, succeeded, stopping. `Init` allows a sandbox in the
middle of `Create` or just created.

### The parts that serve connections

`GracefulShutdown`: `stage[r]` is how far a request has come: accepted, past
`RejectWhileDraining`, past `AuthMiddleware`, in its handler (`EnterHandler`,
which looks at the flag again), dialled, hijacked by `Upgrade`, counted by
`TrackWebSocket`, released. `proc` is `main()`: `Signal` (StartDraining and
two seconds of sleep), `Shutdown`, which waits for what net/http still owns, or
`ForcedShutdown` at its deadline, then `WaitWebSockets`. `service` says which of
the two processes it is: they differ in what their handlers check and in when
they release.

`WebSocketRelay`: `ReadMessage`, `ReadFails`, `WriteMessage` and `Report` are
the body of each relay goroutine, `FirstResult`, `ContextDone` and `CloseBoth`
the session's. `ends` is what the client and the sandbox do: stay, send a close
frame with some code, end the stream, or reset it. What gorilla/websocket makes
of each of these is marked external.

`InteractiveExec`: `bridge` goes through `SandboxService.ExecInteractive` and
its deferred calls in the order Go runs them; `reader` is the goroutine on the
socket, `copier` client-go's writer, `queue` the one-place channel of terminal
sizes; `loop`, `buf`, `readCh` and `app` are the SDK's readLoop, buffer, signal
channel and caller of Read. A send on the closed size queue sets `crashed`: it
is a panic in a goroutine nobody recovers.

### The services behind the API

`TemplateStore`: a request is a plan, the sequence of queries and transactions it
still has to run; each is one action, so every interleaving of three
requests of all kinds is explored. The reads in `Update` and `Rollback` go
through `s.db` and not through the transaction, so they are steps of their own; a
commit is one step, with the UNIQUE and FOREIGN KEY constraints as its guards.

`ImagePrepull`: the row, the Job, the request (`ppCreate`), the lookers (the
updater, Get and List), a deletion. No write looks at what it overwrites. The
pods of a Job run on any nodes: nothing in its specification spreads them.

`NetworkPolicies`: a policy is the directions it selects and what it allows; a
pod that a policy selects may do what the union allows. `ensured` is how far
`EnsureDefaultPolicies` has come, `netPass` is a pass of the reconciler with the
rows it listed.

`AdminAuth`: `later` holds the goroutines that have not run yet. Any call of the
store may fail, and `Logout` does not look: `revoked` has a session once a logout
has removed its row. `ServerStart`: `at[p]` is the next statement of each process; an error ends the process
and Kubernetes starts it again.

`Installer`: `cmd.steps` are the steps left, `cmd.stage` where the first of them
is; a version, a setting or a file's content is one number, `conf.version`, and
`WithoutMirrors`, `WithoutLonghorn` and `WithoutSandbox` are the configurations in
which a part is switched off and its step skipped. `NothingFetched` is the
download that fails inside `curl | sh -`, which the command takes for success;
`hosts.missed` remembers where that happened in this command. `cutOff` is a
history variable: the hosts and charts whose script stopped between its change
and its last line. `DeletionRetry`: `Wrap` and `Shift` are
Go's arithmetic.

### How the areas are composed

`MCSessions` and `MCControlPlane` explore each component in an *area* of its
own: the variable `area` is chosen in `Init`, and only the actions of that
area's module are enabled. These components do not share state with
one another (a template request and an installer command touch nothing in
common), so the product of their states would add nothing. Where one component
matters to another, the influence is an action of the other's module:
`RowChanges`, `ChangeTemplate`, `ChangeStatus`, `EndSandbox`, `PasswordChanged`. The area of
the prepulls comes in two sizes: two creating requests with the updater, or one
with a reader and a deletion as well.

## 3. Runs

| Run | Kind | Shows |
|---|---|---|
| `deletion_one_pass` | pass | All kinds of sandbox, any subset of Deployment, Pod and claim stuck, all four timeouts crossed, two faults: `NothingLeftBehind`, `RetainKeepsPVC`, `DeletedIsCompleted`, `EscalationIsKept`, and the executor implements `DeletionContract`. |
| `deletion_two_passes` | pass | The boot's pass overlaps the ticker's, step by step: `NothingLeftBehind`, `StorageAfterRuntime`, `UnfinishedStaysPending`, and the contract still hold. |
| `deletion_converges` | pass | Liveness: with two faults and no timeout passing, every requested deletion ends. |
| `lifecycle_delete` | pass | Delete, monitor, reconciler, TTL cleaner and executor on every kind, two faults: `NothingLeftBehind`, `DeletedIsFinal`, `DeletionConverges`. |
| `lifecycle_reported` | pass | Stop, Start, Restart one after the other, during or after Create, one fault: `ReadyIsReported`, `StoppedIsReported`. |
| `sessions` | pass | Shutdown: `CleanDrain`, `NoSessionAdmittedWhileDraining`, `ShutdownEnds`. Relay: `SurvivorIsTold`, `NothingLeaks`. Exec: `EndMeansAllRead`, `OutputReachesCaller`, `OneWriter`, `CrashOnlyInCleanUp`, `BridgeIsReclaimed`. 113,860 states. |
| `control_plane` | pass | Templates: `VersionsAreContiguous`, `NoUpdateIsLost`, `LabelNotOlderThanSpec`. Prepulls: `CompletedWasPulled`, `PrepullSettles`. Network: `ReachIsGranted`, `PoliciesConverge`. `RevokedIsRefused`, `EveryProcessComesUp`, `ApplyInstalls`, `RetryStaysNear`. 293,645 states. |
| `deletion_slow_pod`, `deletion_retain_volume`, `lifecycle_revived`, `lifecycle_orphan`, `relay_backend_drop` | violation | See [findings](#6-findings). |

**Bounds.**
- One sandbox: no handler relates two sandboxes, and a pass takes them one at
  a time. The proofs lift this bound and the others for everything but liveness.
- `MaxAge = 4` with the timeouts at 1, 2, 3 and 4: the source's 45s, 2m, 5m and
  15m in their order, so that a row can be on either side of each of them.
  `deletion_converges` has `MaxAge = 0` (no timeout passes), which is the
  condition under which deletion does converge; `deletion_slow_pod` is what
  happens without it.
- `MaxFaults = 2`: one failure and one failure of its repair. Faults are failed
  calls, lost answers, lost Pods and restarts together.
- `MaxCalls`: 2 in `lifecycle_reported` (Stop followed by Start, or by
  Restart), 1 where only the deletion matters.
- `sessions`: two requests of either kind, so that one is tracked while
  another is between upgrade and tracking. One message in each direction of the
  relay: a relay that is writing while the other fails needs no more. Two pieces
  of output and one message to the process: the second piece arrives while the
  first is being read, and a resize is under way when the session ends.
- `control_plane`, templates: three requests, since two that race for a version
  and a third that deletes, recreates or reads is the smallest mix in which a
  row and its versions can come apart. Prepulls: two tasks of the image, two
  nodes. Network: two sandboxes, three changes (one
  sandbox whose template is deleted and created again, or whose row comes back
  from `failed`, or two sandboxes and a change), one fault. Start: three processes,
  one column that `CREATE TABLE` has and one that only the migration adds, one
  crash. Backoff: 16 bits, intervals 10 and 60 and 18 attempts: the product
  first wraps around at a counter of 12 and is zero from 15 on; on 64 bits with
  10 seconds in nanoseconds this happens at 30 and at 54.
  Authentication: one session, one key, two passwords, two requests, and
  store calls that may fail without limit. Installer: a master and two agents, two
  configurations (1 has no mirrors, 2 neither Longhorn nor sandbox resources),
  three commands, one fault: the third command succeeds after a failed or killed
  one and one that went elsewhere.
- `CHECK_DEADLOCK FALSE` in the deletion runs and the composed ones: once
  everything is deleted, answered or installed and the bounds are used up, the
  system rests. The lifecycle runs never rest because the reconciler keeps
  running.

## 4. Fairness

`FairSpec` of `SandboxDeletion`: weak fairness of each pass (a ticker that
keeps firing and a loop that runs to its end), of the controllers, of the
clock and of the end of the backoff. Nobody has to request anything.
`FairSpec` of `SandboxLifecycle`: requests that were received go on, as do
`Create` and the monitor goroutine (all their calls have timeouts), a listed
row is marked, the reconciler's and executor's tickers fire, the controllers
work. No TTL has to pass and no request has to come. A call that fails is a
bounded fault and never a fair choice.

`MCSessions`: weak fairness of `main()` after the signal and of every goroutine
(each is runnable or blocked, and Go runs what can run). No client, no sandbox
process and no network has to do anything; `Next_`, which empties the size
queue, is not fair, since client-go calls it only when there is a terminal.

`MCControlPlane`: the ticker of the status updater fires every ten seconds and
lists every active task, so its look at a task that is active again and again
is strongly fair and what follows is weakly fair; Kubernetes removes finished
Jobs (`TTLSecondsAfterFinished`); the network controller's ticker fires and a pass
goes on; every process that is starting runs its next statement, and the kubelet
restarts one that has ended.

## 5. Proofs

Every invariant and every action property of the passing runs is a theorem,
for all values of the constants: any set of sandboxes, passes, requests, hosts,
tasks and credentials, any number of faults and commands, all timeouts. The
only hypotheses are the named assumptions of the modules (constants have the
types of their names, sets that play different parts do not meet) and, in four
theorems, the one their run makes too:

- `Runners = {Ticker}` (`DeletedRowsPurge`, `ForceLevelRises`): one pass at a
  time, which is a server whose pass started at boot ended before the first
  tick. Otherwise the overtaken pass writes an old phase and an old force level;
  `deletion_two_passes` runs that and does not claim the two properties;
- `Stages = {"created"}`, `APIs = {"delete"}` (the safety of
  `SandboxLifecycle`): Create has answered, and the only requests are Deletes.
  Findings 3 and 4 are counterexamples without this.

| Theorem | Statement |
|---|---|
| `SandboxDeletionProofs` | |
| `TypeCorrect` | `Spec => []TypeOK` |
| `DeletedMeansGone` | `Spec => []NothingLeftBehind` |
| `StorageSafety` | `Spec => []StorageAfterRuntime` |
| `RetainSafety` | `Spec => []RetainKeepsPVC` |
| `Recoverable` | `Spec => []UnfinishedStaysPending` |
| `DeletedRowsPurge` | one pass: `Spec => []DeletedIsCompleted` |
| `ForceLevelRises` | one pass: `Spec => EscalationIsKept` |
| `SandboxDeletionRefinement` | |
| `ContractImplemented` | `Spec => ImplementsContract` |
| `SandboxLifecycleProofs` | |
| `TypeCorrect` | `Spec => []TypeOK` |
| `DeletedMeansGone` | created, only Delete: `Spec => []NothingLeftBehind` |
| `DeletedStaysDeleted` | created, only Delete: `Spec => DeletedIsFinal` |
| `SessionsProofs` | |
| `DrainIsClean`, `DrainAdmitsNoSession` | `ShutdownSpec => CleanDrain`, `ShutdownSpec => NoSessionAdmittedWhileDraining` |
| `SurvivorLearns` | `RelaySpec => []SurvivorIsTold` |
| `EndIsComplete`, `SocketHasOneWriter`, `CrashIsLate` | `ExecSpec => []EndMeansAllRead`, `[]OneWriter`, `[]CrashOnlyInCleanUp` |
| `SessionsImplementParts`, `SessionsTypeCorrect` | `Spec` of `MCSessions` implements `ShutdownSpec`, `RelaySpec` and `ExecSpec`; `Spec => []TypeOK` |
| `TemplateStoreProofs` | |
| `VersionsStayContiguous`, `AckedUpdatesSurvive`, `LabelFollowsSpec` | `TemplateSpec => []VersionsAreContiguous`, `[]NoUpdateIsLost`, `[]LabelNotOlderThanSpec` |
| `ControlPlaneProofs` | |
| `RevocationIsFinal` | `AuthSpec => RevokedIsRefused` |
| `CompletedMeansPulled` | `PrepullSpec => []CompletedWasPulled` |
| `ReachSafety` | `NetworkSpec => []ReachIsGranted` |
| `BackoffIsBounded` | `RetrySpec => []RetryStaysNear` |
| `InstallerProofs` | |
| `ApplySucceeds` | `InstallerSpec => []ApplyInstalls` |
| `MCControlPlaneProofs` | |
| `ControlPlaneImplementsParts`, `ControlPlaneTypeCorrect` | `Spec` of `MCControlPlane` implements the specification of each of its seven parts; `Spec => []TypeOK` |

Each part of a composed module has a theorem for its own type invariant
besides (`AuthTypeCorrect`, `RelayTypeCorrect` and so on). Because of the two
composition theorems what is proved of a part holds in the composed runs.

### The executor

`NothingLeftBehind` is not inductive: it says nothing about a
pass that is about to write `deleted`. The reason it holds is that the objects
of a sandbox only go away: no call brings one back (`CallShrinks`), and the
controllers bring back a Pod only while there is a Deployment
(`ControllersShrink`). So what a pass concluded from its snapshot is still true
when it acts, however old the snapshot is and whatever another pass did
meanwhile, *provided the Deployment was read before the Pods*: with the order
reversed a Pod could be created between the two reads. The invariant `IInv`
says this in parts:

- `SnapOK`: what the snapshot does not show is not in the cluster;
- `OpsOK`: every operation a pass has left is in `SafeOps`, that is, allowed by
  what the cluster holds now (complete only if all is gone, delete the claim
  only if nothing runs and the policy is Delete, enter `deleting_storage` only
  then);
- `PhaseOK`: a row or a copy of it is in `deleting_storage` only when nothing
  runs and the policy is Delete. This is what makes an overtaken pass with an
  old copy harmless;
- `RowOK`, `ClusterOK`: the properties themselves, and the shape of the objects
  of each kind.

`DispatchSafe` shows that every handler returns safe operations when `SnapOK`
holds; one lemma per action shows that the invariant is preserved.

The refinement needs besides (`AInv`) that a sandbox nobody asked to delete is
on no pass's list and has its objects untouched. Then each step changes what
the contract sees of at most one sandbox, in one of the contract's four ways:
the status at a request or at the completion, the runtime when the last of
Deployment and Pod goes, the claim when it is asked to go and when it goes.

For one pass, `SoleInv` adds to `IInv` what ties the copies of a pass to the rows:
a finished row is on no list, and a listed one has at most the force level of its
copy (`ToDoOK`); what is left to do at the current sandbox (`AtWorkOK`) has the
statement that finishes or escalates last and escalates to no lower a level
(`EndsWell`).

### The lifecycle

`TInv` adds to `TypeOK` the shapes of the operations an API request has left
and of the request itself. `LInv` adds, for a deletion: a Deployment or claim
that a reconcile run did not find is not there (`SnapshotOK`); a run that is
going to write `deleted` does so for a sandbox that is gone (`RunOK`); and gone is
also what the executor has verified and what the row calls deleted
(`ClusterOK`). As in the executor the heart is that objects do not come back
(`Shrinks`), with the reconciler's three reads in the place of the snapshot.

### Sessions

- `ShutdownInv`: the counter of the drain manager is the number of tracked
  sessions, and while the process waits no request is in flight. A counter that is
  zero then means that no session is left.
- `RelayInv`: while the session runs, an end that is still open was sent no
  close frame, and every failure that was reported or is going to be has its
  cause at an end that is gone (`RunningOK`), so the end that is told next is the
  survivor; afterwards it was told (`Told`).
- `ExecInv`: where the bridge stands in its clean-up decides what may still be
  written (`CleanUpOK`, `CopierOK`); output that is unread, being copied, on the
  way, buffered or read adds up to what was emitted, unless some was lost with
  the socket and the exit message with it (`OutputOK`); whoever has the exit
  message has all the output (`ExitOK`, `EndOK`). The messages on the way are a sequence of any
  length; `Shape` says that the exit is its last element, which head and tail
  preserve, so no induction over the sequence is needed.

### Services

- `TplInv`: the copy of the row a request has read is not newer than the row,
  and the same if their versions are; the spec it has read is still that of its
  version, or the template is gone (`OpOK`, by the kind of request and the steps it
  has left). An acknowledged version is stored (`AckedIsStored`) and the
  metadata are those of the newest one that set any (`MetaOfNewest`). There is at
  most one row, and no id is given out twice (`OneRow`); the number of requests
  that have written bounds versions and ids (`Bounded`).
- `AuthInv`: a credential is handed out once, and neither a request nor a
  goroutine that is still to run names one that was not (`Names`); the row of one
  that was revoked is not valid, and no write that is still to come makes it so;
  the only step past the middleware reads that row.
- `PrepullInv`: a Job that succeeded, and a looker that saw `completed`, belong
  to a task whose Job had pulled the image with all its pods, however long ago
  it looked.
- `NetInv`: `Granted` bounds the allow-list of a sandbox that may run (`failed`
  is no end), and the one a pass would apply now, by what its template has granted it; a sandbox that does
  not exist yet has no list, and no pass takes it for one that does (`Unborn`).
- `RetryInv` is short; what it needs is arithmetic. `Pow2` is defined by
  recursion, and that it is a positive number that doubles needs induction.
  The library's induction theorems quantify over a predicate, which the
  provers cannot instantiate; `SetInduction` states induction for a *set* of
  numbers instead and follows from the least element of its complement
  (`LeastNumber`, from `WFMin` and `NatLessThanWellFounded`). `Pow2Def` and
  `Pow2Rules` use it, `WrapRange` bounds the wrapped product, and `RetryFloor`
  gives the shortest interval when nothing wraps around.

### The installer

`ApplyInstalls` is about the end of a sequence of steps, each of which may
have been skipped because of what an earlier, possibly cut off, command left.
`InstInv` gives each step a `Result` and says that every step that is behind a
full apply has its result (`ProgressOK`), the step at work as
much of it as the hosts visited so far (`StepOK`); that what runs is what was
configured and recorded last, cut-off scripts excepted, and that a chart was
touched only with K3s on the master (`WorldOK`), which is why an installation of the
master that downloaded nothing cannot end in a success; and that a
full apply removes no node through `node remove` and remembers an error only
within the step it happened in (`ShapeOK`). The argument does not use
the order of the steps: every step keeps the results of the others (`Keeps`),
and what does not, the removal of a node and a change of the configuration,
cannot happen within an apply.

### Only model-checked

Liveness under fairness is beyond the prover: `DeletionConverges`,
`ReadyIsReported`, `StoppedIsReported`, `ShutdownEnds`, `NothingLeaks`,
`OutputReachesCaller`, `BridgeIsReclaimed`, `PrepullSettles`, `PoliciesConverge`
and `EveryProcessComesUp`. The five violated properties are shown by TLC's
counterexamples.

## 6. Findings

The violated properties quote the repository (`PROJECT.json`, `findings`).

1. `deletion_slow_pod`. A Pod that needs longer than 45s to terminate sends
   the deletion to `force_cleanup`, whose levels 1 and 2 are passed before
   their thresholds of 5 and 15 minutes; nothing returns to them or to
   `deleting_storage`. The claim is never asked to go, and `verifying` and
   `force_cleanup` alternate for ever. `resource-delete.md` demands that
   deletion converges.
2. `deletion_retain_volume`. Force level 2 deletes the PersistentVolume without
   looking at the policy; with Retain the claim survives without its data.
3. `lifecycle_revived`. Restart writes `pending` with a WHERE clause on the id
   only. If the sandbox was deleted between Restart's check and its write, the
   row is `pending` again, and neither executor nor reconciler will take it.
   Stop writes `stopped` in the same way.
4. `lifecycle_orphan`. Create calls the cluster after inserting the row without
   looking at the row again. A deletion carried out in between leaves objects
   nobody removes.
5. `relay_backend_drop`. A sandbox process that dies ends its stream without a
   close frame. gorilla/websocket reports that as close code 1006, which the
   gateway passes on as 1000: the client sees a normal closure. The test of a
   backend drop wants 1011, and gets it only because it closes the gateway's own
   socket instead.
Three more promises are not kept. They are stated in their modules next to
what does hold, and TLC refutes each when it is added to `ControlPlane.cfg`:

- `CompletedIsEverywhere` (`ImagePrepull`). The design has a DaemonSet pull the
  image on all nodes; `k8s/client.go:636` creates a Job with as many pods as there
  are ready nodes, and one when it cannot list them, without spreading the pods.
  `completed` says that the pods have pulled, wherever they ran
  (`CompletedWasPulled`).
- `LogoutEndsSession` (`AdminAuth`). `handler/auth.go:127` discards the error of
  `DeleteSession` and answers that the logout was successful; the session is then
  accepted until it expires. `RevokedIsRefused` counts a session as revoked when a
  logout has removed its row.
- `AgentsAreJoined` (`Installer`). `k3s.go:124` installs K3s by
  `curl -sfL ... | sh -` in a shell without `pipefail`. When the download fails the
  command succeeds, and no later step misses the agent. `ApplyInstalls` excepts the
  agents this happened to in this very apply. On the master it comes to light with
  Cilium.

With other values of the constants the models show more of the same
kind, which the hazards mention: a stuck Pod of an ephemeral sandbox or a stuck
Deployment never escalates; a Retain sandbox at force level 3 waits for its
volume to go; an overtaken pass leaves a `deleted` row in an unfinished phase;
overlapping Stop and Start can leave 0 replicas with a row that stays
`pending`; a monitor's timeout writes `failed` over `stopped`.

What the newer models leave open on purpose, with the exception written into
the property:
- an upgrade between hijacking and `TrackWebSocket` is cut off by a shutdown that
  found the count at zero, and so is what `ExecInteractive` still has to do, the
  closing of its socket, when it has released its session (`CleanDrain`);
- a resize that arrives while a session is being cleaned up panics the API
  server (`CrashOnlyInCleanUp` says when);
- a process that never reads its input keeps the goroutine that writes to it,
  and hides from the server that the client has left (`BridgeIsReclaimed`);
- a session cut off before its exit message reads as exit code 0 in the SDK;
- a sandbox made from the latest version may carry the number of a later one
  (`LabelNotOlderThanSpec`), and a template deleted between two queries of a
  request is a nil pointer, which Gin's recovery turns into a 500, unless the
  request is for a sandbox of a pinned version, which does not use it;
- two prepull tasks of an image may be active at once, and `completed` may turn
  into `pulling` and then `failed` by a late write; both tasks settle;
- the sandboxes made before the first base policy exists can reach everything:
  the server only warns when the policies cannot be created;
- an installer script that is cut off between its change and its last line is
  taken for done by the next run if the configuration then equals what was
  recorded before (charts) or copied (registries); `ApplyInstalls` excepts
  these and the agents whose download failed. Mirrors, Longhorn or sandbox
  resources that were taken out of the configuration stay where an earlier apply
  has put them. `WaitNodesReady` never waits, since `NotReady` matches its
  pattern; a state file torn by a crash stops every command until it is
  removed; a node removed without its agent being uninstalled cannot be removed
  again;
- the backoff of a deletion is lost once its product has wrapped around: the
  delay is then negative or zero, and the row is due at every tick.

## 7. Abstractions and what is left out

- When the Deployment object is gone no new Pod of it appears (its ReplicaSet
  is collected with it).
- In `SandboxDeletion` the attempt counter and the length of the backoff are
  `later`, then `due`; `DeletionRetry` has the numbers.
- The checks that an object belongs to the sandbox (labels, ownership) pass.
- In `SandboxDeletion` the PV goes at once when it is deleted at force level 2.
- In `SandboxLifecycle`: a claim that is deleted while mounted counts as
  absent; the Pod columns of the row are not modelled, so a reconcile run that
  finds the status right may write it again or not; whether `lost` is still
  within its grace period is left open, and so is what events and conditions
  make of a Pod that is not ready; the phase `Unknown` of a Pod is left out.
- In `GracefulShutdown` a plain HTTP request is one step once it is in its
  handler. In `WebSocketRelay` the deadline of a control frame is not told apart
  from its success.
- In `InteractiveExec` stderr is output like stdout, and a piece of
  output is not split by a short buffer of Read.
- In `TemplateStore` all specs are valid and all requests are about one name;
  the read-only lists are left out, among them the export of all templates, which
  asks for pages of 1000 where the store allows 100 and falls back to 20
  (`service/import_export.go:277`, `store/template.go:174`).
- In `ImagePrepull` the columns with the numbers of ready and total nodes are left
  out, and all nodes are ready.
- In `NetworkPolicies` ports and address ranges are the destinations they stand
  for; the label of a pod does not change after its creation.
- In `AdminAuth` there is one administrator; hashes are equal exactly when
  passwords are.
- In `ServerStart` the tables other than `sandboxes` are always created by
  `CREATE TABLE IF NOT EXISTS` in one step with it.
- In `Installer` nothing is a dry run, and `systemctl list-unit-files | grep -q`
  finds a service that is there (under `pipefail` it could miss it when grep ends
  before systemctl has written all); the state file's
  records are not modelled because nothing reads them: resume runs every step
  again, and the version of K3s is used by the first installation only.
- Not modelled: building object specifications; one-shot exec, logs and files
  (single calls without state); tokens and hashing; history tables and the report
  of a reconcile run; the moved expiry time of `Start`; the scripts of the
  persistent root file system; the volume mapping; logging; the command line's
  output; the web console.

## 8. Plan

Done: the executor, its contract and the proofs; the lifecycle; the parts that
serve connections; the services behind the API; the installer; the backoff;
a theorem for every safety property of every passing run.

Next:

1. `SandboxLifecycle` with more than Delete: `NothingLeftBehind` with Stop,
   Start and Restart, for as long as nothing was revived (finding 3).
2. `SandboxLifecycle` takes the contract as its executor; a theorem that its
   executor's steps are the contract's would join the two refinements.
3. Safety parts of the liveness properties (what a stuck goroutine would have
   to look like) as invariants of `WebSocketRelay` and `InteractiveExec`.
4. The handshake of helper and main container of the persistent root file
   system, if its scripts grow beyond mounts that fail the container.
