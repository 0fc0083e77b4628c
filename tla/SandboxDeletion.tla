--------------------------- MODULE SandboxDeletion --------------------------
(***************************************************************************)
(* The deletion executor (backend/internal/service/sandbox_deletion.go):   *)
(* the persisted state machine                                             *)
(*                                                                         *)
(*   requested -> quiescing_runtime -> deleting_storage -> verifying       *)
(*                        \------> force_cleanup <----/      |             *)
(*                                                       completed         *)
(*                                                                         *)
(* and the passes that drive it.  A pass (RunPending) lists the rows that  *)
(* are due, then takes them one at a time with the copy it read: it        *)
(* records the attempt, reads the sandbox's objects from the cluster one   *)
(* call after the other, lets the handler of the copied phase decide, and  *)
(* carries out the handler's calls and statements.  Everything else may    *)
(* happen between two of those steps: the API and the TTL cleaner request  *)
(* deletions, controllers act, time passes, a call fails, the server       *)
(* restarts, and the pass main.go starts at boot may still be running when *)
(* the ticker starts its own.                                              *)
(***************************************************************************)
EXTENDS Integers, Sequences, SandboxStore, SandboxCluster

CONSTANTS
    Sandboxes,
    Runners,          \* the concurrent passes: the ticker's, and the boot's
    Ticker,           \* the one that recurs; the others run once per boot
    Kinds,            \* the kinds of sandbox of this instance
    StuckSets,        \* the sets of objects that may get stuck
    NoSandbox,
    MaxFaults,        \* bound on failed calls and restarts
    PodDeleteTimeout, \* thresholds, on the scale of a row's age
    PVCDeleteTimeout,
    PVCForceCleanupThreshold,
    StorageAttachmentCleanupAfter

AllKinds == {k \in [persistent : BOOLEAN, retain : BOOLEAN] :
                k.retain => k.persistent}

ASSUME DeletionAssumptions ==
    /\ Ticker \in Runners
    /\ Kinds \subseteq AllKinds
    /\ StuckSets \subseteq SUBSET Stickable
    /\ NoSandbox \notin Sandboxes
    /\ MaxFaults \in Nat
    /\ PodDeleteTimeout \in Nat
    /\ PVCDeleteTimeout \in Nat
    /\ PVCForceCleanupThreshold \in Nat
    /\ StorageAttachmentCleanupAfter \in Nat

VARIABLES
    kind,    \* persistence columns of each row, never changed
    row,     \* deletion columns of each row
    cl,      \* the objects of each sandbox in the cluster
    listed,  \* rows the TTL cleaner listed and has not marked yet
    pc,      \* where each pass is
    booted,  \* passes that already ran since the last restart
    todo,    \* sandboxes each pass still has to process
    recs,    \* the copies of the rows it listed
    cur,     \* the sandbox it is processing
    now,     \* the age of that row when processing began
    snap,    \* the snapshot it read
    ops,     \* calls and statements its handler has left to do
    faults   \* failed calls and restarts so far

server == <<pc, booted, todo, recs, cur, now, snap, ops>>
vars   == <<kind, row, cl, listed, server, faults>>

Steps == {"idle", "loop", "deployment", "pods", "storage", "handle", "ops"}

\* The columns of the copy that the executor reads.
Rec == [phase : DeletionPhases, force : ForceLevels]

NoRec == [phase |-> "", force |-> 0]

Snapshot == [dep : ObjectStates, pods : BOOLEAN, pvc : ObjectStates,
             pv : BOOLEAN, va : BOOLEAN]

NoSnapshot == [dep |-> "absent", pods |-> FALSE, pvc |-> "absent",
               pv |-> FALSE, va |-> FALSE]

-----------------------------------------------------------------------------
(* What a handler does is a sequence of calls to the cluster and           *)
(* statements on the row.  The first failure ends it.                      *)

Statements == {"AdvanceDeletionPhase", "MarkReadyForImmediateRetry",
               "BumpForceLevel", "MarkDeletionCompleted"}

Op == [do : Calls \cup Statements, phase : DeletionPhases, force : ForceLevels]

Do(name)    == [do |-> name, phase |-> "", force |-> 0]
SetPhase(p) == [do |-> "AdvanceDeletionPhase", phase |-> p, force |-> 0]
SetForce(n) == [do |-> "BumpForceLevel", phase |-> "", force |-> n]

BumpForceLevel(n) == <<SetForce(n)>>

Retry == Do("MarkReadyForImmediateRetry")

TransitionPhase(p) == <<SetPhase(p), Retry>>

\* Mutant: the early return for Retain is lost.
DeletePersistentSandbox_IgnoresPolicy(retain) ==
    <<Do("DeleteDeployment"), Do("DeletePVC")>>

DeletePersistentSandbox(retain) ==
    IF retain THEN <<Do("DeleteDeployment")>>
              ELSE <<Do("DeleteDeployment"), Do("DeletePVC")>>

\* Mutant: the Deployment is deleted together with the storage.
HandleQuiescingRuntime_WithStorage(k, rec, sn, at) ==
    IF k.persistent /\ sn.dep # "absent"
    THEN Append(DeletePersistentSandbox(k.retain), Retry)
    ELSE TransitionPhase("deleting_storage")

HandleQuiescingRuntime(k, rec, sn, at) ==
    IF k.persistent /\ sn.dep # "absent"
        THEN Append(DeletePersistentSandbox(TRUE), Retry)
    ELSE IF ~k.persistent /\ sn.pods
        THEN <<Do("DeletePod"), Retry>>
    ELSE IF sn.pods
        THEN IF at >= PodDeleteTimeout THEN TransitionPhase("force_cleanup")
                                       ELSE <<>>
    ELSE IF k.persistent /\ ~k.retain /\ sn.pvc # "absent"
        THEN TransitionPhase("deleting_storage")
    ELSE TransitionPhase("verifying")

\* Mutant: the claim is asked to go with the policy of the phase before.
HandleDeletingStorage_AsRetain(k, rec, sn, at) ==
    IF sn.pvc = "absent" THEN TransitionPhase("verifying")
    ELSE Append(DeletePersistentSandbox(TRUE), Retry)

HandleDeletingStorage(k, rec, sn, at) ==
    IF sn.pvc = "absent" THEN TransitionPhase("verifying")
    ELSE IF sn.pods THEN TransitionPhase("force_cleanup")
    ELSE IF sn.pvc = "live" THEN Append(DeletePersistentSandbox(k.retain), Retry)
    ELSE IF at >= PVCDeleteTimeout THEN TransitionPhase("force_cleanup")
    ELSE <<>>

CanForceDeletePVC(k, sn) ==
    ~k.retain /\ sn.pvc # "absent" /\ ~sn.pods /\ sn.dep = "absent"

CleanupStorageAttachments(sn) ==
    (IF sn.va THEN <<Do("DeleteVolumeAttachments")>> ELSE <<>>)
        \o <<Do("PatchPVFinalizers"), Do("DeletePersistentVolume")>>

\* Mutant: the level keeps rising after the last one.
HandleForceCleanup_Uncapped(k, rec, sn, at) ==
    IF rec.force < 3 THEN BumpForceLevel(rec.force + 1)
    ELSE TransitionPhase("verifying") \o BumpForceLevel(rec.force + 1)

HandleForceCleanup(k, rec, sn, at) ==
    CASE rec.force = 0 ->
           (IF sn.pods THEN <<Do("ForceDeletePodByName")>> ELSE <<>>)
             \o (IF sn.dep = "deleting" THEN <<Do("PatchDeploymentFinalizers")>>
                                        ELSE <<>>)
             \o BumpForceLevel(1)
      [] rec.force = 1 ->
           (IF CanForceDeletePVC(k, sn) /\ at >= PVCForceCleanupThreshold
               THEN <<Do("PatchPVCFinalizers")>> \o DeletePersistentSandbox(k.retain)
               ELSE <<>>) \o BumpForceLevel(2)
      [] rec.force = 2 ->
           (IF sn.pv /\ at >= StorageAttachmentCleanupAfter
               THEN CleanupStorageAttachments(sn) ELSE <<>>) \o BumpForceLevel(3)
      [] OTHER -> TransitionPhase("verifying")

\* Mutant: only the runtime is verified.
HandleVerifying_RuntimeOnly(k, rec, sn, at) ==
    IF sn.pods \/ sn.dep # "absent" THEN TransitionPhase("force_cleanup")
    ELSE <<Do("MarkDeletionCompleted")>>

\* Mutant: the phase is advanced to the last one before the row is finished.
HandleVerifying_PhaseFirst(k, rec, sn, at) ==
    IF sn.pods \/ sn.dep # "absent" \/ sn.pvc # "absent"
    THEN TransitionPhase("force_cleanup")
    ELSE <<SetPhase("completed"), Do("MarkDeletionCompleted")>>

HandleVerifying(k, rec, sn, at) ==
    IF \/ sn.pods
       \/ k.persistent /\ sn.dep # "absent"
       \/ k.persistent /\ ~k.retain /\ sn.pvc # "absent"
       \/ k.persistent /\ rec.force >= 3 /\ (sn.pv \/ sn.va)
    THEN TransitionPhase("force_cleanup")
    ELSE <<Do("MarkDeletionCompleted")>>

\* The switch at the end of processSandbox.
Dispatch(k, rec, sn, at) ==
    CASE rec.phase \in {"", "requested"}   -> TransitionPhase("quiescing_runtime")
      [] rec.phase = "quiescing_runtime"   -> HandleQuiescingRuntime(k, rec, sn, at)
      [] rec.phase = "deleting_storage"    -> HandleDeletingStorage(k, rec, sn, at)
      [] rec.phase = "force_cleanup"       -> HandleForceCleanup(k, rec, sn, at)
      [] rec.phase = "verifying"           -> HandleVerifying(k, rec, sn, at)
      [] OTHER                             -> <<>>

-----------------------------------------------------------------------------

TypeOK ==
    /\ kind \in [Sandboxes -> Kinds]
    /\ row \in [Sandboxes -> DeletionRow]
    /\ cl \in [Sandboxes -> Cluster]
    /\ listed \subseteq Sandboxes
    /\ pc \in [Runners -> Steps]
    /\ booted \subseteq Runners
    /\ todo \in [Runners -> SUBSET Sandboxes]
    /\ recs \in [Runners -> [Sandboxes -> Rec]]
    /\ cur \in [Runners -> Sandboxes \cup {NoSandbox}]
    /\ now \in [Runners -> -1..MaxAge]
    /\ snap \in [Runners -> Snapshot]
    /\ ops \in [Runners -> Seq(Op)]
    /\ faults \in 0..MaxFaults

ServerInit ==
    /\ pc = [r \in Runners |-> "idle"]
    /\ booted = {}
    /\ todo = [r \in Runners |-> {}]
    /\ recs = [r \in Runners |-> [s \in Sandboxes |-> NoRec]]
    /\ cur = [r \in Runners |-> NoSandbox]
    /\ now = [r \in Runners |-> 0]
    /\ snap = [r \in Runners |-> NoSnapshot]
    /\ ops = [r \in Runners |-> <<>>]

Init ==
    /\ kind \in [Sandboxes -> Kinds]
    /\ row = [s \in Sandboxes |-> ActiveRow]
    /\ \E st \in [Sandboxes -> StuckSets] :
          cl = [s \in Sandboxes |-> IF kind[s].persistent
                                    THEN PersistentCluster(st[s])
                                    ELSE EphemeralCluster(st[s])]
    /\ listed = {}
    /\ ServerInit
    /\ faults = 0

-----------------------------------------------------------------------------
(* Requests *)

\* SandboxService.Delete: nothing to do for a row already being deleted.  One
\* whose statement comes long after its look at the row is as MarkExpired.
Delete(s) ==
    /\ row[s].desired = "active"
    /\ row[s].lifecycle # "terminating"
    /\ row' = [row EXCEPT ![s] = MarkDeletionRequested(@)]
    /\ UNCHANGED <<kind, cl, listed, server, faults>>

\* cleanExpiredSandboxes lists first ...
ListExpiredActive ==
    /\ listed = {}
    /\ listed' \in SUBSET {s \in Sandboxes : Expirable(row[s])}
    /\ listed' # {}
    /\ UNCHANGED <<kind, row, cl, server, faults>>

\* ... and marks what it listed, whatever happened to the row in between.
MarkExpired(s) ==
    /\ s \in listed
    /\ listed' = listed \ {s}
    /\ row' = [row EXCEPT ![s] = MarkDeletionRequested(@)]
    /\ UNCHANGED <<kind, cl, server, faults>>

-----------------------------------------------------------------------------
(* A pass of the executor *)

ListPendingDeletion(r) ==
    LET pending == {s \in Sandboxes : PendingDeletion(row[s])} IN
    /\ pc[r] = "idle"
    /\ r = Ticker \/ r \notin booted
    /\ pending # {}
    /\ pc' = [pc EXCEPT ![r] = "loop"]
    /\ booted' = booted \cup {r}
    /\ todo' = [todo EXCEPT ![r] = pending]
    /\ recs' = [recs EXCEPT ![r] =
                  [s \in Sandboxes |->
                     IF s \in pending
                     THEN [phase |-> row[s].phase, force |-> row[s].force]
                     ELSE NoRec]]
    /\ UNCHANGED <<kind, row, cl, listed, cur, now, snap, ops, faults>>

\* Mutant: the attempt is recorded with a fresh force level.
Begin_ResetsForce(r, s) ==
    /\ pc[r] = "loop"
    /\ s \in todo[r]
    /\ row' = [row EXCEPT ![s] = RecordDeletionAttempt(@, 0, "later")]
    /\ cur' = [cur EXCEPT ![r] = s]
    /\ now' = [now EXCEPT ![r] = row[s].age]
    /\ pc' = [pc EXCEPT ![r] = IF kind[s].persistent THEN "deployment" ELSE "pods"]
    /\ UNCHANGED <<kind, cl, listed, booted, todo, recs, snap, ops, faults>>

\* processSandbox begins by recording the attempt with the copied force level
\* and a retry time after the backoff.
Begin(r, s) ==
    /\ pc[r] = "loop"
    /\ s \in todo[r]
    /\ row' = [row EXCEPT ![s] =
                 RecordDeletionAttempt(@, recs[r][s].force, "later")]
    /\ cur' = [cur EXCEPT ![r] = s]
    /\ now' = [now EXCEPT ![r] = row[s].age]
    /\ pc' = [pc EXCEPT ![r] = IF kind[s].persistent THEN "deployment" ELSE "pods"]
    /\ UNCHANGED <<kind, cl, listed, booted, todo, recs, snap, ops, faults>>

\* GetSandboxDeletionSnapshot reads the Deployment, then the Pods, then the
\* storage; an ephemeral sandbox only has its Pods listed.
SnapshotDeployment(r) ==
    /\ pc[r] = "deployment"
    /\ snap' = [snap EXCEPT ![r].dep = cl[cur[r]].dep]
    /\ pc' = [pc EXCEPT ![r] = "pods"]
    /\ UNCHANGED <<kind, row, cl, listed, booted, todo, recs, cur, now, ops, faults>>

\* Mutant: Pods that are terminating are not counted.
SnapshotPods_RunningOnly(r) ==
    /\ pc[r] = "pods"
    /\ snap' = [snap EXCEPT ![r].pods = cl[cur[r]].pod = "live"]
    /\ pc' = [pc EXCEPT ![r] =
                IF kind[cur[r]].persistent THEN "storage" ELSE "handle"]
    /\ UNCHANGED <<kind, row, cl, listed, booted, todo, recs, cur, now, ops, faults>>

SnapshotPods(r) ==
    /\ pc[r] = "pods"
    /\ snap' = [snap EXCEPT ![r].pods = cl[cur[r]].pod # "absent"]
    /\ pc' = [pc EXCEPT ![r] =
                IF kind[cur[r]].persistent THEN "storage" ELSE "handle"]
    /\ UNCHANGED <<kind, row, cl, listed, booted, todo, recs, cur, now, ops, faults>>

\* The volume and its attachments are found through the claim only.
SnapshotStorage(r) ==
    LET c == cl[cur[r]]
        visible == c.pvc # "absent" /\ c.pv
    IN
    /\ pc[r] = "storage"
    /\ snap' = [snap EXCEPT ![r].pvc = c.pvc,
                            ![r].pv  = visible,
                            ![r].va  = visible /\ c.va]
    /\ pc' = [pc EXCEPT ![r] = "handle"]
    /\ UNCHANGED <<kind, row, cl, listed, booted, todo, recs, cur, now, ops, faults>>

\* The pass is done with its current sandbox, by success or by error.
NextItem(r) ==
    LET rest == todo[r] \ {cur[r]} IN
    /\ todo' = [todo EXCEPT ![r] = rest]
    /\ pc' = [pc EXCEPT ![r] = IF rest = {} THEN "idle" ELSE "loop"]
    /\ recs' = [recs EXCEPT ![r][cur[r]] = NoRec]
    /\ cur' = [cur EXCEPT ![r] = NoSandbox]
    /\ now' = [now EXCEPT ![r] = 0]
    /\ snap' = [snap EXCEPT ![r] = NoSnapshot]
    /\ ops' = [ops EXCEPT ![r] = <<>>]
    /\ UNCHANGED booted

Handle(r) ==
    LET s == cur[r]
        plan == Dispatch(kind[s], recs[r][s], snap[r], now[r])
    IN
    /\ pc[r] = "handle"
    /\ \/ /\ plan # <<>>
          /\ ops' = [ops EXCEPT ![r] = plan]
          /\ pc' = [pc EXCEPT ![r] = "ops"]
          /\ UNCHANGED <<booted, todo, recs, cur, now, snap>>
       \/ plan = <<>> /\ NextItem(r)
    /\ UNCHANGED <<kind, row, cl, listed, faults>>

Continue(r) ==
    IF Tail(ops[r]) = <<>> THEN NextItem(r)
    ELSE /\ ops' = [ops EXCEPT ![r] = Tail(@)]
         /\ UNCHANGED <<pc, booted, todo, recs, cur, now, snap>>

CallCluster(r) ==
    LET s == cur[r]
        op == Head(ops[r])
    IN
    /\ pc[r] = "ops"
    /\ op.do \in Calls
    /\ cl' = [cl EXCEPT ![s] = Apply(op.do, @)]
    /\ Continue(r)
    /\ UNCHANGED <<kind, row, listed, faults>>

Execute(op, rec, rw) ==
    CASE op.do = "AdvanceDeletionPhase" -> AdvanceDeletionPhase(rw, op.phase)
      [] op.do = "MarkReadyForImmediateRetry" ->
            RecordDeletionAttempt(rw, rec.force, "due")
      [] op.do = "BumpForceLevel" -> RecordDeletionAttempt(rw, op.force, "due")
      [] op.do = "MarkDeletionCompleted" -> MarkDeletionCompleted(rw)

WriteRow(r) ==
    LET s == cur[r]
        op == Head(ops[r])
    IN
    /\ pc[r] = "ops"
    /\ op.do \in Statements
    /\ row' = [row EXCEPT ![s] = Execute(op, recs[r][s], @)]
    /\ Continue(r)
    /\ UNCHANGED <<kind, cl, listed, faults>>

-----------------------------------------------------------------------------
(* Faults *)

\* A snapshot call fails: the error is recorded with the copied force level.
SnapshotFails(r) ==
    /\ faults < MaxFaults
    /\ pc[r] \in {"deployment", "pods", "storage"}
    /\ row' = [row EXCEPT ![cur[r]] =
                 RecordDeletionAttempt(@, recs[r][cur[r]].force, "later")]
    /\ NextItem(r)
    /\ faults' = faults + 1
    /\ UNCHANGED <<kind, cl, listed>>

\* The statement that records the attempt fails: the sandbox is skipped.
BeginFails(r, s) ==
    /\ faults < MaxFaults
    /\ pc[r] = "loop"
    /\ s \in todo[r]
    /\ todo' = [todo EXCEPT ![r] = @ \ {s}]
    /\ recs' = [recs EXCEPT ![r][s] = NoRec]
    /\ pc' = [pc EXCEPT ![r] = IF todo[r] = {s} THEN "idle" ELSE "loop"]
    /\ faults' = faults + 1
    /\ UNCHANGED <<kind, row, cl, listed, booted, cur, now, snap, ops>>

\* A call or a statement of the handler fails: the rest of it is skipped.
OpFails(r) ==
    /\ faults < MaxFaults
    /\ pc[r] = "ops"
    /\ NextItem(r)
    /\ faults' = faults + 1
    /\ UNCHANGED <<kind, row, cl, listed>>

\* The server stops anywhere and starts again: only the table survives.
Restart ==
    /\ faults < MaxFaults
    /\ listed' = {}
    /\ pc' = [r \in Runners |-> "idle"]
    /\ booted' = {}
    /\ todo' = [r \in Runners |-> {}]
    /\ recs' = [r \in Runners |-> [s \in Sandboxes |-> NoRec]]
    /\ cur' = [r \in Runners |-> NoSandbox]
    /\ now' = [r \in Runners |-> 0]
    /\ snap' = [r \in Runners |-> NoSnapshot]
    /\ ops' = [r \in Runners |-> <<>>]
    /\ faults' = faults + 1
    /\ UNCHANGED <<kind, row, cl>>

-----------------------------------------------------------------------------
(* The environment *)

ControllerStep(s) ==
    /\ \E d \in ControllerSteps(kind[s].persistent, cl[s]) :
          cl' = [cl EXCEPT ![s] = d]
    /\ UNCHANGED <<kind, row, listed, server, faults>>

Tick(s) ==
    /\ row[s].age \in 0..(MaxAge - 1)
    /\ row[s].lifecycle # "deleted"
    /\ row' = [row EXCEPT ![s] = AgeRow(@)]
    /\ UNCHANGED <<kind, cl, listed, server, faults>>

BackoffElapses(s) ==
    /\ row[s].retry = "later"
    /\ row' = [row EXCEPT ![s] = RetryComesDue(@)]
    /\ UNCHANGED <<kind, cl, listed, server, faults>>

-----------------------------------------------------------------------------

Pass(r) ==
    \/ ListPendingDeletion(r)
    \/ \E s \in Sandboxes : Begin(r, s)
    \/ SnapshotDeployment(r)
    \/ SnapshotPods(r)
    \/ SnapshotStorage(r)
    \/ Handle(r)
    \/ CallCluster(r)
    \/ WriteRow(r)

Request(s) == Delete(s) \/ MarkExpired(s)

Next ==
    \/ \E s \in Sandboxes : Request(s) \/ ControllerStep(s) \/ Tick(s) \/ BackoffElapses(s)
    \/ ListExpiredActive
    \/ \E r \in Runners : \/ Pass(r)
                          \/ \E s \in Sandboxes : BeginFails(r, s)
                          \/ SnapshotFails(r)
                          \/ OpFails(r)
    \/ Restart

Spec == Init /\ [][Next]_vars

\* The ticker keeps firing, a pass keeps going, controllers and the clock keep
\* working; nobody has to request a deletion and nothing has to fail.
Fairness ==
    /\ \A r \in Runners : WF_vars(Pass(r))
    /\ \A s \in Sandboxes : /\ WF_vars(ControllerStep(s))
                            /\ WF_vars(Tick(s))
                            /\ WF_vars(BackoffElapses(s))

FairSpec == Spec /\ Fairness

-----------------------------------------------------------------------------
(* Properties *)

\* Nothing of the sandbox is left that could run, or hold its data although the
\* policy is Delete.
Gone(s) ==
    /\ cl[s].dep = "absent"
    /\ cl[s].pod = "absent"
    /\ kind[s].persistent /\ ~kind[s].retain => cl[s].pvc = "absent"

\* A row says `deleted` only when its objects are gone.  handleVerifying decides
\* on a snapshot read call by call and some steps old, possibly of a pass that
\* another one has overtaken.
NothingLeftBehind == \A s \in Sandboxes : row[s].lifecycle = "deleted" => Gone(s)

\* Storage is only touched once nothing runs on it: from the moment the claim is
\* being deleted there is no Deployment and no Pod, whichever pass asked for it.
StorageAfterRuntime ==
    \A s \in Sandboxes :
        kind[s].persistent /\ cl[s].pvc # "live" =>
            cl[s].dep = "absent" /\ cl[s].pod = "absent"

\* The executor never deletes the claim of a sandbox whose policy is Retain,
\* at no force level.
RetainKeepsPVC ==
    \A s \in Sandboxes : kind[s].retain => cl[s].pvc = "live"

\* After a restart at any point a requested deletion that is not finished is
\* found again by ListPendingDeletion, at the latest when its backoff is over.
UnfinishedStaysPending ==
    \A s \in Sandboxes :
        row[s].desired = "deleted" /\ row[s].lifecycle # "deleted" =>
            PendingDeletion(RetryComesDue(row[s]))

\* The deletion of a row and the last phase of its state machine come together,
\* so the metadata cleaner may remove every deleted row.
DeletedIsCompleted ==
    \A s \in Sandboxes :
        /\ row[s].lifecycle = "deleted" <=> row[s].phase = "completed"
        /\ row[s].lifecycle = "deleted" => Purgeable(row[s])

\* What the row, the runtime and the claim of a sandbox amount to for
\* whoever waits for its deletion.
Status(rw) == IF rw.lifecycle = "deleted" THEN "deleted"
              ELSE IF rw.desired = "deleted" THEN "requested"
              ELSE "active"

Contract == INSTANCE DeletionContract
              WITH status  <- [s \in Sandboxes |-> Status(row[s])],
                   runtime <- [s \in Sandboxes |-> \/ cl[s].dep # "absent"
                                                 \/ cl[s].pod # "absent"],
                   claim   <- [s \in Sandboxes |-> cl[s].pvc]

\* The executor implements the contract: whatever its passes, the controllers,
\* faults and restarts do, a sandbox nobody asked to delete is not touched, and
\* runtime, claim and row go in this order, for good.
ImplementsContract == Contract!Spec

\* The force level only goes back to 0 when the deletion is requested anew.
EscalationIsKept ==
    [][\A s \in Sandboxes : \/ row'[s].force >= row[s].force
                            \/ row'[s].phase = "requested"]_vars

\* Deleting a sandbox does not destroy the volume the policy Retain promises to
\* keep for manual recovery.
RetainKeepsVolume == \A s \in Sandboxes : kind[s].retain => cl[s].pv

\* Every requested deletion ends.
DeletionConverges ==
    \A s \in Sandboxes :
        row[s].desired = "deleted" ~> row[s].lifecycle = "deleted"

=============================================================================
