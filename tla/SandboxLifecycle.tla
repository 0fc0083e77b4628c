-------------------------- MODULE SandboxLifecycle --------------------------
(***************************************************************************)
(* One sandbox between its creation and its deletion, and everybody who    *)
(* writes its lifecycle status:                                            *)
(*                                                                         *)
(*   the API        Create, Delete, Restart, Stop, Start                   *)
(*                  (service/sandbox.go);                                  *)
(*   the monitor    the goroutine Create leaves behind to wait for the Pod *)
(*                  (persistent_status.go, k8s WaitForReady);              *)
(*   the reconciler compares the row with the cluster, now and then        *)
(*                  (sandbox_reconcile.go);                                *)
(*   the TTL cleaner requests the deletion of what has expired;            *)
(*   the executor   carries requested deletions out.  Here it is only what *)
(*                  DeletionContract says of it, which SandboxDeletion     *)
(*                  implements.                                            *)
(*                                                                         *)
(* Each of them reads the row, works with that copy, calls the cluster and *)
(* writes, with nothing that keeps the others out in between.  No handler  *)
(* relates two sandboxes, so one is enough.                                *)
(***************************************************************************)
EXTENDS Integers, Sequences, SandboxStore

CONSTANTS
    Callers,    \* concurrent API requests
    APIs,       \* the requests of this instance
    Kinds,      \* the kinds of sandbox of this instance
    Stages,     \* whether Create is still at work when the behaviour begins
    MaxCalls,   \* bound on API requests
    MaxFaults   \* bound on failed calls, lost Pods and server restarts

AllAPIs == {"delete", "restart", "stop", "start"}

ASSUME LifecycleAssumptions ==
    /\ APIs \subseteq AllAPIs
    /\ Kinds \subseteq [persistent : BOOLEAN, retain : BOOLEAN]
    /\ Stages \subseteq {"creating", "created"}
    /\ MaxCalls \in Nat
    /\ MaxFaults \in Nat

VARIABLES
    kind,     \* persistence columns of the row, never changed
    row,      \* the row
    cl,       \* the sandbox's objects in the cluster
    creator,  \* where Create is
    monitor,  \* where the monitor is
    call,     \* where each API request is
    listed,   \* the TTL cleaner listed the row and has not marked it yet
    rc,       \* the reconcile run
    executor, \* where the deletion executor is
    calls,    \* API requests so far
    faults    \* faults so far

server == <<creator, monitor, call, listed, rc, executor>>
vars   == <<kind, row, cl, server, calls, faults>>

\* Replicas 1 and 0 of the Deployment are "up" and "down"; a Pod that is
\* "stopping" has a DeletionTimestamp, one that is "running" is not ready.
PodStates == {"absent", "pending", "running", "ready", "failed", "succeeded",
              "stopping"}

Objects == [dep : {"absent", "up", "down"}, pod : PodStates,
            pvc : {"absent", "live"}]

Idle == [op |-> "none", step |-> "idle"]

\* What Create inserts.
CreatingRow == [desired |-> "active", lifecycle |-> "creating", phase |-> "",
                age |-> -1, retry |-> "null", force |-> 0, deletedAt |-> FALSE,
                stopped |-> FALSE]

-----------------------------------------------------------------------------
(* Reading a Pod *)

\* Mutant: the state of the Pod is stored as it is.
ConvertPodStatus_Raw(pod) == pod

\* convertPodStatus
ConvertPodStatus(pod) ==
    CASE pod = "stopping"             -> "terminating"
      [] pod = "pending"              -> "pending"
      [] pod \in {"running", "ready"} -> "running"
      [] pod = "succeeded"            -> "succeeded"
      [] pod = "failed"               -> "failed"

\* classifyPersistentStartup: a Pod that is not ready is pending or failed,
\* depending on events and conditions that are not modelled; one that is being
\* deleted may still be ready.
ClassifyPersistentStartup(pod) ==
    CASE pod = "ready"    -> {"ready"}
      [] pod = "failed"   -> {"failed"}
      [] pod = "stopping" -> {"ready", "pending", "failed"}
      [] OTHER            -> {"pending", "failed"}

\* What one poll of WaitForReady ends with.  A custom probe may succeed before
\* the Pod is ready, or fail when it is.
WaitForReady(pod) ==
    CASE pod \in {"running", "ready"} -> {"ready", "pending"}
      [] pod = "failed"               -> {"failed"}
      [] pod = "stopping"             -> {"ready", "pending", "failed"}
      [] OTHER                        -> {"pending"}

-----------------------------------------------------------------------------
(* What a reconcile run does to the sandbox: a sequence of statements on   *)
(* the row and calls to the cluster.  The pod columns of the copy are not  *)
(* modelled, so a run that finds the status as it should be may or may not *)
(* write it again.                                                         *)

Op == [do : {"MarkDeleted", "IfActive", "EnsureStoppedAt", "DeletePodByName"},
       status : Lifecycles \cup {""}]

Do(name)         == [do |-> name, status |-> ""]
IfActive(status) == [do |-> "IfActive", status |-> status]

Observe(rec, status) ==
    {<<IfActive(status)>>} \cup {p \in {<<>>} : rec.lifecycle = status}

\* Nothing of the sandbox was found.
Missing(rec) ==
    CASE rec.lifecycle = "terminating"            -> {<<Do("MarkDeleted")>>}
      [] rec.lifecycle \in {"deleted", "stopped"} -> {<<>>}
      [] OTHER                                    -> {<<>>, <<IfActive("lost")>>}

ReconcileEphemeral(rec, pod) ==
    IF rec.desired = "deleted" THEN {<<>>}
    ELSE IF pod = "absent" THEN Missing(rec)
    ELSE Observe(rec, ConvertPodStatus(pod))

\* Mutant: only the status says that a sandbox is stopped.
TreatAsStopped_ByStatus(rec, dep) == dep = "down" /\ rec.lifecycle = "stopped"

\* shouldTreatPersistentSandboxAsStopped
TreatAsStopped(rec, dep) ==
    dep = "down" /\ (rec.lifecycle = "stopped" \/ rec.stopped)

ReconcileStopped(rec, pod) ==
    {(IF rec.stopped THEN <<>> ELSE <<Do("EnsureStoppedAt")>>)
        \o (IF pod = "absent" THEN <<>> ELSE <<Do("DeletePodByName")>>)
        \o write : write \in Observe(rec, "stopped")}

ReconcileStarted(rec, state) ==
    CASE state = "ready"  -> Observe(rec, "running")
      [] state = "failed" -> Observe(rec, "failed")
      [] OTHER            -> IF rec.lifecycle = "failed" THEN {<<>>}
                             ELSE Observe(rec, "pending")

\* Mutant: a sandbox that failed once is left alone.
ReconcilePersistent_FailedIsFinal(rec, dep, pvc, pod) ==
    IF rec.desired = "deleted" \/ rec.lifecycle = "failed" THEN {<<>>}
    ELSE UNION {ReconcileStarted(rec, state) :
                    state \in ClassifyPersistentStartup(pod)}

ReconcilePersistent(rec, dep, pvc, pod) ==
    IF rec.desired = "deleted" THEN {<<>>}
    ELSE IF dep = "absent" /\ pvc = "absent" /\ pod = "absent" THEN Missing(rec)
    ELSE IF TreatAsStopped(rec, dep) THEN ReconcileStopped(rec, pod)
    ELSE UNION {ReconcileStarted(rec, state) :
                    state \in ClassifyPersistentStartup(pod)}

-----------------------------------------------------------------------------

\* What a reconcile run holds: its copy of the row, what it has read of the
\* cluster, and what it still has to do.
Run == [step : {"idle", "deployment", "claim", "pod", "ops"},
        rec  : [desired : DesiredStates, lifecycle : Lifecycles, stopped : BOOLEAN],
        dep  : {"absent", "up", "down"}, pvc : {"absent", "live"},
        seen : BOOLEAN, ops : Seq(Op)]

TypeOK ==
    /\ kind \in Kinds
    /\ row \in SandboxRow
    /\ cl \in Objects
    /\ creator \in {"claim", "deployment", "pod", "unclaim", "fail", "write", "done"}
    /\ monitor \in {"idle", "watch", "running", "failed"}
    /\ call \in [Callers -> [op : APIs \cup {"none"}, step : {"idle", "act", "write"}]]
    /\ listed \in BOOLEAN
    /\ rc \in Run
    /\ executor \in {"idle", "working", "verified"}
    /\ calls \in 0..MaxCalls
    /\ faults \in 0..MaxFaults

NoRun == [step |-> "idle",
          rec  |-> [desired |-> "active", lifecycle |-> "creating", stopped |-> FALSE],
          dep  |-> "absent", pvc |-> "absent", seen |-> FALSE, ops |-> <<>>]

\* Create has inserted the row, and is about to call the cluster or has just
\* answered.
Init ==
    /\ kind \in Kinds
    /\ \E stage \in Stages :
         IF stage = "creating"
         THEN /\ row = CreatingRow
              /\ cl = [dep |-> "absent", pod |-> "absent", pvc |-> "absent"]
              /\ creator = IF kind.persistent THEN "claim" ELSE "pod"
              /\ monitor = "idle"
         ELSE /\ row = UpdateStatus(CreatingRow, "pending")
              /\ cl = [dep |-> IF kind.persistent THEN "up" ELSE "absent",
                       pod |-> "pending",
                       pvc |-> IF kind.persistent THEN "live" ELSE "absent"]
              /\ creator = "done"
              /\ monitor = "watch"
    /\ call = [c \in Callers |-> Idle]
    /\ listed = FALSE
    /\ rc = NoRun
    /\ executor = "idle"
    /\ calls = 0
    /\ faults = 0

-----------------------------------------------------------------------------
(* Create, after it inserted the row *)

\* What the call at this point of Create makes.
Created(at, c) ==
    CASE at = "claim"      -> [c EXCEPT !.pvc = "live"]
      [] at = "deployment" -> [c EXCEPT !.dep = "up"]
      [] at = "pod"        -> [c EXCEPT !.pod = "pending"]

EnsurePersistentVolumeClaim ==
    /\ creator = "claim"
    /\ cl' = Created(creator, cl)
    /\ creator' = "deployment"
    /\ UNCHANGED <<kind, row, monitor, call, listed, rc, executor, calls, faults>>

CreateDeployment ==
    /\ creator = "deployment"
    /\ cl' = Created(creator, cl)
    /\ creator' = "write"
    /\ UNCHANGED <<kind, row, monitor, call, listed, rc, executor, calls, faults>>

CreatePod ==
    /\ creator = "pod"
    /\ cl' = Created(creator, cl)
    /\ creator' = "write"
    /\ UNCHANGED <<kind, row, monitor, call, listed, rc, executor, calls, faults>>

\* The status is written whatever happened to the row since it was inserted,
\* and the monitor starts.
CreateAnswers ==
    /\ creator = "write"
    /\ row' = UpdateStatus(row, "pending")
    /\ creator' = "done"
    /\ monitor' = "watch"
    /\ UNCHANGED <<kind, cl, call, listed, rc, executor, calls, faults>>

\* The statement fails: only the branch for persistent sandboxes goes on.
CreateWriteFails ==
    /\ faults < MaxFaults
    /\ creator \in {"write", "fail"}
    /\ creator' = "done"
    /\ monitor' = IF creator = "write" /\ kind.persistent THEN "watch" ELSE monitor
    /\ faults' = faults + 1
    /\ UNCHANGED <<kind, row, cl, call, listed, rc, executor, calls>>

\* A call of Create fails, or its answer is lost; the claim is removed again if
\* the Deployment could not be created.
CreateCallFails ==
    /\ faults < MaxFaults
    /\ creator \in {"claim", "deployment", "pod"}
    /\ cl' \in {cl, Created(creator, cl)}
    /\ creator' = IF creator = "deployment" THEN "unclaim" ELSE "fail"
    /\ faults' = faults + 1
    /\ UNCHANGED <<kind, row, monitor, call, listed, rc, executor, calls>>

\* A claim that a Pod still mounts goes with the Pod; nobody reads the
\* difference.
DeleteClaim ==
    /\ creator = "unclaim"
    /\ cl' = [cl EXCEPT !.pvc = "absent"]
    /\ creator' = "fail"
    /\ UNCHANGED <<kind, row, monitor, call, listed, rc, executor, calls, faults>>

CreateFails ==
    /\ creator = "fail"
    /\ row' = UpdateStatus(row, "failed")
    /\ creator' = "done"
    /\ UNCHANGED <<kind, cl, monitor, call, listed, rc, executor, calls, faults>>

Create == \/ EnsurePersistentVolumeClaim \/ CreateDeployment \/ CreatePod
          \/ CreateAnswers \/ DeleteClaim \/ CreateFails

-----------------------------------------------------------------------------
(* The monitor *)

Poll(pod) == IF kind.persistent THEN ClassifyPersistentStartup(pod)
                                ELSE WaitForReady(pod)

MonitorReads ==
    /\ monitor = "watch"
    /\ \E state \in Poll(cl.pod) :
         /\ state # "pending"
         /\ monitor' = IF state = "ready" THEN "running" ELSE "failed"
    /\ UNCHANGED <<kind, row, cl, creator, call, listed, rc, executor, calls, faults>>

\* The startup timeout: the sandbox has failed, whatever a last look at it says.
MonitorTimesOut ==
    /\ monitor = "watch"
    /\ monitor' = "failed"
    /\ UNCHANGED <<kind, row, cl, creator, call, listed, rc, executor, calls, faults>>

MonitorWrites ==
    /\ monitor \in {"running", "failed"}
    /\ row' = UpdateStatusIfActive(row, monitor)
    /\ monitor' = "idle"
    /\ UNCHANGED <<kind, cl, creator, call, listed, rc, executor, calls, faults>>

\* The statement fails, which the monitor ignores.
MonitorWriteFails ==
    /\ faults < MaxFaults
    /\ monitor \in {"running", "failed"}
    /\ monitor' = "idle"
    /\ faults' = faults + 1
    /\ UNCHANGED <<kind, row, cl, creator, call, listed, rc, executor, calls>>

Monitor == MonitorReads \/ MonitorTimesOut \/ MonitorWrites

-----------------------------------------------------------------------------
(* Requests: read the row and check it, call the cluster, write the row *)

Accepts(op, rw) ==
    CASE op = "delete"  -> rw.desired = "active" /\ rw.lifecycle # "terminating"
      [] op = "restart" -> rw.desired = "active" /\ kind.persistent
                           /\ rw.lifecycle \notin {"deleted", "terminating", "stopped"}
      [] op = "stop"    -> rw.desired = "active" /\ kind.persistent
                           /\ rw.lifecycle \notin {"deleted", "terminating", "stopped"}
      [] op = "start"   -> rw.desired = "active" /\ kind.persistent
                           /\ rw.lifecycle = "stopped"

Receive(c, op) ==
    /\ calls < MaxCalls
    /\ call[c] = Idle
    /\ Accepts(op, row)
    /\ call' = [call EXCEPT ![c] =
                  [op |-> op, step |-> IF op = "delete" THEN "write" ELSE "act"]]
    /\ calls' = calls + 1
    /\ UNCHANGED <<kind, row, cl, creator, monitor, listed, rc, executor, faults>>

\* RestartPersistentSandbox, StopPersistentSandbox and StartPersistentSandbox.
\* The update of the replicas carries the resource version it read.
ActOn(op, c) ==
    CASE op = "restart" -> [c EXCEPT !.pod = IF @ = "absent" THEN @ ELSE "stopping"]
      [] op = "stop"    -> [c EXCEPT !.dep = "down"]
      [] op = "start"   -> [c EXCEPT !.dep = "up"]

Act(c) ==
    /\ call[c].step = "act"
    /\ IF cl.dep = "absent"
       THEN /\ call' = [call EXCEPT ![c] = Idle]
            /\ UNCHANGED cl
       ELSE /\ call' = [call EXCEPT ![c].step = "write"]
            /\ cl' = ActOn(call[c].op, cl)
    /\ UNCHANGED <<kind, row, creator, monitor, listed, rc, executor, calls, faults>>

\* Mutant: Delete only wishes the sandbox away.
Written_SetDesiredOnly(op, rw) ==
    CASE op = "delete"  -> [rw EXCEPT !.desired = "deleted", !.phase = "completed"]
      [] op = "restart" -> UpdateStatus(rw, "pending")
      [] op = "stop"    -> SetStopped(rw)
      [] op = "start"   -> SetStarted(rw)

Written(op, rw) ==
    CASE op = "delete"  -> MarkDeletionRequested(rw)
      [] op = "restart" -> UpdateStatus(rw, "pending")
      [] op = "stop"    -> SetStopped(rw)
      [] op = "start"   -> SetStarted(rw)

Write(c) ==
    /\ call[c].step = "write"
    /\ row' = Written(call[c].op, row)
    /\ call' = [call EXCEPT ![c] = Idle]
    /\ UNCHANGED <<kind, cl, creator, monitor, listed, rc, executor, calls, faults>>

CallFails(c) ==
    /\ faults < MaxFaults
    /\ call[c] # Idle
    /\ call' = [call EXCEPT ![c] = Idle]
    /\ faults' = faults + 1
    /\ UNCHANGED <<kind, row, cl, creator, monitor, listed, rc, executor, calls>>

-----------------------------------------------------------------------------
(* The TTL cleaner.  A row it fails to mark is as one it did not list. *)

ListExpiredActive ==
    /\ ~listed
    /\ Expirable(row)
    /\ listed' = TRUE
    /\ UNCHANGED <<kind, row, cl, creator, monitor, call, rc, executor, calls, faults>>

MarkExpired ==
    /\ listed
    /\ row' = MarkDeletionRequested(row)
    /\ listed' = FALSE
    /\ UNCHANGED <<kind, cl, creator, monitor, call, rc, executor, calls, faults>>

-----------------------------------------------------------------------------
(* A reconcile run *)

ListForReconcile ==
    /\ rc.step = "idle"
    /\ rc' = [rc EXCEPT !.step = IF kind.persistent THEN "deployment" ELSE "pod",
                        !.rec = [desired |-> row.desired, lifecycle |-> row.lifecycle,
                                 stopped |-> row.stopped]]
    /\ UNCHANGED <<kind, row, cl, creator, monitor, call, listed, executor, calls, faults>>

SnapshotDeployment ==
    /\ rc.step = "deployment"
    /\ rc' = [rc EXCEPT !.step = "claim", !.dep = cl.dep]
    /\ UNCHANGED <<kind, row, cl, creator, monitor, call, listed, executor, calls, faults>>

SnapshotClaim ==
    /\ rc.step = "claim"
    /\ rc' = [rc EXCEPT !.step = "pod", !.pvc = cl.pvc]
    /\ UNCHANGED <<kind, row, cl, creator, monitor, call, listed, executor, calls, faults>>

\* The last thing it reads is the Pod; then it decides.  `seen` says that the
\* Pod it means to delete still exists.
Reconcile ==
    /\ rc.step = "pod"
    /\ \E plan \in IF kind.persistent
                   THEN ReconcilePersistent(rc.rec, rc.dep, rc.pvc, cl.pod)
                   ELSE ReconcileEphemeral(rc.rec, cl.pod) :
          rc' = IF plan = <<>> THEN NoRun
                ELSE [NoRun EXCEPT !.step = "ops", !.ops = plan,
                                   !.seen = \E i \in DOMAIN plan : plan[i].do = "DeletePodByName"]
    /\ UNCHANGED <<kind, row, cl, creator, monitor, call, listed, executor, calls, faults>>

Execute(op, rw) ==
    CASE op.do = "MarkDeleted"     -> MarkDeletionCompleted(rw)
      [] op.do = "IfActive"        -> UpdateStatusIfActive(rw, op.status)
      [] op.do = "EnsureStoppedAt" -> EnsureStoppedAt(rw)
      [] OTHER                     -> rw

\* The Pod is deleted by its name: the one that has replaced it stays.
ReconcileWrites ==
    LET op == Head(rc.ops) IN
    /\ rc.step = "ops"
    /\ row' = Execute(op, row)
    /\ cl' = IF op.do = "DeletePodByName" /\ rc.seen
             THEN [cl EXCEPT !.pod = "stopping"] ELSE cl
    /\ rc' = IF Tail(rc.ops) = <<>> THEN NoRun ELSE [rc EXCEPT !.ops = Tail(@),
                                         !.seen = @ /\ op.do # "DeletePodByName"]
    /\ UNCHANGED <<kind, creator, monitor, call, listed, executor, calls, faults>>

ReconcileFails ==
    /\ faults < MaxFaults
    /\ rc.step # "idle"
    /\ rc' = NoRun
    /\ faults' = faults + 1
    /\ UNCHANGED <<kind, row, cl, creator, monitor, call, listed, executor, calls>>

ReconcileRun == \/ ListForReconcile \/ SnapshotDeployment \/ SnapshotClaim
                \/ Reconcile \/ ReconcileWrites

-----------------------------------------------------------------------------
(* The executor, as its contract *)

Gone(c) == /\ c.dep = "absent"
           /\ c.pod = "absent"
           /\ kind.persistent /\ ~kind.retain => c.pvc = "absent"

ExecutorTakes ==
    /\ executor = "idle"
    /\ PendingDeletion(row)
    /\ executor' = "working"
    /\ UNCHANGED <<kind, row, cl, creator, monitor, call, listed, rc, calls, faults>>

RemoveRuntime ==
    /\ executor = "working"
    /\ IF kind.persistent
       THEN cl.dep # "absent" /\ cl' = [cl EXCEPT !.dep = "absent"]
       ELSE cl.pod \notin {"absent", "stopping"} /\ cl' = [cl EXCEPT !.pod = "stopping"]
    /\ UNCHANGED <<kind, row, server, calls, faults>>

RemoveStorage ==
    /\ executor = "working"
    /\ cl.dep = "absent" /\ cl.pod = "absent" /\ cl.pvc = "live" /\ ~kind.retain
    /\ cl' = [cl EXCEPT !.pvc = "absent"]
    /\ UNCHANGED <<kind, row, server, calls, faults>>

\* Mutant: the claim is not looked at.
Verify_RuntimeOnly ==
    /\ executor = "working"
    /\ cl.dep = "absent" /\ cl.pod = "absent"
    /\ executor' = "verified"
    /\ UNCHANGED <<kind, row, cl, creator, monitor, call, listed, rc, calls, faults>>

Verify ==
    /\ executor = "working"
    /\ Gone(cl)
    /\ executor' = "verified"
    /\ UNCHANGED <<kind, row, cl, creator, monitor, call, listed, rc, calls, faults>>

Complete ==
    /\ executor = "verified"
    /\ row' = MarkDeletionCompleted(row)
    /\ executor' = "idle"
    /\ UNCHANGED <<kind, cl, creator, monitor, call, listed, rc, calls, faults>>

Executor == ExecutorTakes \/ RemoveRuntime \/ RemoveStorage \/ Verify \/ Complete

-----------------------------------------------------------------------------
(* The cluster, and the end of the server *)

PodTo(state) == /\ cl' = [cl EXCEPT !.pod = state]
                /\ rc' = IF state = "absent" THEN [rc EXCEPT !.seen = FALSE] ELSE rc
                /\ UNCHANGED <<kind, row, creator, monitor, call, listed, executor, calls>>

PodCreated == cl.dep = "up" /\ cl.pod = "absent" /\ PodTo("pending") /\ UNCHANGED faults

\* A Pod waits for the claim it mounts.
PodProgresses ==
    /\ \/ /\ cl.pod = "pending" /\ (kind.persistent => cl.pvc = "live")
          /\ PodTo("running")
       \/ cl.pod = "running" /\ PodTo("ready")
    /\ UNCHANGED faults

\* The containers of a Deployment's Pod are restarted, a bare Pod is final.
PodExits ==
    /\ faults < MaxFaults
    /\ \/ cl.pod \in {"running", "ready"} /\ PodTo("failed")
       \/ cl.pod \in {"running", "ready"} /\ ~kind.persistent /\ PodTo("succeeded")
    /\ faults' = faults + 1

PodRecovers == kind.persistent /\ cl.pod = "failed" /\ PodTo("running") /\ UNCHANGED faults

\* Eviction, a drained node, somebody with kubectl.
PodEvicted ==
    /\ faults < MaxFaults
    /\ cl.pod \notin {"absent", "stopping"}
    /\ PodTo("stopping")
    /\ faults' = faults + 1

PodStops ==
    /\ kind.persistent /\ cl.dep # "up" /\ cl.pod \notin {"absent", "stopping"}
    /\ PodTo("stopping")
    /\ UNCHANGED faults

PodGone == cl.pod = "stopping" /\ PodTo("absent") /\ UNCHANGED faults

ServerRestart ==
    /\ faults < MaxFaults
    /\ creator' = "done"
    /\ monitor' = "idle"
    /\ call' = [c \in Callers |-> Idle]
    /\ listed' = FALSE
    /\ rc' = NoRun
    /\ executor' = "idle"
    /\ faults' = faults + 1
    /\ UNCHANGED <<kind, row, cl, calls>>

-----------------------------------------------------------------------------

Controllers == PodCreated \/ PodProgresses \/ PodRecovers \/ PodStops \/ PodGone

Next ==
    \/ Create \/ CreateCallFails \/ CreateWriteFails
    \/ Monitor \/ MonitorWriteFails
    \/ \E c \in Callers : \/ \E op \in APIs : Receive(c, op)
                          \/ Act(c) \/ Write(c) \/ CallFails(c)
    \/ ListExpiredActive \/ MarkExpired
    \/ ReconcileRun \/ ReconcileFails
    \/ Executor
    \/ Controllers \/ PodExits \/ PodEvicted
    \/ ServerRestart

Spec == Init /\ [][Next]_vars

\* Requests that were received are carried on, tickers keep firing, controllers
\* keep working.  Nobody has to ask for anything and no TTL has to pass.
Fairness ==
    /\ WF_vars(Create) /\ WF_vars(Monitor)
    /\ \A c \in Callers : WF_vars(Act(c) \/ Write(c))
    /\ WF_vars(MarkExpired)
    /\ WF_vars(ReconcileRun)
    /\ WF_vars(Executor)
    /\ WF_vars(Controllers)

FairSpec == Spec /\ Fairness

-----------------------------------------------------------------------------
(* Properties *)

\* The monitor, the reconciler and the TTL cleaner work with copies of the row
\* that may be as old as they like; once the row says `deleted`, none of them
\* makes it say anything else.
DeletedIsFinal ==
    [][row.lifecycle = "deleted" => row'.lifecycle = "deleted"]_vars

\* Neither the executor nor the reconciler's own way to `deleted` (a row that is
\* `terminating` and has nothing in the cluster) leaves anything behind.
NothingLeftBehind == row.lifecycle = "deleted" => Gone(cl)

\* A requested deletion reaches `deleted` and stays there.
DeletionConverges == row.desired = "deleted" ~> [](row.lifecycle = "deleted")

\* ... and nothing of the sandbox is left in the cluster.
ResidueConverges == row.desired = "deleted" ~> []Gone(cl)

\* A sandbox whose Pod is ready for good is reported running in the end: also
\* after a startup timeout, a crash, or a stale write of somebody.
ReadyIsReported ==
    (<>[](cl.pod = "ready" /\ cl.dep # "down" /\ row.desired = "active"))
        => <>[](row.lifecycle = "running")

\* A sandbox that was stopped and is not started again is reported stopped in
\* the end, whatever the monitor or an older reconcile run wrote over it.
StoppedIsReported ==
    (<>[](cl.dep = "down" /\ row.stopped /\ row.desired = "active"))
        => <>[](row.lifecycle = "stopped")

=============================================================================
