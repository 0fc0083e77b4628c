----------------------- MODULE SandboxLifecycleProofs -----------------------
(***************************************************************************)
(* Proofs about SandboxLifecycle, for any number of concurrent requests,   *)
(* any kinds of sandbox and any number of faults.                          *)
(***************************************************************************)
EXTENDS SandboxLifecycle, SequenceTheorems, TLAPS

-----------------------------------------------------------------------------
(* Type correctness *)

\* Every statement of the store leaves a row a row.
LEMMA StatementTypes ==
    ASSUME NEW rw \in SandboxRow
    PROVE  /\ MarkDeletionRequested(rw) \in SandboxRow
           /\ MarkDeletionCompleted(rw) \in SandboxRow
           /\ \A st \in Lifecycles : /\ UpdateStatus(rw, st) \in SandboxRow
                                     /\ UpdateStatusIfActive(rw, st) \in SandboxRow
           /\ SetStopped(rw) \in SandboxRow
           /\ SetStarted(rw) \in SandboxRow
           /\ EnsureStoppedAt(rw) \in SandboxRow
<1>1. 0 \in ForceLevels /\ 0 \in -1..MaxAge
  BY MaxAgeAssumption DEF ForceLevels
<1>a. /\ "deleted" \in DesiredStates /\ {"terminating", "deleted", "stopped", "pending"} \subseteq Lifecycles
      /\ {"requested", "completed"} \subseteq DeletionPhases /\ {"due", "null"} \subseteq RetryTimes
  BY DEF DesiredStates, Lifecycles, DeletionPhases, RetryTimes
<1> USE <1>a DEF SandboxRow
<1>2. MarkDeletionRequested(rw) \in SandboxRow
  BY <1>1 DEF MarkDeletionRequested
<1>3. MarkDeletionCompleted(rw) \in SandboxRow
  BY DEF MarkDeletionCompleted
<1>4. ASSUME NEW st \in Lifecycles
      PROVE  /\ UpdateStatus(rw, st) \in SandboxRow
             /\ UpdateStatusIfActive(rw, st) \in SandboxRow
  BY DEF UpdateStatus, UpdateStatusIfActive
<1>5. SetStopped(rw) \in SandboxRow /\ SetStarted(rw) \in SandboxRow /\ EnsureStoppedAt(rw) \in SandboxRow
  BY DEF SetStopped, SetStarted, EnsureStoppedAt
<1> QED
  BY <1>2, <1>3, <1>4, <1>5

\* No run, and what a run can plan, have their types.
LEMMA NoRunType == NoRun \in Run
  BY DEF NoRun, Run, DesiredStates, Lifecycles

\* The writes that reconciling may plan.
LEMMA OpTypes ==
    /\ \A name \in {"MarkDeleted", "EnsureStoppedAt", "DeletePodByName"} : Do(name) \in Op
    /\ \A st \in Lifecycles : IfActive(st) \in Op
  BY DEF Do, IfActive, Op

\* The plans of a run are built from these.
LEMMA ShortPlans ==
    ASSUME NEW S
    PROVE  <<>> \in Seq(S) /\ \A x \in S : <<x>> \in Seq(S)
  OBVIOUS

\* What is planned for an observed state.
LEMMA ObserveType ==
    ASSUME NEW rec, NEW st \in Lifecycles
    PROVE  \A p \in Observe(rec, st) : p = <<>> \/ p = <<IfActive(st)>>
  BY DEF Observe

\* What is planned for a sandbox without a pod.
LEMMA MissingType ==
    ASSUME NEW rec
    PROVE  \A p \in Missing(rec) :
              \/ p = <<>> \/ p = <<IfActive("lost")>>
              \/ rec.lifecycle = "terminating" /\ p = <<Do("MarkDeleted")>>
  BY DEF Missing

\* What is planned for a started one.
LEMMA StartedType ==
    ASSUME NEW rec, NEW state
    PROVE  \A p \in ReconcileStarted(rec, state) :
              p = <<>> \/ \E st \in {"running", "failed", "pending"} : p = <<IfActive(st)>>
<1>1. {"running", "failed", "pending"} \subseteq Lifecycles
  BY DEF Lifecycles
<1> QED
  BY <1>1, ObserveType DEF ReconcileStarted

\* Operations a run may plan: the status it writes is never `deleted`; and,
\* of these, the ones that leave the end of the sandbox to others.
GoodOps == {o \in Op : o.do = "IfActive" => o.status \in Lifecycles \ {"deleted"}}

PlainOps == {o \in GoodOps : o.do # "MarkDeleted"}

\* Only one write marks a row deleted.
LEMMA PlanOps ==
    /\ Do("MarkDeleted") \in GoodOps
    /\ Do("EnsureStoppedAt") \in PlainOps /\ Do("DeletePodByName") \in PlainOps
    /\ \A st \in Lifecycles \ {"deleted"} : IfActive(st) \in PlainOps
    /\ PlainOps \subseteq GoodOps
  BY OpTypes DEF GoodOps, PlainOps, Do, IfActive, Op

\* A sandbox without a Pod has none deleted.
OpsFor(pod, ops) == {o \in ops : o.do = "DeletePodByName" => pod # "absent"}

\* Plans made of those writes.
LEMMA OpsForPlans ==
    ASSUME NEW pod
    PROVE  /\ \A st \in Lifecycles \ {"deleted"} : <<IfActive(st)>> \in Seq(OpsFor(pod, PlainOps))
           /\ <<>> \in Seq(OpsFor(pod, PlainOps))
           /\ <<Do("EnsureStoppedAt")>> \in Seq(OpsFor(pod, PlainOps))
           /\ pod # "absent" => <<Do("DeletePodByName")>> \in Seq(OpsFor(pod, PlainOps))
           /\ <<Do("MarkDeleted")>> \in Seq(OpsFor(pod, GoodOps))
           /\ Seq(OpsFor(pod, PlainOps)) \subseteq Seq(OpsFor(pod, GoodOps))
<1>1. /\ \A st \in Lifecycles \ {"deleted"} : IfActive(st) \in OpsFor(pod, PlainOps)
      /\ Do("EnsureStoppedAt") \in OpsFor(pod, PlainOps)
      /\ pod # "absent" => Do("DeletePodByName") \in OpsFor(pod, PlainOps)
      /\ Do("MarkDeleted") \in OpsFor(pod, GoodOps)
      /\ OpsFor(pod, PlainOps) \subseteq OpsFor(pod, GoodOps)
  BY PlanOps DEF OpsFor, Do, IfActive
<1> QED
  BY <1>1, ShortPlans

\* Plans put one after the other.
LEMMA ConcatPlans ==
    ASSUME NEW S, NEW a \in Seq(S), NEW b \in Seq(S)
    PROVE  a \o b \in Seq(S)
  OBVIOUS

\* A stopped sandbox is never marked deleted, and its Pod is deleted only when
\* there was one.
LEMMA StoppedPlans ==
    ASSUME NEW rec, NEW pod, NEW p \in ReconcileStopped(rec, pod)
    PROVE  p \in Seq(OpsFor(pod, PlainOps))
<1>1. "stopped" \in Lifecycles \ {"deleted"}
  BY DEF Lifecycles
<1> DEFINE a == IF rec.stopped THEN <<>> ELSE <<Do("EnsureStoppedAt")>>
           b == IF pod = "absent" THEN <<>> ELSE <<Do("DeletePodByName")>>
<1>2. PICK w \in Observe(rec, "stopped") : p = a \o b \o w
  BY DEF ReconcileStopped
<1>3. w \in Seq(OpsFor(pod, PlainOps))
  BY <1>1, ObserveType, OpsForPlans
<1>4. a \in Seq(OpsFor(pod, PlainOps)) /\ b \in Seq(OpsFor(pod, PlainOps))
  BY OpsForPlans
<1> HIDE DEF a, b
<1> QED
  BY <1>2, <1>3, <1>4, ConcatPlans

\* Nothing was found: at most a row that is `terminating` is marked deleted.
LEMMA MissingPlans ==
    ASSUME NEW rec, NEW p \in Missing(rec)
    PROVE  p \in Seq(OpsFor("absent", GoodOps))
<1>1. "lost" \in Lifecycles \ {"deleted"}
  BY DEF Lifecycles
<1> QED
  BY <1>1, MissingType, OpsForPlans

\* A sandbox that is up, or should be.
LEMMA StartedPlans ==
    ASSUME NEW rec, NEW state, NEW pod, NEW p \in ReconcileStarted(rec, state)
    PROVE  p \in Seq(OpsFor(pod, PlainOps))
<1>1. {"running", "failed", "pending"} \subseteq Lifecycles \ {"deleted"}
  BY DEF Lifecycles
<1>2. p = <<>> \/ \E st \in {"running", "failed", "pending"} : p = <<IfActive(st)>>
  BY StartedType
<1>3. <<>> \in Seq(OpsFor(pod, PlainOps))
  BY OpsForPlans
<1>4. ASSUME NEW st \in {"running", "failed", "pending"}
      PROVE  <<IfActive(st)>> \in Seq(OpsFor(pod, PlainOps))
  BY <1>1, OpsForPlans
<1> QED
  BY <1>2, <1>3, <1>4

\* What a run decides for a persistent sandbox: MarkDeleted only when it found
\* nothing of it, DeletePodByName only when it has seen the Pod.
LEMMA PersistentPlans ==
    ASSUME NEW rec, NEW dep, NEW pvc, NEW pod,
           NEW p \in ReconcilePersistent(rec, dep, pvc, pod)
    PROVE  /\ p \in Seq(OpsFor(pod, GoodOps))
           /\ \/ p \in Seq(OpsFor(pod, PlainOps))
              \/ dep = "absent" /\ pvc = "absent" /\ pod = "absent"
<1>1. CASE p \in Missing(rec) /\ dep = "absent" /\ pvc = "absent" /\ pod = "absent"
  BY <1>1, MissingPlans
<1>2. CASE p \in ReconcileStopped(rec, pod)
  BY <1>2, StoppedPlans, OpsForPlans
<1>3. ASSUME NEW state, p \in ReconcileStarted(rec, state)
      PROVE  p \in Seq(OpsFor(pod, PlainOps)) /\ p \in Seq(OpsFor(pod, GoodOps))
  BY <1>3, StartedPlans, OpsForPlans
<1>4. CASE p = <<>>
  BY <1>4, OpsForPlans
<1> QED
  BY <1>1, <1>2, <1>3, <1>4 DEF ReconcilePersistent

\* The same for an ephemeral one, of which the Pod is everything.
LEMMA EphemeralPlans ==
    ASSUME NEW rec, NEW pod \in PodStates, NEW p \in ReconcileEphemeral(rec, pod)
    PROVE  /\ p \in Seq(OpsFor(pod, GoodOps))
           /\ p \in Seq(OpsFor(pod, PlainOps)) \/ pod = "absent"
<1>1. CASE p \in Missing(rec) /\ pod = "absent"
  BY <1>1, MissingPlans
<1>2. CASE pod # "absent" /\ p \in Observe(rec, ConvertPodStatus(pod))
  <2>1. ConvertPodStatus(pod) \in Lifecycles \ {"deleted"}
    BY <1>2 DEF ConvertPodStatus, PodStates, Lifecycles
  <2> QED
    BY <1>2, <2>1, ObserveType, OpsForPlans
<1>3. CASE p = <<>>
  BY <1>3, OpsForPlans
<1> QED
  BY <1>1, <1>2, <1>3 DEF ReconcileEphemeral

\* A request that is being served is one of the instance's, and Delete calls
\* nothing in the cluster.
CallOK(c) ==
    /\ call[c].step # "idle" => call[c].op \in APIs
    /\ call[c].step = "act" => call[c].op # "delete"

OpsOK == rc.step = "ops" => rc.ops # <<>> /\ rc.ops \in Seq(GoodOps)

\* What makes the types inductive.
TInv == TypeOK /\ OpsOK /\ \A c \in Callers : CallOK(c)

\* The initial states.
LEMMA InitTypes == Init => TInv
<1> SUFFICES ASSUME Init PROVE TInv
  OBVIOUS
<1>1. CreatingRow \in SandboxRow
  <2>1. /\ "active" \in DesiredStates /\ "creating" \in Lifecycles /\ "" \in DeletionPhases
        /\ "null" \in RetryTimes /\ 0 \in ForceLevels /\ -1 \in -1..MaxAge
    BY MaxAgeAssumption DEF DesiredStates, Lifecycles, DeletionPhases, RetryTimes, ForceLevels
  <2> QED
    BY <2>1 DEF CreatingRow, SandboxRow
<1>2. UpdateStatus(CreatingRow, "pending") \in SandboxRow
  BY <1>1, StatementTypes DEF Lifecycles
<1>3. row \in SandboxRow
  BY <1>1, <1>2 DEF Init
<1>4. cl \in Objects
  BY DEF Init, Objects, PodStates
<1>5. rc \in Run /\ rc.step = "idle"
  BY NoRunType DEF Init, NoRun
<1>6. \A c \in Callers : call[c].step = "idle"
  BY DEF Init, Idle
<1>7. call \in [Callers -> [op : APIs \cup {"none"}, step : {"idle", "act", "write"}]]
  BY DEF Init, Idle
<1>8. /\ creator \in {"claim", "deployment", "pod", "unclaim", "fail", "write", "done"}
      /\ monitor \in {"idle", "watch", "running", "failed"}
      /\ calls \in 0..MaxCalls /\ faults \in 0..MaxFaults
  BY LifecycleAssumptions DEF Init
<1>9. TypeOK
  BY <1>3, <1>4, <1>5, <1>7, <1>8 DEF TypeOK, Init
<1> QED
  BY <1>5, <1>6, <1>9 DEF TInv, OpsOK, CallOK

\* Create.
LEMMA CreateTypes ==
    ASSUME TInv, Create \/ CreateCallFails \/ CreateWriteFails
    PROVE  TInv'
<1> USE DEF TInv, OpsOK, CallOK
<1>1. Created(creator, cl) \in Objects \/ creator \notin {"claim", "deployment", "pod"}
  BY DEF TypeOK, Objects, Created, PodStates
<1>2. UpdateStatus(row, "pending") \in SandboxRow /\ UpdateStatus(row, "failed") \in SandboxRow
  BY StatementTypes DEF TypeOK, Lifecycles
<1>3. [cl EXCEPT !.pvc = "absent"] \in Objects
  BY DEF TypeOK, Objects
<1>4. CASE EnsurePersistentVolumeClaim
  BY <1>1, <1>4 DEF TypeOK, EnsurePersistentVolumeClaim
<1>5. CASE CreateDeployment
  BY <1>1, <1>5 DEF TypeOK, CreateDeployment
<1>6. CASE CreatePod
  BY <1>1, <1>6 DEF TypeOK, CreatePod
<1>7. CASE CreateAnswers
  BY <1>2, <1>7 DEF TypeOK, CreateAnswers
<1>8. CASE DeleteClaim
  BY <1>3, <1>8 DEF TypeOK, DeleteClaim
<1>9. CASE CreateFails
  BY <1>2, <1>9 DEF TypeOK, CreateFails
<1>10. CASE CreateCallFails
  BY <1>1, <1>10, LifecycleAssumptions DEF TypeOK, CreateCallFails
<1>11. CASE CreateWriteFails
  BY <1>11, LifecycleAssumptions DEF TypeOK, CreateWriteFails
<1> QED
  BY <1>4, <1>5, <1>6, <1>7, <1>8, <1>9, <1>10, <1>11 DEF Create

\* The monitor.
LEMMA MonitorTypes ==
    ASSUME TInv, Monitor \/ MonitorWriteFails
    PROVE  TInv'
<1> USE DEF TInv, OpsOK, CallOK
<1>1. UpdateStatusIfActive(row, "running") \in SandboxRow /\ UpdateStatusIfActive(row, "failed") \in SandboxRow
  BY StatementTypes DEF TypeOK, Lifecycles
<1>2. CASE MonitorReads
  BY <1>2 DEF TypeOK, MonitorReads
<1>3. CASE MonitorTimesOut
  BY <1>3 DEF TypeOK, MonitorTimesOut
<1>4. CASE MonitorWrites
  BY <1>1, <1>4 DEF TypeOK, MonitorWrites
<1>5. CASE MonitorWriteFails
  BY <1>5, LifecycleAssumptions DEF TypeOK, MonitorWriteFails
<1> QED
  BY <1>2, <1>3, <1>4, <1>5 DEF Monitor

\* The requests of the API.
LEMMA RequestTypes ==
    ASSUME TInv, NEW c \in Callers,
           \/ \E op \in APIs : Receive(c, op)
           \/ Act(c) \/ Write(c) \/ CallFails(c)
    PROVE  TInv'
<1> USE DEF TInv, OpsOK
<1>1. call[c] \in [op : APIs \cup {"none"}, step : {"idle", "act", "write"}] /\ CallOK(c)
  BY DEF TypeOK
<1>2. ASSUME NEW op \in APIs, Receive(c, op) PROVE TInv'
  BY <1>2, LifecycleAssumptions DEF TypeOK, Receive, CallOK
<1>3. CASE Act(c)
  <2>1. call[c].op \in {"restart", "stop", "start"}
    BY <1>1, <1>3, LifecycleAssumptions DEF Act, CallOK, AllAPIs
  <2>2. ActOn(call[c].op, cl) \in Objects
    BY <2>1 DEF TypeOK, Objects, PodStates, ActOn
  <2>3. call' \in [Callers -> [op : APIs \cup {"none"}, step : {"idle", "act", "write"}]]
    BY <1>3 DEF TypeOK, Act, Idle
  <2>4. \A d \in Callers : CallOK(d)'
    BY <1>1, <1>3 DEF TypeOK, Act, CallOK, Idle
  <2> QED
    BY <1>3, <2>2, <2>3, <2>4 DEF TypeOK, Act
<1>4. CASE Write(c)
  <2>1. call[c].op \in AllAPIs
    BY <1>1, <1>4, LifecycleAssumptions DEF Write, CallOK
  <2>2. Written(call[c].op, row) \in SandboxRow
    BY <2>1, StatementTypes DEF TypeOK, Written, AllAPIs, Lifecycles
  <2> QED
    BY <1>4, <2>2 DEF TypeOK, Write, CallOK, Idle
<1>5. CASE CallFails(c)
  BY <1>5, LifecycleAssumptions DEF TypeOK, CallFails, CallOK, Idle
<1> QED
  BY <1>2, <1>3, <1>4, <1>5

\* The TTL cleaner and the executor.
LEMMA DeletionTypes ==
    ASSUME TInv, ListExpiredActive \/ MarkExpired \/ Executor
    PROVE  TInv'
<1> USE DEF TInv, OpsOK, CallOK
<1>1. MarkDeletionRequested(row) \in SandboxRow /\ MarkDeletionCompleted(row) \in SandboxRow
  BY StatementTypes DEF TypeOK
<1>2. CASE ListExpiredActive
  BY <1>2 DEF TypeOK, ListExpiredActive
<1>3. CASE MarkExpired
  BY <1>1, <1>3 DEF TypeOK, MarkExpired
<1>4. CASE ExecutorTakes
  BY <1>4 DEF TypeOK, ExecutorTakes
<1>5. CASE RemoveRuntime
  <2>1. cl' \in Objects
    BY <1>5 DEF TypeOK, Objects, PodStates, RemoveRuntime
  <2> QED
    BY <1>5, <2>1 DEF TypeOK, RemoveRuntime, server
<1>6. CASE RemoveStorage
  <2>1. cl' \in Objects
    BY <1>6 DEF TypeOK, Objects, RemoveStorage
  <2> QED
    BY <1>6, <2>1 DEF TypeOK, RemoveStorage, server
<1>7. CASE Verify
  BY <1>7 DEF TypeOK, Verify
<1>8. CASE Complete
  BY <1>1, <1>8 DEF TypeOK, Complete
<1> QED
  BY <1>2, <1>3, <1>4, <1>5, <1>6, <1>7, <1>8 DEF Executor

\* A reconcile run decides.
LEMMA ReconcileDecides ==
    ASSUME TInv, Reconcile
    PROVE  \E plan : /\ rc' = IF plan = <<>> THEN NoRun
                              ELSE [NoRun EXCEPT !.step = "ops", !.ops = plan,
                                     !.seen = \E i \in DOMAIN plan : plan[i].do = "DeletePodByName"]
                     /\ plan \in Seq(OpsFor(cl.pod, GoodOps))
                     /\ \/ plan \in Seq(OpsFor(cl.pod, PlainOps))
                        \/ ~kind.persistent /\ cl.pod = "absent"
                        \/ /\ kind.persistent /\ rc.dep = "absent" /\ rc.pvc = "absent"
                           /\ cl.pod = "absent"
<1>1. cl.pod \in PodStates
  BY DEF TInv, TypeOK, Objects
<1>2. PICK plan \in IF kind.persistent
                    THEN ReconcilePersistent(rc.rec, rc.dep, rc.pvc, cl.pod)
                    ELSE ReconcileEphemeral(rc.rec, cl.pod) :
         rc' = IF plan = <<>> THEN NoRun
               ELSE [NoRun EXCEPT !.step = "ops", !.ops = plan,
                       !.seen = \E i \in DOMAIN plan : plan[i].do = "DeletePodByName"]
  BY DEF Reconcile
<1>3. /\ plan \in Seq(OpsFor(cl.pod, GoodOps))
      /\ \/ plan \in Seq(OpsFor(cl.pod, PlainOps))
         \/ ~kind.persistent /\ cl.pod = "absent"
         \/ kind.persistent /\ rc.dep = "absent" /\ rc.pvc = "absent" /\ cl.pod = "absent"
  BY <1>1, PersistentPlans, EphemeralPlans
<1> QED
  BY <1>2, <1>3

\* An operation that is executed leaves a row, and the rest of the plan is one.
LEMMA ExecuteTypes ==
    ASSUME TInv, rc.step = "ops"
    PROVE  /\ Head(rc.ops) \in GoodOps
           /\ Execute(Head(rc.ops), row) \in SandboxRow
           /\ Tail(rc.ops) \in Seq(GoodOps)
<1>1. Head(rc.ops) \in GoodOps /\ Tail(rc.ops) \in Seq(GoodOps)
  BY DEF TInv, OpsOK
<1>2. Execute(Head(rc.ops), row) \in SandboxRow
  BY <1>1, StatementTypes DEF TInv, TypeOK, Execute, GoodOps
<1> QED
  BY <1>1, <1>2

\* The reconciler.
LEMMA ReconcileTypes ==
    ASSUME TInv, ReconcileRun \/ ReconcileFails
    PROVE  TInv'
<1> USE DEF TInv, CallOK
<1>1. CASE ListForReconcile
  <2>1. rc' \in Run /\ rc'.step # "ops"
    BY <1>1 DEF TypeOK, Run, SandboxRow, ListForReconcile
  <2> QED
    BY <1>1, <2>1 DEF TypeOK, OpsOK, ListForReconcile
<1>2. CASE SnapshotDeployment
  <2>1. rc' \in Run /\ rc'.step # "ops"
    BY <1>2 DEF TypeOK, Run, Objects, SnapshotDeployment
  <2> QED
    BY <1>2, <2>1 DEF TypeOK, OpsOK, SnapshotDeployment
<1>3. CASE SnapshotClaim
  <2>1. rc' \in Run /\ rc'.step # "ops"
    BY <1>3 DEF TypeOK, Run, Objects, SnapshotClaim
  <2> QED
    BY <1>3, <2>1 DEF TypeOK, OpsOK, SnapshotClaim
<1>4. CASE Reconcile
  <2>1. PICK plan : /\ rc' = IF plan = <<>> THEN NoRun
                             ELSE [NoRun EXCEPT !.step = "ops", !.ops = plan,
                                    !.seen = \E i \in DOMAIN plan : plan[i].do = "DeletePodByName"]
                    /\ plan \in Seq(OpsFor(cl.pod, GoodOps))
    BY <1>4, ReconcileDecides
  <2>2. plan \in Seq(GoodOps) /\ plan \in Seq(Op)
    BY <2>1 DEF OpsFor, GoodOps
  <2>3. rc' \in Run /\ (rc'.step = "ops" => rc'.ops = plan /\ plan # <<>>)
    BY <2>1, <2>2, NoRunType DEF Run, NoRun
  <2> QED
    BY <1>4, <2>2, <2>3 DEF TypeOK, OpsOK, Reconcile
<1>5. CASE ReconcileWrites
  <2>1. /\ Execute(Head(rc.ops), row) \in SandboxRow
        /\ Tail(rc.ops) \in Seq(GoodOps) /\ Tail(rc.ops) \in Seq(Op)
    BY <1>5, ExecuteTypes DEF ReconcileWrites, GoodOps
  <2>2. cl' \in Objects
    BY <1>5 DEF TypeOK, Objects, PodStates, ReconcileWrites
  <2>3. rc' \in Run /\ (rc'.step = "ops" => rc'.ops = Tail(rc.ops) /\ Tail(rc.ops) # <<>>)
    BY <1>5, <2>1, NoRunType DEF TypeOK, Run, NoRun, ReconcileWrites
  <2> QED
    BY <1>5, <2>1, <2>2, <2>3 DEF TypeOK, OpsOK, ReconcileWrites
<1>6. CASE ReconcileFails
  BY <1>6, NoRunType, LifecycleAssumptions DEF TypeOK, OpsOK, NoRun, ReconcileFails
<1> QED
  BY <1>1, <1>2, <1>3, <1>4, <1>5, <1>6 DEF ReconcileRun

\* A Pod that changes its state.
LEMMA PodTypes ==
    ASSUME TInv, NEW state \in PodStates, PodTo(state), faults' \in 0..MaxFaults
    PROVE  TInv'
<1>1. cl' \in Objects
  BY DEF TInv, TypeOK, Objects, PodTo
<1>2. rc' \in Run /\ rc'.step = rc.step /\ rc'.ops = rc.ops
  BY DEF TInv, TypeOK, Run, PodTo
<1> QED
  BY <1>1, <1>2 DEF TInv, TypeOK, OpsOK, CallOK, PodTo

\* The steps of the cluster are changes of the Pod's state; only the Deployment
\* brings a Pod back.
LEMMA PodSteps ==
    ASSUME TInv, Controllers \/ PodExits \/ PodEvicted
    PROVE  \E state \in PodStates :
              /\ PodTo(state) /\ faults' \in 0..MaxFaults
              /\ cl.pod = "absent" => cl.dep = "up"
<1>1. CASE PodCreated
  BY <1>1 DEF PodCreated, PodStates, TInv, TypeOK
<1>2. CASE PodProgresses
  BY <1>2 DEF PodProgresses, PodStates, TInv, TypeOK
<1>3. CASE PodRecovers
  BY <1>3 DEF PodRecovers, PodStates, TInv, TypeOK
<1>4. CASE PodStops
  BY <1>4 DEF PodStops, PodStates, TInv, TypeOK
<1>5. CASE PodGone
  BY <1>5 DEF PodGone, PodStates, TInv, TypeOK
<1>6. CASE PodExits
  BY <1>6, LifecycleAssumptions DEF PodExits, PodStates, TInv, TypeOK
<1>7. CASE PodEvicted
  BY <1>7, LifecycleAssumptions DEF PodEvicted, PodStates, TInv, TypeOK
<1> QED
  BY <1>1, <1>2, <1>3, <1>4, <1>5, <1>6, <1>7 DEF Controllers

\* A restart of the server.
LEMMA RestartTypes ==
    ASSUME TInv, ServerRestart
    PROVE  TInv'
<1>1. NoRun.step = "idle"
  BY DEF NoRun
<1>2. call' \in [Callers -> [op : APIs \cup {"none"}, step : {"idle", "act", "write"}]]
  BY DEF ServerRestart, Idle
<1>3. \A c \in Callers : CallOK(c)'
  BY DEF ServerRestart, CallOK, Idle
<1>4. faults' \in 0..MaxFaults
  BY LifecycleAssumptions DEF TInv, TypeOK, ServerRestart
<1>5. TypeOK'
  BY <1>2, <1>4, NoRunType DEF TInv, TypeOK, ServerRestart
<1> QED
  BY <1>1, <1>3, <1>5 DEF TInv, OpsOK, ServerRestart

\* Every step keeps the types.
LEMMA NextTypes == TInv /\ [Next]_vars => TInv'
<1> SUFFICES ASSUME TInv, [Next]_vars PROVE TInv'
  OBVIOUS
<1>1. CASE Controllers \/ PodExits \/ PodEvicted
  BY <1>1, PodSteps, PodTypes
<1>2. CASE UNCHANGED vars
  BY <1>2 DEF TInv, TypeOK, OpsOK, CallOK, vars, server
<1> QED
  BY <1>1, <1>2, CreateTypes, MonitorTypes, RequestTypes, DeletionTypes, ReconcileTypes,
     RestartTypes DEF Next

\* Every variable keeps its type, for all requests, from the insertion of the
\* row on; in particular nobody plans or writes a status that is none.
THEOREM TypeCorrect == Spec => []TypeOK
<1>1. TInv => TypeOK
  BY DEF TInv
<1> QED
  BY <1>1, InitTypes, NextTypes, PTL DEF Spec

-----------------------------------------------------------------------------
(* The end of a sandbox, once Create has answered and while it is only      *)
(* deleted.  A Create that is still at work strands a sandbox and Restart   *)
(* revives one (the runs lifecycle_orphan and lifecycle_revived), as does   *)
(* Stop, and Start follows a Stop: what follows does not hold with them.    *)
(*                                                                          *)
(* The argument is the one of the executor: without a Deployment no Pod     *)
(* comes back, and a claim never does.  What the executor verified, and     *)
(* what a reconcile run did not find, reading the Deployment first, then    *)
(* the claim and the Pod last, stays absent while they act on it.           *)

\* What the reconcile run did not find is not there.
SnapshotOK ==
    /\ rc.step \in {"claim", "pod"} /\ kind.persistent /\ rc.dep = "absent" => cl.dep = "absent"
    /\ rc.step = "pod" /\ kind.persistent /\ rc.pvc = "absent" => cl.pvc = "absent"

\* What it has still to do is harmless, or the sandbox is gone.
RunOK == /\ rc.step = "ops" => rc.ops \in Seq(PlainOps) \/ Gone(cl)
         /\ rc.seen => cl.pod # "absent"

ClusterOK == /\ creator = "done"
             /\ ~kind.persistent => cl.dep = "absent"
             /\ executor = "verified" => Gone(cl)
             /\ row.lifecycle = "deleted" => Gone(cl)

LInv == TInv /\ SnapshotOK /\ RunOK /\ ClusterOK

\* The objects of the sandbox do not come back.
Shrinks ==
    /\ kind' = kind
    /\ cl.dep = "absent" => cl'.dep = "absent"
    /\ cl.dep = "absent" /\ cl.pod = "absent" => cl'.pod = "absent"
    /\ cl.pvc = "absent" => cl'.pvc = "absent"

\* What is gone stays gone.
LEMMA GoneStays ==
    ASSUME Shrinks
    PROVE  Gone(cl) => Gone(cl')
  BY DEF Shrinks, Gone

\* A step that leaves the run and the executor alone, lets nothing come back
\* and does not write `deleted`, except of a sandbox that is gone.
LEMMA QuietStep ==
    ASSUME LInv, TInv', Shrinks, creator' = creator, rc' = rc, UNCHANGED executor,
           rc.seen => cl'.pod # "absent",
           row'.lifecycle = "deleted" => row.lifecycle = "deleted" \/ Gone(cl)
    PROVE  LInv'
<1>1. Gone(cl) => Gone(cl')
  BY GoneStays
<1>2. Gone(cl)' <=> Gone(cl')
  BY DEF Shrinks, Gone
<1> QED
  BY <1>1, <1>2 DEF LInv, SnapshotOK, RunOK, ClusterOK, Shrinks

\* Statements that only touch an active row, or ask for a deletion, write
\* `deleted` to no row.
LEMMA StatementsKeep ==
    ASSUME NEW rw \in SandboxRow
    PROVE  /\ \A st \in Lifecycles \ {"deleted"} :
                 UpdateStatusIfActive(rw, st).lifecycle = "deleted" <=> rw.lifecycle = "deleted"
           /\ MarkDeletionRequested(rw).lifecycle = "deleted" <=> rw.lifecycle = "deleted"
           /\ EnsureStoppedAt(rw).lifecycle = rw.lifecycle
           /\ MarkDeletionCompleted(rw).lifecycle = "deleted"
  BY DEF SandboxRow, UpdateStatusIfActive, MarkDeletionRequested, EnsureStoppedAt,
         MarkDeletionCompleted

\* The initial states, with the answer of Create on its way.
LEMMA InitSafe ==
    ASSUME Stages = {"created"}, Init
    PROVE  LInv
<1>1. /\ rc.step = "idle" /\ ~rc.seen /\ executor = "idle" /\ creator = "done"
      /\ ~kind.persistent => cl.dep = "absent"
  BY DEF Init, NoRun
<1>2. row.lifecycle # "deleted"
  BY DEF Init, UpdateStatus, CreatingRow
<1> QED
  BY <1>1, <1>2, InitTypes DEF LInv, SnapshotOK, RunOK, ClusterOK

\* The monitor, the requests and the TTL cleaner.
LEMMA WritersSafe ==
    ASSUME LInv, TInv', APIs = {"delete"},
           \/ Monitor \/ MonitorWriteFails
           \/ \E c \in Callers : \/ \E op \in APIs : Receive(c, op)
                                 \/ Act(c) \/ Write(c) \/ CallFails(c)
           \/ ListExpiredActive \/ MarkExpired
    PROVE  LInv' /\ (row.lifecycle = "deleted" => row'.lifecycle = "deleted")
<1>1. TInv /\ row \in SandboxRow
  BY DEF LInv, TInv, TypeOK
<1>2. {"running", "failed"} \subseteq Lifecycles \ {"deleted"}
  BY DEF Lifecycles
<1>3. \A c \in Callers : ~Act(c)
  BY <1>1 DEF TInv, CallOK, Act
<1>4. /\ UNCHANGED <<kind, cl, creator, rc, executor>>
      /\ row'.lifecycle = "deleted" <=> row.lifecycle = "deleted"
  <2>1. CASE MonitorReads \/ MonitorTimesOut \/ MonitorWriteFails
    BY <2>1 DEF MonitorReads, MonitorTimesOut, MonitorWriteFails
  <2>2. CASE MonitorWrites
    BY <1>1, <1>2, <2>2, StatementsKeep DEF MonitorWrites
  <2>3. ASSUME NEW c \in Callers, NEW op \in APIs, Receive(c, op)
        PROVE  UNCHANGED <<kind, row, cl, creator, rc, executor>>
    BY <2>3 DEF Receive
  <2>4. ASSUME NEW c \in Callers, Write(c)
        PROVE  /\ UNCHANGED <<kind, cl, creator, rc, executor>>
               /\ row'.lifecycle = "deleted" <=> row.lifecycle = "deleted"
    <3>1. call[c].op = "delete"
      BY <1>1, <2>4 DEF TInv, CallOK, Write
    <3> QED
      BY <1>1, <2>4, <3>1, StatementsKeep DEF Write, Written
  <2>5. ASSUME NEW c \in Callers, CallFails(c)
        PROVE  UNCHANGED <<kind, row, cl, creator, rc, executor>>
    BY <2>5 DEF CallFails
  <2>6. CASE ListExpiredActive
    BY <2>6 DEF ListExpiredActive
  <2>7. CASE MarkExpired
    BY <1>1, <2>7, StatementsKeep DEF MarkExpired
  <2> QED
    BY <1>3, <2>1, <2>2, <2>3, <2>4, <2>5, <2>6, <2>7 DEF Monitor
<1>5. Shrinks
  BY <1>4 DEF Shrinks
<1> QED
  BY <1>4, <1>5, QuietStep DEF LInv, RunOK

\* The cluster.
LEMMA ClusterSafe ==
    ASSUME LInv, TInv', Controllers \/ PodExits \/ PodEvicted
    PROVE  LInv' /\ UNCHANGED row
<1>1. TInv /\ rc \in Run /\ cl \in Objects
  BY DEF LInv, TInv, TypeOK
<1>2. PICK state \in PodStates : PodTo(state) /\ (cl.pod = "absent" => cl.dep = "up")
  BY <1>1, PodSteps
<1>3. Shrinks /\ cl'.pod = state
  BY <1>1, <1>2 DEF PodTo, Shrinks, Objects
<1>4. /\ UNCHANGED <<kind, row, creator, executor>>
      /\ rc'.step = rc.step /\ rc'.dep = rc.dep /\ rc'.pvc = rc.pvc /\ rc'.ops = rc.ops
      /\ rc'.seen => state # "absent"
  BY <1>1, <1>2 DEF PodTo, Run, LInv, RunOK
<1>5. Gone(cl)' <=> Gone(cl')
  BY <1>4 DEF Gone
<1> QED
  BY <1>3, <1>4, <1>5, GoneStays DEF LInv, SnapshotOK, RunOK, ClusterOK, Shrinks

\* The executor.
LEMMA ExecutorSafe ==
    ASSUME LInv, TInv', Executor
    PROVE  LInv' /\ (row.lifecycle = "deleted" => row'.lifecycle = "deleted")
<1>1. TInv /\ cl \in Objects /\ row \in SandboxRow
  BY DEF LInv, TInv, TypeOK
<1>2. CASE ExecutorTakes
  BY <1>2 DEF ExecutorTakes, LInv, SnapshotOK, RunOK, ClusterOK, Gone
<1>3. CASE RemoveRuntime \/ RemoveStorage
  <2>1. Shrinks /\ (cl.pod # "absent" => cl'.pod # "absent")
    BY <1>1, <1>3 DEF RemoveRuntime, RemoveStorage, Shrinks, Objects
  <2> QED
    BY <1>3, <2>1, QuietStep DEF RemoveRuntime, RemoveStorage, server, LInv, RunOK
<1>4. CASE Verify
  BY <1>4 DEF Verify, LInv, SnapshotOK, RunOK, ClusterOK, Gone
<1>5. CASE Complete
  BY <1>1, <1>5, StatementsKeep DEF Complete, LInv, SnapshotOK, RunOK, ClusterOK, Gone
<1> QED
  BY <1>2, <1>3, <1>4, <1>5 DEF Executor

\* The reconciler: where it marks a row deleted, nothing is left.
LEMMA ReconcileSafe ==
    ASSUME LInv, TInv', ReconcileRun \/ ReconcileFails
    PROVE  LInv' /\ (row.lifecycle = "deleted" => row'.lifecycle = "deleted")
<1>1. TInv /\ rc \in Run /\ cl \in Objects /\ row \in SandboxRow
  BY DEF LInv, TInv, TypeOK
<1>2. NoRun.step = "idle" /\ ~NoRun.seen
  BY DEF NoRun
<1>3. CASE ListForReconcile
  <2>1. rc'.step \in {"deployment", "pod"} /\ rc'.seen = rc.seen /\ (kind.persistent => rc'.step = "deployment")
    BY <1>1, <1>3 DEF ListForReconcile, Run
  <2> QED
    BY <1>3, <2>1 DEF ListForReconcile, LInv, SnapshotOK, RunOK, ClusterOK, Gone
<1>4. CASE SnapshotDeployment
  <2>1. rc'.step = "claim" /\ rc'.dep = cl.dep /\ rc'.seen = rc.seen
    BY <1>1, <1>4 DEF SnapshotDeployment, Run
  <2> QED
    BY <1>4, <2>1 DEF SnapshotDeployment, LInv, SnapshotOK, RunOK, ClusterOK, Gone
<1>5. CASE SnapshotClaim
  <2>1. rc'.step = "pod" /\ rc'.dep = rc.dep /\ rc'.pvc = cl.pvc /\ rc'.seen = rc.seen
    BY <1>1, <1>5 DEF SnapshotClaim, Run
  <2> QED
    BY <1>5, <2>1 DEF SnapshotClaim, LInv, SnapshotOK, RunOK, ClusterOK, Gone
<1>6. CASE Reconcile
  <2>1. PICK plan : /\ rc' = IF plan = <<>> THEN NoRun
                             ELSE [NoRun EXCEPT !.step = "ops", !.ops = plan,
                                    !.seen = \E i \in DOMAIN plan : plan[i].do = "DeletePodByName"]
                    /\ plan \in Seq(OpsFor(cl.pod, GoodOps))
                    /\ \/ plan \in Seq(OpsFor(cl.pod, PlainOps))
                       \/ ~kind.persistent /\ cl.pod = "absent"
                       \/ /\ kind.persistent /\ rc.dep = "absent" /\ rc.pvc = "absent"
                          /\ cl.pod = "absent"
    BY <1>1, <1>6, ReconcileDecides
  <2>2. plan \in Seq(PlainOps) \/ Gone(cl)
    <3>1. CASE plan \in Seq(OpsFor(cl.pod, PlainOps))
      BY <3>1 DEF OpsFor
    <3> QED
      BY <1>6, <2>1, <3>1 DEF Reconcile, LInv, SnapshotOK, ClusterOK, Gone
  <2>3. (\E i \in DOMAIN plan : plan[i].do = "DeletePodByName") => cl.pod # "absent"
    BY <2>1 DEF OpsFor
  <2>4. /\ rc'.step = "idle" \/ (rc'.step = "ops" /\ rc'.ops = plan)
        /\ rc'.seen => \E i \in DOMAIN plan : plan[i].do = "DeletePodByName"
    BY <2>1 DEF NoRun
  <2> QED
    BY <1>6, <2>2, <2>3, <2>4 DEF Reconcile, LInv, SnapshotOK, RunOK, ClusterOK, Gone
<1>7. CASE ReconcileWrites
  <2> DEFINE op == Head(rc.ops)
  <2>1. op \in GoodOps /\ rc.ops # <<>>
    BY <1>1, <1>7, ExecuteTypes DEF ReconcileWrites, TInv, OpsOK
  <2>2. op \in PlainOps \/ Gone(cl)
    BY <1>7, <2>1 DEF ReconcileWrites, LInv, RunOK
  <2> HIDE DEF op
  <2>3. /\ row.lifecycle = "deleted" => row'.lifecycle = "deleted"
        /\ row'.lifecycle = "deleted" => row.lifecycle = "deleted" \/ Gone(cl)
    <3>1. row' = Execute(op, row)
      BY <1>7 DEF ReconcileWrites, op
    <3>2. op.do \in {"MarkDeleted", "IfActive", "EnsureStoppedAt", "DeletePodByName"}
      BY <2>1 DEF GoodOps, Op
    <3>3. CASE op.do = "MarkDeleted"
      BY <1>1, <2>2, <3>1, <3>3, StatementsKeep DEF Execute, PlainOps
    <3>4. CASE op.do = "IfActive"
      BY <1>1, <2>1, <3>1, <3>4, StatementsKeep DEF Execute, GoodOps
    <3>5. CASE op.do \in {"EnsureStoppedAt", "DeletePodByName"}
      BY <1>1, <3>1, <3>5, StatementsKeep DEF Execute
    <3> QED
      BY <3>2, <3>3, <3>4, <3>5
  <2>4. Shrinks /\ (cl.pod # "absent" => cl'.pod # "absent")
    BY <1>1, <1>7 DEF ReconcileWrites, Shrinks, Objects, LInv, RunOK
  <2>5. /\ rc'.step = "idle" \/ (rc'.step = "ops" /\ rc'.ops = Tail(rc.ops))
        /\ rc'.seen => rc.seen
    BY <1>1, <1>2, <1>7 DEF ReconcileWrites, Run
  <2>6. rc.ops \in Seq(PlainOps) => Tail(rc.ops) \in Seq(PlainOps)
    BY <2>1
  <2>7. Gone(cl)' <=> Gone(cl')
    BY <1>7 DEF ReconcileWrites, Gone
  <2>8. UNCHANGED <<kind, creator, executor>> /\ rc.step = "ops"
    BY <1>7 DEF ReconcileWrites
  <2> QED
    BY <2>3, <2>4, <2>5, <2>6, <2>7, <2>8, GoneStays
       DEF LInv, SnapshotOK, RunOK, ClusterOK, Shrinks
<1>8. CASE ReconcileFails
  BY <1>2, <1>8 DEF ReconcileFails, LInv, SnapshotOK, RunOK, ClusterOK, Gone
<1> QED
  BY <1>3, <1>4, <1>5, <1>6, <1>7, <1>8 DEF ReconcileRun

\* Every step keeps the invariant, and a row that says `deleted` keeps saying it.
LEMMA NextSafe ==
    ASSUME APIs = {"delete"}, LInv, [Next]_vars
    PROVE  LInv' /\ (row.lifecycle = "deleted" => row'.lifecycle = "deleted")
<1>1. TInv'
  BY NextTypes DEF LInv
<1>2. CASE UNCHANGED vars
  BY <1>1, <1>2 DEF vars, server, LInv, SnapshotOK, RunOK, ClusterOK, Gone
<1>3. CASE ServerRestart
  BY <1>1, <1>3 DEF ServerRestart, NoRun, LInv, SnapshotOK, RunOK, ClusterOK, Gone
<1>4. ~(Create \/ CreateCallFails \/ CreateWriteFails)
  BY DEF LInv, ClusterOK, Create, EnsurePersistentVolumeClaim, CreateDeployment, CreatePod,
         CreateAnswers, DeleteClaim, CreateFails, CreateCallFails, CreateWriteFails
<1> QED
  BY <1>1, <1>2, <1>3, <1>4, WritersSafe, ClusterSafe, ExecutorSafe, ReconcileSafe DEF Next

\* Neither the executor nor the reconciler reports a sandbox deleted of which
\* something is left, once Create has answered: for any number of Delete
\* requests, TTL expiries, evictions, faults and restarts.
THEOREM DeletedMeansGone ==
    ASSUME Stages = {"created"}, APIs = {"delete"}
    PROVE  Spec => []NothingLeftBehind
<1>1. Init => LInv
  BY InitSafe
<1>2. LInv /\ [Next]_vars => LInv'
  BY NextSafe
<1>3. LInv => NothingLeftBehind
  BY DEF LInv, ClusterOK, NothingLeftBehind
<1> QED
  BY <1>1, <1>2, <1>3, PTL DEF Spec

\* A stale copy of the row, in the monitor, the reconciler or the TTL cleaner,
\* never takes `deleted` back.
THEOREM DeletedStaysDeleted ==
    ASSUME Stages = {"created"}, APIs = {"delete"}
    PROVE  Spec => DeletedIsFinal
<1>1. Init => LInv
  BY InitSafe
<1>2. LInv /\ [Next]_vars => LInv'
  BY NextSafe
<1>3. LInv /\ [Next]_vars => [row.lifecycle = "deleted" => row'.lifecycle = "deleted"]_vars
  BY NextSafe
<1> QED
  BY <1>1, <1>2, <1>3, PTL DEF Spec, DeletedIsFinal

=============================================================================
