--------------------- MODULE SandboxDeletionRefinement ----------------------
(***************************************************************************)
(* SandboxDeletion implements DeletionContract, for any number of          *)
(* sandboxes, of concurrent passes, of faults and for any timeouts.        *)
(*                                                                         *)
(* On top of the invariant of SandboxDeletionProofs the proof needs that   *)
(* the executor only works on what it was asked to delete (AInv).  Then a  *)
(* step changes what the contract sees of at most one sandbox, in one of   *)
(* the contract's four ways.                                               *)
(***************************************************************************)
EXTENDS SandboxDeletionProofs

\* Something of the sandbox runs or can still be started.
Runs(c) == c.dep # "absent" \/ c.pod # "absent"

\* The objects of a sandbox nobody asked to delete.
Untouched(k, c) == IF k.persistent THEN c.dep = "live" ELSE c.pod = "live"

\* A sandbox nobody asked to delete is on no pass's list; a deleted one was
\* requested; an ephemeral one has no claim.
AskedOK(s) ==
    /\ row[s].desired = "active" => /\ Untouched(kind[s], cl[s])
                                    /\ \A r \in Runners : s \notin todo[r]
    /\ row[s].lifecycle = "deleted" => row[s].desired = "deleted"
    /\ ~kind[s].persistent => cl[s].pvc = "absent"

\* A pass processes a sandbox of its list.
ListedOK(r) == Busy(r) => cur[r] \in todo[r]

AInv == /\ \A s \in Sandboxes : AskedOK(s)
        /\ \A r \in Runners : ListedOK(r)

-----------------------------------------------------------------------------
(* The steps of the contract, told from what they change of one sandbox *)

\* What the contract sees of the sandboxes in T stays as it is.
Same(T) == \A t \in T : /\ Status(row'[t]) = Status(row[t])
                        /\ Runs(cl'[t]) <=> Runs(cl[t])
                        /\ cl'[t].pvc = cl[t].pvc

\* Steps the contract does not see.
LEMMA Stutter ==
    ASSUME kind' = kind, Same(Sandboxes)
    PROVE  UNCHANGED Contract!vars
<1>1. \A t \in Sandboxes : /\ Status(row'[t]) = Status(row[t])
                           /\ Runs(cl'[t]) = Runs(cl[t])
                           /\ cl'[t].pvc = cl[t].pvc
  BY DEF Same, Runs
<1> QED
  BY <1>1 DEF Contract!vars, Runs

\* Delete and the TTL cleaner.
LEMMA StepRequest ==
    ASSUME kind' = kind, NEW s \in Sandboxes, Same(Sandboxes \ {s}),
           Status(row[s]) = "active", Status(row'[s]) = "requested", cl' = cl
    PROVE  Contract!Request(s)
  BY DEF Same, Contract!Request

\* The last of Deployment and Pod goes.
LEMMA StepRuntimeEnds ==
    ASSUME kind' = kind, NEW s \in Sandboxes, Same(Sandboxes \ {s}),
           Status(row[s]) = "requested", Status(row'[s]) = "requested",
           Runs(cl[s]), ~Runs(cl'[s]), cl'[s].pvc = cl[s].pvc
    PROVE  Contract!RuntimeEnds(s)
<1>1. \A t \in Sandboxes : /\ Status(row'[t]) = Status(row[t])
                           /\ cl'[t].pvc = cl[t].pvc
  BY DEF Same
<1>2. \A t \in Sandboxes : Runs(cl'[t]) = (IF t = s THEN FALSE ELSE Runs(cl[t]))
  BY DEF Same, Runs
<1> QED
  BY <1>1, <1>2 DEF Contract!RuntimeEnds, Runs

\* The claim is asked to go, or goes.
LEMMA StepClaimGoes ==
    ASSUME kind' = kind, NEW s \in Sandboxes, Same(Sandboxes \ {s}),
           Status(row[s]) = "requested", Status(row'[s]) = "requested",
           ~Runs(cl[s]), ~Runs(cl'[s]), ~kind[s].retain,
           \/ cl[s].pvc = "live" /\ cl'[s].pvc = "deleting"
           \/ cl[s].pvc = "deleting" /\ cl'[s].pvc = "absent"
    PROVE  Contract!ClaimGoes(s)
<1>1. \A t \in Sandboxes : /\ Status(row'[t]) = Status(row[t])
                           /\ Runs(cl'[t]) = Runs(cl[t])
                           /\ t # s => cl'[t].pvc = cl[t].pvc
  BY DEF Same, Runs
<1> QED
  BY <1>1 DEF Contract!ClaimGoes, Runs

\* The row is finished.
LEMMA StepFinish ==
    ASSUME kind' = kind, NEW s \in Sandboxes, Same(Sandboxes \ {s}),
           Status(row[s]) = "requested", Status(row'[s]) = "deleted",
           AllGone(kind[s], cl[s]), cl' = cl
    PROVE  Contract!Finish(s)
  BY DEF Same, Contract!Finish, AllGone, Quiet

-----------------------------------------------------------------------------
(* Steps that change objects *)

\* A step changes either what runs or the claim, and the claim one stage at a
\* time.
OneAtATime(c, d) ==
    /\ d.pvc = c.pvc \/ (d.dep = c.dep /\ d.pod = c.pod)
    /\ \/ d.pvc = c.pvc
       \/ c.pvc = "live" /\ d.pvc = "deleting"
       \/ c.pvc = "deleting" /\ d.pvc = "absent"

\* So does every call of the client.
LEMMA CallOneAtATime ==
    ASSUME NEW c \in Cluster, NEW call \in Calls
    PROVE  OneAtATime(c, Apply(call, c))
<1> USE DEF Cluster, ObjectStates, OneAtATime, Doom, Release
<1>1. CASE call = "DeleteDeployment"
  BY <1>1 DEF Apply, DeleteDeployment
<1>2. CASE call = "DeletePVC"
  BY <1>2 DEF Apply, DeletePVC
<1>3. CASE call = "DeletePod"
  BY <1>3 DEF Apply, DeletePod
<1>4. CASE call = "ForceDeletePodByName"
  BY <1>4 DEF Apply, ForceDeletePodByName
<1>5. CASE call = "PatchDeploymentFinalizers"
  BY <1>5 DEF Apply, PatchDeploymentFinalizers
<1>6. CASE call = "PatchPVCFinalizers"
  BY <1>6 DEF Apply, PatchPVCFinalizers
<1>7. CASE call = "DeleteVolumeAttachments"
  BY <1>7 DEF Apply, DeleteVolumeAttachments
<1>8. CASE call = "PatchPVFinalizers"
  BY <1>8 DEF Apply, PatchPVFinalizers
<1>9. CASE call = "DeletePersistentVolume"
  BY <1>9 DEF Apply, DeletePersistentVolume
<1> QED
  BY <1>1, <1>2, <1>3, <1>4, <1>5, <1>6, <1>7, <1>8, <1>9 DEF Calls

\* And every step of the controllers, which leave what nobody touched alone.
LEMMA ControllersOneAtATime ==
    ASSUME NEW k \in AllKinds, NEW c \in Cluster,
           NEW d \in ControllerSteps(k.persistent, c)
    PROVE  /\ OneAtATime(c, d)
           /\ Untouched(k, c) => Untouched(k, d)
  BY DEF ControllerSteps, PodRecreated, PodCollected, PodGone, DeploymentGone,
         PVCGone, VolumeDetached, VolumeReclaimed, OneAtATime, Untouched,
         Cluster, ObjectStates, AllKinds

\* What a change of one sandbox's objects is to the contract.
LEMMA ObjectsStep ==
    ASSUME IInv, AInv, NEW s \in Sandboxes, kind' = kind, row' = row,
           NEW d \in Cluster, cl' = [cl EXCEPT ![s] = d],
           Shrinks(cl[s], d), OneAtATime(cl[s], d), ClaimStepOK(s),
           row[s].desired = "active" => Untouched(kind[s], d)
    PROVE  [Contract!Next]_Contract!vars
<1>1. /\ cl'[s] = d /\ \A t \in Sandboxes \ {s} : cl'[t] = cl[t]
      /\ row[s] \in DeletionRow
  BY DEF IInv, TypeOK
<1>2. Same(Sandboxes \ {s})
  BY <1>1 DEF Same
<1>3. CASE (Runs(d) <=> Runs(cl[s])) /\ d.pvc = cl[s].pvc
  BY <1>1, <1>2, <1>3, Stutter DEF Same
<1>4. CASE ~((Runs(d) <=> Runs(cl[s])) /\ d.pvc = cl[s].pvc)
  <2>1. ClusterOK(s) /\ RowOK(s) /\ AskedOK(s)
    BY DEF IInv, AInv
  <2>2. row[s].desired # "active"
    <3>1. SUFFICES ASSUME row[s].desired = "active" PROVE FALSE
      OBVIOUS
    <3>2. Untouched(kind[s], cl[s]) /\ Untouched(kind[s], d)
      BY <2>1, <3>1 DEF AskedOK
    <3>3. Runs(d) /\ Runs(cl[s])
      BY <3>2 DEF Untouched, Runs
    <3>4. cl[s].pvc = d.pvc
      <4>1. CASE kind[s].persistent
        <5>1. cl[s].pvc = "live"
          BY <2>1, <3>2, <4>1 DEF ClusterOK, Untouched, Quiet
        <5> QED
          BY <1>1, <3>2, <3>3, <5>1 DEF ClaimStepOK, Quiet, Runs
      <4>2. CASE ~kind[s].persistent
        BY <2>1, <4>2 DEF AskedOK, Shrinks
      <4> QED
        BY <4>1, <4>2
    <3> QED
      BY <1>4, <3>3, <3>4
  <2>3. row[s].lifecycle # "deleted"
    <3>1. SUFFICES ASSUME row[s].lifecycle = "deleted" PROVE FALSE
      OBVIOUS
    <3>2. AllGone(kind[s], cl[s])
      BY <2>1, <3>1 DEF RowOK
    <3>3. ~Runs(cl[s]) /\ ~Runs(d)
      BY <3>2 DEF AllGone, Quiet, Runs, Shrinks
    <3>4. cl[s].pvc = d.pvc
      BY <1>1, <2>1, <3>2 DEF AllGone, AskedOK, ClusterOK, ClaimStepOK, Shrinks
    <3> QED
      BY <1>4, <3>3, <3>4
  <2>4. Status(row[s]) = "requested" /\ Status(row'[s]) = "requested"
    BY <1>1, <2>2, <2>3 DEF Status, DeletionRow, DesiredStates
  <2>5. CASE d.pvc = cl[s].pvc
    <3>1. Runs(cl[s]) /\ ~Runs(d)
      BY <1>4, <2>5 DEF Runs, Shrinks
    <3> QED
      BY <1>1, <1>2, <2>4, <2>5, <3>1, StepRuntimeEnds DEF Contract!Next
  <2>6. CASE d.pvc # cl[s].pvc
    <3>1. \/ cl[s].pvc = "live" /\ d.pvc = "deleting"
          \/ cl[s].pvc = "deleting" /\ d.pvc = "absent"
      BY <2>6 DEF OneAtATime
    <3>2. kind[s].persistent
      BY <2>1, <3>1 DEF AskedOK
    <3>3. ~Runs(cl[s]) /\ ~kind[s].retain
      BY <1>1, <2>1, <3>1, <3>2 DEF ClusterOK, ClaimStepOK, Quiet, Runs
    <3>4. ~Runs(d)
      BY <3>3 DEF Shrinks, Runs
    <3> QED
      BY <1>1, <1>2, <2>4, <3>1, <3>3, <3>4, StepClaimGoes DEF Contract!Next
  <2> QED
    BY <2>5, <2>6
<1> QED
  BY <1>3, <1>4

-----------------------------------------------------------------------------
(* The executor only works on what it was asked to delete *)

\* AInv survives a step that takes no request back, touches the objects of
\* requested sandboxes only and lists only those.
LEMMA AskedFrame ==
    ASSUME IInv, AInv, kind' = kind,
           \A s \in Sandboxes :
              /\ row'[s].desired \in {row[s].desired, "deleted"}
              /\ row'[s].lifecycle = "deleted" => row'[s].desired = "deleted"
              /\ row'[s].desired = "active" => Untouched(kind[s], cl'[s])
              /\ cl[s].pvc = "absent" => cl'[s].pvc = "absent",
           \A r \in Runners : \A s \in todo'[r] :
              s \in todo[r] \/ row'[s].desired = "deleted",
           \A r \in Runners : ListedOK(r)'
    PROVE  AInv'
  BY DEF AInv, AskedOK

\* Steps after which every row says the same of its deletion and the objects
\* are as before.
LEMMA UnseenStep ==
    ASSUME IInv, AInv, kind' = kind, cl' = cl,
           \A s \in Sandboxes : /\ row'[s].desired = row[s].desired
                                /\ row'[s].lifecycle = row[s].lifecycle,
           \A r \in Runners : \A s \in todo'[r] :
              s \in todo[r] \/ row'[s].desired = "deleted",
           \A r \in Runners : ListedOK(r)'
    PROVE  AInv' /\ UNCHANGED Contract!vars
<1>1. Same(Sandboxes)
  BY DEF Same, Status
<1>2. AInv'
  BY AskedFrame DEF AInv, AskedOK
<1> QED
  BY <1>1, <1>2, Stutter

\* A pass that leaves a sandbox, or goes on with it, lists nothing new.
LEMMA Shortens ==
    ASSUME TypeOK, AInv, NEW r \in Runners,
           \/ NextItem(r)
           \/ UNCHANGED <<pc, todo, cur>>
    PROVE  /\ \A q \in Runners : todo'[q] \subseteq todo[q]
           /\ \A q \in Runners : ListedOK(q)'
<1>1. CASE NextItem(r)
  <2>1. /\ \A q \in Runners : todo'[q] \subseteq todo[q]
        /\ pc'[r] \in {"idle", "loop"}
        /\ \A q \in Runners \ {r} : /\ pc'[q] = pc[q] /\ cur'[q] = cur[q]
                                    /\ todo'[q] = todo[q]
    BY <1>1 DEF TypeOK, NextItem
  <2> QED
    BY <2>1 DEF AInv, ListedOK, Busy
<1>2. CASE UNCHANGED <<pc, todo, cur>>
  BY <1>2 DEF AInv, ListedOK, Busy
<1> QED
  BY <1>1, <1>2

\* A pass that is at a sandbox was asked to delete it.
LEMMA BusyAsked ==
    ASSUME IInv, AInv, NEW r \in Runners, Busy(r)
    PROVE  cur[r] \in Sandboxes /\ row[cur[r]].desired = "deleted"
<1>1. cur[r] \in Sandboxes /\ cur[r] \in todo[r]
  BY DEF IInv, AInv, PassOK, CurOK, ListedOK
<1>2. row[cur[r]].desired \in {"active", "deleted"}
  BY <1>1 DEF IInv, TypeOK, DeletionRow, DesiredStates
<1> QED
  BY <1>1, <1>2 DEF AInv, AskedOK

\* Delete and the TTL cleaner.
LEMMA RequestImplements ==
    ASSUME IInv, AInv, NEW s \in Sandboxes,
           row' = [row EXCEPT ![s] = MarkDeletionRequested(@)],
           UNCHANGED <<kind, cl, server>>
    PROVE  AInv' /\ [Contract!Next]_Contract!vars
<1>1. row \in [Sandboxes -> DeletionRow] /\ AskedOK(s)
  BY DEF IInv, TypeOK, AInv
<1>2. \A t \in Sandboxes \ {s} : row'[t] = row[t]
  BY <1>1
<1>3. row'[s] = MarkDeletionRequested(row[s])
  BY <1>1
<1>4. /\ row'[s].desired = "deleted"
      /\ row'[s].lifecycle = (IF row[s].lifecycle = "deleted" THEN "deleted"
                              ELSE "terminating")
  BY <1>1, <1>3 DEF MarkDeletionRequested, DeletionRow, AskedOK
<1>5. \A r \in Runners : ListedOK(r)'
  BY DEF AInv, ListedOK, Busy, server
<1>6. AInv'
  BY <1>2, <1>4, <1>5, AskedFrame DEF AInv, AskedOK, server
<1>7. Same(Sandboxes \ {s})
  BY <1>2 DEF Same
<1>8. [Contract!Next]_Contract!vars
  <2>1. CASE row[s].desired = "active"
    <3>1. Status(row[s]) = "active" /\ Status(row'[s]) = "requested"
      BY <1>1, <1>4, <2>1 DEF Status, AskedOK
    <3> QED
      BY <1>7, <3>1, StepRequest DEF Contract!Next
  <2>2. CASE row[s].desired = "deleted"
    <3>1. Status(row'[s]) = Status(row[s])
      BY <1>4, <2>2 DEF Status
    <3>2. Same(Sandboxes)
      BY <1>7, <3>1 DEF Same
    <3> QED
      BY <3>2, Stutter
  <2> QED
    BY <1>1, <2>1, <2>2 DEF DeletionRow, DesiredStates
<1> QED
  BY <1>6, <1>8

-----------------------------------------------------------------------------
(* The steps of a pass *)

\* RunPending lists requested sandboxes only.
LEMMA ListImplements ==
    ASSUME IInv, AInv, NEW r \in Runners, ListPendingDeletion(r)
    PROVE  AInv' /\ [Contract!Next]_Contract!vars
<1> USE DEF ListPendingDeletion
<1>1. TypeOK
  BY DEF IInv
<1>2. /\ \A q \in Runners \ {r} : todo'[q] = todo[q] /\ pc'[q] = pc[q]
      /\ pc'[r] = "loop"
      /\ \A s \in todo'[r] : row[s].desired = "deleted"
  BY <1>1 DEF TypeOK, PendingDeletion
<1>3. \A q \in Runners : ListedOK(q)'
  BY <1>2 DEF AInv, ListedOK, Busy
<1> QED
  BY <1>2, <1>3, UnseenStep

\* Recording an attempt.
LEMMA AttemptUnseen ==
    ASSUME NEW rw \in DeletionRow, NEW n, NEW t
    PROVE  /\ RecordDeletionAttempt(rw, n, t).desired = rw.desired
           /\ RecordDeletionAttempt(rw, n, t).lifecycle = rw.lifecycle
  BY DEF RecordDeletionAttempt, DeletionRow

\* processSandbox begins with a sandbox of its list.
LEMMA BeginImplements ==
    ASSUME IInv, AInv, NEW r \in Runners, NEW s \in Sandboxes, Begin(r, s)
    PROVE  AInv' /\ [Contract!Next]_Contract!vars
<1> USE DEF Begin
<1>1. TypeOK
  BY DEF IInv
<1>2. \A t \in Sandboxes : /\ row'[t].desired = row[t].desired
                           /\ row'[t].lifecycle = row[t].lifecycle
  BY <1>1, AttemptUnseen DEF TypeOK
<1>3. /\ cur'[r] = s
      /\ \A q \in Runners \ {r} : pc'[q] = pc[q] /\ cur'[q] = cur[q]
  BY <1>1 DEF TypeOK
<1>4. \A q \in Runners : ListedOK(q)'
  BY <1>3 DEF AInv, ListedOK, Busy
<1> QED
  BY <1>2, <1>4, UnseenStep

\* Reading the snapshot.
LEMMA SnapshotImplements ==
    ASSUME IInv, AInv, NEW r \in Runners,
           SnapshotDeployment(r) \/ SnapshotPods(r) \/ SnapshotStorage(r)
    PROVE  AInv' /\ [Contract!Next]_Contract!vars
<1> USE DEF SnapshotDeployment, SnapshotPods, SnapshotStorage
<1>1. TypeOK
  BY DEF IInv
<1>2. pc[r] \in {"deployment", "pods", "storage"} /\ \A q \in Runners \ {r} : pc'[q] = pc[q]
  BY <1>1 DEF TypeOK
<1>3. UNCHANGED <<kind, row, cl, todo, cur>>
  OBVIOUS
<1>4. \A q \in Runners : ListedOK(q)'
  BY <1>2, <1>3 DEF AInv, ListedOK, Busy
<1> QED
  BY <1>3, <1>4, UnseenStep

\* The decision of a handler.
LEMMA HandleImplements ==
    ASSUME IInv, AInv, NEW r \in Runners, Handle(r)
    PROVE  AInv' /\ [Contract!Next]_Contract!vars
<1>1. TypeOK
  BY DEF IInv
<1>2. UNCHANGED <<kind, row, cl>>
  BY DEF Handle
<1>3. CASE NextItem(r)
  BY <1>1, <1>2, <1>3, Shortens, UnseenStep
<1>4. CASE /\ pc[r] = "handle" /\ pc' = [pc EXCEPT ![r] = "ops"]
           /\ UNCHANGED <<todo, cur>>
  <2>1. \A q \in Runners \ {r} : pc'[q] = pc[q]
    BY <1>1, <1>4 DEF TypeOK
  <2>2. \A q \in Runners : ListedOK(q)'
    BY <1>4, <2>1 DEF AInv, ListedOK, Busy
  <2> QED
    BY <1>2, <1>4, <2>2, UnseenStep
<1> QED
  BY <1>3, <1>4 DEF Handle

\* A call to the cluster: only for a sandbox that is to be deleted, and one
\* thing at a time.
LEMMA CallImplements ==
    ASSUME IInv, AInv, NEW r \in Runners, CallCluster(r)
    PROVE  AInv' /\ [Contract!Next]_Contract!vars
<1> DEFINE s == cur[r]
           op == Head(ops[r])
<1>1. /\ TypeOK /\ pc[r] = "ops" /\ s \in Sandboxes
      /\ ops[r] \in Seq(SafeOps(kind[s], cl[s])) /\ ops[r] # <<>>
  BY DEF IInv, PassOK, CurOK, OpsOK, Busy, CallCluster
<1>2. row[s].desired = "deleted"
  BY <1>1, BusyAsked DEF Busy
<1>3. op \in SafeOps(kind[s], cl[s]) /\ op.do \in Calls
  BY <1>1 DEF CallCluster
<1> HIDE DEF op
<1> DEFINE d == Apply(op.do, cl[s])
<1>4. cl' = [cl EXCEPT ![s] = d] /\ UNCHANGED <<kind, row>>
  BY DEF CallCluster, op
<1>5. /\ Shrinks(cl[s], d) /\ OneAtATime(cl[s], d)
      /\ cl[s].pvc = "live" /\ d.pvc # "live" => op.do = "DeletePVC"
  BY <1>1, <1>3, CallShrinks, CallOneAtATime DEF TypeOK
<1> HIDE DEF d
<1>6. /\ cl'[s] = d /\ d \in Cluster
      /\ \A t \in Sandboxes \ {s} : cl'[t] = cl[t]
  BY <1>1, <1>4, <1>5 DEF TypeOK, Shrinks
<1>7. ClaimStepOK(s)
  BY <1>3, <1>5, <1>6 DEF SafeOps, ClaimStepOK
<1>8. [Contract!Next]_Contract!vars
  BY <1>1, <1>2, <1>4, <1>5, <1>6, <1>7, ObjectsStep
<1>9. /\ \A q \in Runners : todo'[q] \subseteq todo[q]
      /\ \A q \in Runners : ListedOK(q)'
  BY <1>1, Shortens DEF CallCluster, Continue
<1>10. \A t \in Sandboxes :
          /\ row[t].desired = "active" => Untouched(kind[t], cl'[t])
          /\ cl[t].pvc = "absent" => cl'[t].pvc = "absent"
  BY <1>2, <1>5, <1>6 DEF AInv, AskedOK, Shrinks
<1>11. \A t \in Sandboxes : row[t].lifecycle = "deleted" => row[t].desired = "deleted"
  BY DEF AInv, AskedOK
<1>12. AInv'
  BY <1>4, <1>9, <1>10, <1>11, AskedFrame
<1> QED
  BY <1>8, <1>12

\* A statement on the row: the contract sees the last one only.
LEMMA WriteImplements ==
    ASSUME IInv, AInv, NEW r \in Runners, WriteRow(r)
    PROVE  AInv' /\ [Contract!Next]_Contract!vars
<1> DEFINE s == cur[r]
           op == Head(ops[r])
<1>1. /\ TypeOK /\ pc[r] = "ops" /\ s \in Sandboxes
      /\ ops[r] \in Seq(SafeOps(kind[s], cl[s])) /\ ops[r] # <<>>
  BY DEF IInv, PassOK, CurOK, OpsOK, Busy, WriteRow
<1>2. row[s].desired = "deleted" /\ row[s] \in DeletionRow
  BY <1>1, BusyAsked DEF Busy, TypeOK
<1>3. op \in SafeOps(kind[s], cl[s]) /\ op.do \in Statements
  BY <1>1 DEF WriteRow
<1> HIDE DEF op
<1> DEFINE rw == Execute(op, recs[r][s], row[s])
<1>4. row' = [row EXCEPT ![s] = rw] /\ UNCHANGED <<kind, cl>>
  BY DEF WriteRow, op
<1>5. /\ \A q \in Runners : todo'[q] \subseteq todo[q]
      /\ \A q \in Runners : ListedOK(q)'
  BY <1>1, Shortens DEF WriteRow, Continue
<1>6. CASE op.do = "MarkDeletionCompleted"
  <2>1. rw.desired = "deleted" /\ rw.lifecycle = "deleted"
    BY <1>2, <1>6 DEF Execute, MarkDeletionCompleted, DeletionRow
  <2> HIDE DEF rw
  <2>2. row'[s] = rw /\ \A t \in Sandboxes \ {s} : row'[t] = row[t]
    BY <1>1, <1>4 DEF TypeOK
  <2>3. AInv'
    BY <1>4, <1>5, <2>1, <2>2, AskedFrame DEF AInv, AskedOK
  <2>4. Same(Sandboxes \ {s})
    BY <1>4, <2>2 DEF Same
  <2>5. CASE row[s].lifecycle = "deleted"
    <3>1. Same(Sandboxes)
      BY <1>4, <2>1, <2>2, <2>4, <2>5 DEF Same, Status
    <3> QED
      BY <1>4, <2>3, <3>1, Stutter
  <2>6. CASE row[s].lifecycle # "deleted"
    <3>1. Status(row[s]) = "requested" /\ Status(row'[s]) = "deleted"
      BY <1>2, <2>1, <2>2, <2>6 DEF Status
    <3>2. AllGone(kind[s], cl[s])
      BY <1>3, <1>6 DEF SafeOps
    <3> QED
      BY <1>1, <1>4, <2>3, <2>4, <3>1, <3>2, StepFinish DEF Contract!Next
  <2> QED
    BY <2>5, <2>6
<1>7. CASE op.do # "MarkDeletionCompleted"
  <2>1. rw.desired = row[s].desired /\ rw.lifecycle = row[s].lifecycle
    <3>1. CASE op.do = "AdvanceDeletionPhase"
      BY <1>2, <3>1 DEF Execute, AdvanceDeletionPhase, DeletionRow
    <3>2. CASE op.do = "MarkReadyForImmediateRetry"
      BY <1>2, <3>2, AttemptUnseen DEF Execute
    <3>3. CASE op.do = "BumpForceLevel"
      BY <1>2, <3>3, AttemptUnseen DEF Execute
    <3> QED
      BY <1>3, <1>7, <3>1, <3>2, <3>3 DEF Statements
  <2> HIDE DEF rw
  <2>2. row'[s] = rw /\ \A t \in Sandboxes \ {s} : row'[t] = row[t]
    BY <1>1, <1>4 DEF TypeOK
  <2> QED
    BY <1>4, <1>5, <2>1, <2>2, UnseenStep
<1> QED
  BY <1>6, <1>7

-----------------------------------------------------------------------------
(* Faults, restarts, time and the controllers *)

\* A failed call or statement ends the pass's work on its sandbox.
LEMMA FaultImplements ==
    ASSUME IInv, AInv, NEW r \in Runners,
           SnapshotFails(r) \/ OpFails(r) \/ \E s \in Sandboxes : BeginFails(r, s)
    PROVE  AInv' /\ [Contract!Next]_Contract!vars
<1>1. TypeOK
  BY DEF IInv
<1>2. CASE SnapshotFails(r)
  <2>1. \A t \in Sandboxes : /\ row'[t].desired = row[t].desired
                             /\ row'[t].lifecycle = row[t].lifecycle
    BY <1>1, <1>2, AttemptUnseen DEF TypeOK, SnapshotFails
  <2> QED
    BY <1>1, <1>2, <2>1, Shortens, UnseenStep DEF SnapshotFails
<1>3. CASE OpFails(r)
  BY <1>1, <1>3, Shortens, UnseenStep DEF OpFails
<1>4. ASSUME NEW s \in Sandboxes, BeginFails(r, s)
      PROVE  AInv' /\ [Contract!Next]_Contract!vars
  <2>1. /\ \A q \in Runners : todo'[q] \subseteq todo[q]
        /\ pc'[r] \in {"idle", "loop"}
        /\ \A q \in Runners \ {r} : pc'[q] = pc[q] /\ todo'[q] = todo[q]
        /\ UNCHANGED <<kind, row, cl, cur>>
    BY <1>1, <1>4 DEF TypeOK, BeginFails
  <2>2. \A q \in Runners : ListedOK(q)'
    BY <2>1 DEF AInv, ListedOK, Busy
  <2> QED
    BY <2>1, <2>2, UnseenStep
<1> QED
  BY <1>2, <1>3, <1>4

\* A restart forgets the lists.
LEMMA RestartImplements ==
    ASSUME IInv, AInv, Restart
    PROVE  AInv' /\ [Contract!Next]_Contract!vars
  BY UnseenStep DEF Restart, ListedOK, Busy

\* The clock and the backoff.
LEMMA TimeImplements ==
    ASSUME IInv, AInv, NEW s \in Sandboxes, Tick(s) \/ BackoffElapses(s)
    PROVE  AInv' /\ [Contract!Next]_Contract!vars
<1>1. TypeOK
  BY DEF IInv
<1>2. \A t \in Sandboxes : /\ row'[t].desired = row[t].desired
                           /\ row'[t].lifecycle = row[t].lifecycle
  <2>1. \A rw \in DeletionRow :
           /\ AgeRow(rw).desired = rw.desired
           /\ AgeRow(rw).lifecycle = rw.lifecycle
           /\ RetryComesDue(rw).desired = rw.desired
           /\ RetryComesDue(rw).lifecycle = rw.lifecycle
    BY DEF AgeRow, RetryComesDue, DeletionRow
  <2>2. row \in [Sandboxes -> DeletionRow]
    BY <1>1 DEF TypeOK
  <2> QED
    BY <2>1, <2>2 DEF Tick, BackoffElapses
<1>3. UNCHANGED <<kind, cl, server>>
  BY DEF Tick, BackoffElapses
<1>4. \A q \in Runners : ListedOK(q)'
  BY <1>3 DEF AInv, ListedOK, Busy, server
<1> QED
  BY <1>2, <1>3, <1>4, UnseenStep DEF server

\* The controllers only finish what was begun.
LEMMA ControllerImplements ==
    ASSUME IInv, AInv, NEW s \in Sandboxes, ControllerStep(s)
    PROVE  AInv' /\ [Contract!Next]_Contract!vars
<1>1. TypeOK
  BY DEF IInv
<1>2. PICK d \in ControllerSteps(kind[s].persistent, cl[s]) : cl' = [cl EXCEPT ![s] = d]
  BY DEF ControllerStep
<1>3. kind[s] \in AllKinds /\ kind[s].persistent \in BOOLEAN /\ cl[s] \in Cluster
  BY <1>1, DeletionAssumptions DEF TypeOK, AllKinds
<1>4. /\ Shrinks(cl[s], d) /\ OneAtATime(cl[s], d)
      /\ cl[s].pvc = "live" => d.pvc = "live"
      /\ Untouched(kind[s], cl[s]) => Untouched(kind[s], d)
  BY <1>3, ControllersShrink, ControllersOneAtATime
<1>5. /\ cl'[s] = d /\ d \in Cluster
      /\ \A t \in Sandboxes \ {s} : cl'[t] = cl[t]
  BY <1>1, <1>2, <1>4 DEF TypeOK, Shrinks
<1>6. ClaimStepOK(s)
  BY <1>4, <1>5 DEF ClaimStepOK
<1>7. UNCHANGED <<kind, row, server>>
  BY DEF ControllerStep
<1>8. row[s].desired = "active" => Untouched(kind[s], d)
  BY <1>4 DEF AInv, AskedOK
<1>9. [Contract!Next]_Contract!vars
  BY <1>2, <1>4, <1>5, <1>6, <1>7, <1>8, ObjectsStep
<1>10. \A q \in Runners : ListedOK(q)'
  BY <1>7 DEF AInv, ListedOK, Busy, server
<1>11. AInv'
  BY <1>4, <1>5, <1>7, <1>8, <1>10, AskedFrame DEF AInv, AskedOK, Shrinks, server
<1> QED
  BY <1>9, <1>11

-----------------------------------------------------------------------------
(* The theorems *)

\* The initial states are the contract's: every sandbox is up and nobody asked
\* for anything.
THEOREM InitImplements == Init => AInv /\ Contract!Init
<1> SUFFICES ASSUME Init PROVE AInv /\ Contract!Init
  OBVIOUS
<1>1. PICK st \in [Sandboxes -> StuckSets] :
         cl = [s \in Sandboxes |-> IF kind[s].persistent
                                   THEN PersistentCluster(st[s])
                                   ELSE EphemeralCluster(st[s])]
  BY DEF Init
<1>2. \A s \in Sandboxes :
         /\ Untouched(kind[s], cl[s]) /\ Runs(cl[s])
         /\ cl[s].pvc = (IF kind[s].persistent THEN "live" ELSE "absent")
  BY <1>1 DEF PersistentCluster, EphemeralCluster, Untouched, Runs
<1>3. \A s \in Sandboxes : row[s] = ActiveRow
  BY DEF Init
<1>4. AInv
  <2>1. \A s \in Sandboxes : AskedOK(s)
    BY <1>2, <1>3 DEF AskedOK, ActiveRow, Init, ServerInit
  <2>2. \A r \in Runners : ListedOK(r)
    BY DEF ListedOK, Busy, Init, ServerInit
  <2> QED
    BY <2>1, <2>2 DEF AInv
<1>5. Contract!Init
  <2>1. \A s \in Sandboxes : Status(row[s]) = "active"
    <3>1. ActiveRow.desired = "active" /\ ActiveRow.lifecycle = "running"
      BY DEF ActiveRow
    <3> QED
      BY <1>3, <3>1 DEF Status
  <2>2. \A s \in Sandboxes : Runs(cl[s]) = TRUE
    BY <1>2 DEF Runs
  <2>3. kind \in [Sandboxes -> Kinds]
    BY DEF Init
  <2> QED
    BY <1>2, <2>1, <2>2, <2>3 DEF Contract!Init, Runs
<1> QED
  BY <1>4, <1>5

\* Every step of the executor, of whoever requests deletions and of the cluster
\* is a step of the contract or is not seen by it.
THEOREM NextImplements ==
    IInv /\ AInv /\ [Next]_vars => AInv' /\ [Contract!Next]_Contract!vars
<1> SUFFICES ASSUME IInv, AInv, [Next]_vars
             PROVE  AInv' /\ [Contract!Next]_Contract!vars
  OBVIOUS
<1> DEFINE Goal == AInv' /\ [Contract!Next]_Contract!vars
<1>1. ASSUME NEW s \in Sandboxes, Request(s) PROVE Goal
  BY <1>1, RequestImplements DEF Request, Delete, MarkExpired
<1>2. CASE UNCHANGED <<kind, row, cl, server>>
  <2>1. \A r \in Runners : ListedOK(r)'
    BY <1>2 DEF AInv, ListedOK, Busy, server
  <2> QED
    BY <1>2, <2>1, UnseenStep DEF server
<1>3. ASSUME NEW r \in Runners, Pass(r) PROVE Goal
  BY <1>3, ListImplements, BeginImplements, SnapshotImplements, HandleImplements,
     CallImplements, WriteImplements DEF Pass
<1>4. CASE ListExpiredActive \/ UNCHANGED vars
  BY <1>2, <1>4 DEF ListExpiredActive, vars, server
<1> HIDE DEF Goal
<1>5. Goal
  BY <1>1, <1>3, <1>4, FaultImplements, RestartImplements, TimeImplements,
     ControllerImplements DEF Next, Goal
<1> QED
  BY <1>5 DEF Goal

\* The executor implements the contract: what nobody asked to delete is not
\* touched, and runtime, claim and row of the rest go in this order, for good.
THEOREM ContractImplemented == Spec => ImplementsContract
<1>1. Spec => [](IInv /\ AInv)
  BY Invariance, InitImplements, NextImplements, PTL DEF Spec
<1>2. Init => Contract!Init
  BY InitImplements
<1>3. IInv /\ AInv /\ [Next]_vars => [Contract!Next]_Contract!vars
  BY NextImplements
<1> QED
  BY <1>1, <1>2, <1>3, PTL DEF Spec, ImplementsContract, Contract!Spec

=============================================================================
