----------------------- MODULE SandboxDeletionProofs ------------------------
(***************************************************************************)
(* Proofs about SandboxDeletion, for any number of sandboxes, of           *)
(* concurrent passes, of faults and for any timeouts.                      *)
(*                                                                         *)
(* The argument: objects of a sandbox that is being deleted only go away.  *)
(* What a pass concluded from a snapshot ("no Deployment", "no Pod", "no   *)
(* claim") therefore stays true while it acts on it, provided the          *)
(* Deployment was read before the Pods, and so do the permissions its      *)
(* handler derived from it (SafeOps).                                      *)
(***************************************************************************)
EXTENDS SandboxDeletion, SequenceTheorems, TLAPS

\* Nothing runs and nothing can start to run.
Quiet(c) == c.dep = "absent" /\ c.pod = "absent"

\* Gone, as a predicate on a kind and its objects.
AllGone(k, c) == Quiet(c) /\ (k.persistent /\ ~k.retain => c.pvc = "absent")

\* What a pass may still do to a sandbox, given what the cluster holds now.
SafeOps(k, c) ==
    {o \in Op :
        /\ o.do = "MarkDeletionCompleted" => AllGone(k, c)
        /\ o.do = "DeletePVC" => Quiet(c) /\ ~k.retain
        /\ o.do = "AdvanceDeletionPhase" =>
              /\ o.phase \notin {"", "completed"}
              /\ o.phase = "deleting_storage" => Quiet(c) /\ ~k.retain}

Busy(r) == pc[r] \in {"deployment", "pods", "storage", "handle", "ops"}

\* A pass that is processing a sandbox knows which ...
CurOK(r) == Busy(r) => cur[r] \in Sandboxes

\* ... has only safe things left to do to it ...
OpsOK(r) ==
    pc[r] = "ops" => /\ ops[r] \in Seq(SafeOps(kind[cur[r]], cl[cur[r]]))
                     /\ ops[r] # <<>>

\* ... and what its snapshot does not show is not there any more.
SnapOK(r) ==
    LET s == cur[r]
        noDeployment == kind[s].persistent => snap[r].dep = "absent"
    IN
      /\ pc[r] \in {"pods", "storage", "handle"} /\ noDeployment
            => cl[s].dep = "absent"
      /\ pc[r] \in {"storage", "handle"} /\ noDeployment /\ ~snap[r].pods
            => cl[s].pod = "absent"
      /\ pc[r] = "handle" /\ kind[s].persistent /\ snap[r].pvc = "absent"
            => cl[s].pvc = "absent"

PassOK(r) == CurOK(r) /\ OpsOK(r) /\ SnapOK(r)

\* The storage phase is entered, in the row and in every copy of it, only when
\* the runtime is gone and the policy is Delete.
PhaseOK(s) ==
    \/ Quiet(cl[s]) /\ ~kind[s].retain
    \/ /\ row[s].phase # "deleting_storage"
       /\ \A r \in Runners : recs[r][s].phase # "deleting_storage"

RowOK(s) == /\ row[s].phase = "completed" => row[s].lifecycle = "deleted"
            /\ row[s].lifecycle = "deleted" => AllGone(kind[s], cl[s])

ClusterOK(s) ==
    /\ ~kind[s].persistent => cl[s].dep = "absent"
    /\ kind[s].persistent /\ cl[s].pvc # "live" => Quiet(cl[s])
    /\ kind[s].retain => cl[s].pvc = "live"

IInv == /\ TypeOK
        /\ \A r \in Runners : PassOK(r)
        /\ \A s \in Sandboxes : PhaseOK(s) /\ RowOK(s) /\ ClusterOK(s)

-----------------------------------------------------------------------------
(* The cluster only loses objects *)

Shrinks(c, d) ==
    /\ d \in Cluster
    /\ c.dep = "absent" => d.dep = "absent"
    /\ c.dep = "absent" /\ c.pod = "absent" => d.pod = "absent"
    /\ c.pvc = "absent" => d.pvc = "absent"

\* A call never brings an object back, and only DeletePVC starts the deletion of
\* the claim.
LEMMA CallShrinks ==
    ASSUME NEW c \in Cluster, NEW call \in Calls
    PROVE  /\ Shrinks(c, Apply(call, c))
           /\ call # "DeletePVC" /\ c.pvc = "live" => Apply(call, c).pvc = "live"
<1> USE DEF Cluster, ObjectStates, Shrinks, Doom, Release
<1>1. CASE call = "DeleteDeployment"
  BY <1>1 DEF Apply, DeleteDeployment
<1>2. CASE call = "DeletePVC"
  BY <1>2 DEF Apply, DeletePVC
<1>3. CASE call = "DeletePod"
  BY <1>3 DEF Apply, DeletePod
<1>4. CASE call = "ForceDeletePodByName"
  BY <1>4 DEF Apply, ForceDeletePodByName
<1>5. CASE call = "PatchDeploymentFinalizers"
  BY <1>5 DEF Apply, PatchDeploymentFinalizers
<1>6. CASE call = "PatchPVCFinalizers"
  BY <1>6 DEF Apply, PatchPVCFinalizers
<1>7. CASE call = "DeleteVolumeAttachments"
  BY <1>7 DEF Apply, DeleteVolumeAttachments
<1>8. CASE call = "PatchPVFinalizers"
  BY <1>8 DEF Apply, PatchPVFinalizers
<1>9. CASE call = "DeletePersistentVolume"
  BY <1>9 DEF Apply, DeletePersistentVolume
<1> QED
  BY <1>1, <1>2, <1>3, <1>4, <1>5, <1>6, <1>7, <1>8, <1>9 DEF Calls

\* Neither do the controllers, once the Deployment is gone.
LEMMA ControllersShrink ==
    ASSUME NEW c \in Cluster, NEW persistent \in BOOLEAN,
           NEW d \in ControllerSteps(persistent, c)
    PROVE  /\ Shrinks(c, d)
           /\ c.pvc = "live" => d.pvc = "live"
  BY ZenonT(30) DEF ControllerSteps, PodRecreated, PodCollected, PodGone, DeploymentGone,
         PVCGone, VolumeDetached, VolumeReclaimed, Shrinks, Cluster, ObjectStates

-----------------------------------------------------------------------------
(* What a pass relies on is stable *)

\* A sequence over a set is a sequence over every larger one.
LEMMA SeqMono ==
    ASSUME NEW S, NEW T, S \subseteq T, NEW q \in Seq(S)
    PROVE  q \in Seq(T)
  OBVIOUS

\* The rest of a plan holds operations of the plan only.
LEMMA TailInSeq ==
    ASSUME NEW S, NEW q \in Seq(S), q # <<>>
    PROVE  Tail(q) \in Seq(S)
  OBVIOUS

\* The facts a pass derived from a snapshot stay true while the cluster shrinks.
LEMMA SafeStable ==
    ASSUME NEW k, NEW c, NEW d, Shrinks(c, d)
    PROVE  /\ Quiet(c) => Quiet(d)
           /\ AllGone(k, c) => AllGone(k, d)
           /\ SafeOps(k, c) \subseteq SafeOps(k, d)
<1>1. /\ Quiet(c) => Quiet(d)
      /\ AllGone(k, c) => AllGone(k, d)
  BY DEF Quiet, AllGone, Shrinks
<1>2. SafeOps(k, c) \subseteq SafeOps(k, d)
  BY <1>1 DEF SafeOps
<1> QED
  BY <1>1, <1>2

\* A pass that does not move keeps its invariant.
LEMMA PassFrame ==
    ASSUME IInv, kind' = kind,
           \A s \in Sandboxes : Shrinks(cl[s], cl'[s]),
           NEW r \in Runners,
           pc'[r] = pc[r], cur'[r] = cur[r], snap'[r] = snap[r], ops'[r] = ops[r]
    PROVE  PassOK(r)'
<1>1. PassOK(r)
  BY DEF IInv
<1>2. CurOK(r)'
  BY <1>1 DEF PassOK, CurOK, Busy
<1>3. OpsOK(r)'
  <2> DEFINE s == cur[r]
  <2> SUFFICES ASSUME pc[r] = "ops"
               PROVE  ops[r] \in Seq(SafeOps(kind[s], cl'[s])) /\ ops[r] # <<>>
    BY DEF OpsOK
  <2>1. s \in Sandboxes /\ ops[r] \in Seq(SafeOps(kind[s], cl[s])) /\ ops[r] # <<>>
    BY <1>1 DEF PassOK, CurOK, OpsOK, Busy
  <2>2. SafeOps(kind[s], cl[s]) \subseteq SafeOps(kind[s], cl'[s])
    BY <2>1, SafeStable
  <2> QED
    BY <2>1, <2>2, SeqMono
<1>4. SnapOK(r)'
  BY <1>1 DEF PassOK, CurOK, SnapOK, Busy, Shrinks
<1> QED
  BY <1>2, <1>3, <1>4 DEF PassOK

\* A pass that is not processing anything has nothing to keep.
LEMMA PassResting ==
    ASSUME NEW r \in Runners, pc'[r] \in {"idle", "loop"}
    PROVE  PassOK(r)'
  BY DEF PassOK, CurOK, OpsOK, SnapOK, Busy

\* The empty copy and the empty snapshot a pass starts from.
LEMMA Defaults == NoRec \in Rec /\ NoRec.phase = "" /\ NoSnapshot \in Snapshot
  BY DEF NoRec, Rec, DeletionPhases, ForceLevels, NoSnapshot, Snapshot, ObjectStates

\* Leaving a sandbox: the pass rests, the others do not move.
LEMMA NextItemEffect ==
    ASSUME TypeOK, NEW r \in Runners, cur[r] \in Sandboxes, NextItem(r)
    PROVE  /\ pc' \in [Runners -> Steps]
           /\ booted' \subseteq Runners
           /\ todo' \in [Runners -> SUBSET Sandboxes]
           /\ recs' \in [Runners -> [Sandboxes -> Rec]]
           /\ cur' \in [Runners -> Sandboxes \cup {NoSandbox}]
           /\ now' \in [Runners -> -1..MaxAge]
           /\ snap' \in [Runners -> Snapshot]
           /\ ops' \in [Runners -> Seq(Op)]
           /\ pc'[r] \in {"idle", "loop"}
           /\ \A q \in Runners \ {r} :
                 /\ pc'[q] = pc[q] /\ cur'[q] = cur[q]
                 /\ snap'[q] = snap[q] /\ ops'[q] = ops[q]
           /\ \A q \in Runners : \A s \in Sandboxes :
                 recs'[q][s] = recs[q][s] \/ recs'[q][s].phase = ""
<1>1. NoRec \in Rec /\ NoRec.phase = "" /\ NoSnapshot \in Snapshot
  BY Defaults
<1>2. 0 \in -1..MaxAge
  BY MaxAgeAssumption
<1>3. /\ pc' \in [Runners -> Steps]
      /\ booted' \subseteq Runners
      /\ todo' \in [Runners -> SUBSET Sandboxes]
      /\ cur' \in [Runners -> Sandboxes \cup {NoSandbox}]
      /\ now' \in [Runners -> -1..MaxAge]
      /\ snap' \in [Runners -> Snapshot]
      /\ ops' \in [Runners -> Seq(Op)]
      /\ pc'[r] \in {"idle", "loop"}
  <2>1. pc' \in [Runners -> Steps] /\ pc'[r] \in {"idle", "loop"}
    BY DEF TypeOK, NextItem, Steps
  <2>2. /\ booted' \subseteq Runners
        /\ todo' \in [Runners -> SUBSET Sandboxes]
        /\ cur' \in [Runners -> Sandboxes \cup {NoSandbox}]
    BY DEF TypeOK, NextItem
  <2>3. now' \in [Runners -> -1..MaxAge] /\ snap' \in [Runners -> Snapshot]
    BY <1>1, <1>2 DEF TypeOK, NextItem
  <2>4. ops' \in [Runners -> Seq(Op)]
    BY DEF TypeOK, NextItem
  <2> QED
    BY <2>1, <2>2, <2>3, <2>4
<1>4. \A q \in Runners \ {r} :
         /\ pc'[q] = pc[q] /\ cur'[q] = cur[q]
         /\ snap'[q] = snap[q] /\ ops'[q] = ops[q]
  BY DEF TypeOK, NextItem
<1>5. /\ recs' \in [Runners -> [Sandboxes -> Rec]]
      /\ \A q \in Runners : \A s \in Sandboxes :
            recs'[q][s] = recs[q][s] \/ recs'[q][s].phase = ""
  BY <1>1 DEF TypeOK, NextItem
<1> QED
  BY <1>3, <1>4, <1>5

-----------------------------------------------------------------------------
(* The handlers *)

\* The operations handlers plan, one by one.
LEMMA SafeOpIntro ==
    ASSUME NEW k, NEW c
    PROVE  /\ \A name \in Calls \ {"DeletePVC"} : Do(name) \in SafeOps(k, c)
           /\ Retry \in SafeOps(k, c)
           /\ \A n \in ForceLevels : SetForce(n) \in SafeOps(k, c)
           /\ \A p \in {"quiescing_runtime", "force_cleanup", "verifying"} :
                 SetPhase(p) \in SafeOps(k, c)
           /\ Quiet(c) /\ ~k.retain => /\ SetPhase("deleting_storage") \in SafeOps(k, c)
                                       /\ Do("DeletePVC") \in SafeOps(k, c)
           /\ AllGone(k, c) => Do("MarkDeletionCompleted") \in SafeOps(k, c)
<1>1. /\ \A name \in Calls \cup Statements : Do(name) \in Op
      /\ \A p \in DeletionPhases : SetPhase(p) \in Op
      /\ \A n \in ForceLevels : SetForce(n) \in Op /\ SetForce(n).do = "BumpForceLevel"
  BY DEF Do, SetPhase, SetForce, Op, Statements, DeletionPhases, ForceLevels
<1>2. /\ \A name \in Calls \cup Statements : Do(name).do = name
      /\ \A p \in DeletionPhases : /\ SetPhase(p).do = "AdvanceDeletionPhase"
                                   /\ SetPhase(p).phase = p
  BY DEF Do, SetPhase
<1>3. \A name \in Calls \ {"DeletePVC"} : Do(name) \in SafeOps(k, c)
  BY <1>1, <1>2 DEF SafeOps, Calls
<1>4. Retry \in SafeOps(k, c)
  BY <1>1, <1>2 DEF SafeOps, Retry, Statements
<1>5. \A n \in ForceLevels : SetForce(n) \in SafeOps(k, c)
  BY <1>1 DEF SafeOps
<1>6. \A p \in {"quiescing_runtime", "force_cleanup", "verifying"} :
         SetPhase(p) \in SafeOps(k, c)
  BY <1>1, <1>2 DEF SafeOps, DeletionPhases
<1>7. Quiet(c) /\ ~k.retain => /\ SetPhase("deleting_storage") \in SafeOps(k, c)
                               /\ Do("DeletePVC") \in SafeOps(k, c)
  BY <1>1, <1>2 DEF SafeOps, DeletionPhases, Calls
<1>8. AllGone(k, c) => Do("MarkDeletionCompleted") \in SafeOps(k, c)
  BY <1>1, <1>2 DEF SafeOps, Statements
<1> QED
  BY <1>3, <1>4, <1>5, <1>6, <1>7, <1>8

\* A handler that sees a truthful snapshot plans only safe operations.
LEMMA DispatchSafe ==
    ASSUME NEW k \in AllKinds, NEW c \in Cluster, NEW rec \in Rec,
           NEW sn \in Snapshot, NEW at \in Int,
           (k.persistent => sn.dep = "absent") => c.dep = "absent",
           (k.persistent => sn.dep = "absent") /\ ~sn.pods => c.pod = "absent",
           k.persistent /\ sn.pvc = "absent" => c.pvc = "absent",
           rec.phase = "deleting_storage" => Quiet(c) /\ ~k.retain
    PROVE  Dispatch(k, rec, sn, at) \in Seq(SafeOps(k, c))
<1> DEFINE S == SafeOps(k, c)
<1> HIDE DEF S
<1>1. /\ \A name \in Calls \ {"DeletePVC"} : Do(name) \in S
      /\ Retry \in S
      /\ AllGone(k, c) => Do("MarkDeletionCompleted") \in S
      /\ Quiet(c) /\ ~k.retain => SetPhase("deleting_storage") \in S /\ Do("DeletePVC") \in S
  BY SafeOpIntro DEF S
<1>2. \A p \in {"quiescing_runtime", "force_cleanup", "verifying"} :
         TransitionPhase(p) \in Seq(S)
  <2>1. \A p \in {"quiescing_runtime", "force_cleanup", "verifying"} : SetPhase(p) \in S
    BY SafeOpIntro DEF S
  <2> QED
    BY <1>1, <2>1 DEF TransitionPhase
<1>3. \A n \in 1..3 : BumpForceLevel(n) \in Seq(S)
  <2>1. \A n \in 1..3 : SetForce(n) \in S
    BY SafeOpIntro DEF S, ForceLevels
  <2> QED
    BY <2>1 DEF BumpForceLevel
<1>4. \A q \in Seq(S) : Append(q, Retry) \in Seq(S)
  BY <1>1
<1>5. DeletePersistentSandbox(TRUE) \in Seq(S)
  BY <1>1 DEF DeletePersistentSandbox, Calls
<1>6. Quiet(c) /\ ~k.retain => DeletePersistentSandbox(k.retain) \in Seq(S)
  BY <1>1 DEF DeletePersistentSandbox, Calls
<1>7. HandleQuiescingRuntime(k, rec, sn, at) \in Seq(S)
  <2>1. <<Do("DeletePod"), Retry>> \in Seq(S)
    BY <1>1 DEF Calls
  <2>2. k.persistent /\ sn.dep = "absent" /\ ~sn.pods /\ ~k.retain
           => TransitionPhase("deleting_storage") \in Seq(S)
    BY <1>1 DEF TransitionPhase, Quiet
  <2>3. <<>> \in Seq(S)
    OBVIOUS
  <2>4. CASE k.persistent /\ sn.dep # "absent"
    BY <2>4, <1>4, <1>5 DEF HandleQuiescingRuntime
  <2>5. CASE ~(k.persistent /\ sn.dep # "absent") /\ sn.pods
    BY <2>1, <2>3, <2>5, <1>2 DEF HandleQuiescingRuntime
  <2>6. CASE ~(k.persistent /\ sn.dep # "absent") /\ ~sn.pods
    BY <2>2, <2>6, <1>2 DEF HandleQuiescingRuntime
  <2> QED
    BY <2>4, <2>5, <2>6
<1>8. rec.phase = "deleting_storage" => HandleDeletingStorage(k, rec, sn, at) \in Seq(S)
  BY <1>2, <1>4, <1>6 DEF HandleDeletingStorage
<1>9. HandleForceCleanup(k, rec, sn, at) \in Seq(S)
  <2>1. CASE rec.force = 0
    <3>1. /\ <<Do("ForceDeletePodByName")>> \in Seq(S)
          /\ <<Do("PatchDeploymentFinalizers")>> \in Seq(S)
      BY <1>1 DEF Calls
    <3> QED
      BY <2>1, <3>1, <1>3 DEF HandleForceCleanup
  <2>2. CASE rec.force = 1
    <3>1. <<Do("PatchPVCFinalizers")>> \in Seq(S)
      BY <1>1 DEF Calls
    <3>2. CanForceDeletePVC(k, sn) => Quiet(c) /\ ~k.retain
      BY DEF CanForceDeletePVC, Quiet
    <3> QED
      BY <2>2, <3>1, <3>2, <1>3, <1>6 DEF HandleForceCleanup
  <2>3. CASE rec.force = 2
    <3>1. CleanupStorageAttachments(sn) \in Seq(S)
      BY <1>1 DEF CleanupStorageAttachments, Calls
    <3> QED
      BY <2>3, <3>1, <1>3 DEF HandleForceCleanup
  <2>4. CASE rec.force \notin {0, 1, 2}
    BY <2>4, <1>2 DEF HandleForceCleanup
  <2> QED
    BY <2>1, <2>2, <2>3, <2>4
<1>10. HandleVerifying(k, rec, sn, at) \in Seq(S)
  <2>1. AllGone(k, c) => <<Do("MarkDeletionCompleted")>> \in Seq(S)
    BY <1>1
  <2> QED
    BY <1>2, <2>1 DEF HandleVerifying, AllGone, Quiet
<1> QED
  <2> USE DEF Dispatch, S
  <2>1. CASE rec.phase \in {"", "requested"}
    BY <2>1, <1>2
  <2>2. CASE rec.phase = "quiescing_runtime"
    BY <2>2, <1>7
  <2>3. CASE rec.phase = "deleting_storage"
    BY <2>3, <1>8
  <2>4. CASE rec.phase = "force_cleanup"
    BY <2>4, <1>9
  <2>5. CASE rec.phase = "verifying"
    BY <2>5, <1>10
  <2>6. CASE rec.phase = "completed"
    BY <2>6
  <2> QED
    BY <2>1, <2>2, <2>3, <2>4, <2>5, <2>6 DEF Rec, DeletionPhases

-----------------------------------------------------------------------------
(* The inductive step *)

\* What a step must respect for the invariants of a sandbox to survive it.
RowStepOK(s) ==
    /\ row'[s].phase = "completed" => row'[s].lifecycle = "deleted"
    /\ row'[s].lifecycle = "deleted" => AllGone(kind[s], cl[s])
    /\ row'[s].phase = "deleting_storage" =>
          \/ row[s].phase = "deleting_storage"
          \/ Quiet(cl[s]) /\ ~kind[s].retain

ClaimStepOK(s) ==
    cl[s].pvc = "live" /\ cl'[s].pvc # "live" => Quiet(cl[s]) /\ ~kind[s].retain

CopiesStepOK(s) ==
    \A r \in Runners : \/ recs'[r][s].phase \in {recs[r][s].phase, ""}
                       \/ recs'[r][s].phase = row[s].phase

\* What the invariant says of one sandbox is kept by a step whose effects on the
\* row, the copies, and the objects are the ones named here.
LEMMA SandboxFrame ==
    ASSUME IInv, NEW s \in Sandboxes, kind' = kind, Shrinks(cl[s], cl'[s]),
           RowStepOK(s), ClaimStepOK(s), CopiesStepOK(s)
    PROVE  PhaseOK(s)' /\ RowOK(s)' /\ ClusterOK(s)'
<1>1. PhaseOK(s) /\ RowOK(s) /\ ClusterOK(s)
  BY DEF IInv
<1>2. /\ Quiet(cl[s]) => Quiet(cl'[s])
      /\ AllGone(kind[s], cl[s]) => AllGone(kind[s], cl'[s])
  BY SafeStable
<1>3. PhaseOK(s)'
  BY <1>1, <1>2 DEF PhaseOK, RowStepOK, CopiesStepOK
<1>4. RowOK(s)'
  BY <1>2 DEF RowOK, RowStepOK
<1>5. ClusterOK(s)'
  BY <1>1, <1>2 DEF ClusterOK, ClaimStepOK, Shrinks, IInv, TypeOK, Cluster
<1> QED
  BY <1>3, <1>4, <1>5

\* Steps that leave the cluster and the server alone.
LEMMA RowOnlyStep ==
    ASSUME IInv, TypeOK', kind' = kind, cl' = cl, UNCHANGED server,
           \A s \in Sandboxes : RowStepOK(s)
    PROVE  IInv'
<1>1. \A s \in Sandboxes : Shrinks(cl[s], cl'[s])
  BY DEF IInv, TypeOK, Shrinks
<1>2. \A r \in Runners : PassOK(r)'
  BY <1>1, PassFrame DEF server
<1>3. \A s \in Sandboxes : PhaseOK(s)' /\ RowOK(s)' /\ ClusterOK(s)'
  BY <1>1, SandboxFrame DEF server, ClaimStepOK, CopiesStepOK
<1> QED
  BY <1>2, <1>3 DEF IInv

\* A step that changes neither phase nor lifecycle of a row is harmless to it.
LEMMA KeepsRow ==
    ASSUME IInv, NEW s \in Sandboxes, row'[s].phase = row[s].phase,
           row'[s].lifecycle = row[s].lifecycle
    PROVE  RowStepOK(s)
  BY DEF IInv, RowOK, RowStepOK

\* Every statement of the store maps rows to rows.
LEMMA RowTypes ==
    ASSUME NEW rw \in DeletionRow
    PROVE  /\ MarkDeletionRequested(rw) \in DeletionRow
           /\ AgeRow(rw) \in DeletionRow
           /\ RetryComesDue(rw) \in DeletionRow
           /\ MarkDeletionCompleted(rw) \in DeletionRow
           /\ \A p \in DeletionPhases : AdvanceDeletionPhase(rw, p) \in DeletionRow
           /\ \A n \in ForceLevels, t \in RetryTimes :
                 RecordDeletionAttempt(rw, n, t) \in DeletionRow
<1> USE MaxAgeAssumption DEF DeletionRow
<1>1. MarkDeletionRequested(rw) \in DeletionRow
  <2>1. /\ "deleted" \in DesiredStates /\ "terminating" \in Lifecycles
        /\ "requested" \in DeletionPhases /\ "due" \in RetryTimes
    BY DEF DesiredStates, Lifecycles, DeletionPhases, RetryTimes
  <2>2. 0 \in ForceLevels
    BY DEF ForceLevels
  <2>3. (IF rw.age = -1 THEN 0 ELSE rw.age) \in -1..MaxAge
    OBVIOUS
  <2> QED
    BY <2>1, <2>2, <2>3 DEF MarkDeletionRequested
<1>2. AgeRow(rw) \in DeletionRow
  BY DEF AgeRow
<1>3. RetryComesDue(rw) \in DeletionRow
  BY DEF RetryComesDue, RetryTimes
<1>4. MarkDeletionCompleted(rw) \in DeletionRow
  BY DEF MarkDeletionCompleted, DesiredStates, Lifecycles, DeletionPhases, RetryTimes
<1>5. \A p \in DeletionPhases : AdvanceDeletionPhase(rw, p) \in DeletionRow
  BY DEF AdvanceDeletionPhase
<1>6. \A n \in ForceLevels, t \in RetryTimes :
         RecordDeletionAttempt(rw, n, t) \in DeletionRow
  BY DEF RecordDeletionAttempt
<1> QED
  BY <1>1, <1>2, <1>3, <1>4, <1>5, <1>6

\* Delete and the TTL cleaner: MarkDeletionRequested preserves the invariant.
LEMMA RequestStep ==
    ASSUME IInv, NEW s \in Sandboxes,
           row' = [row EXCEPT ![s] = MarkDeletionRequested(@)],
           listed' \subseteq Sandboxes, UNCHANGED <<kind, cl, server, faults>>
    PROVE  IInv'
<1>1. row \in [Sandboxes -> DeletionRow]
  BY DEF IInv, TypeOK
<1>2. row' \in [Sandboxes -> DeletionRow]
  BY <1>1, RowTypes
<1>3. TypeOK'
  BY <1>2 DEF IInv, TypeOK, server
<1>4. ASSUME NEW t \in Sandboxes PROVE RowStepOK(t)
  <2>1. CASE t # s \/ row[s].lifecycle = "deleted"
    BY <1>1, <2>1, KeepsRow DEF MarkDeletionRequested
  <2>2. CASE t = s /\ row[s].lifecycle # "deleted"
    <3>1. row'[s].phase = "requested" /\ row'[s].lifecycle = "terminating"
      BY <1>1, <2>2 DEF MarkDeletionRequested, DeletionRow
    <3> QED
      BY <2>2, <3>1 DEF RowStepOK
  <2> QED
    BY <2>1, <2>2
<1> QED
  BY <1>3, <1>4, RowOnlyStep

\* The clock and the backoff preserve the invariant.
LEMMA TimeStep ==
    ASSUME IInv, NEW s \in Sandboxes, Tick(s) \/ BackoffElapses(s)
    PROVE  IInv'
<1>1. row \in [Sandboxes -> DeletionRow]
  BY DEF IInv, TypeOK
<1>2. row' \in [Sandboxes -> DeletionRow]
  BY <1>1, RowTypes DEF Tick, BackoffElapses
<1>3. TypeOK'
  BY <1>2 DEF IInv, TypeOK, server, Tick, BackoffElapses
<1>4. \A t \in Sandboxes : row'[t].phase = row[t].phase /\ row'[t].lifecycle = row[t].lifecycle
  BY <1>1 DEF Tick, BackoffElapses, AgeRow, RetryComesDue, DeletionRow
<1> QED
  BY <1>3, <1>4, KeepsRow, RowOnlyStep DEF Tick, BackoffElapses

\* Steps of one pass that leave the cluster alone.
LEMMA PassStep ==
    ASSUME IInv, TypeOK', kind' = kind, cl' = cl, NEW r \in Runners,
           \A s \in Sandboxes : RowStepOK(s) /\ CopiesStepOK(s),
           \A q \in Runners \ {r} : /\ pc'[q] = pc[q] /\ cur'[q] = cur[q]
                                    /\ snap'[q] = snap[q] /\ ops'[q] = ops[q],
           PassOK(r)'
    PROVE  IInv'
<1>1. \A s \in Sandboxes : Shrinks(cl[s], cl'[s])
  BY DEF IInv, TypeOK, Shrinks
<1>2. \A q \in Runners : PassOK(q)'
  BY <1>1, PassFrame
<1>3. \A s \in Sandboxes : PhaseOK(s)' /\ RowOK(s)' /\ ClusterOK(s)'
  BY <1>1, SandboxFrame DEF ClaimStepOK
<1> QED
  BY <1>2, <1>3 DEF IInv

\* RunPending listing what is due preserves the invariant.
LEMMA ListStep ==
    ASSUME IInv, NEW r \in Runners, ListPendingDeletion(r)
    PROVE  IInv'
<1> USE DEF ListPendingDeletion
<1> DEFINE pending == {s \in Sandboxes : PendingDeletion(row[s])}
           copies  == [s \in Sandboxes |->
                         IF s \in pending
                         THEN [phase |-> row[s].phase, force |-> row[s].force]
                         ELSE NoRec]
<1>1. TypeOK
  BY DEF IInv
<1>2. \A s \in Sandboxes : [phase |-> row[s].phase, force |-> row[s].force] \in Rec
  BY <1>1 DEF TypeOK, DeletionRow, Rec
<1>3. NoRec \in Rec /\ NoRec.phase = ""
  BY Defaults
<1>4. recs' \in [Runners -> [Sandboxes -> Rec]]
  <2>1. copies \in [Sandboxes -> Rec]
    BY <1>2, <1>3
  <2>2. recs' = [recs EXCEPT ![r] = copies]
    OBVIOUS
  <2> HIDE DEF copies
  <2> QED
    BY <1>1, <2>1, <2>2 DEF TypeOK
<1>5. pc' \in [Runners -> Steps] /\ pc'[r] = "loop"
  BY <1>1 DEF TypeOK, Steps
<1>6. TypeOK'
  BY <1>1, <1>4, <1>5 DEF TypeOK
<1>7. \A s \in Sandboxes : CopiesStepOK(s)
  <2>1. \A q \in Runners : q # r => recs'[q] = recs[q]
    BY <1>1 DEF TypeOK
  <2>2. \A s \in Sandboxes : recs'[r][s].phase \in {row[s].phase, ""}
    BY <1>1 DEF TypeOK, NoRec
  <2> QED
    BY <2>1, <2>2 DEF CopiesStepOK
<1>8. \A s \in Sandboxes : RowStepOK(s)
  BY KeepsRow
<1>9. \A q \in Runners \ {r} : pc'[q] = pc[q]
  BY <1>1 DEF TypeOK
<1> QED
  BY <1>5, <1>6, <1>7, <1>8, <1>9, PassResting, PassStep

\* processSandbox recording its attempt preserves the invariant.
LEMMA BeginStep ==
    ASSUME IInv, NEW r \in Runners, NEW s \in Sandboxes, Begin(r, s)
    PROVE  IInv'
<1> USE DEF Begin
<1>1. TypeOK
  BY DEF IInv
<1>2. recs[r][s].force \in ForceLevels
  BY <1>1 DEF TypeOK, Rec
<1>3. row' \in [Sandboxes -> DeletionRow]
  BY <1>1, <1>2, RowTypes DEF TypeOK, RetryTimes
<1>4. /\ pc' \in [Runners -> Steps]
      /\ pc'[r] = (IF kind[s].persistent THEN "deployment" ELSE "pods")
      /\ cur' \in [Runners -> Sandboxes \cup {NoSandbox}]
      /\ cur'[r] = s
  BY <1>1 DEF TypeOK, Steps
<1>5. now' \in [Runners -> -1..MaxAge]
  BY <1>1 DEF TypeOK, DeletionRow
<1>6. TypeOK'
  BY <1>1, <1>3, <1>4, <1>5 DEF TypeOK
<1>7. \A t \in Sandboxes : row'[t].phase = row[t].phase /\ row'[t].lifecycle = row[t].lifecycle
  BY <1>1 DEF TypeOK, RecordDeletionAttempt, DeletionRow
<1>8. \A t \in Sandboxes : RowStepOK(t) /\ CopiesStepOK(t)
  BY <1>7, KeepsRow DEF CopiesStepOK
<1>9. PassOK(r)'
  <2>1. ~kind[s].persistent => cl[s].dep = "absent"
    BY DEF IInv, ClusterOK
  <2> QED
    BY <1>4, <2>1 DEF PassOK, CurOK, OpsOK, SnapOK
<1>10. \A q \in Runners \ {r} : pc'[q] = pc[q] /\ cur'[q] = cur[q]
  BY <1>1 DEF TypeOK
<1> QED
  BY <1>6, <1>8, <1>9, <1>10, PassStep

\* Each of the calls of GetSandboxDeletionSnapshot preserves the invariant.
LEMMA SnapshotStep ==
    ASSUME IInv, NEW r \in Runners,
           SnapshotDeployment(r) \/ SnapshotPods(r) \/ SnapshotStorage(r)
    PROVE  IInv'
<1> DEFINE s == cur[r]
<1>1. TypeOK /\ PassOK(r) /\ s \in Sandboxes
  BY DEF IInv, PassOK, CurOK, Busy, SnapshotDeployment, SnapshotPods, SnapshotStorage
<1>2. cl[s] \in Cluster /\ snap[r] \in Snapshot
  BY <1>1 DEF TypeOK
<1>3. \A t \in Sandboxes : RowStepOK(t) /\ CopiesStepOK(t)
  BY KeepsRow DEF CopiesStepOK, SnapshotDeployment, SnapshotPods, SnapshotStorage
<1>4. \A q \in Runners \ {r} : pc'[q] = pc[q] /\ snap'[q] = snap[q]
  BY <1>1 DEF TypeOK, SnapshotDeployment, SnapshotPods, SnapshotStorage
<1>5. CASE SnapshotDeployment(r)
  <2>1. /\ pc' \in [Runners -> Steps] /\ pc'[r] = "pods"
        /\ snap' \in [Runners -> Snapshot] /\ snap'[r].dep = cl[s].dep
    BY <1>1, <1>2, <1>5 DEF TypeOK, Steps, SnapshotDeployment, Snapshot, Cluster
  <2>2. TypeOK'
    BY <1>1, <1>5, <2>1 DEF TypeOK, SnapshotDeployment
  <2>3. PassOK(r)'
    <3>1. kind[s].persistent \/ cl[s].dep = "absent"
      BY <1>1 DEF IInv, ClusterOK
    <3> QED
      BY <1>1, <1>5, <2>1, <3>1 DEF PassOK, CurOK, OpsOK, SnapOK, SnapshotDeployment
  <2> QED
    BY <1>3, <1>4, <1>5, <2>2, <2>3, PassStep DEF SnapshotDeployment
<1>6. CASE SnapshotPods(r)
  <2>1. /\ pc' \in [Runners -> Steps]
        /\ pc'[r] = (IF kind[s].persistent THEN "storage" ELSE "handle")
        /\ snap' \in [Runners -> Snapshot]
        /\ snap'[r].dep = snap[r].dep
        /\ snap'[r].pods = (cl[s].pod # "absent")
    BY <1>1, <1>2, <1>6 DEF TypeOK, Steps, SnapshotPods, Snapshot
  <2>2. TypeOK'
    BY <1>1, <1>6, <2>1 DEF TypeOK, SnapshotPods
  <2>3. PassOK(r)'
    BY <1>1, <1>6, <2>1 DEF PassOK, CurOK, OpsOK, SnapOK, SnapshotPods
  <2> QED
    BY <1>3, <1>4, <1>6, <2>2, <2>3, PassStep DEF SnapshotPods
<1>7. CASE SnapshotStorage(r)
  <2>1. /\ pc' \in [Runners -> Steps] /\ pc'[r] = "handle"
        /\ snap' \in [Runners -> Snapshot]
        /\ snap'[r].dep = snap[r].dep
        /\ snap'[r].pods = snap[r].pods
        /\ snap'[r].pvc = cl[s].pvc
    BY <1>1, <1>2, <1>7 DEF TypeOK, Steps, SnapshotStorage, Snapshot, Cluster
  <2>2. TypeOK'
    BY <1>1, <1>7, <2>1 DEF TypeOK, SnapshotStorage
  <2>3. PassOK(r)'
    BY <1>1, <1>7, <2>1 DEF PassOK, CurOK, OpsOK, SnapOK, SnapshotStorage
  <2> QED
    BY <1>3, <1>4, <1>7, <2>2, <2>3, PassStep DEF SnapshotStorage
<1> QED
  BY <1>5, <1>6, <1>7

\* The handler of the copied phase preserves the invariant: what it plans is safe.
LEMMA HandleStep ==
    ASSUME IInv, NEW r \in Runners, Handle(r)
    PROVE  IInv'
<1> DEFINE s == cur[r]
           plan == Dispatch(kind[s], recs[r][s], snap[r], now[r])
<1>1. TypeOK /\ PassOK(r) /\ PhaseOK(s) /\ pc[r] = "handle" /\ s \in Sandboxes
  BY DEF IInv, PassOK, CurOK, Busy, Handle
<1>2. plan \in Seq(SafeOps(kind[s], cl[s]))
  <2>1. /\ kind[s] \in AllKinds /\ cl[s] \in Cluster /\ recs[r][s] \in Rec
        /\ snap[r] \in Snapshot /\ now[r] \in Int
    BY <1>1, DeletionAssumptions DEF TypeOK
  <2>2. recs[r][s].phase = "deleting_storage" => Quiet(cl[s]) /\ ~kind[s].retain
    BY <1>1 DEF PhaseOK
  <2>3. /\ (kind[s].persistent => snap[r].dep = "absent") => cl[s].dep = "absent"
        /\ (kind[s].persistent => snap[r].dep = "absent") /\ ~snap[r].pods
              => cl[s].pod = "absent"
        /\ kind[s].persistent /\ snap[r].pvc = "absent" => cl[s].pvc = "absent"
    BY <1>1 DEF PassOK, SnapOK
  <2> QED
    BY <2>1, <2>2, <2>3, DispatchSafe
<1> HIDE DEF plan
<1>3. \A t \in Sandboxes : RowStepOK(t)
  BY KeepsRow DEF Handle
<1>4. CASE plan # <<>> /\ ops' = [ops EXCEPT ![r] = plan]
           /\ pc' = [pc EXCEPT ![r] = "ops"]
           /\ UNCHANGED <<booted, todo, recs, cur, now, snap>>
  <2>1. plan \in Seq(Op)
    BY <1>2, SeqMono DEF SafeOps
  <2>2. TypeOK'
    BY <1>1, <1>4, <2>1 DEF TypeOK, Handle, Steps
  <2>3. \A q \in Runners \ {r} : pc'[q] = pc[q] /\ ops'[q] = ops[q]
    BY <1>1, <1>4 DEF TypeOK
  <2>4. pc'[r] = "ops" /\ ops'[r] = plan
    BY <1>1, <1>4 DEF TypeOK
  <2>5. PassOK(r)'
    BY <1>1, <1>2, <1>4, <2>4 DEF PassOK, CurOK, OpsOK, SnapOK, Handle
  <2> QED
    BY <1>3, <1>4, <2>2, <2>3, <2>5, PassStep DEF Handle, CopiesStepOK
<1>5. CASE NextItem(r)
  <2>1. TypeOK'
    BY <1>1, <1>5, NextItemEffect DEF TypeOK, Handle
  <2> QED
    BY ZenonT(30), <1>1, <1>3, <1>5, <2>1, NextItemEffect, PassResting, PassStep
       DEF Handle, CopiesStepOK
<1> QED
  BY <1>4, <1>5 DEF Handle, plan

\* After an operation the pass goes on with the rest of the plan or leaves.
LEMMA ContinueEffect ==
    ASSUME IInv, NEW r \in Runners, pc[r] = "ops", Continue(r), kind' = kind,
           \A s \in Sandboxes : Shrinks(cl[s], cl'[s])
    PROVE  /\ pc' \in [Runners -> Steps]
           /\ booted' \subseteq Runners
           /\ todo' \in [Runners -> SUBSET Sandboxes]
           /\ recs' \in [Runners -> [Sandboxes -> Rec]]
           /\ cur' \in [Runners -> Sandboxes \cup {NoSandbox}]
           /\ now' \in [Runners -> -1..MaxAge]
           /\ snap' \in [Runners -> Snapshot]
           /\ ops' \in [Runners -> Seq(Op)]
           /\ \A q \in Runners : PassOK(q)'
           /\ \A s \in Sandboxes : CopiesStepOK(s)
<1> DEFINE s == cur[r]
<1>1. /\ TypeOK /\ s \in Sandboxes
      /\ ops[r] \in Seq(SafeOps(kind[s], cl[s])) /\ ops[r] # <<>>
  BY DEF IInv, PassOK, CurOK, OpsOK, Busy
<1>2. CASE NextItem(r)
  <2>1. PassOK(r)'
    BY <1>1, <1>2, NextItemEffect, PassResting
  <2>2. \A q \in Runners \ {r} : PassOK(q)'
    BY <1>1, <1>2, NextItemEffect, PassFrame
  <2> QED
    BY <1>1, <1>2, <2>1, <2>2, NextItemEffect DEF CopiesStepOK
<1>3. CASE /\ Tail(ops[r]) # <<>>
           /\ ops' = [ops EXCEPT ![r] = Tail(@)]
           /\ UNCHANGED <<pc, booted, todo, recs, cur, now, snap>>
  <2>1. ops' \in [Runners -> Seq(Op)]
    <3>1. Tail(ops[r]) \in Seq(Op)
      BY <1>1 DEF TypeOK
    <3> QED
      BY <1>1, <1>3, <3>1 DEF TypeOK
  <2>2. ops'[r] = Tail(ops[r]) /\ \A q \in Runners \ {r} : ops'[q] = ops[q]
    BY <1>1, <1>3 DEF TypeOK
  <2>3. PassOK(r)'
    <3>1. Tail(ops[r]) \in Seq(SafeOps(kind[s], cl[s]))
      BY <1>1, TailInSeq
    <3>2. Tail(ops[r]) \in Seq(SafeOps(kind[s], cl'[s]))
      BY <1>1, <3>1, SafeStable, SeqMono
    <3>3. pc'[r] = "ops" /\ cur'[r] = s
      BY <1>3
    <3> QED
      BY <1>1, <1>3, <2>2, <3>2, <3>3 DEF PassOK, CurOK, OpsOK, SnapOK
  <2>4. \A q \in Runners \ {r} : PassOK(q)'
    BY <1>3, <2>2, PassFrame
  <2> QED
    BY <1>1, <1>3, <2>1, <2>3, <2>4 DEF TypeOK, CopiesStepOK
<1> QED
  BY <1>2, <1>3 DEF Continue

\* A call to the cluster preserves the invariant.
LEMMA CallStep ==
    ASSUME IInv, NEW r \in Runners, CallCluster(r)
    PROVE  IInv'
<1> DEFINE s == cur[r]
           op == Head(ops[r])
<1>1. /\ TypeOK /\ pc[r] = "ops" /\ s \in Sandboxes
      /\ ops[r] \in Seq(SafeOps(kind[s], cl[s])) /\ ops[r] # <<>>
  BY DEF IInv, PassOK, CurOK, OpsOK, Busy, CallCluster
<1>2. op \in SafeOps(kind[s], cl[s]) /\ op.do \in Calls
  BY <1>1 DEF CallCluster
<1> HIDE DEF op
<1>3. cl' = [cl EXCEPT ![s] = Apply(op.do, cl[s])]
  BY DEF CallCluster, op
<1>4. /\ Shrinks(cl[s], Apply(op.do, cl[s]))
      /\ cl[s].pvc = "live" /\ Apply(op.do, cl[s]).pvc # "live" => op.do = "DeletePVC"
  BY <1>1, <1>2, CallShrinks DEF TypeOK
<1>5. \A t \in Sandboxes : Shrinks(cl[t], cl'[t])
  <2>1. \A t \in Sandboxes : Shrinks(cl[t], cl[t])
    BY <1>1 DEF TypeOK, Shrinks
  <2> QED
    BY <1>1, <1>3, <1>4, <2>1 DEF TypeOK
<1>6. \A t \in Sandboxes : ClaimStepOK(t)
  BY <1>1, <1>2, <1>3, <1>4 DEF TypeOK, SafeOps, ClaimStepOK
<1>7. \A t \in Sandboxes : RowStepOK(t)
  BY KeepsRow DEF CallCluster
<1>8. cl' \in [Sandboxes -> Cluster]
  BY <1>1, <1>3, <1>4 DEF TypeOK, Shrinks
<1>9. TypeOK'
  BY <1>1, <1>5, <1>8, ContinueEffect DEF TypeOK, CallCluster
<1> QED
  BY <1>1, <1>5, <1>6, <1>7, <1>9, ContinueEffect, SandboxFrame DEF CallCluster, IInv

\* A statement on the row preserves the invariant.
LEMMA WriteStep ==
    ASSUME IInv, NEW r \in Runners, WriteRow(r)
    PROVE  IInv'
<1> DEFINE s == cur[r]
           op == Head(ops[r])
           rw == Execute(op, recs[r][s], row[s])
<1>1. /\ TypeOK /\ pc[r] = "ops" /\ s \in Sandboxes
      /\ ops[r] \in Seq(SafeOps(kind[s], cl[s])) /\ ops[r] # <<>>
  BY DEF IInv, PassOK, CurOK, OpsOK, Busy, WriteRow
<1>2. op \in SafeOps(kind[s], cl[s]) /\ op.do \in Statements
  BY <1>1 DEF WriteRow
<1> HIDE DEF op
<1>3. row' = [row EXCEPT ![s] = rw]
  BY DEF WriteRow, op
<1>4. row[s] \in DeletionRow /\ recs[r][s].force \in ForceLevels /\ RowOK(s)
  BY <1>1 DEF TypeOK, Rec, IInv
<1>5. /\ rw \in DeletionRow
      /\ rw.phase = "completed" => rw.lifecycle = "deleted"
      /\ rw.lifecycle = "deleted" => AllGone(kind[s], cl[s])
      /\ rw.phase = "deleting_storage" =>
            \/ row[s].phase = "deleting_storage"
            \/ Quiet(cl[s]) /\ ~kind[s].retain
  <2>1. CASE op.do = "AdvanceDeletionPhase"
    <3>1. rw = AdvanceDeletionPhase(row[s], op.phase) /\ op.phase \in DeletionPhases
      BY <1>2, <2>1 DEF Execute, SafeOps, Op
    <3>2. rw \in DeletionRow
      BY <1>4, <3>1, RowTypes
    <3>3. rw.phase = op.phase /\ rw.lifecycle = row[s].lifecycle
      BY <1>4, <3>1 DEF AdvanceDeletionPhase, DeletionRow
    <3> QED
      BY <1>2, <1>4, <2>1, <3>2, <3>3 DEF SafeOps, RowOK
  <2>2. CASE op.do \in {"MarkReadyForImmediateRetry", "BumpForceLevel"}
    <3>1. \E n \in ForceLevels : rw = RecordDeletionAttempt(row[s], n, "due")
      <4>1. CASE op.do = "MarkReadyForImmediateRetry"
        BY <1>4, <4>1 DEF Execute
      <4>2. CASE op.do = "BumpForceLevel"
        <5>1. op.force \in ForceLevels
          BY <1>2 DEF SafeOps, Op
        <5> QED
          BY <4>2, <5>1 DEF Execute
      <4> QED
        BY <2>2, <4>1, <4>2
    <3>2. rw \in DeletionRow
      BY <1>4, <3>1, RowTypes DEF RetryTimes
    <3>3. rw.phase = row[s].phase /\ rw.lifecycle = row[s].lifecycle
      BY <1>4, <3>1 DEF RecordDeletionAttempt, DeletionRow
    <3>4. /\ row[s].phase = "completed" => row[s].lifecycle = "deleted"
          /\ row[s].lifecycle = "deleted" => AllGone(kind[s], cl[s])
      BY <1>4 DEF RowOK
    <3> HIDE DEF rw, s
    <3> QED
      BY <3>2, <3>3, <3>4
  <2>3. CASE op.do = "MarkDeletionCompleted"
    <3>1. rw = MarkDeletionCompleted(row[s])
      BY <2>3 DEF Execute
    <3>2. rw \in DeletionRow
      BY <1>4, <3>1, RowTypes
    <3>3. rw.phase = "completed" /\ rw.lifecycle = "deleted"
      BY <1>4, <3>1 DEF MarkDeletionCompleted, DeletionRow
    <3> QED
      BY <1>2, <2>3, <3>2, <3>3 DEF SafeOps
  <2> QED
    BY <1>2, <2>1, <2>2, <2>3 DEF Statements
<1> HIDE DEF rw
<1>6. row' \in [Sandboxes -> DeletionRow]
  BY <1>1, <1>3, <1>5 DEF TypeOK
<1>7. \A t \in Sandboxes : RowStepOK(t)
  <2>1. RowStepOK(s)
    BY <1>1, <1>3, <1>5 DEF TypeOK, RowStepOK
  <2>2. \A t \in Sandboxes \ {s} : row'[t] = row[t]
    BY <1>1, <1>3 DEF TypeOK
  <2> QED
    BY <2>1, <2>2, KeepsRow
<1>8. \A t \in Sandboxes : Shrinks(cl[t], cl'[t])
  BY <1>1 DEF TypeOK, Shrinks, WriteRow
<1>9. TypeOK'
  BY <1>1, <1>6, <1>8, ContinueEffect DEF TypeOK, WriteRow
<1> QED
  BY <1>1, <1>7, <1>8, <1>9, ContinueEffect, SandboxFrame
     DEF WriteRow, IInv, ClaimStepOK

\* A failed call or statement preserves the invariant.
LEMMA FaultStep ==
    ASSUME IInv, NEW r \in Runners,
           SnapshotFails(r) \/ OpFails(r) \/ \E s \in Sandboxes : BeginFails(r, s)
    PROVE  IInv'
<1>1. TypeOK
  BY DEF IInv
<1>2. faults' \in 0..MaxFaults
  BY <1>1, DeletionAssumptions DEF TypeOK, SnapshotFails, OpFails, BeginFails
<1>3. CASE SnapshotFails(r)
  <2> DEFINE s == cur[r]
  <2>1. s \in Sandboxes
    BY <1>3 DEF IInv, PassOK, CurOK, Busy, SnapshotFails
  <2>2. recs[r][s].force \in ForceLevels
    BY <1>1, <2>1 DEF TypeOK, Rec
  <2>3. row' \in [Sandboxes -> DeletionRow]
    BY <1>1, <1>3, <2>2, RowTypes DEF TypeOK, RetryTimes, SnapshotFails
  <2>4. \A t \in Sandboxes : row'[t].phase = row[t].phase /\ row'[t].lifecycle = row[t].lifecycle
    BY <1>1, <1>3 DEF TypeOK, RecordDeletionAttempt, DeletionRow, SnapshotFails
  <2>5. \A t \in Sandboxes : RowStepOK(t)
    BY <2>4, KeepsRow
  <2>6. TypeOK'
    BY <1>1, <1>2, <1>3, <2>1, <2>3, NextItemEffect DEF TypeOK, SnapshotFails
  <2> QED
    BY ZenonT(30), <1>1, <1>3, <2>1, <2>5, <2>6, NextItemEffect, PassResting, PassStep
       DEF SnapshotFails, CopiesStepOK
<1>4. CASE OpFails(r)
  <2>1. cur[r] \in Sandboxes
    BY <1>4 DEF IInv, PassOK, CurOK, Busy, OpFails
  <2>2. \A t \in Sandboxes : RowStepOK(t)
    BY <1>4, KeepsRow DEF OpFails
  <2>3. TypeOK'
    BY <1>1, <1>2, <1>4, <2>1, NextItemEffect DEF TypeOK, OpFails
  <2> QED
    BY ZenonT(30), <1>1, <1>4, <2>1, <2>2, <2>3, NextItemEffect, PassResting, PassStep
       DEF OpFails, CopiesStepOK
<1>5. ASSUME NEW s \in Sandboxes, BeginFails(r, s) PROVE IInv'
  <2>1. /\ pc' \in [Runners -> Steps] /\ pc'[r] \in {"idle", "loop"}
        /\ todo' \in [Runners -> SUBSET Sandboxes]
        /\ \A q \in Runners \ {r} : pc'[q] = pc[q]
    BY <1>1, <1>5 DEF TypeOK, Steps, BeginFails
  <2>2. /\ recs' \in [Runners -> [Sandboxes -> Rec]]
        /\ \A q \in Runners : \A t \in Sandboxes :
              recs'[q][t] = recs[q][t] \/ recs'[q][t].phase = ""
    <3>1. recs \in [Runners -> [Sandboxes -> Rec]]
      BY <1>1 DEF TypeOK
    <3>2. recs' = [recs EXCEPT ![r][s] = NoRec]
      BY <1>5 DEF BeginFails
    <3>3. \A q \in Runners : \A t \in Sandboxes :
             recs'[q][t] = IF q = r /\ t = s THEN NoRec ELSE recs[q][t]
      BY <3>1, <3>2
    <3>4. recs' \in [Runners -> [Sandboxes -> Rec]]
      BY <3>1, <3>2, Defaults
    <3> QED
      BY <3>3, <3>4, Defaults
  <2>3. TypeOK'
    BY <1>1, <1>2, <1>5, <2>1, <2>2 DEF TypeOK, BeginFails
  <2>4. \A t \in Sandboxes : RowStepOK(t)
    BY <1>5, KeepsRow DEF BeginFails
  <2> QED
    BY ZenonT(30), <1>5, <2>1, <2>2, <2>3, <2>4, PassResting, PassStep DEF BeginFails, CopiesStepOK
<1> QED
  BY <1>3, <1>4, <1>5

\* A restart of the server preserves the invariant.
LEMMA RestartStep ==
    ASSUME IInv, Restart
    PROVE  IInv'
<1>1. TypeOK
  BY DEF IInv
<1>2. faults' \in 0..MaxFaults
  BY <1>1, DeletionAssumptions DEF TypeOK, Restart
<1>3. now' \in [Runners -> -1..MaxAge] /\ ops' \in [Runners -> Seq(Op)]
  <2>1. 0 \in -1..MaxAge
    BY MaxAgeAssumption
  <2> QED
    BY <2>1 DEF Restart
<1>4. /\ recs' \in [Runners -> [Sandboxes -> Rec]]
      /\ snap' \in [Runners -> Snapshot]
      /\ \A r \in Runners : \A s \in Sandboxes : recs'[r][s].phase = ""
  BY Defaults DEF Restart
<1>5. TypeOK'
  BY <1>1, <1>2, <1>3, <1>4 DEF TypeOK, Restart, Steps
<1>6. \A r \in Runners : PassOK(r)'
  BY PassResting DEF Restart
<1>7. \A s \in Sandboxes : PhaseOK(s)' /\ RowOK(s)' /\ ClusterOK(s)'
  <2>1. \A s \in Sandboxes : /\ Shrinks(cl[s], cl'[s]) /\ ClaimStepOK(s)
                             /\ CopiesStepOK(s)
    BY <1>1, <1>4 DEF TypeOK, Shrinks, ClaimStepOK, CopiesStepOK, Restart
  <2> QED
    BY <2>1, KeepsRow, SandboxFrame DEF Restart
<1> QED
  BY <1>5, <1>6, <1>7 DEF IInv

\* A step of the controllers preserves the invariant.
LEMMA ClusterStep ==
    ASSUME IInv, NEW s \in Sandboxes, ControllerStep(s)
    PROVE  IInv'
<1>1. TypeOK
  BY DEF IInv
<1>2. PICK d \in ControllerSteps(kind[s].persistent, cl[s]) : cl' = [cl EXCEPT ![s] = d]
  BY DEF ControllerStep
<1>3. Shrinks(cl[s], d) /\ (cl[s].pvc = "live" => d.pvc = "live")
  <2>1. kind[s].persistent \in BOOLEAN /\ cl[s] \in Cluster
    BY <1>1, DeletionAssumptions DEF TypeOK, AllKinds
  <2> QED
    BY <2>1, ControllersShrink
<1>4. \A t \in Sandboxes : Shrinks(cl[t], cl'[t]) /\ ClaimStepOK(t)
  <2>1. \A t \in Sandboxes : Shrinks(cl[t], cl[t])
    BY <1>1 DEF TypeOK, Shrinks
  <2> QED
    BY <1>1, <1>2, <1>3, <2>1 DEF TypeOK, ClaimStepOK
<1>5. TypeOK'
  <2>1. cl' \in [Sandboxes -> Cluster]
    BY <1>1, <1>2, <1>3 DEF TypeOK, Shrinks
  <2> QED
    BY <1>1, <2>1 DEF TypeOK, ControllerStep, server
<1>6. \A r \in Runners : PassOK(r)'
  BY <1>4, PassFrame DEF ControllerStep, server
<1>7. \A t \in Sandboxes : PhaseOK(t)' /\ RowOK(t)' /\ ClusterOK(t)'
  BY <1>4, KeepsRow, SandboxFrame DEF ControllerStep, server, CopiesStepOK
<1> QED
  BY <1>5, <1>6, <1>7 DEF IInv

-----------------------------------------------------------------------------
(* The theorems *)

\* The invariant holds when every sandbox is up and no deletion was requested.
THEOREM InitInv == Init => IInv
<1> SUFFICES ASSUME Init PROVE IInv
  OBVIOUS
<1> USE DEF Init, ServerInit
<1>1. ActiveRow \in DeletionRow /\ ActiveRow.phase = "" /\ ActiveRow.lifecycle = "running"
  <2>1. /\ "active" \in DesiredStates /\ "running" \in Lifecycles
        /\ "" \in DeletionPhases /\ "null" \in RetryTimes
    BY DEF DesiredStates, Lifecycles, DeletionPhases, RetryTimes
  <2>2. -1 \in -1..MaxAge /\ 0 \in ForceLevels
    BY MaxAgeAssumption DEF ForceLevels
  <2> QED
    BY <2>1, <2>2 DEF ActiveRow, DeletionRow
<1>2. PICK st \in [Sandboxes -> StuckSets] :
         cl = [s \in Sandboxes |-> IF kind[s].persistent
                                   THEN PersistentCluster(st[s])
                                   ELSE EphemeralCluster(st[s])]
  OBVIOUS
<1>3. \A s \in Sandboxes : st[s] \in SUBSET Stickable
  BY DeletionAssumptions
<1>4. \A s \in Sandboxes :
         /\ cl[s] \in Cluster
         /\ kind[s].persistent => cl[s].pvc = "live"
         /\ ~kind[s].persistent => cl[s].dep = "absent"
  BY <1>2, <1>3 DEF PersistentCluster, EphemeralCluster, Cluster, ObjectStates
<1>5. TypeOK
  <2>1. cl \in [Sandboxes -> Cluster]
    BY <1>2, <1>4
  <2>2. row \in [Sandboxes -> DeletionRow]
    BY <1>1
  <2>3. now \in [Runners -> -1..MaxAge] /\ faults \in 0..MaxFaults
    BY MaxAgeAssumption, DeletionAssumptions
  <2>4. /\ recs \in [Runners -> [Sandboxes -> Rec]] /\ snap \in [Runners -> Snapshot]
    BY Defaults
  <2>5. ops \in [Runners -> Seq(Op)] /\ pc \in [Runners -> Steps]
    BY DEF Steps
  <2> QED
    BY <2>1, <2>2, <2>3, <2>4, <2>5 DEF TypeOK
<1>6. \A r \in Runners : PassOK(r)
  BY DEF PassOK, CurOK, OpsOK, SnapOK, Busy
<1>7. ASSUME NEW s \in Sandboxes PROVE PhaseOK(s) /\ RowOK(s) /\ ClusterOK(s)
  <2>1. PhaseOK(s) /\ RowOK(s)
    BY <1>1, Defaults DEF PhaseOK, RowOK
  <2>2. kind[s].retain => kind[s].persistent
    BY DeletionAssumptions DEF AllKinds
  <2> QED
    BY <1>4, <2>1, <2>2 DEF ClusterOK
<1> QED
  BY <1>5, <1>6, <1>7 DEF IInv

\* Every step of the API, the TTL cleaner, the passes, the cluster and the clock,
\* and every fault, preserves the invariant.
THEOREM NextInv == IInv /\ [Next]_vars => IInv'
<1> SUFFICES ASSUME IInv, [Next]_vars PROVE IInv'
  OBVIOUS
<1>1. ASSUME NEW s \in Sandboxes, Delete(s) PROVE IInv'
  BY <1>1, RequestStep DEF Delete, IInv, TypeOK
<1>2. ASSUME NEW s \in Sandboxes, MarkExpired(s) PROVE IInv'
  BY <1>2, RequestStep DEF MarkExpired, IInv, TypeOK
<1>3. CASE ListExpiredActive
  <2>1. TypeOK'
    BY <1>3 DEF IInv, TypeOK, ListExpiredActive, server
  <2> QED
    BY <1>3, <2>1, KeepsRow, RowOnlyStep DEF ListExpiredActive
<1>4. ASSUME NEW r \in Runners, Pass(r) PROVE IInv'
  BY <1>4, ListStep, BeginStep, SnapshotStep, HandleStep, CallStep, WriteStep DEF Pass
<1>5. CASE UNCHANGED vars
  <2>1. TypeOK'
    BY <1>5 DEF IInv, TypeOK, vars, server
  <2> QED
    BY <1>5, <2>1, KeepsRow, RowOnlyStep DEF vars
<1> QED
  BY <1>1, <1>2, <1>3, <1>4, <1>5, ClusterStep, TimeStep, FaultStep, RestartStep
     DEF Next, Request

\* Every variable of the executor keeps its type, whatever the passes, the
\* cluster and the faults do.
THEOREM TypeCorrect == Spec => []TypeOK
  BY InitInv, NextInv, PTL DEF Spec, IInv

\* The invariant holds throughout every behaviour of the executor.
THEOREM Invariance == Spec => []IInv
  BY InitInv, NextInv, PTL DEF Spec

\* A row says `deleted` only when its objects are gone, for any number of
\* concurrent passes (handleVerifying, MarkDeletionCompleted).
THEOREM DeletedMeansGone == Spec => []NothingLeftBehind
<1>1. IInv => NothingLeftBehind
  BY DEF IInv, RowOK, NothingLeftBehind, Gone, AllGone, Quiet
<1> QED
  BY <1>1, Invariance, PTL

\* The claim is being deleted only when nothing runs on it and nothing will.
THEOREM StorageSafety == Spec => []StorageAfterRuntime
<1>1. IInv => StorageAfterRuntime
  BY DEF IInv, ClusterOK, StorageAfterRuntime, Quiet
<1> QED
  BY <1>1, Invariance, PTL

\* No force level deletes the claim of a Retain sandbox.
THEOREM RetainSafety == Spec => []RetainKeepsPVC
<1>1. IInv => RetainKeepsPVC
  BY DEF IInv, ClusterOK, RetainKeepsPVC
<1> QED
  BY <1>1, Invariance, PTL

\* A restart anywhere leaves every unfinished deletion where the next pass
\* finds it.
THEOREM Recoverable == Spec => []UnfinishedStaysPending
<1>1. IInv => UnfinishedStaysPending
  BY DEF IInv, TypeOK, RowOK, UnfinishedStaysPending, PendingDeletion,
         RetryComesDue, DeletionRow
<1> QED
  BY <1>1, Invariance, PTL

-----------------------------------------------------------------------------
(* One pass at a time.  The pass main.go starts at boot may work on a row   *)
(* with the copy it read before the ticker's finished it, so the following  *)
(* holds of the server only as long as its passes do not overlap.           *)

\* The statements after which a handler has nothing left to do.
FinalSteps == {"BumpForceLevel", "MarkDeletionCompleted"}

\* A plan has them last, and never lowers the force level it started from.
EndsWell(q, n) ==
    \A i \in 1 .. Len(q) :
        q[i].do \in FinalSteps => /\ i = Len(q)
                                  /\ q[i].do = "BumpForceLevel" => q[i].force >= n

\* A finished row is finished in all its columns and in no pass's list; the copy
\* of a row that is in the list has its force level, unless requested anew.
ToDoOK(s) ==
    /\ row[s].lifecycle = "deleted" =>
          row[s].phase = "completed" /\ row[s].deletedAt /\ s \notin todo[Ticker]
    /\ s \in todo[Ticker] => row[s].force <= recs[Ticker][s].force

AtWorkOK ==
    /\ Busy(Ticker) => cur[Ticker] \in todo[Ticker]
    /\ pc[Ticker] = "ops" => EndsWell(ops[Ticker], recs[Ticker][cur[Ticker]].force)

SoleInv == IInv /\ AtWorkOK /\ \A s \in Sandboxes : ToDoOK(s)

\* EscalationIsKept, of one step.
Escalates == \A s \in Sandboxes : \/ row'[s].force >= row[s].force
                                  \/ row'[s].phase = "requested"

PlainOps == {o \in Op : o.do \notin FinalSteps}

\* A plan without final steps, with one at its end or nothing else, ends well.
LEMMA PlainEndsWell ==
    ASSUME NEW q \in Seq(PlainOps), NEW n
    PROVE  EndsWell(q, n)
  BY DEF EndsWell, PlainOps

\* A plan of plain steps and one that ends a pass.
LEMMA FinalEndsWell ==
    ASSUME NEW q \in Seq(PlainOps), NEW n, NEW o,
           o.do = "BumpForceLevel" => o.force >= n
    PROVE  EndsWell(q \o <<o>>, n)
<1>1. /\ Len(q \o <<o>>) = Len(q) + 1
      /\ \A i \in 1 .. Len(q) : (q \o <<o>>)[i] = q[i]
      /\ (q \o <<o>>)[Len(q) + 1] = o
  OBVIOUS
<1>2. \A i \in 1 .. Len(q) : q[i].do \notin FinalSteps
  BY DEF PlainOps
<1>3. Len(q) \in Nat
  OBVIOUS
<1> QED
  BY <1>1, <1>2, <1>3 DEF EndsWell

\* Two plans, one after the other.
LEMMA ConcatInSeq ==
    ASSUME NEW S, NEW a \in Seq(S), NEW b \in Seq(S)
    PROVE  a \o b \in Seq(S)
  OBVIOUS

\* What the handlers plan ends well.
LEMMA DispatchEndsWell ==
    ASSUME NEW k, NEW rec \in Rec, NEW sn, NEW at
    PROVE  EndsWell(Dispatch(k, rec, sn, at), rec.force)
<1> DEFINE P == PlainOps
<1> HIDE DEF P
<1>1. /\ \A name \in Calls : Do(name) \in P
      /\ Retry \in P
      /\ \A p \in DeletionPhases : SetPhase(p) \in P
  <2>1. /\ \A name \in Calls \cup Statements : Do(name) \in Op /\ Do(name).do = name
        /\ \A p \in DeletionPhases : SetPhase(p) \in Op /\ SetPhase(p).do = "AdvanceDeletionPhase"
    BY DEF Do, SetPhase, Op, Statements, DeletionPhases, ForceLevels
  <2>2. Calls \cap FinalSteps = {}
    BY DEF Calls, FinalSteps
  <2>3. "AdvanceDeletionPhase" \notin FinalSteps
    BY DEF FinalSteps
  <2>4. "MarkReadyForImmediateRetry" \in Statements \ FinalSteps
    BY DEF FinalSteps, Statements
  <2> QED
    BY <2>1, <2>2, <2>3, <2>4 DEF P, PlainOps, Retry
<1>2. \A p \in DeletionPhases : TransitionPhase(p) \in Seq(P)
  BY <1>1 DEF TransitionPhase
<1>3. \A q \in Seq(P) : EndsWell(q, rec.force)
  BY PlainEndsWell DEF P
<1>4. \A q \in Seq(P), n \in 1 .. 3 : rec.force <= n => EndsWell(q \o BumpForceLevel(n), rec.force)
  <2> TAKE q \in Seq(P), n \in 1 .. 3
  <2> HAVE rec.force <= n
  <2>1. SetForce(n).force >= rec.force
    BY DEF SetForce, Rec, ForceLevels
  <2> QED
    BY <2>1, FinalEndsWell DEF P, BumpForceLevel
<1>5. <<>> \in Seq(P) /\ \A q \in Seq(P) : Append(q, Retry) \in Seq(P)
  BY <1>1
<1>6. \A retain : DeletePersistentSandbox(retain) \in Seq(P)
  BY <1>1 DEF DeletePersistentSandbox, Calls
<1>7. EndsWell(HandleQuiescingRuntime(k, rec, sn, at), rec.force)
  <2>1. <<Do("DeletePod"), Retry>> \in Seq(P)
    BY <1>1 DEF Calls
  <2>2. HandleQuiescingRuntime(k, rec, sn, at) \in Seq(P)
    BY <1>2, <1>5, <1>6, <2>1 DEF HandleQuiescingRuntime, DeletionPhases
  <2> QED
    BY <1>3, <2>2
<1>8. EndsWell(HandleDeletingStorage(k, rec, sn, at), rec.force)
  <2>1. HandleDeletingStorage(k, rec, sn, at) \in Seq(P)
    BY <1>2, <1>5, <1>6 DEF HandleDeletingStorage, DeletionPhases
  <2> QED
    BY <1>3, <2>1
<1>9. EndsWell(HandleForceCleanup(k, rec, sn, at), rec.force)
  <2>1. CASE rec.force = 0
    <3> DEFINE a == IF sn.pods THEN <<Do("ForceDeletePodByName")>> ELSE <<>>
               b == IF sn.dep = "deleting" THEN <<Do("PatchDeploymentFinalizers")>> ELSE <<>>
    <3>1. a \in Seq(P) /\ b \in Seq(P)
      BY <1>1, <1>5 DEF Calls
    <3>2. HandleForceCleanup(k, rec, sn, at) = a \o b \o BumpForceLevel(1)
      BY <2>1 DEF HandleForceCleanup
    <3> HIDE DEF a, b
    <3>3. PICK q \in Seq(P) : q = a \o b
      BY <3>1, ConcatInSeq
    <3>4. EndsWell(q \o BumpForceLevel(1), rec.force)
      BY <1>4, <2>1
    <3> QED
      BY <3>2, <3>3, <3>4
  <2>2. CASE rec.force = 1
    <3> DEFINE a == IF CanForceDeletePVC(k, sn) /\ at >= PVCForceCleanupThreshold
                    THEN <<Do("PatchPVCFinalizers")>> \o DeletePersistentSandbox(k.retain)
                    ELSE <<>>
    <3>1. <<Do("PatchPVCFinalizers")>> \in Seq(P)
      BY <1>1 DEF Calls
    <3>2. a \in Seq(P)
      BY <1>5, <1>6, <3>1
    <3>3. HandleForceCleanup(k, rec, sn, at) = a \o BumpForceLevel(2)
      BY <2>2 DEF HandleForceCleanup
    <3> HIDE DEF a
    <3> QED
      BY <1>4, <2>2, <3>2, <3>3
  <2>3. CASE rec.force = 2
    <3> DEFINE a == IF sn.pv /\ at >= StorageAttachmentCleanupAfter
                    THEN CleanupStorageAttachments(sn) ELSE <<>>
    <3>1. CleanupStorageAttachments(sn) \in Seq(P)
      BY <1>1 DEF CleanupStorageAttachments, Calls
    <3>2. a \in Seq(P)
      BY <1>5, <3>1
    <3>3. HandleForceCleanup(k, rec, sn, at) = a \o BumpForceLevel(3)
      BY <2>3 DEF HandleForceCleanup
    <3> HIDE DEF a
    <3> QED
      BY <1>4, <2>3, <3>2, <3>3
  <2>4. CASE rec.force \notin {0, 1, 2}
    BY <1>2, <1>3, <2>4 DEF HandleForceCleanup, DeletionPhases
  <2> QED
    BY <2>1, <2>2, <2>3, <2>4
<1>10. EndsWell(HandleVerifying(k, rec, sn, at), rec.force)
  <2>1. EndsWell(<<Do("MarkDeletionCompleted")>>, rec.force)
    <3>1. Len(<<Do("MarkDeletionCompleted")>>) = 1
      OBVIOUS
    <3>2. <<Do("MarkDeletionCompleted")>>[1].do = "MarkDeletionCompleted"
      BY DEF Do
    <3> QED
      BY <3>1, <3>2 DEF EndsWell
  <2> QED
    BY <1>2, <1>3, <2>1 DEF HandleVerifying, DeletionPhases
<1>11. EndsWell(TransitionPhase("quiescing_runtime"), rec.force) /\ EndsWell(<<>>, rec.force)
  BY <1>2, <1>3, <1>5 DEF DeletionPhases
<1> QED
  BY <1>7, <1>8, <1>9, <1>10, <1>11 DEF Dispatch

\* What the statements do to the columns of a row.
LEMMA AttemptColumns ==
    ASSUME NEW rw \in DeletionRow, NEW n, NEW t,
           NEW new, new = RecordDeletionAttempt(rw, n, t)
    PROVE  /\ new.lifecycle = rw.lifecycle /\ new.phase = rw.phase
           /\ new.deletedAt = rw.deletedAt /\ new.force = n
  BY DEF DeletionRow, RecordDeletionAttempt

\* What the writes of the store leave of the columns that matter.
LEMMA AdvanceColumns ==
    ASSUME NEW rw \in DeletionRow, NEW p,
           NEW new, new = AdvanceDeletionPhase(rw, p)
    PROVE  new.lifecycle = rw.lifecycle /\ new.force = rw.force
  BY DEF DeletionRow, AdvanceDeletionPhase

\* The row is marked completed.
LEMMA CompletedColumns ==
    ASSUME NEW rw \in DeletionRow, NEW new, new = MarkDeletionCompleted(rw)
    PROVE  /\ new.lifecycle = "deleted" /\ new.phase = "completed"
           /\ new.deletedAt = TRUE /\ new.force = rw.force
  BY DEF DeletionRow, MarkDeletionCompleted

\* A deletion is requested, or refused.
LEMMA RequestedColumns ==
    ASSUME NEW rw \in DeletionRow, NEW new, new = MarkDeletionRequested(rw)
    PROVE  \/ new = rw
           \/ /\ new.lifecycle = "terminating" /\ new.phase = "requested"
              /\ new.force = 0
  BY DEF DeletionRow, MarkDeletionRequested

\* Time passes.
LEMMA TimeColumns ==
    ASSUME NEW rw \in DeletionRow, NEW new,
           new = AgeRow(rw) \/ new = RetryComesDue(rw)
    PROVE  /\ new.lifecycle = rw.lifecycle /\ new.phase = rw.phase
           /\ new.deletedAt = rw.deletedAt /\ new.force = rw.force
  BY DEF DeletionRow, AgeRow, RetryComesDue

\* A row that keeps its columns, and the copies of it, stay as they should be.
LEMMA RowsStay ==
    ASSUME NEW s \in Sandboxes, ToDoOK(s), row'[s] = row[s],
           todo'[Ticker] \subseteq todo[Ticker],
           s \in todo'[Ticker] => recs'[Ticker][s] = recs[Ticker][s]
    PROVE  ToDoOK(s)'
  BY DEF ToDoOK

\* Leaving a sandbox.
LEMMA LeaveOK ==
    ASSUME SoleInv, cur[Ticker] \in Sandboxes, NextItem(Ticker)
    PROVE  /\ AtWorkOK'
           /\ cur[Ticker] \notin todo'[Ticker]
           /\ todo'[Ticker] \subseteq todo[Ticker]
           /\ \A s \in Sandboxes : s \in todo'[Ticker] => recs'[Ticker][s] = recs[Ticker][s]
<1>1. TypeOK /\ Ticker \in Runners
  BY DeletionAssumptions DEF SoleInv, IInv
<1>2. pc'[Ticker] \in {"idle", "loop"}
  BY <1>1 DEF NextItem, TypeOK
<1>3. AtWorkOK'
  BY <1>2 DEF AtWorkOK, Busy
<1>4. todo'[Ticker] = todo[Ticker] \ {cur[Ticker]}
  BY <1>1 DEF NextItem, TypeOK
<1>5. \A s \in Sandboxes : s # cur[Ticker] => recs'[Ticker][s] = recs[Ticker][s]
  BY <1>1 DEF NextItem, TypeOK
<1> QED
  BY <1>3, <1>4, <1>5

\* Going on with the plan, or leaving; after a final step only leaving.
LEMMA GoOnOK ==
    ASSUME SoleInv, pc[Ticker] = "ops", Continue(Ticker)
    PROVE  /\ AtWorkOK'
           /\ Head(ops[Ticker]).do \in FinalSteps => cur[Ticker] \notin todo'[Ticker]
           /\ todo'[Ticker] \subseteq todo[Ticker]
           /\ \A s \in Sandboxes : s \in todo'[Ticker] => recs'[Ticker][s] = recs[Ticker][s]
<1> DEFINE q == ops[Ticker]
           n == recs[Ticker][cur[Ticker]].force
<1>1. /\ TypeOK /\ Ticker \in Runners /\ cur[Ticker] \in Sandboxes
      /\ q \in Seq(Op) /\ q # <<>> /\ EndsWell(q, n)
  BY DeletionAssumptions DEF SoleInv, IInv, TypeOK, PassOK, CurOK, OpsOK, Busy, AtWorkOK
<1>2. CASE NextItem(Ticker)
  BY <1>1, <1>2, LeaveOK
<1>3. CASE /\ Tail(q) # <<>>
           /\ ops' = [ops EXCEPT ![Ticker] = Tail(@)]
           /\ UNCHANGED <<pc, booted, todo, recs, cur, now, snap>>
  <2>1. ops'[Ticker] = Tail(q)
    BY <1>1, <1>3 DEF TypeOK
  <2>2. PICK t \in Seq(Op) : t = Tail(q)
    BY <1>1, TailInSeq
  <2>3. Len(q) \in Nat /\ Len(q) > 1 /\ Len(t) = Len(q) - 1 /\ \A i \in 1 .. Len(t) : t[i] = q[i + 1]
    BY <1>1, <1>3, <2>2
  <2>4. EndsWell(t, n)
    <3> SUFFICES ASSUME NEW i \in 1 .. Len(t), t[i].do \in FinalSteps
                 PROVE  i = Len(t) /\ (t[i].do = "BumpForceLevel" => t[i].force >= n)
      BY DEF EndsWell
    <3> HIDE DEF q, n
    <3>1. i + 1 \in 1 .. Len(q) /\ t[i] = q[i + 1]
      BY <2>3
    <3>2. i + 1 = Len(q) /\ (q[i + 1].do = "BumpForceLevel" => q[i + 1].force >= n)
      BY <1>1, <3>1 DEF EndsWell
    <3> QED
      BY <2>3, <3>1, <3>2
  <2>5. Head(q).do \notin FinalSteps
    <3>1. Head(q) = q[1] /\ 1 \in 1 .. Len(q) /\ 1 # Len(q)
      BY <1>1, <2>3
    <3> QED
      BY <1>1, <3>1 DEF EndsWell
  <2>6. AtWorkOK'
    BY <1>3, <2>1, <2>2, <2>4 DEF AtWorkOK, Busy, SoleInv
  <2> QED
    BY <1>3, <2>5, <2>6
<1> QED
  BY <1>2, <1>3 DEF Continue

\* A step that writes one row: what it must not do to keep the invariant.
LEMMA OneRowSole ==
    ASSUME SoleInv, NEW s \in Sandboxes, NEW new,
           row' = [row EXCEPT ![s] = new],
           todo'[Ticker] \subseteq todo[Ticker],
           \A x \in Sandboxes : x \in todo'[Ticker] => recs'[Ticker][x] = recs[Ticker][x],
           new.force >= row[s].force \/ new.phase = "requested",
           new.lifecycle = "deleted" =>
              new.phase = "completed" /\ new.deletedAt /\ s \notin todo'[Ticker],
           s \in todo'[Ticker] => new.force <= recs[Ticker][s].force
    PROVE  (\A x \in Sandboxes : ToDoOK(x)') /\ Escalates
<1>1. row \in [Sandboxes -> DeletionRow]
  BY DEF SoleInv, IInv, TypeOK
<1>2. row'[s] = new /\ \A x \in Sandboxes \ {s} : row'[x] = row[x]
  BY <1>1
<1>3. ToDoOK(s)'
  BY <1>2 DEF ToDoOK
<1>4. \A x \in Sandboxes \ {s} : ToDoOK(x)'
  BY <1>2, RowsStay DEF SoleInv
<1>5. \A x \in Sandboxes : row[x].force \in 0 .. 3
  BY <1>1 DEF DeletionRow, ForceLevels
<1>6. ASSUME NEW x \in Sandboxes
      PROVE  row'[x].force >= row[x].force \/ row'[x].phase = "requested"
  <2>1. CASE x = s
    BY <1>2, <2>1
  <2>2. CASE x # s
    <3>1. row'[x].force = row[x].force
      BY <1>2, <2>2
    <3> QED
      BY <1>5, <3>1
  <2> QED
    BY <2>1, <2>2
<1> QED
  BY <1>3, <1>4, <1>6 DEF Escalates

\* What the invariant says of one row and of the pass's copy of it.
LEMMA RowFacts ==
    ASSUME SoleInv, NEW s \in Sandboxes
    PROVE  /\ Ticker \in Runners /\ row[s] \in DeletionRow
           /\ row[s].force \in 0 .. 3 /\ recs[Ticker][s].force \in 0 .. 3
           /\ row[s].lifecycle = "deleted" =>
                 row[s].phase = "completed" /\ row[s].deletedAt /\ s \notin todo[Ticker]
           /\ s \in todo[Ticker] => row[s].force <= recs[Ticker][s].force
<1>1. /\ row \in [Sandboxes -> DeletionRow] /\ Ticker \in Runners
      /\ recs \in [Runners -> [Sandboxes -> Rec]]
  BY DeletionAssumptions DEF SoleInv, IInv, TypeOK
<1>2. row[s].force \in 0 .. 3 /\ recs[Ticker][s].force \in 0 .. 3
  BY <1>1 DEF DeletionRow, Rec, ForceLevels
<1> QED
  BY <1>1, <1>2 DEF SoleInv, ToDoOK

\* Requests and time do not touch the pass.
LEMMA RowStepSole ==
    ASSUME SoleInv, NEW s \in Sandboxes, UNCHANGED server, NEW new,
           row' = [row EXCEPT ![s] = new],
           \/ new = MarkDeletionRequested(row[s])
           \/ new = AgeRow(row[s]) \/ new = RetryComesDue(row[s])
    PROVE  AtWorkOK' /\ (\A t \in Sandboxes : ToDoOK(t)') /\ Escalates
<1>1. /\ row[s] \in DeletionRow
      /\ row[s].force \in 0 .. 3 /\ recs[Ticker][s].force \in 0 .. 3
      /\ row[s].lifecycle = "deleted" =>
            row[s].phase = "completed" /\ row[s].deletedAt /\ s \notin todo[Ticker]
      /\ s \in todo[Ticker] => row[s].force <= recs[Ticker][s].force
  BY RowFacts
<1>2. AtWorkOK'
  BY DEF SoleInv, AtWorkOK, Busy, server
<1>3. \/ /\ new.lifecycle = "terminating" /\ new.phase = "requested" /\ new.force = 0
      \/ /\ new.lifecycle = row[s].lifecycle /\ new.phase = row[s].phase
         /\ new.deletedAt = row[s].deletedAt /\ new.force = row[s].force
  BY <1>1, RequestedColumns, TimeColumns
<1>4. todo' = todo /\ recs' = recs
  BY DEF server
<1>5. /\ new.force >= row[s].force \/ new.phase = "requested"
      /\ new.lifecycle = "deleted" =>
            new.phase = "completed" /\ new.deletedAt /\ s \notin todo[Ticker]
      /\ s \in todo[Ticker] => new.force <= recs[Ticker][s].force
  BY <1>1, <1>3
<1>6. (\A t \in Sandboxes : ToDoOK(t)') /\ Escalates
  BY <1>4, <1>5, OneRowSole
<1> QED
  BY <1>2, <1>6

\* Steps that leave the rows alone.
LEMMA NoRowStepSole ==
    ASSUME SoleInv, row' = row, todo'[Ticker] \subseteq todo[Ticker],
           \A s \in Sandboxes : s \in todo'[Ticker] => recs'[Ticker][s] = recs[Ticker][s]
    PROVE  (\A t \in Sandboxes : ToDoOK(t)') /\ Escalates
<1>1. \A t \in Sandboxes : row[t].force \in 0 .. 3
  BY RowFacts
<1> QED
  BY <1>1, RowsStay DEF SoleInv, Escalates

\* The attempt is recorded with the copy's force level, which is not below the
\* row's.
LEMMA AttemptSole ==
    ASSUME SoleInv, NEW s \in Sandboxes, s \in todo[Ticker], NEW t,
           row' = [row EXCEPT ![s] = RecordDeletionAttempt(@, recs[Ticker][s].force, t)],
           todo'[Ticker] \subseteq todo[Ticker],
           \A x \in Sandboxes : x \in todo'[Ticker] => recs'[Ticker][x] = recs[Ticker][x]
    PROVE  (\A x \in Sandboxes : ToDoOK(x)') /\ Escalates
<1>1. /\ row[s] \in DeletionRow
      /\ row[s].force \in 0 .. 3 /\ recs[Ticker][s].force \in 0 .. 3
      /\ row[s].lifecycle # "deleted" /\ row[s].force <= recs[Ticker][s].force
  BY RowFacts
<1>2. PICK new : new = RecordDeletionAttempt(row[s], recs[Ticker][s].force, t)
  OBVIOUS
<1>3. row' = [row EXCEPT ![s] = new]
  BY <1>2
<1>4. new.lifecycle = row[s].lifecycle /\ new.force = recs[Ticker][s].force
  BY <1>1, <1>2, AttemptColumns
<1>5. /\ new.force >= row[s].force /\ new.lifecycle # "deleted"
      /\ new.force <= recs[Ticker][s].force
  BY <1>1, <1>4
<1> QED
  BY <1>3, <1>5, OneRowSole, Zenon

\* A statement of the handler.
LEMMA WriteSole ==
    ASSUME SoleInv, WriteRow(Ticker)
    PROVE  AtWorkOK' /\ (\A x \in Sandboxes : ToDoOK(x)') /\ Escalates
<1> DEFINE q == ops[Ticker]
<1>1. PICK s \in Sandboxes : s = cur[Ticker]
  BY DeletionAssumptions DEF SoleInv, IInv, PassOK, CurOK, Busy, WriteRow
<1>2. PICK n : n = recs[Ticker][s].force
  OBVIOUS
<1>3. /\ s \in todo[Ticker] /\ pc[Ticker] = "ops"
      /\ q \in Seq(Op) /\ q # <<>> /\ EndsWell(q, n)
  BY <1>1, <1>2, DeletionAssumptions
     DEF SoleInv, IInv, TypeOK, PassOK, OpsOK, Busy, AtWorkOK, WriteRow
<1>4. /\ row[s] \in DeletionRow /\ row[s].force \in 0 .. 3 /\ n \in 0 .. 3
      /\ row[s].lifecycle # "deleted" /\ row[s].force <= n
  BY <1>2, <1>3, RowFacts
<1>5. PICK op \in Op : op = Head(q) /\ op = q[1]
  BY <1>3
<1>6. /\ AtWorkOK' /\ todo'[Ticker] \subseteq todo[Ticker]
      /\ op.do \in FinalSteps => s \notin todo'[Ticker]
      /\ \A x \in Sandboxes : x \in todo'[Ticker] => recs'[Ticker][x] = recs[Ticker][x]
  BY <1>1, <1>3, <1>5, GoOnOK DEF WriteRow
<1>7. PICK new : new = Execute(op, recs[Ticker][s], row[s])
  OBVIOUS
<1>8. op.do \in Statements /\ row' = [row EXCEPT ![s] = new]
  BY <1>1, <1>5, <1>7 DEF WriteRow
<1>9. op.do = "BumpForceLevel" => op.force >= n /\ op.force \in 0 .. 3
  <2>1. 1 \in 1 .. Len(q)
    BY <1>3
  <2> QED
    BY <1>3, <1>5, <2>1 DEF EndsWell, FinalSteps, Op, ForceLevels
<1>10. /\ new.force >= row[s].force
       /\ new.lifecycle = "deleted" =>
             new.phase = "completed" /\ new.deletedAt /\ s \notin todo'[Ticker]
       /\ s \in todo'[Ticker] => new.force <= recs[Ticker][s].force
  <2>1. CASE op.do = "AdvanceDeletionPhase"
    <3>1. new = AdvanceDeletionPhase(row[s], op.phase)
      BY <1>7, <2>1 DEF Execute
    <3>2. new.lifecycle = row[s].lifecycle /\ new.force = row[s].force
      BY <1>4, <3>1, AdvanceColumns
    <3> QED
      BY <1>2, <1>4, <3>2
  <2>2. CASE op.do = "MarkReadyForImmediateRetry"
    <3>1. new = RecordDeletionAttempt(row[s], n, "due")
      BY <1>2, <1>7, <2>2 DEF Execute
    <3>2. new.lifecycle = row[s].lifecycle /\ new.force = n
      BY <1>4, <3>1, AttemptColumns
    <3> QED
      BY <1>2, <1>4, <3>2
  <2>3. CASE op.do = "BumpForceLevel"
    <3>1. new = RecordDeletionAttempt(row[s], op.force, "due")
      BY <1>7, <2>3 DEF Execute
    <3>2. new.lifecycle = row[s].lifecycle /\ new.force = op.force
      BY <1>4, <3>1, AttemptColumns
    <3>3. s \notin todo'[Ticker]
      BY <1>6, <2>3 DEF FinalSteps
    <3> QED
      BY <1>4, <1>9, <2>3, <3>2, <3>3
  <2>4. CASE op.do = "MarkDeletionCompleted"
    <3>1. new = MarkDeletionCompleted(row[s])
      BY <1>7, <2>4 DEF Execute
    <3>2. s \notin todo'[Ticker]
      BY <1>6, <2>4 DEF FinalSteps
    <3>3. /\ new.lifecycle = "deleted" /\ new.phase = "completed"
          /\ new.deletedAt = TRUE /\ new.force = row[s].force
      BY <1>4, <3>1, CompletedColumns
    <3> QED
      BY <1>4, <3>2, <3>3
  <2> QED
    BY <1>8, <2>1, <2>2, <2>3, <2>4 DEF Statements
<1>11. (\A x \in Sandboxes : ToDoOK(x)') /\ Escalates
  BY <1>6, <1>8, <1>10, OneRowSole
<1> QED
  BY <1>6, <1>11

\* A new pass lists rows that are not finished, with their force levels.
LEMMA ListSole ==
    ASSUME SoleInv, ListPendingDeletion(Ticker)
    PROVE  AtWorkOK' /\ (\A x \in Sandboxes : ToDoOK(x)') /\ Escalates
<1>1. TypeOK /\ Ticker \in Runners
  BY DeletionAssumptions DEF SoleInv, IInv
<1>2. pc'[Ticker] = "loop" /\ row' = row
  BY <1>1 DEF ListPendingDeletion, TypeOK
<1>3. todo'[Ticker] = {s \in Sandboxes : PendingDeletion(row[s])}
  BY <1>1 DEF ListPendingDeletion, TypeOK
<1>4. \A x \in Sandboxes : x \in todo'[Ticker] => recs'[Ticker][x].force = row[x].force
  BY <1>1, <1>3 DEF ListPendingDeletion, TypeOK
<1>5. \A x \in Sandboxes : row[x].force \in 0 .. 3
  BY RowFacts
<1>6. AtWorkOK'
  BY <1>2 DEF AtWorkOK, Busy
<1>7. ASSUME NEW x \in Sandboxes PROVE ToDoOK(x)'
  <2>1. x \in todo'[Ticker] => row[x].lifecycle # "deleted"
    BY <1>3 DEF PendingDeletion
  <2>2. row[x].lifecycle = "deleted" => row[x].phase = "completed" /\ row[x].deletedAt
    BY RowFacts
  <2>3. x \in todo'[Ticker] => row[x].force <= recs'[Ticker][x].force
    BY <1>4, <1>5
  <2> QED
    BY <1>2, <2>1, <2>2, <2>3 DEF ToDoOK
<1> QED
  BY <1>2, <1>5, <1>6, <1>7 DEF Escalates

\* The steps of the pass that decide nothing about the row's end.
LEMMA BeginSole ==
    ASSUME SoleInv, NEW s \in Sandboxes, Begin(Ticker, s)
    PROVE  AtWorkOK' /\ (\A x \in Sandboxes : ToDoOK(x)') /\ Escalates
<1>1. TypeOK /\ Ticker \in Runners
  BY DeletionAssumptions DEF SoleInv, IInv
<1>2. cur'[Ticker] = s /\ pc'[Ticker] \in {"deployment", "pods"}
  BY <1>1 DEF Begin, TypeOK
<1>3. AtWorkOK'
  BY <1>2 DEF AtWorkOK, Begin
<1>4. (\A x \in Sandboxes : ToDoOK(x)') /\ Escalates
  BY AttemptSole DEF Begin
<1> QED
  BY <1>3, <1>4

\* The pass looks at the cluster.
LEMMA SnapshotSole ==
    ASSUME SoleInv,
           SnapshotDeployment(Ticker) \/ SnapshotPods(Ticker) \/ SnapshotStorage(Ticker)
    PROVE  AtWorkOK' /\ (\A x \in Sandboxes : ToDoOK(x)') /\ Escalates
<1>1. TypeOK /\ Ticker \in Runners
  BY DeletionAssumptions DEF SoleInv, IInv
<1>2. Busy(Ticker) /\ pc'[Ticker] # "ops"
  BY <1>1 DEF SnapshotDeployment, SnapshotPods, SnapshotStorage, TypeOK, Busy
<1>3. UNCHANGED <<row, todo, recs, cur>>
  BY DEF SnapshotDeployment, SnapshotPods, SnapshotStorage
<1>4. AtWorkOK'
  BY <1>2, <1>3 DEF SoleInv, AtWorkOK
<1> QED
  BY <1>3, <1>4, NoRowStepSole

\* The pass plans.
LEMMA HandleSole ==
    ASSUME SoleInv, Handle(Ticker)
    PROVE  AtWorkOK' /\ (\A x \in Sandboxes : ToDoOK(x)') /\ Escalates
<1>1. /\ TypeOK /\ Ticker \in Runners /\ cur[Ticker] \in Sandboxes
      /\ cur[Ticker] \in todo[Ticker] /\ row' = row
  BY DeletionAssumptions DEF SoleInv, IInv, PassOK, CurOK, Busy, AtWorkOK, Handle
<1>2. CASE NextItem(Ticker)
  BY <1>1, <1>2, LeaveOK, NoRowStepSole
<1>3. CASE /\ ops' = [ops EXCEPT ![Ticker] =
                         Dispatch(kind[cur[Ticker]], recs[Ticker][cur[Ticker]],
                                  snap[Ticker], now[Ticker])]
           /\ UNCHANGED <<booted, todo, recs, cur, now, snap>>
  <2>1. recs[Ticker][cur[Ticker]] \in Rec
    BY <1>1 DEF TypeOK
  <2>2. EndsWell(Dispatch(kind[cur[Ticker]], recs[Ticker][cur[Ticker]],
                          snap[Ticker], now[Ticker]), recs[Ticker][cur[Ticker]].force)
    BY <2>1, DispatchEndsWell
  <2>3. ops'[Ticker] = Dispatch(kind[cur[Ticker]], recs[Ticker][cur[Ticker]],
                                snap[Ticker], now[Ticker])
    BY <1>1, <1>3 DEF TypeOK
  <2>4. AtWorkOK'
    BY <1>1, <1>3, <2>2, <2>3 DEF AtWorkOK
  <2> QED
    BY <1>1, <1>3, <2>4, NoRowStepSole
<1> QED
  BY <1>2, <1>3 DEF Handle

\* The pass calls the cluster.
LEMMA CallSole ==
    ASSUME SoleInv, CallCluster(Ticker)
    PROVE  AtWorkOK' /\ (\A x \in Sandboxes : ToDoOK(x)') /\ Escalates
  BY GoOnOK, NoRowStepSole DEF CallCluster

\* Failures and restarts.
LEMMA FaultSole ==
    ASSUME SoleInv,
           \/ SnapshotFails(Ticker) \/ OpFails(Ticker) \/ Restart
           \/ \E s \in Sandboxes : BeginFails(Ticker, s)
    PROVE  AtWorkOK' /\ (\A x \in Sandboxes : ToDoOK(x)') /\ Escalates
<1>1. /\ TypeOK /\ Ticker \in Runners
      /\ Busy(Ticker) => cur[Ticker] \in Sandboxes /\ cur[Ticker] \in todo[Ticker]
  BY DeletionAssumptions DEF SoleInv, IInv, PassOK, CurOK, AtWorkOK
<1>2. CASE SnapshotFails(Ticker)
  <2>1. Busy(Ticker)
    BY <1>2 DEF SnapshotFails, Busy
  <2>2. /\ AtWorkOK' /\ todo'[Ticker] \subseteq todo[Ticker]
        /\ \A x \in Sandboxes : x \in todo'[Ticker] => recs'[Ticker][x] = recs[Ticker][x]
    BY <1>1, <1>2, <2>1, LeaveOK DEF SnapshotFails
  <2> QED
    BY <1>1, <1>2, <2>1, <2>2, AttemptSole DEF SnapshotFails
<1>3. CASE OpFails(Ticker)
  <2>1. Busy(Ticker)
    BY <1>3 DEF OpFails, Busy
  <2> QED
    BY <1>1, <1>3, <2>1, LeaveOK, NoRowStepSole DEF OpFails
<1>4. CASE Restart
  <2>1. todo'[Ticker] = {} /\ pc'[Ticker] = "idle" /\ row' = row
    BY <1>1, <1>4 DEF Restart
  <2>2. AtWorkOK'
    BY <2>1 DEF AtWorkOK, Busy
  <2> QED
    BY <2>1, <2>2, NoRowStepSole
<1>5. ASSUME NEW s \in Sandboxes, BeginFails(Ticker, s)
      PROVE  AtWorkOK' /\ (\A x \in Sandboxes : ToDoOK(x)') /\ Escalates
  <2>1. /\ todo'[Ticker] = todo[Ticker] \ {s} /\ row' = row
        /\ pc'[Ticker] \in {"idle", "loop"}
    BY <1>1, <1>5 DEF BeginFails, TypeOK
  <2>2. \A x \in Sandboxes \ {s} : recs'[Ticker][x] = recs[Ticker][x]
    BY <1>1, <1>5 DEF BeginFails, TypeOK
  <2>3. AtWorkOK'
    BY <2>1 DEF AtWorkOK, Busy
  <2> QED
    BY <2>1, <2>2, <2>3, NoRowStepSole
<1> QED
  BY <1>2, <1>3, <1>4, <1>5

\* Every step keeps the invariant and escalates.
LEMMA SoleStep ==
    ASSUME Runners = {Ticker}, SoleInv, [Next]_vars
    PROVE  SoleInv' /\ Escalates
<1>1. IInv'
  BY NextInv DEF SoleInv
<1> DEFINE Kept == AtWorkOK' /\ (\A x \in Sandboxes : ToDoOK(x)') /\ Escalates
<1> SUFFICES Kept
  BY <1>1 DEF SoleInv
<1>2. ASSUME NEW s \in Sandboxes, Request(s) \/ Tick(s) \/ BackoffElapses(s)
      PROVE  Kept
  BY <1>2, RowStepSole DEF Request, Delete, MarkExpired, Tick, BackoffElapses
<1>3. CASE ListExpiredActive \/ (\E s \in Sandboxes : ControllerStep(s)) \/ UNCHANGED vars
  <2>1. UNCHANGED <<row, pc, todo, recs, cur, ops>>
    BY <1>3 DEF ListExpiredActive, ControllerStep, vars, server
  <2>2. AtWorkOK'
    BY <2>1 DEF SoleInv, AtWorkOK, Busy
  <2> QED
    BY <2>1, <2>2, NoRowStepSole
<1>4. CASE Pass(Ticker)
  BY <1>4, ListSole, BeginSole, SnapshotSole, HandleSole, CallSole, WriteSole DEF Pass
<1>5. CASE \/ SnapshotFails(Ticker) \/ OpFails(Ticker) \/ Restart
           \/ \E s \in Sandboxes : BeginFails(Ticker, s)
  BY <1>5, FaultSole
<1> QED
  BY <1>2, <1>3, <1>4, <1>5 DEF Next

\* The initial states.
LEMMA SoleInit ==
    ASSUME Init
    PROVE  SoleInv
<1>1. IInv /\ Ticker \in Runners
  BY InitInv, DeletionAssumptions
<1>2. AtWorkOK
  BY <1>1 DEF Init, ServerInit, AtWorkOK, Busy
<1>3. \A s \in Sandboxes : ToDoOK(s)
  BY <1>1 DEF Init, ServerInit, ToDoOK, ActiveRow
<1> QED
  BY <1>1, <1>2, <1>3 DEF SoleInv

\* With one pass at a time a row that is deleted is deleted in all its columns,
\* so PurgeHistoricalData finds it.
THEOREM DeletedRowsPurge ==
    ASSUME Runners = {Ticker}
    PROVE  Spec => []DeletedIsCompleted
<1>1. SoleInv => DeletedIsCompleted
  BY DEF SoleInv, IInv, RowOK, ToDoOK, DeletedIsCompleted, Purgeable
<1>2. Init => SoleInv
  BY SoleInit
<1>3. SoleInv /\ [Next]_vars => SoleInv'
  BY SoleStep
<1> QED
  BY <1>1, <1>2, <1>3, PTL DEF Spec

\* With one pass at a time the force level of a deletion never falls, unless the
\* deletion is requested anew.
THEOREM ForceLevelRises ==
    ASSUME Runners = {Ticker}
    PROVE  Spec => EscalationIsKept
<1>1. Init => SoleInv
  BY SoleInit
<1>2. SoleInv /\ [Next]_vars => SoleInv' /\ Escalates
  BY SoleStep
<1>3. Escalates => [\A s \in Sandboxes : \/ row'[s].force >= row[s].force
                                         \/ row'[s].phase = "requested"]_vars
  BY DEF Escalates
<1> QED
  BY <1>1, <1>2, <1>3, PTL DEF Spec, EscalationIsKept
=============================================================================
