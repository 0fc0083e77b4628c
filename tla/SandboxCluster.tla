--------------------------- MODULE SandboxCluster ---------------------------
(***************************************************************************)
(* The Kubernetes objects of one sandbox, as the calls of                  *)
(* backend/internal/k8s see and change them.  The API server and its       *)
(* controllers are external: what they do on their own is the set          *)
(* ControllerSteps, the rest is the effect of one call of the client.      *)
(*                                                                         *)
(*   dep    the Deployment of a persistent sandbox; "deleting" is an       *)
(*          object with a DeletionTimestamp that a finalizer still holds;  *)
(*   pod    the sandbox's Pod (the Deployment's, or the bare Pod of an     *)
(*          ephemeral sandbox);                                            *)
(*   pvc    the claim, protected from removal while a Pod mounts it;       *)
(*   pv, va the volume bound to the claim and its VolumeAttachment;        *)
(*   stuck  the kinds of object whose removal never finishes by itself (a  *)
(*          dead node, a finalizer nobody clears).                         *)
(***************************************************************************)
EXTENDS Integers

Stickable == {"dep", "pod", "pvc", "pv", "va"}

ObjectStates == {"absent", "live", "deleting"}

Cluster == [dep : ObjectStates, pod : ObjectStates, pvc : ObjectStates,
            pv : BOOLEAN, va : BOOLEAN, stuck : SUBSET Stickable]

\* A sandbox that is up.
PersistentCluster(stuck) ==
    [dep |-> "live", pod |-> "live", pvc |-> "live", pv |-> TRUE, va |-> TRUE,
     stuck |-> stuck]

EphemeralCluster(stuck) ==
    [dep |-> "absent", pod |-> "live", pvc |-> "absent", pv |-> FALSE,
     va |-> FALSE, stuck |-> stuck]

-----------------------------------------------------------------------------
\* Calls of the client.  A NotFound answer is success to every caller here.

Doom(state) == IF state = "live" THEN "deleting" ELSE state

Release(state) == IF state = "deleting" THEN "absent" ELSE state

DeleteDeployment(c) == [c EXCEPT !.dep = Doom(@)]

DeletePVC(c) == [c EXCEPT !.pvc = Doom(@)]

DeletePod(c) == [c EXCEPT !.pod = Doom(@)]

\* Grace period 0: the object goes at once, whatever its node does.
ForceDeletePodByName(c) == [c EXCEPT !.pod = "absent"]

\* Clearing the finalizers finishes a deletion that was waiting on them; an
\* object nobody is deleting stays, but nothing will hold its deletion up.
PatchDeploymentFinalizers(c) ==
    [c EXCEPT !.dep = Release(@), !.stuck = @ \ {"dep"}]

PatchPVCFinalizers(c) ==
    [c EXCEPT !.pvc = Release(@), !.stuck = @ \ {"pvc"}]

DeleteVolumeAttachments(c) == [c EXCEPT !.va = FALSE]

\* Clearing a PV's finalizers alone removes nothing; the Delete after it does.
PatchPVFinalizers(c) == c

DeletePersistentVolume(c) == [c EXCEPT !.pv = FALSE]

Calls == {"DeleteDeployment", "DeletePVC", "DeletePod", "ForceDeletePodByName",
          "PatchDeploymentFinalizers", "PatchPVCFinalizers",
          "DeleteVolumeAttachments", "PatchPVFinalizers",
          "DeletePersistentVolume"}

Apply(call, c) ==
    CASE call = "DeleteDeployment"          -> DeleteDeployment(c)
      [] call = "DeletePVC"                 -> DeletePVC(c)
      [] call = "DeletePod"                 -> DeletePod(c)
      [] call = "ForceDeletePodByName"      -> ForceDeletePodByName(c)
      [] call = "PatchDeploymentFinalizers" -> PatchDeploymentFinalizers(c)
      [] call = "PatchPVCFinalizers"        -> PatchPVCFinalizers(c)
      [] call = "DeleteVolumeAttachments"   -> DeleteVolumeAttachments(c)
      [] call = "PatchPVFinalizers"         -> PatchPVFinalizers(c)
      [] call = "DeletePersistentVolume"    -> DeletePersistentVolume(c)

-----------------------------------------------------------------------------
\* What the controllers do on their own: each operator is the set of states
\* one such step can lead to, empty when the step cannot happen.

\* The ReplicaSet replaces a Pod for as long as its Deployment exists.
PodRecreated(c) ==
    {d \in {[c EXCEPT !.pod = "live"]} : c.dep # "absent" /\ c.pod = "absent"}

\* Background garbage collection of the Pod of a Deployment that is gone.
PodCollected(c) ==
    {d \in {[c EXCEPT !.pod = "deleting"]} : c.dep = "absent" /\ c.pod = "live"}

PodGone(c) ==
    {d \in {[c EXCEPT !.pod = "absent"]} :
        "pod" \notin c.stuck /\ c.pod = "deleting"}

DeploymentGone(c) ==
    {d \in {[c EXCEPT !.dep = "absent"]} :
        "dep" \notin c.stuck /\ c.dep = "deleting"}

\* The pvc-protection finalizer waits for the Pods that mount the claim.
PVCGone(c) ==
    {d \in {[c EXCEPT !.pvc = "absent"]} :
        "pvc" \notin c.stuck /\ c.pvc = "deleting" /\ c.pod = "absent"}

VolumeDetached(c) ==
    {d \in {[c EXCEPT !.va = FALSE]} :
        "va" \notin c.stuck /\ c.va /\ c.pod = "absent"}

\* The provisioner deletes a released volume once it is detached.
VolumeReclaimed(c) ==
    {d \in {[c EXCEPT !.pv = FALSE]} :
        "pv" \notin c.stuck /\ c.pv /\ ~c.va /\ c.pvc = "absent"}

ControllerSteps(persistent, c) ==
    (IF persistent THEN PodRecreated(c) \cup PodCollected(c) ELSE {})
        \cup PodGone(c) \cup DeploymentGone(c) \cup PVCGone(c)
        \cup VolumeDetached(c) \cup VolumeReclaimed(c)

=============================================================================
