-------------------------- MODULE DeletionContract --------------------------
(***************************************************************************)
(* What the deletion of sandboxes promises, without phases, passes,        *)
(* snapshots, retries or force levels: a deletion is requested, then what  *)
(* runs goes, then the claim, and only then the row says `deleted`.        *)
(* Nothing is taken back, nothing is touched before it is requested, and   *)
(* the claim of a sandbox with the policy Retain is never touched.         *)
(* SandboxDeletion implements this.                                        *)
(***************************************************************************)
CONSTANTS Sandboxes, Kinds

VARIABLES kind,     \* persistent or not, Retain or Delete
          status,   \* what the row says: "active", "requested" or "deleted"
          runtime,  \* whether a Deployment or a Pod exists
          claim     \* "live", "deleting" or "absent"

vars == <<kind, status, runtime, claim>>

Init ==
    /\ kind \in [Sandboxes -> Kinds]
    /\ status = [s \in Sandboxes |-> "active"]
    /\ runtime = [s \in Sandboxes |-> TRUE]
    /\ claim = [s \in Sandboxes |-> IF kind[s].persistent THEN "live" ELSE "absent"]

Request(s) ==
    /\ status[s] = "active"
    /\ status' = [status EXCEPT ![s] = "requested"]
    /\ UNCHANGED <<kind, runtime, claim>>

RuntimeEnds(s) ==
    /\ status[s] = "requested"
    /\ runtime[s]
    /\ runtime' = [runtime EXCEPT ![s] = FALSE]
    /\ UNCHANGED <<kind, status, claim>>

ClaimGoes(s) ==
    /\ status[s] = "requested"
    /\ ~runtime[s]
    /\ ~kind[s].retain
    /\ \/ claim[s] = "live" /\ claim' = [claim EXCEPT ![s] = "deleting"]
       \/ claim[s] = "deleting" /\ claim' = [claim EXCEPT ![s] = "absent"]
    /\ UNCHANGED <<kind, status, runtime>>

Finish(s) ==
    /\ status[s] = "requested"
    /\ ~runtime[s]
    /\ kind[s].persistent /\ ~kind[s].retain => claim[s] = "absent"
    /\ status' = [status EXCEPT ![s] = "deleted"]
    /\ UNCHANGED <<kind, runtime, claim>>

Next == \E s \in Sandboxes :
            Request(s) \/ RuntimeEnds(s) \/ ClaimGoes(s) \/ Finish(s)

Spec == Init /\ [][Next]_vars

=============================================================================
