------------------------- MODULE MCSandboxDeletion --------------------------
(***************************************************************************)
(* Instances of SandboxDeletion for TLC.  The four timeouts are one tick   *)
(* apart, in the order of the source: 45s, 2m, 5m and 15m.                 *)
(***************************************************************************)
EXTENDS SandboxDeletion

Ephemeral        == [persistent |-> FALSE, retain |-> FALSE]
PersistentDelete == [persistent |-> TRUE,  retain |-> FALSE]
PersistentRetain == [persistent |-> TRUE,  retain |-> TRUE]

MCAllKinds    == {Ephemeral, PersistentDelete, PersistentRetain}
MCDelete      == {PersistentDelete}
MCRetain      == {PersistentRetain}

NothingStuck == {{}}
AnyStuck     == SUBSET {"dep", "pod", "pvc"}
OnlyPodStuck == {{"pod"}}
=============================================================================
