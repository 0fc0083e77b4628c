------------------------- MODULE MCSandboxLifecycle -------------------------
(***************************************************************************)
(* Instances of SandboxLifecycle for TLC.                                  *)
(***************************************************************************)
EXTENDS SandboxLifecycle

Ephemeral        == [persistent |-> FALSE, retain |-> FALSE]
PersistentDelete == [persistent |-> TRUE,  retain |-> FALSE]
PersistentRetain == [persistent |-> TRUE,  retain |-> TRUE]

MCAllKinds   == {Ephemeral, PersistentDelete, PersistentRetain}
MCTwoKinds   == {Ephemeral, PersistentDelete}
MCPersistent == {PersistentDelete}

=============================================================================
