------------------------- MODULE MCScsiController -------------------------
(* Small bus IDs for TLC: one with disks, the other with a device of each   *)
(* other type at LUN 0. LUN 1 may be missing.                               *)
EXTENDS ScsiController, TLC

MCLuns == {0, 1}

MCDisks == {0 :> "disk", 0 :> "disk" @@ 1 :> "disk"}

MCOthers == {0 :> k : k \in Kinds \ {"disk"}}
=============================================================================
