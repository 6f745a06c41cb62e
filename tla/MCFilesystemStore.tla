------------------------- MODULE MCFilesystemStore -------------------------
(* A small instance of FilesystemStore: two of three keys share a           *)
(* directory, and the disk has room for two objects beside the reserve.     *)
EXTENDS FilesystemStore

CONSTANTS k1, k2, k3, d1, d2

SharedDir == [k \in Keys |-> IF k = k3 THEN d2 ELSE d1]
=============================================================================
