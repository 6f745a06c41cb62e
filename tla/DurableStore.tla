---- MODULE DurableStore ----
(***************************************************************************)
(* internal/durable/store.go: one named state file, replaced atomically.   *)
(* file is what a reader of the directory sees, disk what a power cut is   *)
(* sure to leave.  Bytes are synced before the rename, so a file is never  *)
(* seen half written; the name is durable only after the directory sync.   *)
(***************************************************************************)
VARIABLES file, disk

storeVars == <<file, disk>>

\* An Open that does not sync the directory it found.
OpenUnsynced == UNCHANGED storeVars

\* Open: Fsync of the directory and of its parent before anything is read.
StoreOpen ==
    /\ disk' = file
    /\ UNCHANGED file

\* Write up to Renameat: the new value is visible.
WriteRename(value) ==
    /\ file' = value
    /\ UNCHANGED disk

\* Write's last step, Fsync of the directory.  Its failure is an error of a
\* Write whose value readers already see.
WriteSync ==
    /\ disk' = file
    /\ UNCHANGED file

\* Power loss: an unsynced rename is kept or lost (external: POSIX rename).
LosePower ==
    \E value \in {file, disk} :
        /\ file' = value
        /\ disk' = value
====
