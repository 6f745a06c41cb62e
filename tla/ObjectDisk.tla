----------------------------- MODULE ObjectDisk -----------------------------
(***************************************************************************)
(* The disk below an object store, as the two stores use it through the    *)
(* system calls of golang.org/x/sys/unix.  A key is a file name in a        *)
(* directory below the root; the directories along a key are collapsed to  *)
(* one.  A new name is visible at once and durable after an fsync of the   *)
(* directory that holds it; the bytes of a file are durable after an fsync *)
(* of the file.                                                            *)
(***************************************************************************)
CONSTANTS
    Keys,    \* object keys
    Dirs,    \* directories
    DirOf    \* key -> the directory that holds it

ASSUME DiskAssumption == DirOf \in [Keys -> Dirs]

VARIABLES
    dir,       \* directory -> "absent", "visible" or "durable"
    entry,     \* key -> the same
    flushed,   \* keys whose bytes were synced before they got their name
    rotten     \* keys whose bytes are not the ones their name promises

diskVars == <<dir, entry, flushed, rotten>>

Existence == {"absent", "visible", "durable"}

DiskTypeOK ==
    /\ dir \in [Dirs -> Existence]
    /\ entry \in [Keys -> Existence]
    /\ flushed \subseteq Keys
    /\ rotten \subseteq Keys

DiskInit ==
    /\ dir = [d \in Dirs |-> "absent"]
    /\ entry = [k \in Keys |-> "absent"]
    /\ flushed = {}
    /\ rotten = {}

Visible(k) == entry[k] # "absent"

Settled(e) == IF e = "visible" THEN "durable" ELSE e

\* mkdirat, an existing directory included.
MakeDirectory(d) ==
    dir' = IF dir[d] = "absent" THEN [dir EXCEPT ![d] = "visible"] ELSE dir

\* fsync of the root.
SyncRoot == dir' = [d \in Dirs |-> Settled(dir[d])]

\* fsync of directory d.
SyncDirectory(d) ==
    entry' = [k \in Keys |-> IF DirOf[k] = d THEN Settled(entry[k]) ELSE entry[k]]

\* A complete file gets the name k; synced tells whether its bytes were
\* flushed, right whether they are the promised ones.
Publish(k, synced, right) ==
    /\ entry' = [entry EXCEPT ![k] = "visible"]
    /\ flushed' = IF synced THEN flushed \cup {k} ELSE flushed \ {k}
    /\ rotten' = IF right THEN rotten \ {k} ELSE rotten \cup {k}

\* Power is lost: whatever was not synced may or may not be there again.
PowerCut ==
    \E D \in SUBSET {d \in Dirs : dir[d] = "visible"},
       E \in SUBSET {k \in Keys : entry[k] = "visible"} :
        LET dirStays(d) == dir[d] = "durable" \/ d \in D
            stays(k) == (entry[k] = "durable" \/ k \in E) /\ dirStays(DirOf[k])
        IN  /\ dir' = [d \in Dirs |-> IF dirStays(d) THEN "durable" ELSE "absent"]
            /\ entry' = [k \in Keys |-> IF stays(k) THEN "durable" ELSE "absent"]
            /\ flushed' = {k \in flushed : stays(k)}
            /\ \E R \in SUBSET {k \in Keys \ flushed : stays(k)} :
                   rotten' = {k \in rotten : stays(k)} \cup R

\* The medium damages the bytes of one object.
Rot(k) ==
    /\ Visible(k)
    /\ k \notin rotten
    /\ rotten' = rotten \cup {k}
    /\ UNCHANGED <<dir, entry, flushed>>

\* How the disk looks to a caller of the store.
SlotOf ==
    [k \in Keys |-> IF ~Visible(k) THEN "free"
                    ELSE IF k \in rotten THEN "decayed" ELSE "intact"]
=============================================================================
