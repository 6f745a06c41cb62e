---- MODULE Restore ----
(***************************************************************************)
(* backup restore (internal/backup/restore.go, restore_stream.go): select  *)
(* the matching paths of a snapshot, fetch and verify every pack they      *)
(* need, check the staged plaintext once more, and only then publish one   *)
(* path after another.  The command may stop anywhere and be run again.    *)
(*                                                                         *)
(* Paths, contents and packs are numbers in their sort order.  A           *)
(* destination is absent, old (of the entry's kind), other (of another     *)
(* kind, or below one), restored (the entry's content) or bad.  All of     *)
(* them are in one directory, which the command makes when it is missing.  *)
(***************************************************************************)
EXTENDS Integers, FiniteSets, SequencesExt

CONSTANTS
    Files, Links,       \* regular files and symbolic links of the snapshot
    ContentOf,          \* the content of each file
    PackOf,             \* the pack that locates each content of the catalog
    PartCount,          \* the parts of each pack
    Mirrors,
    InitialDests,       \* destinations before the first run
    MaxFaults           \* bound: errors, kills, power cuts, decayed files

Paths == Files \cup Links
Contents == DOMAIN PackOf
Packs == DOMAIN PartCount
Parts == UNION {{k} \X (0 .. PartCount[k] - 1) : k \in Packs}

ASSUME RestoreAssumption ==
    /\ Paths \subseteq Nat /\ Files \cap Links = {} /\ Packs \subseteq Nat
    /\ ContentOf \in [Files -> Contents] /\ PackOf \in [Contents -> Packs]
    /\ PartCount \in [Packs -> Nat \ {0}] /\ MaxFaults \in Nat
    /\ InitialDests \subseteq [Paths -> {"absent", "old", "other"}]

VARIABLES
    good,           \* the parts each mirror returns intact
    selected,       \* the paths the pattern matches
    dest, destDisk, \* destinations as seen, and as a power cut leaves them
    parent,         \* their directory: absent, made and not yet synced, left
                    \* like that by an earlier run, or durable
    at,             \* where the command is, or how the last one ended
    overwrite,      \* the request's overwrite choice
    before,         \* destinations when the command started
    rows,           \* derived files: needed packs, all and selected members
    cursor,         \* positions in the catalog and in the derived files
    pack,           \* the pack being staged: members expected and wanted
    staged,         \* staged plaintext
    todo,           \* entries still to publish
    result,         \* published and remaining paths, failure flags
    faults

stageVars == <<rows, cursor, pack, staged>>
vars == <<good, selected, dest, destDisk, parent, at, overwrite, before, stageVars, todo, result, faults>>

NoRows == [needed |-> <<>>, all |-> <<>>, selected |-> <<>>]
Start1 == [part |-> 1, needed |-> 1, all |-> 1, selected |-> 1]
NoPack == [expected |-> {}, wanted |-> {}]
NoResult == [published |-> {}, remaining |-> {}, failed |-> FALSE, reportFailed |-> FALSE]
NothingStaged == [c \in Contents |-> "none"]

\* States in which no command runs; the last command succeeded only in done.
Ended == {"idle", "refused", "failed", "done"}

Init ==
    /\ good \in [Mirrors -> SUBSET Parts]
    /\ selected \in (SUBSET Paths) \ {{}}
    /\ dest \in InitialDests /\ destDisk = dest
    /\ parent = IF \A p \in Paths : dest[p] = "absent" THEN "absent" ELSE "durable"
    /\ at = "idle" /\ overwrite = FALSE /\ before = dest
    /\ rows = NoRows /\ cursor = Start1 /\ pack = NoPack /\ staged = NothingStaged
    /\ todo = <<>> /\ result = NoResult /\ faults = 0

Selected == {ContentOf[p] : p \in selected \cap Files}

\* Files are published before symbolic links, each in path order.
Order == SetToSortSeq(selected \cap Files, <) \o SetToSortSeq(selected \cap Links, <)

----
(* Planning. *)

\* destinationStatus of what lstat finds; a path published by an earlier run
\* has the right kind.
destinationStatus(found, over) ==
    IF found = "absent" THEN "new"
    ELSE IF found # "other" /\ over THEN "overwrite"
    ELSE "conflict"

\* A plan that leaves conflicts to the publication of each path.
PlanUnrefused(over) ==
    /\ at \in Ended \ {"done"}
    /\ overwrite' = over
    /\ before' = dest
    /\ rows' = NoRows /\ cursor' = Start1 /\ pack' = NoPack /\ staged' = NothingStaged
    /\ todo' = Order /\ result' = NoResult
    /\ at' = IF Selected = {} THEN "publish" ELSE "catalogs"
    /\ parent' = IF parent = "made" THEN "left" ELSE parent
    /\ UNCHANGED <<good, selected, dest, destDisk, faults>>

\* planRestoreSelection: some selected destination is in the way.
planRestoreSelection(over) == \E p \in selected : destinationStatus(dest[p], over) = "conflict"

\* Restore up to the catalogs: a fresh private stage, the selection, and a
\* refusal of the whole plan when any destination conflicts.
Plan(over) ==
    /\ at \in Ended \ {"done"}
    /\ overwrite' = over
    /\ before' = dest
    /\ rows' = NoRows /\ cursor' = Start1 /\ pack' = NoPack /\ staged' = NothingStaged
    /\ todo' = Order /\ result' = NoResult
    /\ at' = IF planRestoreSelection(over) THEN "refused"
             ELSE IF Selected = {} THEN "publish" ELSE "catalogs"
    /\ parent' = IF parent = "made" THEN "left" ELSE parent
    /\ UNCHANGED <<good, selected, dest, destDisk, faults>>

----
(* Staging. *)

\* Rows <<pack, content>> sorted by pack, then content.
ByPack(pairs) ==
    SetToSortSeq(pairs, LAMBDA x, y : IF x[1] = y[1] THEN x[2] < y[2] ELSE x[1] < y[1])

\* compactSelectedHashes after the sort: each selected content once, in order.
compactSelectedHashes == SetToSortSeq(Selected, <)

\* prepareRestoreCatalogs walks the object rows in hash order beside the
\* selected hashes and keeps the rows the two have in common.
joined ==
    LET hashes == compactSelectedHashes
        visit(acc, object) ==
            IF acc.next <= Len(hashes) /\ hashes[acc.next] = object
            THEN [next |-> acc.next + 1, rows |-> acc.rows \cup {<<PackOf[object], object>>}]
            ELSE acc
    IN  FoldLeft(visit, [next |-> 1, rows |-> {}], SetToSortSeq(Contents, <))

\* A plan that only looks at the last pack of the selection.
NeededLast(selectedRows) == <<selectedRows[Len(selectedRows)][1]>>

\* writeNeededPacks: the packs of the selected rows, each once, in order.
writeNeededPacks(selectedRows) ==
    SetToSortSeq({selectedRows[i][1] : i \in 1 .. Len(selectedRows)}, <)

prepareRestoreCatalogs ==
    /\ at = "catalogs"
    /\ joined.next > Cardinality(Selected)
    /\ rows' = [all |-> ByPack({<<PackOf[c], c>> : c \in Contents}),
                selected |-> ByPack(joined.rows),
                needed |-> writeNeededPacks(ByPack(joined.rows))]
    /\ at' = "stage"
    /\ UNCHANGED <<good, selected, dest, destDisk, parent, overwrite, before,
                   cursor, pack, staged, todo, result, faults>>

\* packs.tsv of the catalog: every part, by pack and part number.
Catalog == SetToSortSeq(Parts, LAMBDA x, y : IF x[1] = y[1] THEN x[2] < y[2] ELSE x[1] < y[1])

\* loadRestorePackMembers: the rows of smaller packs are skipped, those of
\* this pack are its members, and the stream stands at the row after them.
loadRestorePackMembers(stream, from, k) ==
    LET left == {i \in from .. Len(stream) : stream[i][1] <= k}
    IN  [members |-> {stream[i][2] : i \in {j \in left : stream[j][1] = k}},
         next |-> from + Cardinality(left)]

\* fetchPackPart tries the mirrors in order; one that is down or returns
\* other bytes is passed over.
fetchPackPart(part, down) == \E m \in Mirrors \ down : part \in good[m]

\* The fault budget pays for every error that is not forced on the code.
Fault(happens) ==
    /\ happens => faults < MaxFaults
    /\ faults' = IF happens THEN faults + 1 ELSE faults

\* visitPart for one row of the catalog: parts before the needed pack are
\* skipped, a needed pack is started at its first part and, after its last
\* part is fetched, decrypted and its wanted members staged (finishPack).
visitPart(down) ==
    /\ at = "stage" /\ cursor.part <= Len(Catalog)
    /\ Fault(down # {})
    /\ LET part == Catalog[cursor.part]
           k == part[1]
           current == pack.expected # {}
           all == loadRestorePackMembers(rows.all, cursor.all, k)
           sel == loadRestorePackMembers(rows.selected, cursor.selected, k)
           opened == IF current THEN pack
                     ELSE [expected |-> all.members, wanted |-> sel.members]
           moved == IF current THEN cursor
                    ELSE [cursor EXCEPT !.all = all.next, !.selected = sel.next]
           last == part[2] + 1 = PartCount[k]
       IN  IF cursor.needed > Len(rows.needed) \/ k < rows.needed[cursor.needed]
           THEN /\ cursor' = [cursor EXCEPT !.part = @ + 1]
                /\ UNCHANGED <<at, pack, staged>>
           ELSE IF k > rows.needed[cursor.needed] \/ opened.expected = {}
                   \/ opened.wanted = {} \/ ~fetchPackPart(part, down)
           THEN at' = "failed" /\ UNCHANGED <<cursor, pack, staged>>
           ELSE /\ cursor' = [moved EXCEPT !.part = @ + 1,
                                           !.needed = IF last THEN @ + 1 ELSE @]
                /\ pack' = IF last THEN NoPack ELSE opened
                /\ staged' = [c \in Contents |->
                        IF last /\ c \in opened.wanted THEN "good" ELSE staged[c]]
                /\ UNCHANGED at
    /\ UNCHANGED <<good, selected, dest, destDisk, parent, overwrite, before, rows, todo, result>>

\* stageSelectedContentStream after the walk: the catalog must not end inside
\* a pack or before every needed pack was met.
StageEnds ==
    /\ at = "stage" /\ cursor.part > Len(Catalog)
    /\ at' = IF pack # NoPack \/ cursor.needed <= Len(rows.needed) THEN "failed" ELSE "verify"
    /\ UNCHANGED <<good, selected, dest, destDisk, parent, overwrite, before, stageVars, todo, result, faults>>

\* verifyAllStagedStream: every selected content is read back and hashed.
verifyAllStagedStream ==
    /\ at = "verify"
    /\ at' = IF \A c \in Selected : staged[c] = "good" THEN "publish" ELSE "failed"
    /\ UNCHANGED <<good, selected, dest, destDisk, parent, overwrite, before, stageVars, todo, result, faults>>

----
(* Publication. *)

\* reportEvent: after a failed report nothing more is reported.
Reported(res, lost) == [res EXCEPT !.reportFailed = @ \/ lost]

\* A path that is not published is reported remaining.
Remain(p, lost, failed) ==
    /\ result' = Reported([result EXCEPT !.remaining = @ \cup {p}, !.failed = @ \/ failed], lost)
    /\ todo' = Tail(todo)
    /\ at' = "publish"
    /\ UNCHANGED dest

\* A publication that trusts the staged file while copying it.
CopyUnchecked(p) == IF p \in Files /\ staged[ContentOf[p]] # "good" THEN "bad" ELSE "restored"

\* The copy to the temporary file hashes what it copies: other bytes are an
\* error, so nothing is renamed.
CopyVerified(p) ==
    IF p \in Files /\ staged[ContentOf[p]] # "good" THEN "error" ELSE "restored"

\* openOrCreateDestinationParent: a directory that exists is opened as it is,
\* a missing one is made and its own parent synced before anything enters it.
MakeParent ==
    /\ at = "publish" /\ todo # <<>> /\ parent = "absent"
    /\ ~(result.failed \/ result.reportFailed)
    /\ parent' = "made" /\ at' = "parent"
    /\ UNCHANGED <<good, selected, dest, destDisk, overwrite, before, stageVars, todo, result, faults>>

SyncParent(broken, lost) ==
    /\ at = "parent"
    /\ Fault(broken \/ lost)
    /\ IF broken
       THEN Remain(Head(todo), lost, TRUE) /\ UNCHANGED parent
       ELSE /\ ~lost
            /\ parent' = "durable" /\ at' = "publish"
            /\ UNCHANGED <<dest, todo, result>>
    /\ UNCHANGED <<good, selected, destDisk, overwrite, before, stageVars>>

\* publishRegular and publishSymlink up to the rename: the destination is
\* looked at again, the temporary written, synced and renamed.
Publish(broken, lost) ==
    /\ at = "publish" /\ todo # <<>>
    /\ Fault(broken \/ lost)
    /\ LET p == Head(todo)
           copy == CopyVerified(p)
       IN  IF result.failed \/ result.reportFailed THEN Remain(p, lost, FALSE)
           ELSE IF broken THEN Remain(p, lost, TRUE)
           ELSE IF destinationStatus(dest[p], overwrite) = "conflict" \/ copy = "error"
           THEN parent # "absent" /\ Remain(p, lost, TRUE)
           ELSE /\ parent # "absent" /\ ~lost
                /\ dest' = [dest EXCEPT ![p] = copy]
                /\ at' = "sync"
                /\ UNCHANGED <<todo, result>>
    /\ UNCHANGED <<good, selected, destDisk, parent, overwrite, before, stageVars>>

\* A failed directory sync counted as a path that was not published.
SyncFailedRemains(broken, lost) ==
    /\ at = "sync"
    /\ Fault(broken \/ lost)
    /\ destDisk' = IF broken THEN destDisk ELSE dest
    /\ result' = Reported(IF broken
                THEN [result EXCEPT !.remaining = @ \cup {Head(todo)}, !.failed = TRUE]
                ELSE [result EXCEPT !.published = @ \cup {Head(todo)}], lost)
    /\ todo' = Tail(todo) /\ at' = "publish"
    /\ UNCHANGED <<good, selected, dest, parent, overwrite, before, stageVars>>

\* A failed directory sync that is not an error of the command.
SyncFailureIgnored(broken, lost) ==
    /\ at = "sync"
    /\ Fault(broken \/ lost)
    /\ destDisk' = IF broken THEN destDisk ELSE dest
    /\ result' = Reported([result EXCEPT !.published = @ \cup {Head(todo)}], lost)
    /\ todo' = Tail(todo) /\ at' = "publish"
    /\ UNCHANGED <<good, selected, dest, parent, overwrite, before, stageVars>>

\* syncPublishedParent: the path is published whether or not the directory
\* sync succeeds (publicationError), but a failure ends the publication.
PublishSync(broken, lost) ==
    /\ at = "sync"
    /\ Fault(broken \/ lost)
    /\ destDisk' = IF broken THEN destDisk ELSE dest
    /\ result' = Reported([result EXCEPT !.published = @ \cup {Head(todo)},
                                         !.failed = @ \/ broken], lost)
    /\ todo' = Tail(todo) /\ at' = "publish"
    /\ UNCHANGED <<good, selected, dest, parent, overwrite, before, stageVars>>

PublishEnds ==
    /\ at = "publish" /\ todo = <<>>
    /\ at' = IF result.failed \/ result.reportFailed THEN "failed" ELSE "done"
    /\ UNCHANGED <<good, selected, dest, destDisk, parent, overwrite, before, stageVars, todo, result, faults>>
----
(* Faults. *)

\* A killed command or an error elsewhere; the stage is never reused.
Kill ==
    /\ at \notin Ended
    /\ Fault(TRUE)
    /\ at' = "idle"
    /\ UNCHANGED <<good, selected, dest, destDisk, parent, overwrite, before, stageVars, todo, result>>

\* Power loss keeps or loses each rename that no directory sync followed, and
\* a directory that was never synced with all it holds.
PowerLoss ==
    /\ at # "done" /\ Fault(TRUE)
    /\ \/ /\ parent' = IF parent = "absent" THEN "absent" ELSE "durable"
          /\ dest' \in {d \in [Paths -> {"absent", "old", "other", "restored", "bad"}] :
                          \A p \in Paths : d[p] \in {dest[p], destDisk[p]}}
       \/ /\ parent \in {"made", "left"}
          /\ parent' = "absent" /\ dest' = [p \in Paths |-> "absent"]
    /\ destDisk' = dest'
    /\ at' = "idle"
    /\ UNCHANGED <<good, selected, overwrite, before, stageVars, todo, result>>

\* A staged file changes on disk after it was written.
StageDecays(c) ==
    /\ at \in {"stage", "verify", "publish"} /\ staged[c] = "good"
    /\ Fault(TRUE)
    /\ staged' = [staged EXCEPT ![c] = "bad"]
    /\ UNCHANGED <<good, selected, dest, destDisk, parent, at, overwrite, before, rows, cursor, pack, todo, result>>

Step ==
    \/ prepareRestoreCatalogs \/ StageEnds \/ verifyAllStagedStream \/ PublishEnds \/ MakeParent
    \/ \E down \in SUBSET Mirrors : visitPart(down)
    \/ \E broken, lost \in BOOLEAN :
        Publish(broken, lost) \/ PublishSync(broken, lost) \/ SyncParent(broken, lost)

Next ==
    \/ \E over \in BOOLEAN : Plan(over)
    \/ Step \/ Kill \/ PowerLoss
    \/ \E c \in Contents : StageDecays(c)

Spec == Init /\ [][Next]_vars

\* The operator runs restore again, with overwrite, until it succeeds.
FairSpec == Spec /\ WF_vars(Step) /\ SF_vars(Plan(TRUE))

----
(* Properties. *)

\* Restore publishes no byte it has not verified, even when staged files decay
\* after the last check; it replaces an existing file only when asked to, and
\* never a destination of another kind.
PublishedExact ==
    \A p \in Paths :
        /\ dest[p] # "bad"
        /\ dest[p] = "restored" => p \in selected
        /\ dest[p] = "restored" /\ before[p] = "old" => overwrite
        /\ before[p] = "other" => dest[p] = "other"

\* Some part the selection needs is intact on no mirror.
Unavailable ==
    \E c \in Selected, part \in Parts : part[1] = PackOf[c] /\ \A m \in Mirrors : part \notin good[m]

\* Nothing is published unless everything can be: one conflicting destination
\* among the selected paths leaves all of them as the run found them, and one
\* unavailable part of one selected file keeps even the other files and the
\* symbolic links from being published, in any number of runs.
AllOrNothing ==
    /\ (at # "idle" /\ \E p \in selected : destinationStatus(before[p], overwrite) = "conflict")
           => dest = before
    /\ Unavailable => \A p \in Paths : dest[p] # "restored"

\* When publication ends, published and remaining split the plan, and the
\* published paths are exactly those the run renamed into place, one whose
\* directory could not be synced included.
ReportExact ==
    (at = "done" \/ (at = "failed" /\ result # NoResult)) =>
        /\ result.published \cup result.remaining = selected
        /\ result.published \cap result.remaining = {}
        /\ \A p \in selected : dest[p] # before[p] => p \in result.published
        /\ \A p \in result.published : dest[p] = "restored"

\* A restore that reports success survives a power cut: every selected path
\* is durably in its directory, and so is a directory the run made.  The
\* exception is named: a directory an earlier run made and did not sync is
\* opened as it is, and its own entry stays volatile.
SuccessDurable ==
    at = "done" => /\ \A p \in selected : destDisk[p] = "restored"
                   /\ parent \in {"durable", "left"}

\* With faults over and every needed part intact on some mirror, running
\* restore with overwrite until it succeeds completes it, whatever an
\* earlier interrupted run left behind.
RerunCompletes ==
    /\ \A p \in selected : dest[p] # "other"
    /\ ~Unavailable
    ~> at = "done"
====
