---- MODULE Capture ----
(***************************************************************************)
(* The capture half of backup commit (internal/backup/capture.go,          *)
(* transaction_files.go, candidate_files.go): the planned paths are read   *)
(* in order, their contents packed and uploaded, and a chain of segments   *)
(* recorded so that an interrupted commit resumes where it stopped.        *)
(*                                                                         *)
(* A path is its position in the plan, a content a number (its hash), a    *)
(* pack the number of the builder that made it, a descriptor's hash the    *)
(* descriptor.  What the process holds in memory is the record mem; every  *)
(* error return is an Exit, after which the command is run again.          *)
(***************************************************************************)
EXTENDS DurableStore, ExternalSort, DedupIndex, Integers, FiniteSets, SequencesExt

CONSTANTS
    Entries,            \* the number of planned paths
    Contents,           \* the contents of regular files
    Readable,           \* what each planned path may hold when captured
    Large,              \* contents bigger than the pack target
    BaseObjects,        \* contents the base revision already locates
    NoData,             \* the content of an entry that is not a regular file
    Omitted, Unseen,    \* a path that could not be captured, or was not read
    PackTarget,         \* members after which a pack is full
    MaximumPaths,       \* maximumPathsPerCaptureSegment
    ChangedPaths,       \* positions that differ from what add observed
    MaximumDisplayed,   \* maximumDisplayedCaptureWarnings
    AllowEmpty,         \* the plan's allow-empty choice
    Mirrors,
    MaxStops, MaxDamage \* bounds: interruptions, objects lost by a mirror

ASSUME CaptureAssumption ==
    /\ Entries \in Nat /\ PackTarget \in Nat \ {0} /\ MaximumPaths \in Nat \ {0}
    /\ Contents \subseteq Nat /\ Large \subseteq Contents
    /\ NoData \notin Nat /\ Omitted \notin Nat \cup {NoData}
    /\ Unseen \notin Nat \cup {NoData, Omitted}
    /\ Readable \in [0 .. Entries - 1 -> SUBSET (Contents \cup {NoData})]
    /\ DOMAIN Digest = Contents /\ BaseObjects \subseteq Contents
    /\ ChangedPaths \subseteq 0 .. Entries - 1 /\ MaximumDisplayed \in Nat
    /\ AllowEmpty \in BOOLEAN /\ MaxStops \in Nat /\ MaxDamage \in Nat

VARIABLES
    mem,        \* the running commit, or Down
    segment,    \* staged files of each segment number
    packs,      \* packs begun so far
    held,       \* packs a mirror holds in full
    ledger,     \* [eligible, incident]: rows at the base commit, incident count
    hurt,       \* <<mirror, pack>> lost since the last incident
    seen,       \* what the last read of each position observed
    displayed,  \* changed positions a warning was printed for
    stops

captureVars == <<mem, segment, packs, held, ledger, hurt, seen, displayed, stops>>
vars == <<storeVars, captureVars>>

Down == [at |-> "down"]
Unset == <<>>

Positions == 0 .. Entries - 1
SegmentNumbers == 0 .. Entries + MaxStops + 1

\* captureProgress of the transaction, with the incident it was checked
\* against and, once finalised, the candidate built from it.
NewTransaction ==
    [started |-> FALSE, mirrors |-> {}, incident |-> 0, next |-> 0, count |-> 0,
     hash |-> Unset, entries |-> 0, warnings |-> 0, shown |-> 0,
     summary |-> FALSE, candidate |-> FALSE]

EmptySegment == [index |-> Unset, objects |-> {}, packs |-> {}, json |-> Unset]

Init ==
    /\ file = NewTransaction
    /\ disk = NewTransaction
    /\ mem = Down
    /\ segment = [n \in SegmentNumbers |-> EmptySegment]
    /\ packs = 0
    /\ held = [m \in Mirrors |-> {}]
    /\ ledger = [eligible |-> Mirrors, incident |-> 0]
    /\ hurt = {}
    /\ seen = [p \in Positions |-> Unseen]
    /\ displayed = {}
    /\ stops = 0

----
(* What a durable transaction says of the staged segments. *)

Recorded(txn) == 0 .. txn.count - 1

\* validateCaptureSegments: numbers, ranges and hashes chain from position 0
\* to the recorded cursor, and every referenced file is the one referenced.
validateCaptureSegments(txn) ==
    /\ \A n \in Recorded(txn) :
        LET d == segment[n].json
        IN  /\ d # Unset
            /\ d.number = n
            /\ d.start = IF n = 0 THEN 0 ELSE segment[n - 1].json.end
            /\ d.previous = IF n = 0 THEN Unset ELSE segment[n - 1].json
            /\ d.start <= d.end /\ d.end <= Entries
            /\ d.index = segment[n].index
            /\ d.objects = segment[n].objects
            /\ d.packs = segment[n].packs
    /\ IF txn.count = 0 THEN txn.next = 0 /\ txn.hash = Unset
       ELSE LET last == segment[txn.count - 1].json
            IN  txn.next = last.end /\ txn.hash = last
    /\ txn.entries = Len(FlattenSeq([i \in 1 .. txn.count |-> segment[i - 1].index]))

\* captureSegmentInputPaths: the recorded rows of each kind.
SegmentObjects(txn) == UNION {segment[n].objects : n \in Recorded(txn)}
SegmentPacks(txn) == UNION {segment[n].packs : n \in Recorded(txn)}

----
(* Starting and resuming. *)

\* The transaction goes through durable.Store.Write; then says where the
\* command continues once the write has returned.
Save(m, txn, then) == [m EXCEPT !.txn = txn, !.at = "rename", !.then = then]

Idle ==
    [at |-> "prepare", then |-> "prepare", txn |-> NewTransaction, pos |-> 0,
     entry |-> NoData, pending |-> <<>>, members |-> <<>>, mirrors |-> {},
     complete |-> {}, warnings |-> 0, dedup |-> <<>>, end |-> 0]

\* revalidateCapture: a mirror stays when its ledger row still stands and,
\* after an incident, when every recorded part passes an audit.
revalidateCapture(txn, audited) ==
    {m \in txn.mirrors \cap ledger.eligible :
        \/ txn.incident = ledger.incident
        \/ m \in audited /\ SegmentPacks(txn) \subseteq held[m]}

\* capturePlan up to the directory: the store is opened, the transaction
\* loaded and validated, and its mirrors chosen or checked again.
Begin(audited) ==
    /\ mem = Down
    /\ ~file.candidate
    /\ validateCaptureSegments(file)
    /\ StoreOpen
    /\ LET eligible == IF file.started THEN revalidateCapture(file, audited)
                       ELSE ledger.eligible
           txn == [file EXCEPT !.started = TRUE, !.mirrors = eligible,
                               !.incident = ledger.incident]
       IN  /\ eligible # {}
           /\ mem' = Save(Idle, txn, "prepare")
    /\ UNCHANGED <<segment, packs, held, ledger, hurt, seen, displayed, stops>>

\* prepareCaptureDedup: room for every object of the base and every planned
\* path; the base's catalog is inserted, then that of each recorded segment.
prepareCaptureDedup(txn) ==
    FoldLeft(LAMBDA acc, n :
                 insertObjectCatalog(acc, {o[1] : o \in segment[n].objects}),
             insertObjectCatalog(newDedupIndex(Cardinality(BaseObjects) + Entries),
                                 BaseObjects),
             [i \in 1 .. txn.count |-> i - 1])

\* The capture directory is recreated empty and the index built in it.
Prepare ==
    /\ mem.at = "prepare"
    /\ \E index \in {prepareCaptureDedup(mem.txn)} \ {<<>>} :
           mem' = [mem EXCEPT !.at = "walk", !.pos = mem.txn.next,
                                 !.mirrors = mem.txn.mirrors, !.dedup = index]
    /\ UNCHANGED <<storeVars, segment, packs, held, ledger, hurt, seen, displayed, stops>>

----
(* Reading the planned paths. *)

\* What every step that only moves the command leaves alone.
Quiet == UNCHANGED <<storeVars, segment, packs, held, ledger, hurt, stops>>

\* closePack(end): the step that ends the segment, continuing at then.
ClosePack(m, end, then) == [m EXCEPT !.at = "close", !.end = end, !.then = then]

\* processPlanned's finish: on to the next path, or the segment is full.
Finish(m) ==
    LET after == [m EXCEPT !.pos = @ + 1]
    IN  IF after.pos - m.txn.next < MaximumPaths THEN [after EXCEPT !.at = "walk"]
        ELSE ClosePack(after, after.pos, "walk")

\* The path is omitted; the omission is always reported.
Omit ==
    /\ mem.at = "walk" /\ mem.pos < Entries
    /\ mem' = Finish(mem)
    /\ seen' = [seen EXCEPT ![mem.pos] = Omitted]
    /\ Quiet /\ UNCHANGED displayed

\* CapturePath returned an entry.  A changed path counts as a warning; while
\* the budget lasts it is printed, and the spent budget saved at once.
CapturePath(content) ==
    /\ mem.at = "walk" /\ mem.pos < Entries
    /\ content \in Readable[mem.pos]
    /\ LET changed == mem.pos \in ChangedPaths
           shows == changed /\ mem.txn.shown < MaximumDisplayed
           read == [mem EXCEPT !.at = "entry", !.entry = content,
                               !.warnings = IF changed THEN @ + 1 ELSE @]
       IN  /\ displayed' = IF shows THEN displayed \cup {mem.pos} ELSE displayed
           /\ mem' = IF shows
                     THEN Save(read, [mem.txn EXCEPT !.shown = @ + 1], "entry")
                     ELSE read
    /\ seen' = [seen EXCEPT ![mem.pos] = content]
    /\ Quiet

\* Appending the entry to the pending index.
Pending(m) == [m EXCEPT !.pending = Append(@, <<m.pos, m.entry>>)]

\* The entry needs no new member (no data, or located by the base, by an
\* earlier segment or by the open pack), or the open pack is closed first.
Deduplicate ==
    /\ mem.at = "entry"
    /\ LET known == \/ mem.entry = NoData \/ mem.entry \in ToSet(mem.members)
                    \/ ContainsContent(mem.dedup, mem.entry)
           wouldExceed == mem.entry \in Large \/ Len(mem.members) >= PackTarget
       IN  mem' = IF known THEN Finish(Pending(mem))
                  ELSE IF mem.members # <<>> /\ wouldExceed
                       THEN ClosePack(mem, mem.pos, "add")
                       ELSE [mem EXCEPT !.at = "add"]
    /\ Quiet /\ UNCHANGED <<seen, displayed>>

----
(* Packing and uploading. *)

\* An upload that offers each part to every capture mirror again.
UploadAnew(m, acknowledged) ==
    [m EXCEPT !.mirrors = acknowledged \cap m.txn.mirrors,
              !.complete = @ \cap acknowledged]

\* uploadCapturedPart: a part goes to the mirrors that took every earlier
\* part of the pack, and those that settle it remain.
uploadCapturedPart(m, acknowledged) ==
    [m EXCEPT !.mirrors = acknowledged \cap @, !.complete = @ \cap acknowledged]

\* builder.Add: a new builder when none is open, and a part uploaded when
\* the member fills one.  A content above the target closes its pack.
AddMember(fills, acknowledged) ==
    /\ mem.at = "add"
    /\ LET fresh == IF mem.members = <<>> THEN [mem EXCEPT !.complete = Mirrors] ELSE mem
           sent == IF fills THEN uploadCapturedPart(fresh, acknowledged) ELSE fresh
           added == Pending([sent EXCEPT !.members = Append(@, mem.entry)])
       IN  /\ sent.mirrors # {}
           /\ mem' = IF mem.entry \in Large
                     THEN ClosePack([added EXCEPT !.pos = @ + 1], mem.pos + 1, "walk")
                     ELSE Finish(added)
    /\ Quiet /\ UNCHANGED <<seen, displayed>>

\* walkPlan has visited every path: closePack(Entries).
WalkEnds ==
    /\ mem.at = "walk" /\ mem.pos = Entries
    /\ mem' = ClosePack(mem, Entries, "summary")
    /\ Quiet /\ UNCHANGED <<seen, displayed>>

\* Mutant: the warnings of the segment are not added to the transaction's.
PersistForgetting(m) ==
    [m EXCEPT !.at = "index",
              !.txn.mirrors = IF m.members = <<>> THEN @ ELSE m.mirrors]

\* persist: the mirrors that took the whole pack replace the transaction's.
persist(m) ==
    [m EXCEPT !.at = "index", !.txn.warnings = @ + m.warnings,
              !.txn.mirrors = IF m.members = <<>> THEN @ ELSE m.mirrors]

\* closePack: builder.Close uploads the last part, the objects of the pack
\* enter the deduplication index, and the segment is persisted.
CloseBuilder(acknowledged) ==
    /\ mem.at = "close"
    /\ LET sent == IF mem.members = <<>> THEN mem ELSE uploadCapturedPart(mem, acknowledged)
       IN  /\ sent.mirrors # {}
           /\ \E index \in {InsertAll(mem.dedup, mem.members)} \ {<<>>} :
                mem' = persist([sent EXCEPT !.dedup = index])
           /\ packs' = IF mem.members = <<>> THEN packs ELSE packs + 1
           /\ held' = [m \in Mirrors |->
                IF mem.members # <<>> /\ m \in sent.complete THEN held[m] \cup {packs}
                ELSE held[m]]
    /\ UNCHANGED <<storeVars, segment, ledger, hurt, seen, displayed, stops>>
----
(* Recording a segment: writeCaptureSegment. *)

\* A segment number that trails the recorded count by one.
PreviousNumber(txn) == IF txn.count = 0 THEN 0 ELSE txn.count - 1

\* The number of the segment being written.
SegmentNumber(txn) == txn.count

\* One staged file: temporary, sync, rename and directory sync.  Files of
\* numbers below the recorded count are never written again.
Stage(name, data, next) ==
    /\ segment' = [segment EXCEPT ![SegmentNumber(mem.txn)] =
                        [@ EXCEPT ![name] = data]]
    /\ mem' = next
    /\ UNCHANGED <<storeVars, packs, held, ledger, hurt, seen, displayed, stops>>

\* The pack that closePack has just created is the last one begun.
Created == IF mem.members = <<>> THEN {} ELSE {packs - 1}

WriteIndex ==
    /\ mem.at = "index"
    /\ Stage("index", mem.pending, [mem EXCEPT !.at = "objects"])

WriteObjects ==
    /\ mem.at = "objects"
    /\ Stage("objects", ToSet(mem.members) \X Created, [mem EXCEPT !.at = "packs"])

WritePacks ==
    /\ mem.at = "packs"
    /\ Stage("packs", Created, [mem EXCEPT !.at = "descriptor"])

\* The descriptor names the previous one and the three files; only then is
\* the progress advanced and the transaction saved.
WriteDescriptor ==
    /\ mem.at = "descriptor"
    /\ LET txn == mem.txn
           descriptor ==
               [number |-> SegmentNumber(txn), start |-> txn.next, end |-> mem.end,
                previous |-> txn.hash, index |-> mem.pending,
                objects |-> ToSet(mem.members) \X Created, packs |-> Created]
           progress ==
               [txn EXCEPT !.entries = @ + Len(mem.pending), !.next = mem.end,
                           !.count = @ + 1, !.hash = descriptor]
           done == [mem EXCEPT !.pending = <<>>, !.warnings = 0, !.members = <<>>,
                               !.mirrors = txn.mirrors]
       IN  Stage("json", descriptor, Save(done, progress, mem.then))

SaveRename ==
    /\ mem.at = "rename"
    /\ WriteRename(mem.txn)
    /\ mem' = [mem EXCEPT !.at = "sync"]
    /\ UNCHANGED <<segment, packs, held, ledger, hurt, seen, displayed, stops>>

SaveSync ==
    /\ mem.at = "sync"
    /\ WriteSync
    /\ mem' = [mem EXCEPT !.at = mem.then]
    /\ UNCHANGED <<segment, packs, held, ledger, hurt, seen, displayed, stops>>

----
(* Finishing. *)

\* The aggregate line for the changed paths that were not printed.
Summarise ==
    /\ mem.at = "summary"
    /\ mem' = IF mem.txn.warnings > mem.txn.shown /\ ~mem.txn.summary
              THEN Save(mem, [mem.txn EXCEPT !.summary = TRUE], "finalize")
              ELSE [mem EXCEPT !.at = "finalize"]
    /\ Quiet /\ UNCHANGED <<seen, displayed>>

\* The rows of a set of objects as one sort input, by content.
ObjectRows(objects) == SetToSortSeq({o[1] : o \in objects}, <)

\* writeCandidateFiles: the recorded index rows sorted by path, the object
\* rows of base and segments by hash, the pack rows by pack.  (The base's
\* pack rows are merged in too; a new pack never shares a key with them.)
writeCandidateFiles(txn) ==
    [index |-> SortFiles([i \in 1 .. txn.count |->
                    [j \in 1 .. Len(segment[i - 1].index) |-> segment[i - 1].index[j][1]]]),
     objects |-> SortFiles(<<SetToSortSeq(BaseObjects, <)>> \o
                    [i \in 1 .. txn.count |-> ObjectRows(segment[i - 1].objects)]),
     packs |-> SortFiles([i \in 1 .. txn.count |-> SetToSeq(segment[i - 1].packs)])]

\* finalizeCapture: the candidate is built from the complete chain, and the
\* mirrors of the capture have their data complete.
finalizeCapture ==
    /\ mem.at = "finalize"
    /\ mem.txn.entries > 0 \/ AllowEmpty
    /\ mem.txn.next = Entries
    /\ LET files == writeCandidateFiles(mem.txn)
       IN  DuplicateKey \notin {files.index, files.objects, files.packs}
    /\ mem' = Save(mem, [mem.txn EXCEPT !.candidate = TRUE], "done")
    /\ Quiet /\ UNCHANGED <<seen, displayed>>

----
(* Interruptions and mirrors. *)

\* An error return or a killed process: all that was in memory is gone.
Exit ==
    /\ mem # Down /\ mem.at # "done"
    /\ stops < MaxStops /\ stops' = stops + 1
    /\ mem' = Down
    /\ UNCHANGED <<storeVars, segment, packs, held, ledger, hurt, seen, displayed>>

PowerLoss ==
    /\ file # disk \/ mem # Down
    /\ stops < MaxStops /\ stops' = stops + 1
    /\ LosePower
    /\ mem' = Down
    /\ UNCHANGED <<segment, packs, held, ledger, hurt, seen, displayed>>

\* A mirror loses a pack it acknowledged (external: storage decay).
Damage(m, pack) ==
    /\ Cardinality(hurt) + ledger.incident < MaxDamage
    /\ pack \in held[m]
    /\ held' = [held EXCEPT ![m] = @ \ {pack}]
    /\ hurt' = hurt \cup {<<m, pack>>}
    /\ UNCHANGED <<storeVars, mem, segment, packs, ledger, seen, displayed, stops>>

\* Between two commits, verify finds a part missing on a mirror: quarantine
\* starts an incident, which revokes the row of every mirror ...
Incident(m) ==
    /\ mem = Down
    /\ \E h \in hurt : h[1] = m
    /\ ledger' = [eligible |-> {}, incident |-> ledger.incident + 1]
    /\ hurt' = {}
    /\ UNCHANGED <<storeVars, mem, segment, packs, held, seen, displayed, stops>>

\* ... or verifies a mirror and restores its row: that proves the base revision, not the captured parts.
Verified(m) ==
    /\ mem = Down
    /\ m \notin ledger.eligible
    /\ ledger' = [ledger EXCEPT !.eligible = @ \cup {m}]
    /\ UNCHANGED <<storeVars, mem, segment, packs, held, hurt, seen, displayed, stops>>

Step ==
    \/ Prepare \/ Omit \/ \E c \in Contents \cup {NoData} : CapturePath(c)
    \/ Deduplicate \/ WalkEnds
    \/ \E fills \in BOOLEAN, acknowledged \in SUBSET Mirrors : AddMember(fills, acknowledged)
    \/ \E acknowledged \in SUBSET Mirrors : CloseBuilder(acknowledged)
    \/ WriteIndex \/ WriteObjects \/ WritePacks \/ WriteDescriptor
    \/ SaveRename \/ SaveSync \/ Summarise \/ finalizeCapture

Start == \E audited \in SUBSET Mirrors : Begin(audited)

Next ==
    \/ Start \/ Step \/ Exit \/ PowerLoss
    \/ \E m \in Mirrors : Incident(m) \/ Verified(m) \/ \E p \in held[m] : Damage(m, p)

Spec == Init /\ [][Next]_vars

\* The command is run until it succeeds, and a run makes progress.
FairSpec == Spec /\ WF_vars(Start) /\ WF_vars(Step)
----
(* Properties. *)

\* Whatever instant a commit is interrupted at, by an error, a kill or a
\* power cut, the transaction the next command loads passes
\* validateCaptureSegments: a descriptor written before its transaction is
\* never mistaken for recorded progress, and no recorded file is rewritten.
ResumeValidates == validateCaptureSegments(file) /\ validateCaptureSegments(disk)

\* What a running commit has read or saved survives a power cut: only
\* between its own rename and directory sync do file and disk differ, since
\* Open syncs a rename that an earlier command failed to sync.
ReadIsDurable == mem # Down /\ mem.at # "sync" => file = disk

\* A mirror named by the recorded progress holds every part of every
\* recorded pack, or lost it since the incident the progress was checked
\* against: its data may be reported complete without another upload.
CaptureBacked ==
    \A txn \in {file, disk} :
        txn.started /\ txn.incident = ledger.incident =>
            \A m \in txn.mirrors, p \in SegmentPacks(txn) :
                p \in held[m] \/ <<m, p>> \in hurt

\* However often capture was interrupted, the candidate has one row for each
\* path that was captured, in path order, with the content last read, and
\* locates each of their contents exactly once; the sorts meet no duplicate.
CandidateExact ==
    mem.at = "finalize" =>
        LET rows == UNION {ToSet(segment[n].index) : n \in Recorded(mem.txn)}
            files == writeCandidateFiles(mem.txn)
            captured == {p \in Positions : seen[p] # Omitted}
        IN  /\ rows = {<<p, seen[p]>> : p \in captured}
            /\ files.index = SetToSortSeq(captured, <)
            /\ files.objects = SetToSortSeq(BaseObjects \cup
                                {o[1] : o \in SegmentObjects(mem.txn)}, <)
            /\ {r[2] : r \in rows} \ {NoData} \subseteq ToSet(files.objects)

\* Once interruptions stop, running commit again finishes the capture,
\* unless no mirror with its row keeps the recorded parts or every path was
\* omitted without allow-empty.
CaptureCompletes ==
    <>[](\/ file.candidate
         \/ file.started /\ revalidateCapture(file, Mirrors) = {}
         \/ ledger.eligible = {}
         \/ mem.at = "finalize" /\ mem.txn.entries = 0)

\* Every captured path that changed since add was either printed as a
\* warning or is counted by the aggregate line, however capture was
\* interrupted, as long as the budget was spent on captured paths, once each.
\* (A path read again after an interruption, or found unreadable then, has
\* spent the saved budget already; the aggregate line, the difference of the
\* two counts, leaves out as many paths.)
ChangesReported ==
    file.candidate /\ file.shown <= Cardinality({p \in displayed : seen[p] # Omitted}) =>
        Cardinality({p \in ChangedPaths : seen[p] # Omitted} \ displayed)
            <= IF file.summary THEN file.warnings - file.shown ELSE 0
====
