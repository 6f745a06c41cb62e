---- MODULE Recover ----
(***************************************************************************)
(* backup recover (internal/backup/recover.go, metadata.go): rebuild the   *)
(* metadata repository from one mirror.  Manifests declare edges between   *)
(* commits; a logical path is a chain of edges from a full checkpoint, and *)
(* every edge has one or more physical representations, of which some may  *)
(* be unreadable or not hold what they declare.                            *)
(*                                                                         *)
(* Commits are numbers, 0 stands for no commit.  A representation is       *)
(* [id, uuid, tip, base, seq, kind, holds]: what its manifest declares,    *)
(* and the commits its bundle holds, which need not be the declared ones   *)
(* ({} when it cannot be decrypted).  The id is the sort order of the keys *)
(* and uuid that of repository UUIDs.                                      *)
(***************************************************************************)
EXTENDS Integers, FiniteSets, FiniteSetsExt, SequencesExt

CONSTANTS
    Commits,
    Parent,             \* the parent of each commit
    RepositoryUUID,     \* the UUID in the genesis commit of the histories
    Representations,    \* the representations a mirror may hold
    MaximumLogicalPaths, MaximumMaterializations, MaximumCommitRecords,
    MaxFaults           \* bound: failed downloads and stops

ASSUME RecoverAssumption ==
    /\ Commits \subseteq Nat \ {0} /\ Parent \in [Commits -> Commits \cup {0}]
    /\ \A c \in Commits : Parent[c] < c
    /\ MaximumLogicalPaths \in Nat /\ MaximumMaterializations \in Nat
    /\ MaximumCommitRecords \in Nat /\ MaxFaults \in Nat
    /\ \A r \in Representations :
        /\ r.uuid \in Nat /\ r.tip \in Commits /\ r.seq \in Nat /\ r.holds \subseteq Commits
        /\ (r.kind = "full") <=> (r.base = 0)

VARIABLES
    stored,         \* the representations of the mirror that can be read
    invalid,        \* commits whose transition the validator rejects
    request,        \* [tip, list]: --tip (0 when absent) and --list
    at,
    candidates,     \* manifests discovered
    pending,        \* tips still to list when an exact tip was asked for
    loadedTips,
    tips,           \* tips still to verify
    covered,        \* candidate tips inside a verified history
    verified,       \* accepted tips: [tip, ids, kept]
    ambiguous,      \* two verified tips are known to be independent
    materializations, limited,
    paths,          \* logical paths of the current tip still to try
    choices,        \* the representation tried at each edge of the path
    attempt,        \* [edge, objects, count]: the private repository
    reported,       \* the commits reported as available
    destination,    \* the objects of the published repository, {} when absent
    faults

searchVars == <<candidates, pending, loadedTips, tips, covered, verified,
                ambiguous, materializations, limited>>
pathVars == <<paths, choices, attempt>>
vars == <<stored, invalid, request, at, searchVars, pathVars, reported, destination, faults>>

History == LET up[c \in Commits \cup {0}] == IF c = 0 THEN {} ELSE {c} \cup up[Parent[c]]
           IN  [c \in Commits |-> up[c]]
Sequence(c) == Cardinality(History[c]) - 1

\* S in the order of less, by rank.
InOrder(S, less(_, _)) ==
    [i \in 1 .. Cardinality(S) |->
        CHOOSE x \in S : Cardinality({y \in S : less(y, x)}) = i - 1]

NoAttempt == [edge |-> 1, objects |-> {}, count |-> 0]

Init ==
    /\ stored \in SUBSET Representations
    /\ invalid \in {{}} \cup {{c} : c \in Commits}
    /\ request \in [tip : Commits \cup {0}, list : BOOLEAN]
    /\ at = "discover"
    /\ candidates = {} /\ pending = <<request.tip>> /\ loadedTips = {}
    /\ tips = <<>> /\ covered = {} /\ verified = <<>> /\ ambiguous = FALSE
    /\ materializations = 0 /\ limited = FALSE
    /\ paths = <<>> /\ choices = <<>> /\ attempt = NoAttempt
    /\ reported = {} /\ destination = {} /\ faults = 0

----
(* Discovery. *)

\* The bases an exact-tip discovery goes on to list.
Bases(loaded) == {r.base : r \in {x \in loaded : x.kind = "incremental"}}

\* discoverRecoveryCandidates, one listing: all manifests, or those of one
\* tip, whose bases are then listed too.
Discover ==
    /\ at = "discover" /\ pending # <<>>
    /\ LET tip == Head(pending)
           loaded == {r \in stored : tip \in {0, r.tip}}
           bases == IF tip = 0 THEN {} ELSE Bases(loaded) \ (loadedTips \cup {tip})
       IN  IF tip \in loadedTips
           THEN pending' = Tail(pending) /\ UNCHANGED <<candidates, loadedTips>>
           ELSE /\ candidates' = candidates \cup loaded
                /\ loadedTips' = loadedTips \cup {tip}
                /\ pending' = Tail(pending) \o InOrder(bases, <)
    /\ UNCHANGED <<stored, invalid, request, at, tips, covered, verified, ambiguous,
                   materializations, limited, pathVars, reported, destination, faults>>

MaximumSequence(tip) == Max({r.seq : r \in {x \in candidates : x.tip = tip}})

\* verifyRecoveryCandidates, the order of tips: the highest declared
\* sequence first, or the exact tip alone.
OrderTips ==
    /\ at = "discover" /\ pending = <<>>
    /\ at' = IF candidates = {} THEN "failed" ELSE "tip"
    /\ LET all == {r.tip : r \in candidates}
           top == [t \in all |-> MaximumSequence(t)]
           before(x, y) == top[x] > top[y] \/ (top[x] = top[y] /\ x < y)
       IN  tips' = IF request.tip # 0 THEN <<request.tip>> ELSE InOrder(all, before)
    /\ UNCHANGED <<stored, invalid, request, candidates, pending, loadedTips, covered, verified,
                   ambiguous, materializations, limited, pathVars, reported, destination, faults>>

----
(* Logical paths. *)

\* An edge groups the representations that declare the same thing.
EdgeOf(r) ==
    [uuid |-> r.uuid, tip |-> r.tip, base |-> r.base, seq |-> r.seq, kind |-> r.kind]
Edges == {EdgeOf(r) : r \in candidates}
Alternatives(e) ==
    InOrder({r \in candidates : EdgeOf(r) = e}, LAMBDA x, y : x.id < y.id)

EdgeLess(x, y) ==
    IF x.uuid # y.uuid THEN x.uuid < y.uuid
    ELSE IF x.seq # y.seq THEN x.seq < y.seq
    ELSE IF x.kind # y.kind THEN x.kind = "full" ELSE x.base < y.base

\* recoveryLogicalPaths: depth-first from the tip over edges whose repository,
\* base and sequence fit, each path ending at a full checkpoint.
recoveryLogicalPaths(tip) ==
    LET sorted(S) == InOrder(S, EdgeLess)
        walk[e \in Edges] ==
            IF e.kind = "full" THEN << <<e>> >>
            ELSE IF e.seq = 0 THEN <<>>
            ELSE LET parents == sorted({x \in Edges : /\ x.tip = e.base /\ x.uuid = e.uuid
                                                     /\ x.seq = e.seq - 1})
                     through(x) == LET before == walk[x]
                                   IN  [i \in DOMAIN before |-> Append(before[i], e)]
                 IN  FlattenSeq([i \in DOMAIN parents |-> through(parents[i])])
        starts == sorted({e \in Edges : e.tip = tip})
    IN  FlattenSeq([i \in DOMAIN starts |-> walk[starts[i]]])

Tip == Head(tips)
Path == Head(paths)

\* The next tip that no verified history contains, with its logical paths.
NextTip ==
    /\ at = "tip" /\ tips # <<>>
    /\ LET found == recoveryLogicalPaths(Tip)
           skip == found = <<>> \/ (request.tip = 0 /\ Tip \in covered)
           many == ~skip /\ Len(found) > MaximumLogicalPaths
       IN  /\ tips' = IF skip THEN Tail(tips) ELSE tips
           /\ paths' = IF skip THEN <<>> ELSE found
           /\ at' = IF skip THEN "tip" ELSE IF many THEN "failed" ELSE "path"
           /\ limited' = (limited \/ many)
    /\ UNCHANGED <<stored, invalid, request, candidates, pending, loadedTips, covered, verified,
                   ambiguous, materializations, choices, attempt, reported, destination, faults>>

\* Every path of the tip failed.
TipFails ==
    /\ at = "path" /\ paths = <<>>
    /\ at' = "tip" /\ tips' = Tail(tips)
    /\ UNCHANGED <<stored, invalid, request, candidates, pending, loadedTips, covered, verified,
                   ambiguous, materializations, limited, pathVars, reported, destination, faults>>

TryPath ==
    /\ at = "path" /\ paths # <<>>
    /\ materializations' = materializations + 1
    /\ limited' = (limited \/ materializations >= MaximumMaterializations)
    /\ at' = IF materializations >= MaximumMaterializations THEN "failed" ELSE "import"
    /\ choices' = [i \in 1 .. Len(Path) |-> 1]
    /\ attempt' = [NoAttempt EXCEPT !.count = 1]
    /\ UNCHANGED <<stored, invalid, request, candidates, pending, loadedTips, tips, covered,
                   verified, ambiguous, paths, reported, destination, faults>>

----
(* Importing a path: materializeMetadataChain. *)

\* An import that does not compare the whole object graph with the tip's.
ApplyAnyGraph(objects, r) ==
    /\ r.tip \in r.holds \ objects
    /\ r.kind = "incremental" => r.base \in objects

\* applyMetadataBundle: the tip must be new, the prerequisite present, and
\* the repository afterwards exactly the history of the tip.
applyMetadataBundle(objects, r) ==
    /\ r.tip \notin objects
    /\ r.kind = "incremental" => r.base \in objects
    /\ objects \cup r.holds = History[r.tip]

\* A retry that goes on in the repository the failed import wrote to.
RetryInPlace(r) == [attempt EXCEPT !.objects = @ \cup r.holds, !.count = @ + 1]

\* After a failed import the whole private repository is discarded.
Retry(r) == [NoAttempt EXCEPT !.count = attempt.count + 1]

\* One edge: fetch, decrypt and apply its current representation.  A failure
\* moves this edge on to its next representation and replays the chain; with
\* none left, or too many attempts, the path fails.
Import(down) ==
    /\ at = "import" /\ attempt.edge <= Len(Path)
    /\ down => faults < MaxFaults
    /\ faults' = IF down THEN faults + 1 ELSE faults
    /\ LET n == attempt.edge
           options == Alternatives(Path[n])
           r == options[choices[n]]
           another == choices[n] < Len(options)
           spent == attempt.count >= MaximumMaterializations
       IN  IF ~down /\ applyMetadataBundle(attempt.objects, r)
           THEN /\ attempt' = [attempt EXCEPT !.edge = n + 1, !.objects = @ \cup r.holds]
                /\ UNCHANGED <<at, paths, choices, limited>>
           ELSE IF another /\ ~spent
           THEN /\ choices' = [choices EXCEPT ![n] = @ + 1]
                /\ attempt' = Retry(r)
                /\ UNCHANGED <<at, paths, limited>>
           ELSE /\ at' = "path" /\ paths' = Tail(paths)
                /\ choices' = <<>> /\ attempt' = NoAttempt
                /\ limited' = (limited \/ another)
    /\ UNCHANGED <<stored, invalid, request, candidates, pending, loadedTips, tips, covered,
                   verified, ambiguous, materializations, reported, destination>>

----
(* Accepting a path. *)

\* validateRecoveredManifestPath: every declared edge is at its place in the
\* reconstructed history.
validateRecoveredManifestPath(path) ==
    \A i \in 1 .. Len(path) :
        /\ path[i].uuid = RepositoryUUID /\ path[i].seq = Sequence(path[i].tip)
        /\ i = 1 => path[i].kind = "full"
        /\ i > 1 => /\ path[i].kind = "incremental"
                    /\ path[i].base = path[i - 1].tip /\ path[i].base = Parent[path[i].tip]

\* The repository kept is the first verified one, whatever is verified later.
RetainFirst(ids) ==
    /\ verified' = Append(verified, [tip |-> Tip, ids |-> ids,
                                     kept |-> verified = <<>> /\ ~request.list])
    /\ UNCHANGED ambiguous

\* At most one verified repository is kept: the newest, while each contains
\* the one before; after two independent tips, none.
Retain(ids) ==
    LET keep == ~request.list
        old == {i \in 1 .. Len(verified) : verified[i].kept}
        split == ambiguous \/ \E i \in old : keep /\ verified[i].tip \notin ids
        released == [i \in 1 .. Len(verified) |-> [verified[i] EXCEPT !.kept = FALSE]]
    IN  /\ ambiguous' = split
        /\ verified' = Append(released, [tip |-> Tip, ids |-> ids, kept |-> keep /\ ~split])

\* writeRecoveryCommitIDs: a record for every commit of every verified
\* history, and the candidate tips among them marked as covered.
CommitRecords(histories) == FoldLeft(LAMBDA n, v : n + Cardinality(v.ids), 0, histories)
CoveredBy(ids) == ids \cap {r.tip : r \in candidates}

\* The whole path is imported: ValidateHistory and the manifest check, then
\* the tip is verified, or the next path is tried, or the run fails because
\* the verified histories have too many commits in all.
Validate ==
    /\ at = "import" /\ attempt.edge > Len(Path)
    /\ choices' = <<>> /\ attempt' = NoAttempt
    /\ LET valid == attempt.objects \cap invalid = {} /\ validateRecoveredManifestPath(Path)
           many == CommitRecords(verified) + Cardinality(attempt.objects) > MaximumCommitRecords
       IN  /\ \/ /\ valid /\ ~many
                 /\ Retain(attempt.objects)
                 /\ covered' = covered \cup CoveredBy(attempt.objects)
                 /\ at' = "tip" /\ tips' = Tail(tips) /\ paths' = <<>>
              \/ /\ valid /\ many
                 /\ at' = "failed"
                 /\ UNCHANGED <<covered, tips, verified, ambiguous, paths>>
              \/ /\ ~valid
                 /\ at' = "path" /\ paths' = Tail(paths)
                 /\ UNCHANGED <<covered, tips, verified, ambiguous>>
           /\ limited' = (limited \/ (valid /\ many))
    /\ UNCHANGED <<stored, invalid, request, candidates, pending, loadedTips,
                   materializations, reported, destination, faults>>

----
(* Selecting and publishing. *)

Verified == ToSet(verified)

maximalVerifiedRecoveries ==
    {v \in Verified : \A w \in Verified : w.tip # v.tip => v.tip \notin w.ids}

\* reportAvailableRecoveries: every commit of every verified history.
reportAvailableRecoveries == UNION {v.ids : v \in Verified}

\* Recover after verification: report every verified commit, then choose the
\* exact tip or the only maximal one.
Select ==
    /\ at = "tip" /\ tips = <<>>
    /\ reported' = reportAvailableRecoveries
    /\ LET choice == IF request.tip # 0 THEN Verified ELSE maximalVerifiedRecoveries
       IN  at' = IF verified = <<>> THEN "failed"
                 ELSE IF request.list THEN "done"
                 ELSE IF Cardinality(choice) # 1 THEN "ambiguous"
                 ELSE IF \E v \in choice : ~v.kept THEN "lost"
                 ELSE "publish"
    /\ UNCHANGED <<stored, invalid, request, searchVars, pathVars, destination, faults>>

\* The kept repository is renamed to the destination; the command still fails
\* when the directory cannot be synced.
Publish(broken) ==
    /\ at = "publish"
    /\ broken => faults < MaxFaults
    /\ faults' = IF broken THEN faults + 1 ELSE faults
    /\ \E v \in Verified : v.kept /\ destination' = v.ids
    /\ at' = IF broken THEN "failed" ELSE "done"
    /\ UNCHANGED <<stored, invalid, request, searchVars, pathVars, reported>>

Ended == at \in {"done", "failed", "ambiguous", "lost"}

\* A cancelled or killed run; its private workspace is never read again.
Stop ==
    /\ ~Ended /\ faults < MaxFaults
    /\ at' = "failed" /\ faults' = faults + 1
    /\ UNCHANGED <<stored, invalid, request, searchVars, pathVars, reported, destination>>

Next ==
    \/ Discover \/ OrderTips \/ NextTip \/ TipFails \/ TryPath
    \/ \E down \in BOOLEAN : Import(down)
    \/ Validate \/ Select \/ Stop
    \/ \E broken \in BOOLEAN : Publish(broken)
    \/ (Ended /\ UNCHANGED vars)

Spec == Init /\ [][Next]_vars

----
(* Properties. *)

\* A tip is recoverable from the mirror when its history is valid and some
\* ancestor-or-self has a whole full checkpoint from which every later commit
\* has an incremental bundle, each at its true sequence.
Recoverable(t) ==
    /\ History[t] \cap invalid = {}
    /\ \E f \in stored :
        /\ f.uuid = RepositoryUUID /\ f.kind = "full" /\ f.tip \in History[t]
        /\ f.seq = Sequence(f.tip) /\ f.holds = History[f.tip]
        /\ \A c \in History[t] \ History[f.tip] : \E r \in stored :
            /\ r.uuid = RepositoryUUID /\ r.kind = "incremental"
            /\ r.tip = c /\ r.base = Parent[c]
            /\ r.seq = Sequence(c) /\ History[Parent[c]] \cup r.holds = History[c]

\* Recover with the file-by-file search (discovery, logical paths, retries
\* over representations, skipping of covered tips) reports exactly the
\* commits that the declarative definition says can be recovered, unless a
\* download failed or a documented limit was met; then it reports no others.
ReportsRecoverable ==
    LET wanted == IF request.tip = 0 THEN Commits ELSE {request.tip}
    IN  /\ \A c \in reported : \E t \in wanted : c \in History[t] /\ Recoverable(t)
        /\ Ended /\ faults = 0 /\ ~limited =>
               \A t \in wanted : Recoverable(t) => History[t] \subseteq reported

\* The repository recover publishes is the whole valid history of one tip:
\* the exact one asked for, or one that contains every commit the run
\* reported, so that nothing recoverable is silently left behind.
RecoveredWhole ==
    destination # {} =>
        \E t \in Commits :
            /\ destination = History[t] /\ Recoverable(t)
            /\ request.tip \in {0, t} /\ ~request.list
            /\ reported \subseteq destination

\* Keeping one private repository is enough: whenever one maximal tip is
\* selected its repository is still there ("selected verified repository was
\* not retained" is unreachable), and a refusal as ambiguous means that two
\* verified histories really are independent.
SelectedIsRetained ==
    /\ at # "lost"
    /\ at = "ambiguous" => \E v, w \in Verified : v.tip \notin w.ids /\ w.tip \notin v.ids
====
