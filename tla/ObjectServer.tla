---------------------------- MODULE ObjectServer ----------------------------
(***************************************************************************)
(* The backup object server (internal/s3server) with several requests in   *)
(* progress, its in-memory listing index, its restart, and the S3 client   *)
(* (internal/objectstore/client.go) that puts, audits and lists.  One      *)
(* listing namespace is modelled: the three have separate indices, locks   *)
(* and limits, and the client lists below one of them at a time.           *)
(*                                                                          *)
(* Keys are numbers, so that the byte order of names is <.  The temporary   *)
(* file of a put is private to its handler, and its removal, or that of     *)
(* the stale ones at a restart, changes nothing a client can see.           *)
(***************************************************************************)
EXTENDS ObjectDisk, Integers, FiniteSets, SequencesExt

CONSTANTS
    Requests,             \* handlers that may run at once
    MaximumIndexedKeys,   \* maximumIndexedKeys
    MaxKeys,              \* the server's page size limit
    MaximumListed,        \* the client's listing limit
    MaxFaults,            \* bound on failing system calls and decays
    MaxStops              \* bound on server deaths and power cuts

ASSUME ServerAssumption ==
    /\ Keys \subseteq Nat \ {0}
    /\ {MaximumIndexedKeys, MaxKeys, MaximumListed} \subseteq Nat \ {0}
    /\ {MaxFaults, MaxStops} \subseteq Nat

VARIABLES
    running,    \* the server holds its lock and serves
    index,      \* the listing index
    skipped,    \* auxiliary: keys that PutFailed could not enter into it
    req,        \* request -> where its handler is
    lister,     \* the client's listing
    evidence,   \* keys whose put was acknowledged or whose audit succeeded
    faults, stops

indexVars == <<index, skipped>>
serverVars == <<running, indexVars, req>>
clientVars == <<lister, evidence>>
bounds == <<faults, stops>>
vars == <<diskVars, serverVars, clientVars, bounds>>

Idle == [pc |-> "idle"]
Steps == {"syncRoot", "link", "syncParent", "finish", "failed"}
EmptyIndex == [sorted |-> <<>>, pending |-> <<>>, overflow |-> FALSE, scanErr |-> FALSE]
NoListing == [pc |-> "idle", after |-> 0, result |-> <<>>, due |-> {},
              ascending |-> TRUE]

Init ==
    /\ DiskInit
    /\ running = FALSE
    /\ index = EmptyIndex /\ skipped = {}
    /\ req = [r \in Requests |-> Idle]
    /\ lister = NoListing
    /\ evidence = {}
    /\ faults = 0 /\ stops = 0

-----------------------------------------------------------------------------
(* The listing index.                                                       *)

Less(a, b) == a < b
Ascending(s) == \A i, j \in 1 .. Len(s) : i < j => s[i] < s[j]

\* Keys next to an equal key are dropped.
Compact(s) ==
    FoldLeft(LAMBDA acc, k : IF acc # <<>> /\ Last(acc) = k THEN acc ELSE Append(acc, k),
             <<>>, s)

\* mergeListingEntries: two pointers over the sorted entries and the sorted
\* pending ones; an equal key advances both.
mergeListingEntries(sorted, pending) ==
    LET p == SortSeq(pending, Less)
        from[l \in 1 .. Len(sorted) + 1, r \in 1 .. Len(p) + 1] ==
            IF l > Len(sorted) /\ r > Len(p) THEN <<>>
            ELSE IF r > Len(p) \/ (l <= Len(sorted) /\ sorted[l] < p[r])
              THEN <<sorted[l]>> \o from[l + 1, r]
            ELSE IF l > Len(sorted) \/ p[r] < sorted[l]
              THEN <<p[r]>> \o from[l, r + 1]
            ELSE <<sorted[l]>> \o from[l + 1, r + 1]
    IN Compact(from[1, 1])

\* Mutant: at the limit a key that is already listed overflows the index.
AddCountingDuplicates(x, k) ==
    IF x.overflow \/ x.scanErr THEN x
    ELSE IF Len(x.sorted) + Len(x.pending) >= MaximumIndexedKeys
      THEN [x EXCEPT !.sorted = <<>>, !.pending = <<>>, !.overflow = TRUE]
      ELSE [x EXCEPT !.pending = Append(@, k)]

\* addListingObject.  (Nothing reads the entries of an index whose scan
\* failed; they are left out.)
addListingObject(x, k) ==
    LET full == Len(x.sorted) + Len(x.pending) >= MaximumIndexedKeys
        merged == mergeListingEntries(x.sorted, x.pending)
    IN  IF x.overflow \/ x.scanErr THEN x
        ELSE IF ~full THEN [x EXCEPT !.pending = Append(@, k)]
        ELSE IF Contains(merged, k)
          THEN [x EXCEPT !.sorted = merged, !.pending = <<>>]
        ELSE IF Len(merged) >= MaximumIndexedKeys
          THEN [x EXCEPT !.sorted = <<>>, !.pending = <<>>, !.overflow = TRUE]
        ELSE [x EXCEPT !.sorted = merged, !.pending = <<k>>]

\* The effect of addListingObject on the live index.
EnterIndex(k) ==
    /\ index' = addListingObject(index, k)
    /\ skipped' = skipped \ {k}

\* scanListingNamespace and rebuildListingIndices: what a restart finds.
scanListingNamespace == SetToSortSeq({k \in Keys : Visible(k)}, Less)

rebuildListingIndices ==
    LET overflow == Len(scanListingNamespace) > MaximumIndexedKeys IN
    [EmptyIndex EXCEPT !.sorted = IF overflow THEN <<>> ELSE scanListingNamespace,
                       !.overflow = overflow]

\* Listings are answered from the index.
Serves == ~index.overflow /\ ~index.scanErr

Indexed == Range(index.sorted) \cup Range(index.pending)

-----------------------------------------------------------------------------
(* The server process.                                                      *)

Fault ==
    /\ faults < MaxFaults
    /\ faults' = faults + 1
    /\ UNCHANGED stops

\* Open: take the lock, remove stale temporary files, rebuild the index.  A
\* scan that fails does not stop the server: the index keeps the error.
Open ==
    /\ ~running
    /\ running' = TRUE
    /\ \/ index' = rebuildListingIndices /\ UNCHANGED bounds
       \/ index' = [EmptyIndex EXCEPT !.scanErr = TRUE] /\ Fault
    /\ UNCHANGED <<diskVars, skipped, req, clientVars>>

Stopped ==
    /\ stops < MaxStops
    /\ stops' = stops + 1
    /\ running' = FALSE
    /\ index' = EmptyIndex /\ skipped' = {}
    /\ req' = [r \in Requests |-> Idle]
    /\ UNCHANGED <<clientVars, faults>>

\* The process dies: every request in progress loses its answer.
Kill == running /\ Stopped /\ UNCHANGED diskVars

\* The machine loses power.
PowerLoss == Stopped /\ PowerCut

-----------------------------------------------------------------------------
(* PUT.  At(r, s) is the handler of r at step s; Goto moves it on.          *)

At(r, s) == running /\ req[r].pc = s
Goto(r, s) == req' = [req EXCEPT ![r].pc = s]

\* The handler returns.
Return(r) == req' = [req EXCEPT ![r] = Idle]

\* The checks of handle and putObject have passed.  The body is written to a
\* temporary file, compared with the hashes in the key and the headers, and
\* synced; a wrong or short body is refused.  Then ensureObjectParent opens
\* the object's directory, or makes it.
PutReceive(r, k, body) ==
    /\ At(r, "idle")
    /\ body = "right"
    /\ MakeDirectory(DirOf[k])
    /\ req' = [req EXCEPT ![r] = [pc |-> "syncRoot", key |-> k, body |-> body]]
    /\ UNCHANGED <<entry, flushed, rotten, running, indexVars, clientVars, bounds>>

\* openOrCreateDirectory syncs the directory above, whoever made the entry.
PutSyncRoot(r) ==
    /\ At(r, "syncRoot")
    /\ \/ SyncRoot /\ Goto(r, "link") /\ UNCHANGED bounds
       \/ UNCHANGED dir /\ Goto(r, "failed") /\ Fault
    /\ UNCHANGED <<entry, flushed, rotten, running, indexVars, clientVars>>

\* linkat, which fails if the key exists.
PutLink(r) ==
    /\ At(r, "link")
    /\ IF Visible(req[r].key)
         THEN Goto(r, "failed") /\ UNCHANGED <<entry, flushed, rotten>>
         ELSE /\ Publish(req[r].key, TRUE, req[r].body = "right")
              /\ Goto(r, "syncParent")
    /\ UNCHANGED <<dir, running, indexVars, clientVars, bounds>>

PutSyncParent(r) ==
    /\ At(r, "syncParent")
    /\ \/ SyncDirectory(DirOf[req[r].key]) /\ Goto(r, "finish") /\ UNCHANGED bounds
       \/ UNCHANGED entry /\ Goto(r, "failed") /\ Fault
    /\ UNCHANGED <<dir, flushed, rotten, running, indexVars, clientVars>>

\* The client's PutOpenFile.  200 is CreateAcknowledged; 412 and 5xx are
\* CreateConflict and CreateAmbiguous, as is an answer that is lost, and no
\* evidence.  (An object that decayed after its link counts as acknowledged
\* before it decayed.)
PutOpenFile(k, status) ==
    \/ status = 200 /\ evidence' = evidence \cup ({k} \ rotten)
    \/ UNCHANGED evidence

\* The temporary name is removed, the object enters the index and 200 is sent.
PutFinish(r) ==
    /\ At(r, "finish")
    /\ \/ /\ Return(r)
          /\ EnterIndex(req[r].key)
          /\ PutOpenFile(req[r].key, 200)
          /\ UNCHANGED bounds
       \/ Goto(r, "failed") /\ Fault /\ UNCHANGED <<indexVars, evidence>>
    /\ UNCHANGED <<diskVars, running, lister>>

\* Requests that may have published k and have not yet entered it.
Entering(k) ==
    {r \in Requests : req[r].pc \in {"syncParent", "finish", "failed"} /\ req[r].key = k}

\* installTemporary failed.  The key may be visible all the same: openObject
\* then finds it and it enters the index.  When opening it fails as well, the
\* error is dropped; `skipped' then has the key if nothing else enters it.
\* (That failure is not counted in `faults'.)
PutFailed(r) ==
    /\ At(r, "failed")
    /\ LET k == req[r].key IN
       \/ Visible(k) /\ EnterIndex(k)
       \/ /\ Visible(k)
          /\ skipped' = IF Serves /\ k \notin Indexed /\ Entering(k) = {r}
                        THEN skipped \cup {k} ELSE skipped
          /\ UNCHANGED index
       \/ ~Visible(k) /\ UNCHANGED indexVars
    /\ Return(r)
    /\ PutOpenFile(req[r].key, 500)
    /\ UNCHANGED <<diskVars, running, lister, bounds>>

-----------------------------------------------------------------------------
(* HEAD with a checksum.                                                    *)

\* The client's Audit of a HEAD answered 200, unless the answer is lost.
Audit(k) ==
    \/ evidence' = evidence \cup {k}
    \/ UNCHANGED evidence

\* Mutant: the entry's directory is not synced.
HeadUnsynced(k) ==
    /\ running
    /\ Visible(k)
    /\ k \notin rotten
    /\ Audit(k)
    /\ UNCHANGED <<diskVars, serverVars, lister, bounds>>

\* The stored bytes are hashed; a mismatch answers "corrupt" and changes
\* nothing.  A match syncs the directory of the entry before 200 is sent.
headObject(k) ==
    /\ running
    /\ Visible(k)
    /\ k \notin rotten
    /\ SyncDirectory(DirOf[k])
    /\ Audit(k)
    /\ UNCHANGED <<dir, flushed, rotten, serverVars, lister, bounds>>

-----------------------------------------------------------------------------
(* Listing: the client asks for page after page.                            *)

\* selectObjects: at most limit keys above after.
selectObjects(sorted, after, limit) ==
    LET above == SelectSeq(sorted, LAMBDA k : k > after) IN
    SubSeq(above, 1, IF Len(above) < limit THEN Len(above) ELSE limit)

\* `due' has the keys the listing owes its caller: those acknowledged and
\* indexed when it begins, less those on its pages so far.
ListBegin ==
    /\ lister.pc # "paging"
    /\ running
    /\ lister' = [NoListing EXCEPT !.pc = "paging",
                                   !.due = Indexed \cap evidence]
    /\ UNCHANGED <<diskVars, serverVars, evidence, bounds>>

\* Mutant: the first key of the next page is the continuation token.
PageSkipping(selected, size) ==
    IF Len(selected) > size
      THEN [keys |-> SubSeq(selected, 1, size), more |-> TRUE, next |-> selected[size + 1]]
      ELSE [keys |-> selected, more |-> FALSE, next |-> 0]

\* listObjects asks the index for one key more than the page holds; the last
\* key of a full page is the continuation token.
listObjects(selected, size) ==
    IF Len(selected) > size
      THEN [keys |-> SubSeq(selected, 1, size), more |-> TRUE, next |-> selected[size]]
      ELSE [keys |-> selected, more |-> FALSE, next |-> 0]

\* One round of ListLimited; of a finished listing only what is asked of it is
\* kept: what it still owes, and whether its keys ascend.  An index that
\* overflowed or was not scanned refuses, and so does the client when the
\* listing grows past its limit.
ListPage ==
    /\ running
    /\ lister.pc = "paging"
    /\ LET sorted == IF index.pending = <<>> THEN index.sorted
                     ELSE mergeListingEntries(index.sorted, index.pending)
           size == Min({MaximumListed - Len(lister.result) + 1, MaxKeys})
           page == listObjects(selectObjects(sorted, lister.after, size + 1), size)
           result == lister.result \o page.keys
       IN  IF ~Serves
             THEN lister' = NoListing /\ UNCHANGED index
             ELSE /\ index' = [index EXCEPT !.sorted = sorted, !.pending = <<>>]
                  /\ lister' =
                       IF Len(result) > MaximumListed THEN NoListing
                       ELSE IF page.more
                         THEN [lister EXCEPT !.after = page.next,
                                             !.result = result,
                                             !.due = @ \ Range(page.keys)]
                       ELSE [NoListing EXCEPT !.pc = "done",
                                              !.due = lister.due \ Range(page.keys),
                                              !.ascending = Ascending(result)]
    /\ UNCHANGED <<diskVars, running, skipped, req, evidence, bounds>>

\* A page is lost for good and the listing returns an error.
ListFail ==
    /\ lister.pc = "paging"
    /\ lister' = NoListing
    /\ UNCHANGED <<diskVars, serverVars, evidence, bounds>>

-----------------------------------------------------------------------------
DecayObject(k) ==
    /\ Fault
    /\ Rot(k)
    /\ evidence' = evidence \ {k}
    /\ UNCHANGED <<serverVars, lister>>

PutStep(r) ==
    \/ PutSyncRoot(r) \/ PutLink(r) \/ PutSyncParent(r)
    \/ PutFinish(r) \/ PutFailed(r)

Next ==
    \/ Open \/ Kill \/ PowerLoss
    \/ \E r \in Requests : PutStep(r)
    \/ \E r \in Requests, k \in Keys, b \in {"right", "wrong"} : PutReceive(r, k, b)
    \/ \E k \in Keys : headObject(k) \/ DecayObject(k)
    \/ ListBegin \/ ListPage \/ ListFail

Spec == Init /\ [][Next]_vars

-----------------------------------------------------------------------------
(* Properties.                                                              *)

Objects == INSTANCE ImmutableObjects WITH slot <- SlotOf

\* Put, audit and decay of this server are those of an immutable store: an
\* object acknowledged by 200 or found by a checksum HEAD is still there
\* after a power cut, a name is never given other bytes, and bytes that do
\* not match the hash in their key never get that name.
ImplementsImmutableObjects == Objects!Spec

\* The live index is the namespace: every visible object is in it or about to
\* be entered by a request that is past its link, failing ones included,
\* unless it overflowed or its scan failed; it overflows only when there really
\* are more distinct keys than the ceiling, however often a key was put again;
\* and it is sorted without repetition, as its binary searches require.  The
\* exception is a key whose put failed after the link and that openObject then
\* could not open: the comment in putObject says such a key "must enter the
\* live listing index", but it stays out until it is put again or the server
\* restarts.
IndexExact ==
    /\ running /\ Serves =>
        \A k \in Keys : Visible(k) =>
            k \in Indexed \cup skipped \/ Entering(k) # {}
    /\ index.overflow => Cardinality({k \in Keys : Visible(k)}) > MaximumIndexedKeys
    /\ Ascending(index.sorted)

\* A finished listing has no repeated key and contains every object that was
\* acknowledged and indexed when it began, although puts, restarts and index
\* merges happened between its pages.
ListingSnapshot ==
    lister.pc = "done" =>
        lister.due \cap evidence = {} /\ lister.ascending
=============================================================================
