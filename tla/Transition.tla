---------------------------- MODULE Transition ----------------------------
(***************************************************************************)
(* What a candidate revision may change in the pack catalog, and the staged *)
(* files a repair rewrites to change it (internal/repository                *)
(* stream_transition.go and pack_delta.go, internal/backup                  *)
(* candidate_files.go and repair_progress.go).                              *)
(*                                                                          *)
(* A catalog is a set of rows, one per data part: the part's pack, which    *)
(* stands for all the fields a relocation keeps, and its object ID.  The    *)
(* other files of a revision are left out; `packsOnly' says that a          *)
(* candidate agrees with its base in all of them.                           *)
(***************************************************************************)
EXTENDS Integers, Sequences, FiniteSets

Packs(rows) == {k.pack : k \in rows}

\* isStreamRepairTransition: the same parts, at least one of them relocated.
isStreamRepairTransition(old, new) == Packs(old) = Packs(new) /\ old # new

\* validateStreamOrdinaryExtension: every row is kept as it was, and the new
\* rows belong to new packs.
validateStreamOrdinaryExtension(old, new) ==
    /\ old \subseteq new
    /\ Packs(old) \cap Packs(new \ old) = {}

\* validateStreamTransition.  A candidate that changes nothing but packs is a
\* repair or it is refused.
ValidateTransition(old, new, packsOnly) ==
    CASE packsOnly /\ isStreamRepairTransition(old, new) -> "repair"
      [] ~packsOnly /\ validateStreamOrdinaryExtension(old, new) -> "ordinary"
      [] OTHER -> "invalid"

\* WalkChangedPacks: the rows a valid transition adds or relocates.
WalkChangedPacks(old, new) == new \ old

-----------------------------------------------------------------------------
(* Staged data parts, in upload order.                                      *)

\* rewriteCandidatePackObjectID, for an old row that is there.
rewriteCandidatePackObjectID(rows, old, new) == (rows \ {old}) \cup {new}

\* rewriteDataParts replaces the part at a position, or appends one.  The
\* order is kept, because the mirrors' cursors count in it.
rewriteDataParts(parts, position, part) ==
    IF position > Len(parts) THEN Append(parts, part)
    ELSE [parts EXCEPT ![position] = part]

\* validateDataPartCatalog: no pack is staged twice (the sort refuses a second
\* row of one packRecordKey), and the staged parts are among the rows, or are
\* exactly the rows.
validateDataPartCatalog(parts, rows, exact) ==
    LET staged == {parts[n] : n \in 1 .. Len(parts)} IN
    /\ \A a, b \in 1 .. Len(parts) : parts[a].pack = parts[b].pack => a = b
    /\ IF exact THEN staged = rows ELSE staged \subseteq rows
=============================================================================
