---- MODULE DedupIndex ----
(***************************************************************************)
(* The disposable deduplication index of a capture                         *)
(* (internal/backup/dedup_index.go): a file of fixed slots, a power of two *)
(* at least twice as many as the contents planned for, probed one after    *)
(* another from the slot a digest selects.                                 *)
(***************************************************************************)
EXTENDS Integers, FiniteSets, SequencesExt

CONSTANT Digest     \* content -> the number its SHA-256 digest begins with

Empty == 0

\* The least power of two, from 2 on, that is not below needed.
PowerOfTwo(needed) ==
    LET double[c \in 2 .. 2 * needed + 2] == IF c >= needed THEN c ELSE double[2 * c]
    IN  double[2]

\* An index sized for exactly the planned contents.
UndoubledIndex(maximum) == [slot \in 0 .. PowerOfTwo(maximum) - 1 |-> Empty]

\* newDedupIndex: all slots empty.
newDedupIndex(maximum) == [slot \in 0 .. PowerOfTwo(2 * maximum) - 1 |-> Empty]

Capacity(index) == Cardinality(DOMAIN index)

\* find: the slot that holds the content, or the first empty one on its way.
find(index, content) ==
    LET probe(p) == (Digest[content] + p) % Capacity(index)
        ends == {p \in DOMAIN index : index[probe(p)] \in {Empty, content}}
    IN  probe(Min(ends))

\* Contains (its name is taken by SequencesExt).
ContainsContent(index, content) == index[find(index, content)] = content

\* Insert refuses a new content once half of the slots are taken.
CanInsert(index, content) ==
    \/ ContainsContent(index, content)
    \/ 2 * Cardinality({s \in DOMAIN index : index[s] # Empty}) < Capacity(index)

\* Insert: the index after it, or <<>> when this or an earlier one is refused.
\* (The singleton makes TLC evaluate the index once.)
Insert(index, content) ==
    CHOOSE after \in {IF t # <<>> /\ CanInsert(t, content)
                      THEN [t EXCEPT ![find(t, content)] = content]
                      ELSE <<>> : t \in {index}} : TRUE

InsertAll(index, contents) == FoldLeft(Insert, index, contents)

\* insertObjectCatalog: the rows of an object catalog, in hash order.
insertObjectCatalog(index, objects) == InsertAll(index, SetToSortSeq(objects, <))
====
