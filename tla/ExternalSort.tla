---- MODULE ExternalSort ----
(***************************************************************************)
(* internal/extsort/sort.go: the bounded-memory sort that merges catalogs. *)
(* A record is its sort key, a natural number; files are sequences.  The   *)
(* memory budget counts records, and one merge opens MaxOpenFiles runs.    *)
(***************************************************************************)
EXTENDS Integers, Sequences, SequencesExt

CONSTANTS MemoryRecords, MaxOpenFiles

ASSUME SortAssumption ==
    /\ MemoryRecords \in Nat \ {0}
    /\ MaxOpenFiles \in Nat \ {0, 1}

\* The error SortFiles returns when two records share a key; no key is negative.
DuplicateKey == <<-1>>

HasDuplicate(s) == \E i \in 1 .. Len(s) - 1 : s[i] = s[i + 1]

\* The pieces [1..n], [n+1..2n], ... of s.
Groups(s, n) ==
    [i \in 1 .. (Len(s) + n - 1) \div n |->
        SubSeq(s, (i - 1) * n + 1, IF i * n < Len(s) THEN i * n ELSE Len(s))]

\* SortFiles reads every input in turn and spills a sorted run whenever the
\* memory budget is used up, and once more at the end.
spill(inputs) ==
    LET chunks == Groups(FlattenSeq(inputs), MemoryRecords)
    IN  [i \in 1 .. Len(chunks) |-> SortSeq(chunks[i], <)]

\* The heap of mergeRuns always holds the head of every unfinished run.
mergeRuns(runs) ==
    LET pop[queue \in Seq(Seq(Nat))] ==
            LET live == {k \in 1 .. Len(queue) : queue[k] # <<>>}
                next == CHOOSE k \in live :
                            \A j \in live : Head(queue[k]) <= Head(queue[j])
            IN  IF live = {} THEN <<>>
                ELSE <<Head(queue[next])>> \o pop[[queue EXCEPT ![next] = Tail(@)]]
    IN  pop[runs]

\* A merge that drops the last group when it is not full.
MergeFullGroups(runs) ==
    LET groups == SelectSeq(Groups(runs, MaxOpenFiles), LAMBDA g : Len(g) = MaxOpenFiles)
    IN  [i \in 1 .. Len(groups) |-> mergeRuns(groups[i])]

\* One merge pass: groups of at most MaxOpenFiles runs, each merged into one.
mergePass(runs) ==
    LET groups == Groups(runs, MaxOpenFiles)
    IN  [i \in 1 .. Len(groups) |-> mergeRuns(groups[i])]

\* SortFiles with Unique: passes until one run is left; a duplicate key met
\* in a chunk or in a merge ends the sort with an error.
SortFiles(inputs) ==
    LET passes[runs \in Seq(Seq(Nat))] ==
            IF \E i \in 1 .. Len(runs) : HasDuplicate(runs[i]) THEN DuplicateKey
            ELSE IF Len(runs) = 0 THEN <<>>
            ELSE IF Len(runs) = 1 THEN runs[1]
            ELSE passes[mergePass(runs)]
    IN  passes[spill(inputs)]
====
