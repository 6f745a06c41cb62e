---- MODULE MCCapture ----
(* Three planned paths, four contents and two mirrors. *)
EXTENDS Capture, TLC

CONSTANTS m1, m2

MCMirrors == {m1, m2}
MCSymmetry == Permutations(MCMirrors)

\* A large content (2), one that the base locates (3), two small ones that can
\* share a pack (1 and 4); the same content under several paths.
MCReadable ==
    [p \in 0 .. 2 |-> CASE p = 0 -> {1, 2} [] p = 1 -> {2, 4} [] p = 2 -> {3, NoData}]

\* Colliding digests, the probe wrapping around at the last of eight slots.
MCDigest == [c \in 1 .. 4 |-> IF c = 4 THEN 0 ELSE 7]
====
