---------------------------- MODULE MCPublication ----------------------------
(* Small instances of Publication for TLC. *)
EXTENDS Publication, TLC

MirrorSymmetry == Permutations(Mirrors)

Scenario(start, r, i, n) ==
    [start |-> start, revs |-> r, ids |-> i, rivals |-> n,
     damage |-> 0, kinds |-> {}, commands |-> {"add"}]

\* The first publication; later ones while another writer may interfere.
PublicationScenarios == {Scenario("genesis", 2, 3, 0), Scenario("published", 4, 6, 1)}

ResetScenarios == {Scenario("published", 3, 5, 0)}
=============================================================================
