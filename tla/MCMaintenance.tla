---------------------------- MODULE MCMaintenance ----------------------------
(* Small instances of Maintenance for TLC. *)
EXTENDS Maintenance, TLC

MirrorSymmetry == Permutations(Mirrors)

Scenario(start, r, i, d, kinds, commands) ==
    [start |-> start, revs |-> r, ids |-> i, rivals |-> 0,
     damage |-> d, kinds |-> kinds, commands |-> commands]

\* An incident found between the capture of a revision and its publication.
CaptureScenarios == {Scenario("published", 3, 5, 2, {"data"}, {"add", "sync"})}

\* A new revision, then a pending one, among incidents and audits; sync between
\* damaged mirrors; forward repair of a damaged pending revision; repair of a
\* metadata edge.
CommandScenarios ==
    {Scenario("published", 3, 5, 1, {"data"}, {"add", "verify"}),
     Scenario("pending", 3, 5, 1, {"manifest"}, {"add", "verify"}),
     Scenario("published", 2, 3, 2, {"data", "part"}, {"verify", "sync"}),
     Scenario("damaged", 4, 7, 0, {}, {"repair data"}),
     Scenario("pending", 3, 6, 1, {"manifest"}, {"repair metadata"})}

PendingScenarios == {Scenario("pending", 3, 6, 0, {}, {})}
=============================================================================
