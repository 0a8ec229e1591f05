---------------------------- MODULE MCCatalogue ----------------------------
(* A small instance of Catalogue: two requests at once. *)
EXTENDS Catalogue, TLC

CONSTANTS r1, r2, A1, T1, I1, I2, t1, t2, t3, u1, u2, cover, b1, b2

\* Requests, tasks, intervals and image URLs are alike.
Alike == Permutations(Requests) \cup Permutations(Tasks) \cup Permutations(Intervals)
            \cup Permutations(Images)
\* Bounds: one area and one type, each listed or not; one harmful overlap or broken
\* bulk save, and after it requests run one at a time; opening, migrations and work on
\* tasks and areas share nothing, and do not mix.
Migrating == image # wanted \/ \E r \in Requests : req[r].at = "migrate"
Opening   == ~ toggles \/ ~ available \/ \E r \in Requests : req[r].at = "toggle"
Untouched(kind) ==
    /\ tasks = <<>> /\ types = Types
    /\ \A r \in Requests : req[r].at \in {"idle", kind}
Bounded ==
    /\ Cardinality(overlaps) + (IF torn THEN 1 ELSE 0) <= 1
    /\ overlaps # {} \/ torn => \E r \in Requests : req[r] = Idle
    /\ Migrating => Untouched("migrate") /\ ~ Opening
    /\ Opening => Untouched("toggle")
=============================================================================
