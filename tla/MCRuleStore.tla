---------------------------- MODULE MCRuleStore ----------------------------
(* A small instance of RuleStore: two requests at once. *)
EXTENDS RuleStore, TLC, FiniteSets

CONSTANTS r1, r2, b1, b2, c1, n1, n2

\* A body that names a status alone, and lists: none, or two badges.
MCBrought == {[status |-> "faded", since |-> 0, until |-> 0]}
MCRow(b, n, f) == [id |-> b, name |-> n, fade |-> f]
MCBodies == {<<>>} \cup
    {<<MCRow(b2, n, Active), MCRow(b1, m, f)>> : n \in {n1, n2}, m \in {n1, n2}, f \in MCBrought}

\* Requests and names are alike.
Alike == Permutations(Requests) \cup Permutations(Names)
Own(o) == o.kind # "read" /\ \/ o.kind # "edit" /\ o.id # Unset
                             \/ o.kind # "score" /\ o.fade # Unset
Busy   == {r \in Requests : req[r] # Idle}
\* Bounds: harmful overlaps of one kind; lists of two and one push, and one behind
\* them; one body at a time with an id or a fade of its own; one request overlapped
\* at a time, by two kinds; one at all once the time is up or there is a point rule; of a second
\* document, the first rule.
Bounded ==
    /\ Cardinality(overlaps) <= 1
    /\ \A d \in {docs[i] : i \in DOMAIN docs} : Len(d.badges) <= 2 /\ d.version <= 1
    /\ Cardinality({r \in Busy : Own(req[r].op)}) <= 1
    /\ LET beside == {<<r, k>> \in Busy \X Kinds : req[r].at = "save" /\ k \in req[r].beside}
       IN  Cardinality({b[1] : b \in beside}) <= 1 /\ Cardinality(beside) <= 2
    /\ now = LastNow \/ created \cap Scores # {} => Cardinality(Busy) <= 1
    /\ Cardinality(created) <= IF Len(docs) > 1 THEN 1 ELSE 2
    /\ Len(docs) > 1 => now = 1
=============================================================================
