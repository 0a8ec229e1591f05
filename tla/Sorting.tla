------------------------------ MODULE Sorting ------------------------------
(* Array.prototype.sort and filter, with an order that tells elements apart. *)
EXTENDS Naturals, SequencesExt

SortedBy(S, Before(_, _)) ==
    CHOOSE s \in SetToSeqs(S) : \A i, j \in DOMAIN s : i < j => Before(s[i], s[j])

\* What is in T of the sequence s, in its order.
Filtered(s, T) ==
    LET kept == SortedBy({i \in DOMAIN s : s[i] \in T}, LAMBDA i, j : i < j)
    IN  [k \in DOMAIN kept |-> s[kept[k]]]
=============================================================================
