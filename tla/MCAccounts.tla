----------------------------- MODULE MCAccounts -----------------------------
(* A small instance of Accounts: two requests at once. *)
EXTENDS Accounts, TLC

CONSTANTS r1, r2, e1, e2, n1, n2, s1, s2, t1, t2, p1, p2

Alike == Permutations(Requests) \cup Permutations(Names) \cup Permutations(Tokens)
            \cup Permutations(Subs) \cup Permutations(Passwords) \cup Permutations(Emails)
\* Bounds: after a harmful overlap, requests run one at a time; beside a second account only Google sign-ins and
\* profile edits, and no overlap harms.
Bounded ==
    /\ overlaps # {} => \E r \in Requests : req[r] = Idle
    /\ Cardinality(Known) > 1 =>
          /\ used = {} /\ overlaps = {}
          /\ \A e \in Known : accounts[e].gameProfiles = <<>>
          /\ \A r \in Requests : req[r].at = "save" => req[r].kind \in {"google", "save"}
=============================================================================
