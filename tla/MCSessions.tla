----------------------------- MODULE MCSessions -----------------------------
(* Small instances of Sessions. *)
EXTENDS Sessions, TLC

CONSTANTS d1, d2, d3, r1, r2

\* The devices are alike (the legacy token, where there is one, is d1's).
Alike       == Permutations(Tokens \ {Legacy}) \cup Permutations(Refreshes)
=============================================================================
