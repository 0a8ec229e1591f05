--------------------------- MODULE CheckinPromise ---------------------------
(***************************************************************************)
(* What offline-sync.md promises a phone that sends each check-in with its *)
(* own Idempotency-Key: the check-in is counted for its author exactly     *)
(* once, in one step, and only then does its outbox entry go away.         *)
(***************************************************************************)
EXTENDS Naturals

CONSTANT Submissions

VARIABLES
    counted,    \* counted[s]: how many times s is in its author's totals
    outbox      \* the submissions whose entry still exists

vars == <<counted, outbox>>

Init ==
    /\ counted = [s \in Submissions |-> 0]
    /\ outbox = Submissions

Count(s) ==
    /\ s \in outbox
    /\ counted[s] = 0
    /\ counted' = [counted EXCEPT ![s] = 1]
    /\ UNCHANGED outbox

Clear(s) ==
    /\ s \in outbox
    /\ counted[s] = 1
    /\ outbox' = outbox \ {s}
    /\ UNCHANGED counted

Next == \E s \in Submissions : Count(s) \/ Clear(s)

Spec ==
    /\ Init /\ [][Next]_vars
    /\ \A s \in Submissions : WF_vars(Count(s)) /\ WF_vars(Clear(s))
=============================================================================
