------------------------- MODULE CheckinRefinement -------------------------
(* CheckinFlow, run one handler at a time, implements CheckinPromise.         *)
EXTENDS CheckinFlow, FiniteSets

\* A submission is counted once for each of its attempts that its author's
\* document contains.
TimesCounted(s) ==
    Cardinality({a \in userDoc[Owner[s]].credited : SubmissionOf[a] = s})

Promise == INSTANCE CheckinPromise
           WITH counted <- [s \in Submissions |-> TimesCounted(s)]

\* Every step of the service and the phones is a step of the promise or changes
\* nothing a volunteer sees; and every entry is counted and cleared in the end
\* (offline-sync.md section 7, create 45-148).
CountedExactlyOnce == Promise!Spec
=============================================================================
