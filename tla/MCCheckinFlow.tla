--------------------------- MODULE MCCheckinFlow ---------------------------
(* Small instances of CheckinFlow: who owns which submission, under which     *)
(* key, and which attempts deliver it.  A .cfg picks the attempts, and with   *)
(* them the submissions that matter.                                          *)
EXTENDS CheckinRefinement

CONSTANTS u1, u2, s1, s2, s3, s4, s5, a1, a2, a3, a4, a5, a6, k1, k2, t1, t2

\* s1 and s4 are two accounts with one key; s2 has a photo; s3 is sent by the
\* web client without a key and may be dated ahead; s5 has no task to solve.
MCOwner == [s \in Submissions |-> IF s \in {s1, s3, s5} THEN u1 ELSE u2]
MCKeyOf == [s \in Submissions |-> IF s \in {s1, s4} THEN k1
                                  ELSE IF s = s2 THEN k2 ELSE NoKey]
MCSubmissionOf ==
    [a \in Attempts |-> CASE a \in {a1, a2} -> s1
                          [] a \in {a3, a4} -> s2
                          [] a = a5 -> s3
                          [] OTHER -> s4]
MCAccepts == [s \in Submissions |-> IF s = s5 THEN {}
                                    ELSE IF s = s1 THEN Tasks ELSE Tasks \cap {t1}]
MCFirstTask == [S \in SUBSET Tasks |-> IF t1 \in S THEN t1 ELSE t2]
MCPhotos == Submissions \cap {s2}
MCFutureDated == Submissions \cap {s3}

\* Stages after the first write may fail; only those before it; none.
LateStages == {"task", "board", "record"}
ReadsOnly  == ReadStages
NoStage    == {}
=============================================================================
