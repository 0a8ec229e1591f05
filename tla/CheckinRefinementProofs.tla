---------------------- MODULE CheckinRefinementProofs ----------------------
(* The steps of CheckinFlow, handlers running one at a time, are steps of      *)
(* CheckinPromise: the part of CountedExactlyOnce that says what never happens. *)
EXTENDS CheckinRefinement, CheckinFlowProofs, FiniteSetTheorems

\* Every entry has a key of its own (offline-sync.md:10, "Every check-in is assigned a
\* UUID `Idempotency-Key`").
OwnKeys ==
    \A s \in Submissions : /\ KeyOf[s] # NoKey
                           /\ \A v \in Submissions : KeyOf[v] = KeyOf[s] => v = s

PromisedEnvironment == SerialEnvironment /\ NoConflicts /\ OwnKeys

\* The phone keeps the entry of a running handler and waits for no other answer; a
\* credit comes from a handler past its write, and a replay from a credit.
PhoneInv ==
    /\ \A a \in Attempts : Running(a) \/ stage[a] = "unsent" => answer[a] = "none"
    /\ \A a \in Attempts : Running(a) =>
          /\ SubmissionOf[a] \in outbox
          /\ awaited[SubmissionOf[a]] \in {a, NoAttempt}
    /\ \A u \in Users : \A a \in userDoc[u].credited :
          stage[a] \in {"board", "record", "answered"}
    /\ \A a \in Attempts :
          stage[a] \in {"replay", "replayTask"} \/ answer[a] = "replayed" =>
              hit[a] \in userDoc[OwnerOf(a)].credited

\* The inductive invariant: what the theorems of CheckinFlowProofs rest on, and the phones.
PromiseInv ==
    /\ Served /\ SerialInv /\ CreditInv
    /\ KeyAnswersCommitted /\ HitInv /\ DeliveryInv
    /\ PhoneInv

\* The attempts of an entry that its author's document contains.
Credits(s) == {a \in userDoc[Owner[s]].credited : SubmissionOf[a] = s}

\* No two credits of a volunteer come from one entry, so it is counted once or not.
LEMMA Counted ==
    ASSUME PromisedEnvironment, PromiseInv, NEW s \in Submissions
    PROVE  /\ \A a \in Credits(s) : Credits(s) = {a} /\ TimesCounted(s) = 1
           /\ Credits(s) = {} => TimesCounted(s) = 0
<1>1. ASSUME NEW a \in Credits(s), NEW b \in Credits(s) PROVE a = b
  <2>1. Owner[s] \in Users
    BY FlowAssumption
  <2>2. /\ a \in Attempts /\ Stored(a) /\ SubmissionOf[a] = s
        /\ b \in Attempts /\ Stored(b) /\ SubmissionOf[b] = s
    BY <1>1, <2>1 DEF Credits, PromiseInv, CreditInv, Committed, Served, Sound, TypeOK
  <2> QED
    BY <2>2 DEF PromiseInv, SerialInv, OnePerKey, Key, PromisedEnvironment, OwnKeys
<1>2. \A a \in Credits(s) : Credits(s) = {a}
  BY <1>1
<1>3. TimesCounted(s) = Cardinality(Credits(s))
  BY DEF TimesCounted, Credits
<1> QED
  BY <1>2, <1>3, FS_EmptySet, FS_Singleton

\* Only saving the user of a check-in adds a credit, that attempt's.
LEMMA CreditsMove ==
    ASSUME PromisedEnvironment, PromiseInv, [Next]_vars
    PROVE  \/ \A u \in Users : userDoc'[u].credited = userDoc[u].credited
           \/ \E a \in Attempts :
                 /\ SaveUser(a)
                 /\ \A u \in Users : userDoc'[u].credited =
                       IF u = OwnerOf(a) THEN userDoc[u].credited \cup {a} ELSE userDoc[u].credited
<1> USE DEF PromiseInv, Served, Sound
<1>1. ASSUME NEW a \in Attempts, SaveUser(a)
      PROVE  \A u \in Users : userDoc'[u].credited =
                IF u = OwnerOf(a) THEN userDoc[u].credited \cup {a} ELSE userDoc[u].credited
  <2>1. seenUser[a] = userDoc[OwnerOf(a)]
    BY <1>1 DEF SaveUser, At, AwardInv, Loaded
  <2> QED
    BY <1>1, <2>1, RewardedType DEF SaveUser, TypeOK
<1>2. ASSUME NEW u \in Users, SaveRate(u)
      PROVE  \A v \in Users : userDoc'[v].credited = userDoc[v].credited
  <2>1. ratingSeen[u] = userDoc[u] /\ userDoc[u] \in UserDoc
    BY <1>2 DEF SaveRate, AwardInv, TypeOK
  <2> QED
    BY <1>2, <2>1 DEF SaveRate, TypeOK, UserDoc
<1>3. CASE userDoc' = userDoc
  BY <1>3
<1> QED
  BY <1>1, <1>2, <1>3 DEF Next, vars, mongo, Post, Handler, LookupKey, ReplayCheckin, ReplayTask,
     LoadTasks, LoadUser, LoadMembers, CheckProject, UploadPhotos, CreateCheckin, CreateMove,
     SolveTask, SaveBoard, RecordKey, Fail, Crash, Timeout, Receive, StartRate, DeleteTask,
     DeleteCheckin, ExpireKey, OpenBoard, ToggleProject

\* An attempt has no answer before it is sent nor while it runs.
LEMMA AnswersWait ==
    ASSUME PromiseInv, [Next]_vars, NEW b \in Attempts, Running(b)' \/ stage'[b] = "unsent"
    PROVE  answer'[b] = "none"
<1> USE DEF PromiseInv, Served, Sound, TypeOK, PhoneInv
<1>1. ASSUME NEW a \in Attempts, Post(a) PROVE answer'[b] = "none"
  BY <1>1 DEF Post, Running
<1>2. ASSUME NEW a \in Attempts, Handler(a) \/ Fail(a) PROVE answer'[b] = "none"
  <2>1. CASE a # b
    <3>1. /\ stage'[b] = stage[b] /\ answer'[b] = answer[b] /\ (b \in dead' <=> b \in dead)
      BY <1>2, <2>1 DEF Handler, Fail, LookupKey, ReplayCheckin, ReplayTask, LoadTasks, LoadUser,
         LoadMembers, CheckProject, UploadPhotos, CreateCheckin, CreateMove, SolveTask, SaveUser,
         SaveBoard, RecordKey, Goto, Respond, Throw
    <3> QED
      BY <3>1 DEF Running
  <2>2. CASE a = b
    <3>1. Running(b)
      BY <1>2, <2>2 DEF Handler, Fail, LookupKey, ReplayCheckin, ReplayTask, LoadTasks, LoadUser,
         LoadMembers, CheckProject, UploadPhotos, CreateCheckin, CreateMove, SolveTask, SaveUser,
         SaveBoard, RecordKey, At
    <3>2. \/ answer'[b] = answer[b]
          \/ stage'[b] = "answered"
          \/ b \in dead' /\ stage'[b] = stage[b]
      BY <1>2, <2>2 DEF Handler, Fail, LookupKey, ReplayCheckin, ReplayTask, LoadTasks, LoadUser,
         LoadMembers, CheckProject, UploadPhotos, CreateCheckin, CreateMove, SolveTask, SaveUser,
         SaveBoard, RecordKey, Goto, Respond, Throw
    <3> QED
      BY <3>1, <3>2 DEF Running, RunStages, ReadStages, CommitStages
  <2> QED
    BY <2>1, <2>2
<1>3. CASE Crash
  BY <1>3 DEF Crash, Running, RunStages, ReadStages, CommitStages
<1>4. CASE UNCHANGED <<stage, dead, answer>>
  BY <1>4 DEF Running
<1> QED
  BY <1>1, <1>2, <1>3, <1>4 DEF Next, vars, Timeout, Receive, SaveRate, StartRate, DeleteTask,
     DeleteCheckin, ExpireKey, OpenBoard, ToggleProject

\* The entry of a handler stays until the handler has answered, and the phone waits
\* for no other answer meanwhile.
LEMMA EntriesStay ==
    ASSUME PromisedEnvironment, PromiseInv, [Next]_vars, NEW b \in Attempts, Running(b)'
    PROVE  /\ SubmissionOf[b] \in outbox'
           /\ awaited'[SubmissionOf[b]] \in {b, NoAttempt}
<1> USE FlowAssumption DEF PromiseInv, Served, Sound, TypeOK
<1>1. ASSUME NEW a \in Attempts, Post(a)
      PROVE  /\ SubmissionOf[b] \in outbox'
             /\ awaited'[SubmissionOf[b]] \in {b, NoAttempt}
  <2>1. a = b
    BY <1>1 DEF Post, PromisedEnvironment, SerialEnvironment, Quiet, Running
  <2> QED
    BY <1>1, <2>1 DEF Post
<1>2. CASE \A a \in Attempts : ~ Post(a)
  <2>1. /\ Running(b) /\ answer[b] = "none"
        /\ SubmissionOf[b] \in outbox
        /\ awaited[SubmissionOf[b]] \in {b, NoAttempt}
    BY <1>2, RunningShrinks DEF PhoneInv
  <2>2. ASSUME NEW s \in Submissions, Timeout(s) \/ Receive(s)
        PROVE  /\ SubmissionOf[b] \in outbox'
               /\ awaited'[SubmissionOf[b]] \in {b, NoAttempt}
    BY <2>1, <2>2 DEF Timeout, Receive
  <2>3. CASE UNCHANGED phones
    BY <2>1, <2>3 DEF phones
  <2> QED
    BY <1>2, <2>2, <2>3 DEF Next, vars, phones, Handler, LookupKey, ReplayCheckin, ReplayTask,
       LoadTasks, LoadUser, LoadMembers, CheckProject, UploadPhotos, CreateCheckin, CreateMove,
       SolveTask, SaveUser, SaveBoard, RecordKey, Fail, Crash, SaveRate, StartRate, DeleteTask,
       DeleteCheckin, ExpireKey, OpenBoard, ToggleProject
<1> QED
  BY <1>1, <1>2

\* A handler past the write of its credit stays past it.
LEMMA PastStays ==
    ASSUME PromiseInv, [Next]_vars, NEW b \in Attempts,
           stage[b] \in {"board", "record", "answered"}
    PROVE  stage'[b] \in {"board", "record", "answered"}
  BY DEF PromiseInv, Served, Sound, TypeOK, Next, vars, Post, Handler, LookupKey, ReplayCheckin,
     ReplayTask, LoadTasks, LoadUser, LoadMembers, CheckProject, UploadPhotos, CreateCheckin,
     CreateMove, SolveTask, SaveUser, SaveBoard, RecordKey, Fail, Crash, Timeout, Receive,
     SaveRate, StartRate, DeleteTask, DeleteCheckin, ExpireKey, OpenBoard, ToggleProject, Goto,
     Respond, Throw, At

\* A replay is of an attempt that was credited.
LEMMA ReplaysAreCredited ==
    ASSUME PromisedEnvironment, PromiseInv, [Next]_vars, NEW b \in Attempts,
           stage'[b] \in {"replay", "replayTask"} \/ answer'[b] = "replayed"
    PROVE  hit'[b] \in userDoc[OwnerOf(b)].credited
<1> USE DEF PromiseInv, Served, Sound, TypeOK, PhoneInv
<1>1. CASE LookupKey(b)
  <2>1. Key(b) \in Keys
    BY <1>1 DEF LookupKey, At, KeyedStages
  <2>2. /\ hit'[b] = keys[Key(b)] /\ keys[Key(b)] # NoAttempt
        /\ OwnerOf(keys[Key(b)]) = OwnerOf(b)
    BY <1>1 DEF LookupKey, At, Goto, Throw, Running
  <2> QED
    BY <2>1, <2>2 DEF KeyAnswersCommitted, AwardInv
<1>2. CASE ~ LookupKey(b)
  <2>1. hit'[b] = hit[b]
    BY <1>2 DEF Next, vars, snapshot, Post, Handler, LookupKey, ReplayCheckin, ReplayTask,
       LoadTasks, LoadUser, LoadMembers, CheckProject, UploadPhotos, CreateCheckin, CreateMove,
       SolveTask, SaveUser, SaveBoard, RecordKey, Fail, Crash, Timeout, Receive, SaveRate,
       StartRate, DeleteTask, DeleteCheckin, ExpireKey, OpenBoard, ToggleProject
  <2>2. stage[b] \in {"replay", "replayTask"} \/ answer[b] = "replayed"
    BY <1>2 DEF Next, vars, Post, Handler, LookupKey, ReplayCheckin, ReplayTask,
       LoadTasks, LoadUser, LoadMembers, CheckProject, UploadPhotos, CreateCheckin, CreateMove,
       SolveTask, SaveUser, SaveBoard, RecordKey, Fail, Crash, Timeout, Receive, SaveRate,
       StartRate, DeleteTask, DeleteCheckin, ExpireKey, OpenBoard, ToggleProject, Goto, Respond,
       Throw, At
  <2> QED
    BY <2>1, <2>2
<1> QED
  BY <1>1, <1>2

\* So the invariant about the phones is kept.
LEMMA PhoneStep ==
    ASSUME PromisedEnvironment, PromiseInv, [Next]_vars
    PROVE  PhoneInv'
<1>1. ASSUME NEW u \in Users, NEW b \in userDoc'[u].credited
      PROVE  stage'[b] \in {"board", "record", "answered"}
  <2>1. CASE b \in userDoc[u].credited
    <3>1. b \in Attempts
      BY <2>1 DEF PromiseInv, Served, Sound, TypeOK, UserDoc
    <3> QED
      BY <2>1, <3>1, PastStays DEF PromiseInv, PhoneInv
  <2>2. CASE b \notin userDoc[u].credited
    <3>1. b \in Attempts /\ SaveUser(b)
      BY <1>1, <2>2, CreditsMove
    <3> QED
      BY <3>1 DEF SaveUser, Goto, PromiseInv, Served, Sound, TypeOK
  <2> QED
    BY <2>1, <2>2
<1>2. ASSUME NEW b \in Attempts,
             stage'[b] \in {"replay", "replayTask"} \/ answer'[b] = "replayed"
      PROVE  hit'[b] \in userDoc'[OwnerOf(b)].credited
  <2>1. OwnerOf(b) \in Users
    BY FlowAssumption DEF OwnerOf
  <2> QED
    BY <1>2, <2>1, ReplaysAreCredited, CreditsMove
<1>3. \A b \in Attempts : Running(b)' \/ stage'[b] = "unsent" => answer'[b] = "none"
  BY AnswersWait
<1>4. \A b \in Attempts : Running(b)' => /\ SubmissionOf[b] \in outbox'
                                       /\ awaited'[SubmissionOf[b]] \in {b, NoAttempt}
  BY EntriesStay
<1> QED
  BY <1>1, <1>2, <1>3, <1>4 DEF PhoneInv, OwnerOf

\* The invariant is inductive.
LEMMA Promising ==
    ASSUME PromisedEnvironment
    PROVE  (Init => PromiseInv) /\ (PromiseInv /\ [Next]_vars => PromiseInv')
<1> USE FlowAssumption DEF PromisedEnvironment
<1>1. Init => Served /\ Sound
  BY Serving DEF Served
<1>2. Init => SerialInv
  BY DEF Init, SerialEnvironment, SerialInv, OneAtATime, AllRecorded, NoneRecorded, OnePerKey,
     NothingMissing, Running, RunStages, ReadStages, CommitStages, Stored
<1>3. Init => CreditInv /\ KeyAnswersCommitted /\ HitInv
  BY DEF Init, CreditInv, KeyAnswersCommitted, HitInv, Committed, NewUser, OwnerOf
<1>4. Init => DeliveryInv /\ PhoneInv
  BY DEF Init, DeliveryInv, GuaranteedDelivery, PhoneInv, Running, RunStages, ReadStages,
     CommitStages, NewUser, OwnerOf
<1>5. ASSUME PromiseInv, [Next]_vars PROVE PromiseInv'
  <2>1. Served'
    BY <1>5, Serving DEF PromiseInv
  <2>2. SerialInv'
    BY <1>5, OneAtATimeStep, AllRecordedStep, NoneRecordedStep, OnePerKeyStep, NothingMissingStep
       DEF PromiseInv, Served, Sound, SerialInv
  <2>3. CreditInv' /\ KeyAnswersCommitted' /\ HitInv'
    BY <1>5, CreditStep, KeyStep, HitStep DEF PromiseInv, Served, Sound
  <2>4. DeliveryInv'
    BY <1>5, DeliveryStep DEF PromiseInv, Served
  <2> QED
    BY <1>5, <2>1, <2>2, <2>3, <2>4, PhoneStep DEF PromiseInv
<1> QED
  BY <1>1, <1>2, <1>3, <1>4, <1>5 DEF PromiseInv

-----------------------------------------------------------------------------
(* The two steps of the promise. *)

\* Saving the user of a check-in counts its entry, for the first time and before it
\* is cleared.
LEMMA SaveCounts ==
    ASSUME PromisedEnvironment, PromiseInv, NEW a \in Attempts, SaveUser(a),
           \A u \in Users : userDoc'[u].credited =
              IF u = OwnerOf(a) THEN userDoc[u].credited \cup {a} ELSE userDoc[u].credited
    PROVE  Promise!Count(SubmissionOf[a])
<1> DEFINE v == SubmissionOf[a]
<1>1. v \in Submissions /\ Owner[v] \in Users /\ OwnerOf(a) = Owner[v]
  BY FlowAssumption DEF OwnerOf
<1>2. v \in outbox /\ UNCHANGED outbox
  BY DEF SaveUser, At, PromiseInv, PhoneInv, phones
<1>3. Credits(v) = {}
  <2> SUFFICES ASSUME NEW b \in Credits(v) PROVE FALSE
    OBVIOUS
  <2>1. /\ b \in Attempts /\ Stored(b) /\ SubmissionOf[b] = v
        /\ stage[b] \in {"board", "record", "answered"}
    BY <1>1 DEF Credits, PromiseInv, CreditInv, Committed, PhoneInv, Served, Sound, TypeOK
  <2>2. stage[a] = "save" /\ Stored(a)
    BY DEF SaveUser, At, PromiseInv, Served, Sound, ProgressInv, AfterCheckin
  <2> QED
    BY <1>1, <2>1, <2>2 DEF PromiseInv, SerialInv, OnePerKey, Key, PromisedEnvironment, OwnKeys
<1>4. TimesCounted(v) = 0
  BY <1>1, <1>3, Counted
<1>5. {b \in userDoc'[Owner[v]].credited : SubmissionOf[b] = v} = {a}
  BY <1>1, <1>3 DEF Credits
<1>6. TimesCounted(v)' = 1
  BY <1>5, FS_Singleton DEF TimesCounted
<1>7. \A s \in Submissions \ {v} : TimesCounted(s)' = TimesCounted(s)
  <2> SUFFICES ASSUME NEW s \in Submissions, s # v
               PROVE  TimesCounted(s)' = TimesCounted(s)
    OBVIOUS
  <2>1. {b \in userDoc'[Owner[s]].credited : SubmissionOf[b] = s}
          = {b \in userDoc[Owner[s]].credited : SubmissionOf[b] = s}
    BY FlowAssumption
  <2> QED
    BY <2>1 DEF TimesCounted
<1> QED
  BY <1>1, <1>2, <1>4, <1>6, <1>7 DEF Promise!Count

\* An answer that clears an entry clears it after it was counted.
LEMMA ReceiveClears ==
    ASSUME PromisedEnvironment, PromiseInv, NEW s \in Submissions, Receive(s), outbox' # outbox
    PROVE  s \in outbox /\ TimesCounted(s) = 1 /\ outbox' = outbox \ {s}
<1> DEFINE a == awaited[s]
<1> USE FlowAssumption DEF PromiseInv, Served, Sound, TypeOK
<1>1. a \in Attempts /\ SubmissionOf[a] = s /\ answer[a] \in {"created", "replayed"}
  BY DEF Receive, Final, DeliveryInv
<1>2. s \in outbox /\ outbox' = outbox \ {s}
  BY DEF Receive
<1>3. CASE answer[a] = "created"
  BY <1>1, <1>2, <1>3, Counted DEF AwardInv, Credits, OwnerOf
<1>4. CASE answer[a] = "replayed"
  <2>1. hit[a] \in userDoc[Owner[s]].credited
    BY <1>1, <1>4 DEF PhoneInv, OwnerOf
  <2>2. SubmissionOf[hit[a]] = s
    BY <1>1, <1>4 DEF HitInv, Key, PromisedEnvironment, OwnKeys
  <2> QED
    BY <1>2, <2>1, <2>2, Counted DEF Credits
<1> QED
  BY <1>1, <1>3, <1>4

\* What is not a step of the promise leaves its two variables alone.
LEMMA CountsStay ==
    ASSUME \A u \in Users : userDoc'[u].credited = userDoc[u].credited
    PROVE  \A s \in Submissions : TimesCounted(s)' = TimesCounted(s)
<1> SUFFICES ASSUME NEW s \in Submissions PROVE TimesCounted(s)' = TimesCounted(s)
  OBVIOUS
<1>1. userDoc'[Owner[s]].credited = userDoc[Owner[s]].credited
  BY FlowAssumption
<1> QED
  BY <1>1 DEF TimesCounted

\* Every step of the service and of the phones counts an entry, clears one that was
\* counted, or changes neither.
LEMMA StepsAreKept ==
    ASSUME PromisedEnvironment, PromiseInv, [Next]_vars
    PROVE  [Promise!Next]_(Promise!vars)
<1>1. CASE \E a \in Attempts :
              /\ SaveUser(a)
              /\ \A u \in Users : userDoc'[u].credited =
                    IF u = OwnerOf(a) THEN userDoc[u].credited \cup {a} ELSE userDoc[u].credited
  <2>1. PICK a \in Attempts : Promise!Count(SubmissionOf[a])
    BY <1>1, SaveCounts
  <2>2. SubmissionOf[a] \in Submissions
    BY FlowAssumption
  <2> QED
    BY <2>1, <2>2 DEF Promise!Next
<1>2. CASE \A u \in Users : userDoc'[u].credited = userDoc[u].credited
  <2>1. UNCHANGED [s \in Submissions |-> TimesCounted(s)]
    BY <1>2, CountsStay
  <2>2. CASE outbox' = outbox
    BY <2>1, <2>2 DEF Promise!vars
  <2>3. CASE outbox' # outbox
    <3>1. PICK s \in Submissions : Receive(s)
      BY <2>3 DEF Next, vars, phones, Post, Handler, LookupKey, ReplayCheckin, ReplayTask,
         LoadTasks, LoadUser, LoadMembers, CheckProject, UploadPhotos, CreateCheckin, CreateMove,
         SolveTask, SaveUser, SaveBoard, RecordKey, Fail, Crash, Timeout, SaveRate, StartRate,
         DeleteTask, DeleteCheckin, ExpireKey, OpenBoard, ToggleProject
    <3>2. Promise!Clear(s)
      BY <2>1, <2>3, <3>1, ReceiveClears DEF Promise!Clear
    <3> QED
      BY <3>2 DEF Promise!Next
  <2> QED
    BY <2>2, <2>3
<1> QED
  BY <1>1, <1>2, CreditsMove

\* One request at a time, each entry under a key of its own and the project open: whatever
\* reads fail, answers are lost, entries are sent again, check-ins are rated or deleted, every
\* step is a step of the promise: an entry is counted at most once, in one step, while the phone
\* still has it, and goes away only after that (create 45-148, offline-sync.md section 7).
THEOREM StepsKeepThePromise ==
    PromisedEnvironment => (Spec => Promise!Init /\ [][Promise!Next]_(Promise!vars))
<1> SUFFICES ASSUME PromisedEnvironment
             PROVE  Spec => Promise!Init /\ [][Promise!Next]_(Promise!vars)
  OBVIOUS
<1>1. Init => Promise!Init
  <2> SUFFICES ASSUME Init PROVE Promise!Init
    OBVIOUS
  <2>1. \A s \in Submissions : {a \in userDoc[Owner[s]].credited : SubmissionOf[a] = s} = {}
    BY FlowAssumption DEF Init, NewUser
  <2>2. \A s \in Submissions : TimesCounted(s) = 0
    BY <2>1, FS_EmptySet DEF TimesCounted
  <2> QED
    BY <2>2 DEF Init, Promise!Init
<1>2. PromiseInv /\ [Next]_vars => [Promise!Next]_(Promise!vars)
  BY StepsAreKept
<1> QED
  BY <1>1, <1>2, Promising, PTL DEF Spec

\* An entry is paid once at most, and has been when the phone deletes it.
PaidOnce == \A s \in Submissions : /\ TimesCounted(s) \in {0, 1}
                                   /\ s \notin outbox => TimesCounted(s) = 1

\* So a volunteer who sees an entry gone has been credited for it, once.
THEOREM ClearedOnceCounted == PromisedEnvironment => (Spec => []PaidOnce)
<1> SUFFICES ASSUME PromisedEnvironment PROVE Spec => []PaidOnce
  OBVIOUS
<1>1. Promise!Init => PaidOnce
  BY DEF Promise!Init, PaidOnce
<1>2. PaidOnce /\ [Promise!Next]_(Promise!vars) => PaidOnce'
  <2> SUFFICES ASSUME PaidOnce, [Promise!Next]_(Promise!vars) PROVE PaidOnce'
    OBVIOUS
  <2> USE DEF PaidOnce
  <2>1. CASE UNCHANGED Promise!vars
    BY <2>1 DEF Promise!vars
  <2>2. ASSUME NEW s \in Submissions, Promise!Count(s) PROVE PaidOnce'
    BY <2>2 DEF Promise!Count
  <2>3. ASSUME NEW s \in Submissions, Promise!Clear(s) PROVE PaidOnce'
    BY <2>3 DEF Promise!Clear
  <2> QED
    BY <2>1, <2>2, <2>3 DEF Promise!Next
<1>3. Spec => Promise!Init /\ [][Promise!Next]_(Promise!vars)
  BY StepsKeepThePromise
<1> QED
  BY <1>1, <1>2, <1>3, PTL
=============================================================================
