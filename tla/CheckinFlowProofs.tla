------------------------- MODULE CheckinFlowProofs -------------------------
(* Theorems about CheckinFlow for any number of users, submissions, attempts,*)
(* tasks and keys.                                                           *)
EXTENDS CheckinFlow, TLAPS

\* A handler that moves on, answers or throws keeps its bookkeeping typed.
LEMMA MoveOnType ==
    ASSUME TypeOK, NEW a \in Attempts, NEW st \in Stages, NEW r \in Answers,
           Goto(a, st) \/ Respond(a, r) \/ Throw(a, r)
    PROVE  /\ stage' \in [Attempts -> Stages]
           /\ dead' \subseteq Attempts
           /\ answer' \in [Attempts -> Answers]
<1> "answered" \in Stages
  BY DEF Stages
<1>1. CASE Goto(a, st)
  BY <1>1 DEF Goto, TypeOK
<1>2. CASE Respond(a, r)
  BY <1>2 DEF Respond, TypeOK
<1>3. CASE Throw(a, r)
  BY <1>3 DEF Throw, TypeOK
<1> QED
  BY <1>1, <1>2, <1>3

\* What addBadgeFromProject, addPointsFromProject and addContribution leave of the
\* user read is a user document with this attempt among its credits.
LEMMA RewardedType ==
    ASSUME TypeOK, NEW a \in Attempts
    PROVE  /\ Rewarded(a) \in UserDoc
           /\ Rewarded(a).credited = seenUser[a].credited \cup {a}
           /\ Rewarded(a).credited \subseteq Attempts
<1>1. seenUser[a] \in UserDoc
  BY DEF TypeOK
<1> QED
  BY <1>1 DEF Rewarded, UserDoc

\* TypeOK is not inductive alone: LookupKey and RecordKey index keys by the
\* key of the attempt, which only attempts with a key may reach.
KeyedStages ==
    \A a \in Attempts :
        stage[a] \in {"lookup", "replay", "replayTask", "record"} => Key(a) \in Keys

\* No step takes an attempt without a key to a stage that uses one.
LEMMA KeyedStagesStep == TypeOK /\ KeyedStages /\ [Next]_vars => KeyedStages'
<1> SUFFICES ASSUME TypeOK, KeyedStages, [Next]_vars,
                    NEW b \in Attempts,
                    stage'[b] \in {"lookup", "replay", "replayTask", "record"}
             PROVE  Key(b) \in Keys
  BY DEF KeyedStages, Key
<1>1. CASE stage'[b] = stage[b]
  BY <1>1 DEF KeyedStages
<1>2. CASE stage'[b] # stage[b]
  <2>1. PICK a \in Attempts : Post(a) \/ Handler(a)
    BY <1>2 DEF Next, vars, mongo, Fail, Throw, DeleteCheckin, Timeout, Receive,
                SaveRate, StartRate, DeleteTask, ExpireKey, Crash, OpenBoard,
                ToggleProject
  <2>2. a = b
    BY <1>2, <2>1 DEF TypeOK, Post, Handler, LookupKey, ReplayCheckin, ReplayTask,
       LoadTasks, LoadUser, LoadMembers, CheckProject, UploadPhotos,
       CreateCheckin, CreateMove, SolveTask, SaveUser, SaveBoard, RecordKey,
       Goto, Respond, Throw
  <2>3. CASE Post(a)
    BY <2>2, <2>3, FlowAssumption DEF Post, Key, TypeOK
  <2>4. CASE LookupKey(a) \/ ReplayCheckin(a)
    BY <2>2, <2>4 DEF LookupKey, ReplayCheckin, At, KeyedStages
  <2>5. CASE SaveBoard(a)
    BY <1>2, <2>2, <2>5, FlowAssumption
       DEF SaveBoard, Goto, Respond, Throw, Key, TypeOK
  <2>6. CASE LoadTasks(a) \/ LoadUser(a) \/ LoadMembers(a) \/ UploadPhotos(a)
             \/ CheckProject(a) \/ CreateCheckin(a) \/ CreateMove(a)
             \/ SolveTask(a) \/ SaveUser(a) \/ ReplayTask(a) \/ RecordKey(a)
    BY <1>2, <2>2, <2>6 DEF LoadTasks, LoadUser, LoadMembers, CheckProject,
       UploadPhotos, CreateCheckin, CreateMove, SolveTask, SaveUser, ReplayTask,
       RecordKey, Goto, Respond, Throw, TypeOK
  <2> QED
    BY <2>1, <2>3, <2>4, <2>5, <2>6 DEF Handler
<1> QED
  BY <1>1, <1>2

\* Every step keeps the state typed.
LEMMA TypeStep == TypeOK /\ KeyedStages /\ [Next]_vars => TypeOK'
<1> SUFFICES ASSUME TypeOK, KeyedStages, [Next]_vars PROVE TypeOK'
  OBVIOUS
<1> USE FlowAssumption DEF TypeOK, mongo, snapshot, rates, phones, Stages,
        ReadStages, CommitStages, RunStages, Answers, UserDoc
<1>1. ASSUME NEW a \in Attempts, Post(a) PROVE TypeOK'
  BY <1>1 DEF Post, Key
<1>2. ASSUME NEW a \in Attempts, LookupKey(a) PROVE TypeOK'
  <2>1. /\ stage' \in [Attempts -> Stages]
        /\ dead' \subseteq Attempts
        /\ answer' \in [Attempts -> Answers]
    BY <1>2, MoveOnType DEF LookupKey
  <2>2. hit' \in [Attempts -> Attempts \cup {NoAttempt}]
    <3>1. CASE hit' = hit
      BY <3>1
    <3>2. CASE hit' = [hit EXCEPT ![a] = keys[Key(a)]]
      BY <1>2, <3>2 DEF LookupKey, At, KeyedStages
    <3> QED
      BY <1>2, <3>1, <3>2 DEF LookupKey
  <2> QED
    BY <1>2, <2>1, <2>2 DEF LookupKey
<1>3. ASSUME NEW a \in Attempts, ReplayCheckin(a) PROVE TypeOK'
  <2>1. /\ stage' \in [Attempts -> Stages]
        /\ dead' \subseteq Attempts
        /\ answer' \in [Attempts -> Answers]
    BY <1>3, MoveOnType DEF ReplayCheckin
  <2> QED
    BY <1>3, <2>1 DEF ReplayCheckin
<1>4. ASSUME NEW a \in Attempts, ReplayTask(a) PROVE TypeOK'
  <2>1. /\ stage' \in [Attempts -> Stages]
        /\ dead' \subseteq Attempts
        /\ answer' \in [Attempts -> Answers]
    BY <1>4, MoveOnType DEF ReplayTask
  <2> QED
    BY <1>4, <2>1 DEF ReplayTask
<1>5. ASSUME NEW a \in Attempts, LoadTasks(a) PROVE TypeOK'
  BY <1>5 DEF LoadTasks, Goto
<1>6. ASSUME NEW a \in Attempts, LoadUser(a) PROVE TypeOK'
  BY <1>6 DEF LoadUser, Goto, OwnerOf
<1>7. ASSUME NEW a \in Attempts, LoadMembers(a) PROVE TypeOK'
  BY <1>7 DEF LoadMembers, Goto
<1>8. ASSUME NEW a \in Attempts, CheckProject(a) PROVE TypeOK'
  <2>1. /\ stage' \in [Attempts -> Stages]
        /\ dead' \subseteq Attempts
        /\ answer' \in [Attempts -> Answers]
    BY <1>8, MoveOnType DEF CheckProject
  <2> QED
    BY <1>8, <2>1 DEF CheckProject
<1>9. ASSUME NEW a \in Attempts, UploadPhotos(a) PROVE TypeOK'
  BY <1>9 DEF UploadPhotos, Goto
<1>10. ASSUME NEW a \in Attempts, CreateCheckin(a) PROVE TypeOK'
  BY <1>10 DEF CreateCheckin, Goto
<1>11. ASSUME NEW a \in Attempts, CreateMove(a) PROVE TypeOK'
  BY <1>11 DEF CreateMove, Goto
<1>12. ASSUME NEW a \in Attempts, SolveTask(a) PROVE TypeOK'
  <2>1. /\ stage' \in [Attempts -> Stages]
        /\ dead' \subseteq Attempts
        /\ answer' \in [Attempts -> Answers]
    BY <1>12, MoveOnType DEF SolveTask
  <2>2. taskState' \in [Tasks -> {"open", "solved", "deleted"}]
    BY <1>12 DEF SolveTask
  <2> QED
    BY <1>12, <2>1, <2>2 DEF SolveTask
<1>13. ASSUME NEW a \in Attempts, SaveUser(a) PROVE TypeOK'
  <2>1. /\ stage' \in [Attempts -> Stages]
        /\ dead' \subseteq Attempts
        /\ answer' \in [Attempts -> Answers]
    BY <1>13, MoveOnType DEF SaveUser
  <2>2. userDoc' \in [Users -> UserDoc]
    BY <1>13, RewardedType DEF SaveUser
  <2> QED
    BY <1>13, <2>1, <2>2 DEF SaveUser
<1>14. ASSUME NEW a \in Attempts, SaveBoard(a) PROVE TypeOK'
  <2>1. /\ stage' \in [Attempts -> Stages]
        /\ dead' \subseteq Attempts
        /\ answer' \in [Attempts -> Answers]
    BY <1>14, MoveOnType DEF SaveBoard
  <2>2. board' \in [Users -> SUBSET Attempts]
    <3>1. seenMembers[a] \in [Users -> SUBSET Attempts]
      OBVIOUS
    <3>2. CASE board' = [seenMembers[a] EXCEPT ![OwnerOf(a)] = Rewarded(a).credited]
      BY <3>1, <3>2, RewardedType
    <3>3. CASE board' = board
      BY <3>3
    <3> QED
      BY <1>14, <3>2, <3>3 DEF SaveBoard
  <2> QED
    BY <1>14, <2>1, <2>2 DEF SaveBoard
<1>15. ASSUME NEW a \in Attempts, RecordKey(a) PROVE TypeOK'
  <2>1. /\ stage' \in [Attempts -> Stages]
        /\ dead' \subseteq Attempts
        /\ answer' \in [Attempts -> Answers]
    BY <1>15, MoveOnType DEF RecordKey
  <2>2. keys' \in [Keys -> Attempts \cup {NoAttempt}]
    BY <1>15 DEF RecordKey
  <2> QED
    BY <1>15, <2>1, <2>2 DEF RecordKey
<1>16. ASSUME NEW a \in Attempts, Fail(a) PROVE TypeOK'
  BY <1>16 DEF Fail, Throw
<1>17. ASSUME NEW a \in Attempts, DeleteCheckin(a) PROVE TypeOK'
  BY <1>17 DEF DeleteCheckin
<1>18. ASSUME NEW s \in Submissions, Timeout(s) PROVE TypeOK'
  BY <1>18 DEF Timeout
<1>19. ASSUME NEW s \in Submissions, Receive(s) PROVE TypeOK'
  BY <1>19 DEF Receive
<1>20. ASSUME NEW u \in Users, SaveRate(u) PROVE TypeOK'
  <2>1. ratingSeen[u] \in UserDoc /\ rating[u] \in Attempts
    BY <1>20 DEF SaveRate
  <2>2. [ratingSeen[u] EXCEPT !.rated = @ \cup {rating[u]}] \in UserDoc
    BY <2>1
  <2>3. userDoc' \in [Users -> UserDoc] /\ rating' \in [Users -> Attempts \cup {NoAttempt}]
    BY <1>20, <2>2 DEF SaveRate
  <2> QED
    BY <1>20, <2>3 DEF SaveRate
<1>21. ASSUME NEW u \in Users, NEW c \in Attempts, StartRate(u, c) PROVE TypeOK'
  BY <1>21 DEF StartRate
<1>22. ASSUME NEW t \in Tasks, DeleteTask(t) PROVE TypeOK'
  BY <1>22 DEF DeleteTask
<1>23. ASSUME NEW k \in Keys, ExpireKey(k) PROVE TypeOK'
  BY <1>23 DEF ExpireKey
<1>24. ASSUME Crash PROVE TypeOK'
  BY <1>24 DEF Crash
<1>25. ASSUME OpenBoard PROVE TypeOK'
  BY <1>25 DEF OpenBoard
<1>26. ASSUME ToggleProject PROVE TypeOK'
  BY <1>26 DEF ToggleProject
<1>27. CASE UNCHANGED vars
  BY <1>27 DEF vars
<1>28. QED
  BY <1>1, <1>2, <1>3, <1>4, <1>5, <1>6, <1>7, <1>8, <1>9, <1>10, <1>11, <1>12, <1>13, <1>14, <1>15, <1>16, <1>17, <1>18, <1>19, <1>20, <1>21, <1>22, <1>23, <1>24, <1>25, <1>26, <1>27 DEF Next, Handler

\* Every state of the flow is well typed, and only attempts with a key look one
\* up, replay or record one.
THEOREM TypeCorrect == Spec => [](TypeOK /\ KeyedStages)
<1>1. Init => TypeOK /\ KeyedStages
  BY FlowAssumption DEF Init, TypeOK, KeyedStages, NewUser, UserDoc, Stages, Answers
<1>2. TypeOK /\ KeyedStages /\ [Next]_vars => (TypeOK /\ KeyedStages)'
  BY TypeStep, KeyedStagesStep
<1> QED
  BY <1>1, <1>2, PTL DEF Spec

-----------------------------------------------------------------------------
(* What a handler has written, by the stage it has reached. *)

AfterCheckin == {"move", "task", "save", "board", "record"}
AfterMove    == {"task", "save", "board", "record"}

ProgressInv ==
    \A a \in Attempts :
        /\ stage[a] \in AfterCheckin => Stored(a)
        /\ stage[a] \in AfterMove => a \in moves
        /\ answer[a] = "created" => stage[a] = "answered" /\ Stored(a) /\ a \in moves
        /\ answer[a] = "replayed" => stage[a] = "answered" /\ ~ Stored(a)
        /\ stage[a] \in ReadStages \cup {"unsent", "checkin"} => ~ Stored(a)
        /\ stage[a] = "answered" => answer[a] \in {"created", "replayed"}

\* Every step keeps the stage of a handler in agreement with what it has written.
LEMMA ProgressStep == TypeOK /\ ProgressInv /\ [Next]_vars => ProgressInv'
<1> SUFFICES ASSUME TypeOK, ProgressInv, [Next]_vars PROVE ProgressInv'
  OBVIOUS
<1> USE DEF TypeOK, ProgressInv, AfterCheckin, AfterMove, ReadStages, CommitStages,
        RunStages, Stages, Answers, Stored, At, Running, Goto, Respond, Throw, mongo,
        snapshot, rates, phones
<1>1. ASSUME NEW a \in Attempts, LookupKey(a) PROVE ProgressInv'
  BY <1>1 DEF LookupKey
<1>2. ASSUME NEW a \in Attempts, ReplayCheckin(a) PROVE ProgressInv'
  BY <1>2 DEF ReplayCheckin
<1>3. ASSUME NEW a \in Attempts, ReplayTask(a) PROVE ProgressInv'
  BY <1>3 DEF ReplayTask
<1>4. ASSUME NEW a \in Attempts, LoadTasks(a) PROVE ProgressInv'
  BY <1>4 DEF LoadTasks
<1>5. ASSUME NEW a \in Attempts, LoadUser(a) PROVE ProgressInv'
  BY <1>5 DEF LoadUser
<1>6. ASSUME NEW a \in Attempts, LoadMembers(a) PROVE ProgressInv'
  BY <1>6 DEF LoadMembers
<1>7. ASSUME NEW a \in Attempts, CheckProject(a) PROVE ProgressInv'
  BY <1>7 DEF CheckProject
<1>8. ASSUME NEW a \in Attempts, UploadPhotos(a) PROVE ProgressInv'
  BY <1>8 DEF UploadPhotos
<1>9. ASSUME NEW a \in Attempts, CreateCheckin(a) PROVE ProgressInv'
  BY <1>9 DEF CreateCheckin
<1>10. ASSUME NEW a \in Attempts, CreateMove(a) PROVE ProgressInv'
  BY <1>10 DEF CreateMove
<1>11. ASSUME NEW a \in Attempts, SolveTask(a) PROVE ProgressInv'
  BY <1>11 DEF SolveTask
<1>12. ASSUME NEW a \in Attempts, SaveUser(a) PROVE ProgressInv'
  BY <1>12 DEF SaveUser
<1>13. ASSUME NEW a \in Attempts, SaveBoard(a) PROVE ProgressInv'
  BY <1>13 DEF SaveBoard
<1>14. ASSUME NEW a \in Attempts, RecordKey(a) PROVE ProgressInv'
  BY <1>14 DEF RecordKey
<1>15. ASSUME NEW a \in Attempts, Fail(a) PROVE ProgressInv'
  BY <1>15 DEF Fail
<1>16. ASSUME NEW a \in Attempts, Post(a) PROVE ProgressInv'
  BY <1>16 DEF Post
<1>17. ASSUME NEW a \in Attempts, DeleteCheckin(a) PROVE ProgressInv'
  BY <1>17 DEF DeleteCheckin
<1>18. CASE Crash
  BY <1>18 DEF Crash
<1>19. CASE UNCHANGED <<checkins, moves, stage, answer>>
  BY <1>19
<1> QED
  <2>1. CASE Next
    BY <2>1, <1>1, <1>2, <1>3, <1>4, <1>5, <1>6, <1>7, <1>8, <1>9, <1>10, <1>11, <1>12, <1>13, <1>14, <1>15, <1>16, <1>17, <1>18, <1>19
       DEF Next, Handler, Timeout, Receive, SaveRate, StartRate, DeleteTask,
           ExpireKey, OpenBoard, ToggleProject
  <2>2. CASE UNCHANGED vars
    BY <2>2, <1>19 DEF vars
  <2> QED
    BY <2>1, <2>2

-----------------------------------------------------------------------------
(* A row is written last, by a handler past every other write.              *)

\* Every step keeps each idempotency row naming a committed attempt of its key.
LEMMA KeyStep ==
    TypeOK /\ KeyedStages /\ ProgressInv /\ KeyAnswersCommitted /\ [Next]_vars
        => KeyAnswersCommitted'
<1> SUFFICES ASSUME TypeOK, KeyedStages, ProgressInv, KeyAnswersCommitted, [Next]_vars
             PROVE  KeyAnswersCommitted'
  OBVIOUS
<1> USE DEF TypeOK, ProgressInv, AfterCheckin, AfterMove, ReadStages, CommitStages,
        RunStages, Stages, Answers, Stored, At, Running, Goto, Respond, Throw, mongo,
        snapshot, rates, phones, Key, OwnerOf, KeyAnswersCommitted,
        KeyedStages
<1> USE FlowAssumption
<1>1. ASSUME NEW a \in Attempts, Post(a) PROVE KeyAnswersCommitted'
  BY <1>1 DEF Post
<1>2. ASSUME NEW a \in Attempts, LookupKey(a) PROVE KeyAnswersCommitted'
  BY <1>2 DEF LookupKey
<1>3. ASSUME NEW a \in Attempts, ReplayCheckin(a) PROVE KeyAnswersCommitted'
  BY <1>3 DEF ReplayCheckin
<1>4. ASSUME NEW a \in Attempts, ReplayTask(a) PROVE KeyAnswersCommitted'
  BY <1>4 DEF ReplayTask
<1>5. ASSUME NEW a \in Attempts, LoadTasks(a) PROVE KeyAnswersCommitted'
  BY <1>5 DEF LoadTasks
<1>6. ASSUME NEW a \in Attempts, LoadUser(a) PROVE KeyAnswersCommitted'
  BY <1>6 DEF LoadUser
<1>7. ASSUME NEW a \in Attempts, LoadMembers(a) PROVE KeyAnswersCommitted'
  BY <1>7 DEF LoadMembers
<1>8. ASSUME NEW a \in Attempts, CheckProject(a) PROVE KeyAnswersCommitted'
  BY <1>8 DEF CheckProject
<1>9. ASSUME NEW a \in Attempts, UploadPhotos(a) PROVE KeyAnswersCommitted'
  BY <1>9 DEF UploadPhotos
<1>10. ASSUME NEW a \in Attempts, CreateCheckin(a) PROVE KeyAnswersCommitted'
  BY <1>10 DEF CreateCheckin
<1>11. ASSUME NEW a \in Attempts, CreateMove(a) PROVE KeyAnswersCommitted'
  BY <1>11 DEF CreateMove
<1>12. ASSUME NEW a \in Attempts, SolveTask(a) PROVE KeyAnswersCommitted'
  BY <1>12 DEF SolveTask
<1>13. ASSUME NEW a \in Attempts, SaveUser(a) PROVE KeyAnswersCommitted'
  BY <1>13 DEF SaveUser
<1>14. ASSUME NEW a \in Attempts, SaveBoard(a) PROVE KeyAnswersCommitted'
  BY <1>14 DEF SaveBoard
<1>15. ASSUME NEW a \in Attempts, RecordKey(a) PROVE KeyAnswersCommitted'
  BY <1>15 DEF RecordKey
<1>16. ASSUME NEW a \in Attempts, Fail(a) PROVE KeyAnswersCommitted'
  BY <1>16 DEF Fail
<1>17. ASSUME NEW a \in Attempts, DeleteCheckin(a) PROVE KeyAnswersCommitted'
  BY <1>17 DEF DeleteCheckin
<1>18. CASE Crash
  BY <1>18 DEF Crash
<1>19. ASSUME NEW k \in Keys, ExpireKey(k) PROVE KeyAnswersCommitted'
  BY <1>19 DEF ExpireKey
<1>20. CASE UNCHANGED <<checkins, moves, keys, answer>>
  BY <1>20
<1> QED
  <2>1. CASE Next
    BY <2>1, <1>1, <1>2, <1>3, <1>4, <1>5, <1>6, <1>7, <1>8, <1>9, <1>10, <1>11, <1>12, <1>13, <1>14, <1>15, <1>16, <1>17, <1>18, <1>19, <1>20
       DEF Next, Handler, Timeout, Receive, SaveRate, StartRate, DeleteTask,
           OpenBoard, ToggleProject
  <2>2. CASE UNCHANGED vars
    BY <2>2, <1>20 DEF vars
  <2> QED
    BY <2>1, <2>2

\* What a handler that found a row may rely on until it has answered.
HitInv ==
    \A a \in Attempts :
        (stage[a] \in {"replay", "replayTask"} \/ answer[a] = "replayed") =>
            /\ hit[a] \in moves
            /\ Stored(hit[a])
            /\ OwnerOf(hit[a]) = OwnerOf(a)
            /\ Key(hit[a]) = Key(a)

\* Every step keeps the row that a replay works from a committed one of its caller.
LEMMA HitStep ==
    TypeOK /\ KeyedStages /\ ProgressInv /\ KeyAnswersCommitted /\ HitInv /\ [Next]_vars
        => HitInv'
<1> SUFFICES ASSUME TypeOK, KeyedStages, ProgressInv, KeyAnswersCommitted, HitInv,
                    [Next]_vars
             PROVE  HitInv'
  OBVIOUS
<1> USE DEF TypeOK, ProgressInv, AfterCheckin, AfterMove, ReadStages, CommitStages,
        RunStages, Stages, Answers, Stored, At, Running, Goto, Respond, Throw, mongo,
        snapshot, rates, phones, Key, OwnerOf, KeyAnswersCommitted,
        KeyedStages, HitInv
<1> USE FlowAssumption
<1>1. ASSUME NEW a \in Attempts, Post(a) PROVE HitInv'
  BY <1>1 DEF Post
<1>2. ASSUME NEW a \in Attempts, LookupKey(a) PROVE HitInv'
  BY <1>2 DEF LookupKey
<1>3. ASSUME NEW a \in Attempts, ReplayCheckin(a) PROVE HitInv'
  BY <1>3 DEF ReplayCheckin
<1>4. ASSUME NEW a \in Attempts, ReplayTask(a) PROVE HitInv'
  BY <1>4 DEF ReplayTask
<1>5. ASSUME NEW a \in Attempts, LoadTasks(a) PROVE HitInv'
  BY <1>5 DEF LoadTasks
<1>6. ASSUME NEW a \in Attempts, LoadUser(a) PROVE HitInv'
  BY <1>6 DEF LoadUser
<1>7. ASSUME NEW a \in Attempts, LoadMembers(a) PROVE HitInv'
  BY <1>7 DEF LoadMembers
<1>8. ASSUME NEW a \in Attempts, CheckProject(a) PROVE HitInv'
  BY <1>8 DEF CheckProject
<1>9. ASSUME NEW a \in Attempts, UploadPhotos(a) PROVE HitInv'
  BY <1>9 DEF UploadPhotos
<1>10. ASSUME NEW a \in Attempts, CreateCheckin(a) PROVE HitInv'
  BY <1>10 DEF CreateCheckin
<1>11. ASSUME NEW a \in Attempts, CreateMove(a) PROVE HitInv'
  BY <1>11 DEF CreateMove
<1>12. ASSUME NEW a \in Attempts, SolveTask(a) PROVE HitInv'
  BY <1>12 DEF SolveTask
<1>13. ASSUME NEW a \in Attempts, SaveUser(a) PROVE HitInv'
  BY <1>13 DEF SaveUser
<1>14. ASSUME NEW a \in Attempts, SaveBoard(a) PROVE HitInv'
  BY <1>14 DEF SaveBoard
<1>15. ASSUME NEW a \in Attempts, RecordKey(a) PROVE HitInv'
  BY <1>15 DEF RecordKey
<1>16. ASSUME NEW a \in Attempts, Fail(a) PROVE HitInv'
  BY <1>16 DEF Fail
<1>17. ASSUME NEW a \in Attempts, DeleteCheckin(a) PROVE HitInv'
  BY <1>17 DEF DeleteCheckin
<1>18. CASE Crash
  BY <1>18 DEF Crash
<1>19. CASE UNCHANGED <<checkins, moves, stage, answer, hit>>
  BY <1>19
<1> QED
  <2>1. CASE Next
    BY <2>1, <1>1, <1>2, <1>3, <1>4, <1>5, <1>6, <1>7, <1>8, <1>9, <1>10, <1>11, <1>12, <1>13, <1>14, <1>15, <1>16, <1>17, <1>18, <1>19
       DEF Next, Handler, Timeout, Receive, SaveRate, StartRate, DeleteTask,
           ExpireKey, OpenBoard, ToggleProject
  <2>2. CASE UNCHANGED vars
    BY <2>2, <1>19 DEF vars
  <2> QED
    BY <2>1, <2>2

\* A row answers with a committed check-in of its own key, and a replay shows the
\* caller an own, committed check-in, whatever overlaps, fails or expires.
THEOREM KeysAreSafe == Spec => [](KeyAnswersCommitted /\ ReplayAnswersOwnCheckin)
<1> DEFINE IInv == TypeOK /\ KeyedStages /\ ProgressInv /\ KeyAnswersCommitted /\ HitInv
<1>1. Init => IInv
  BY FlowAssumption DEF Init, TypeOK, KeyedStages, NewUser, UserDoc, Stages, RunStages,
     ReadStages, CommitStages, Answers, ProgressInv, AfterCheckin, AfterMove, Stored,
     KeyAnswersCommitted, HitInv
<1>2. IInv /\ [Next]_vars => IInv'
  BY TypeStep, KeyedStagesStep, ProgressStep, KeyStep, HitStep
<1>3. IInv => KeyAnswersCommitted /\ ReplayAnswersOwnCheckin
  BY DEF ProgressInv, HitInv, ReplayAnswersOwnCheckin
<1> QED
  BY <1>1, <1>2, <1>3, PTL DEF Spec

-----------------------------------------------------------------------------
(* One handler at a time.  Why one check-in per key: whatever has stored a     *)
(* check-in and runs no more has recorded its key (AllRecorded), and whoever   *)
(* runs past the lookup runs alone and found none (NoneRecorded).              *)

Past == {"tasks", "user", "members", "project", "upload"} \cup CommitStages

OneAtATime == \A a, b \in Attempts : (Running(a) /\ Running(b)) => a = b

AllRecorded ==
    \A a \in Attempts :
        (Stored(a) /\ ~ Running(a) /\ Key(a) # NoKey) => keys[Key(a)] # NoAttempt

NoneRecorded ==
    \A a \in Attempts :
        (Running(a) /\ stage[a] \in Past /\ Key(a) # NoKey) => keys[Key(a)] = NoAttempt

OnePerKey ==
    \A a, b \in Attempts :
        (a # b /\ Stored(a) /\ Stored(b) /\ Key(a) = Key(b)) => Key(a) = NoKey

\* What keeps SolveTask and SaveBoard from answering 404.
NothingMissing ==
    /\ hasBoard
    /\ \A t \in Tasks : taskState[t] # "deleted"
    /\ \A a \in Attempts : stage[a] = "task" => Contribution(a) \in Tasks

SerialInv == OneAtATime /\ AllRecorded /\ NoneRecorded /\ OnePerKey /\ NothingMissing

\* A check-in contributes to a task of the project or to none.
LEMMA ContributionType ==
    ASSUME TypeOK, NEW a \in Attempts
    PROVE  Contribution(a) \in Tasks \cup {NoTask}
<1>1. seenTasks[a] \cap Accepts[SubmissionOf[a]] \in SUBSET Tasks
  BY DEF TypeOK
<1> QED
  BY <1>1, FlowAssumption DEF Contribution

\* Only a POST starts a handler.
LEMMA RunningShrinks ==
    ASSUME TypeOK, [Next]_vars, \A a \in Attempts : ~ Post(a), NEW b \in Attempts
    PROVE  Running(b)' => Running(b)
<1> USE DEF TypeOK, Running, Goto, Respond, Throw, mongo, RunStages, ReadStages,
        CommitStages, At
<1>1. ASSUME NEW a \in Attempts, Handler(a) PROVE Running(b)' => Running(b)
  BY <1>1 DEF Handler, LookupKey, ReplayCheckin, ReplayTask, LoadTasks, LoadUser, LoadMembers,
       CheckProject, UploadPhotos, CreateCheckin, CreateMove, SolveTask, SaveUser,
       SaveBoard, RecordKey
<1>2. ASSUME NEW a \in Attempts, Fail(a) PROVE Running(b)' => Running(b)
  BY <1>2 DEF Fail
<1>3. CASE Crash
  BY <1>3 DEF Crash
<1>4. CASE UNCHANGED <<stage, dead>>
  BY <1>4
<1> QED
  BY <1>1, <1>2, <1>3, <1>4 DEF Next, vars, Timeout, Receive, SaveRate, StartRate,
     DeleteTask, DeleteCheckin, ExpireKey, OpenBoard, ToggleProject

\* Without overlap a POST is accepted only when no other handler runs.
LEMMA OneAtATimeStep ==
    ASSUME SerialEnvironment, TypeOK, OneAtATime, [Next]_vars
    PROVE  OneAtATime'
<1>1. CASE \A a \in Attempts : ~ Post(a)
  BY <1>1, RunningShrinks DEF OneAtATime
<1>2. ASSUME NEW a \in Attempts, Post(a) PROVE OneAtATime'
  <2>1. Quiet
    BY <1>2 DEF Post, SerialEnvironment
  <2>2. \A b \in Attempts : Running(b)' => b = a
    BY <1>2, <2>1 DEF Post, Quiet, Running, TypeOK
  <2> QED
    BY <2>2 DEF OneAtATime
<1> QED
  BY <1>1, <1>2

\* Without task deletions the documents SolveTask and SaveBoard update are there.
LEMMA NothingMissingStep ==
    ASSUME SerialEnvironment, TypeOK, NothingMissing, [Next]_vars
    PROVE  NothingMissing'
<1>1. hasBoard'
  BY DEF NothingMissing, Next, vars, mongo, Post, Handler, LookupKey, ReplayCheckin, ReplayTask, LoadTasks, LoadUser, LoadMembers,
       CheckProject, UploadPhotos, CreateCheckin, CreateMove, SolveTask, SaveUser,
       SaveBoard, RecordKey,
     Fail, Crash, Timeout, Receive, SaveRate, StartRate, DeleteTask, DeleteCheckin,
     ExpireKey, OpenBoard, ToggleProject
<1>2. \A t \in Tasks : taskState'[t] # "deleted"
  <2>1. ASSUME NEW a \in Attempts, SolveTask(a) PROVE \A t \in Tasks : taskState'[t] # "deleted"
    BY <2>1 DEF SolveTask, NothingMissing, TypeOK
  <2>2. CASE taskState' = taskState
    BY <2>2 DEF NothingMissing
  <2> QED
    BY <2>1, <2>2 DEF SerialEnvironment, Next, vars, mongo, Post, Handler, LookupKey, ReplayCheckin, ReplayTask, LoadTasks, LoadUser, LoadMembers,
       CheckProject, UploadPhotos, CreateCheckin, CreateMove, SolveTask, SaveUser,
       SaveBoard, RecordKey,
       Fail, Crash, Timeout, Receive, SaveRate, StartRate, DeleteTask, DeleteCheckin,
       ExpireKey, OpenBoard, ToggleProject
<1>3. ASSUME NEW b \in Attempts, stage'[b] = "task" PROVE Contribution(b)' \in Tasks
  <2>1. ASSUME NEW a \in Attempts, CreateMove(a) PROVE Contribution(b)' \in Tasks
    BY <1>3, <2>1, ContributionType DEF CreateMove, Goto, TypeOK, NothingMissing,
       Contribution, snapshot
  <2>2. ASSUME NEW a \in Attempts, LoadTasks(a) PROVE Contribution(b)' \in Tasks
    BY <1>3, <2>2 DEF LoadTasks, Goto, TypeOK, NothingMissing, Contribution
  <2>3. CASE UNCHANGED seenTasks /\ stage[b] = "task"
    BY <2>3 DEF NothingMissing, Contribution
  <2>4. ASSUME NEW a \in Attempts, Post(a) \/ Handler(a) \/ Fail(a)
        PROVE Contribution(b)' \in Tasks
    BY <1>3, <2>1, <2>2, <2>3, <2>4 DEF Post, Fail, Handler, LookupKey, ReplayCheckin, ReplayTask, LoadTasks, LoadUser, LoadMembers,
       CheckProject, UploadPhotos, CreateCheckin, CreateMove, SolveTask, SaveUser,
       SaveBoard, RecordKey,
       Goto, Respond, Throw, snapshot, TypeOK
  <2> QED
    BY <1>3, <2>3, <2>4 DEF Next, vars, snapshot, Crash, Timeout, Receive, SaveRate,
       StartRate, DeleteTask, DeleteCheckin, ExpireKey, OpenBoard, ToggleProject
<1> QED
  BY <1>1, <1>2, <1>3 DEF NothingMissing

\* No handler dies between its first write and its key.
LEMMA CommitSurvives ==
    ASSUME SerialEnvironment, TypeOK, KeyedStages, ProgressInv, NothingMissing, [Next]_vars,
           NEW b \in Attempts, Stored(b)', ~ Running(b)', Key(b) # NoKey
    PROVE  \/ Stored(b) /\ ~ Running(b)
           \/ keys'[Key(b)] # NoAttempt
<1> USE DEF TypeOK, Running, Stored, Goto, Respond, Throw, mongo, RunStages, ReadStages,
        CommitStages, At, ProgressInv, AfterCheckin
<1>1. ASSUME NEW a \in Attempts, RecordKey(a)
      PROVE  (Stored(b) /\ ~ Running(b)) \/ keys'[Key(b)] # NoAttempt
  <2>1. Key(a) \in Keys /\ keys'[Key(a)] # NoAttempt
    BY <1>1, FlowAssumption DEF RecordKey, KeyedStages, SerialEnvironment
  <2>2. CASE a = b
    BY <2>1, <2>2
  <2>3. CASE a # b
    BY <1>1, <2>3 DEF RecordKey
  <2> QED
    BY <2>2, <2>3
<1>2. ASSUME NEW a \in Attempts, SaveBoard(a) PROVE Stored(b) /\ ~ Running(b)
  BY <1>2 DEF SaveBoard, NothingMissing
<1>3. ASSUME NEW a \in Attempts, SolveTask(a) PROVE Stored(b) /\ ~ Running(b)
  BY <1>3 DEF SolveTask, NothingMissing
<1>4. ASSUME NEW a \in Attempts, Fail(a) PROVE Stored(b) /\ ~ Running(b)
  BY <1>4 DEF Fail, SerialEnvironment
<1>5. CASE Crash
  BY <1>5 DEF Crash, SerialEnvironment
<1>6. ASSUME NEW a \in Attempts, LookupKey(a) \/ ReplayCheckin(a) \/ ReplayTask(a)
                                \/ LoadTasks(a) \/ LoadUser(a) \/ LoadMembers(a)
                                \/ CheckProject(a) \/ UploadPhotos(a)
      PROVE  Stored(b) /\ ~ Running(b)
  BY <1>6 DEF LookupKey, ReplayCheckin, ReplayTask, LoadTasks, LoadUser, LoadMembers,
     CheckProject, UploadPhotos
<1>7. ASSUME NEW a \in Attempts, Post(a) \/ CreateCheckin(a) \/ CreateMove(a)
                                \/ SaveUser(a) \/ DeleteCheckin(a)
      PROVE  Stored(b) /\ ~ Running(b)
  BY <1>7 DEF Post, CreateCheckin, CreateMove, SaveUser, DeleteCheckin
<1>8. CASE UNCHANGED <<stage, dead, checkins>>
  BY <1>8
<1> QED
  BY <1>1, <1>2, <1>3, <1>4, <1>5, <1>6, <1>7, <1>8 DEF Next, vars, Handler, Timeout,
     Receive, SaveRate, StartRate, DeleteTask, ExpireKey, OpenBoard, ToggleProject

\* Rows stay, and only the handler at "record" writes one.
LEMMA KeysGrow ==
    ASSUME SerialEnvironment, TypeOK, KeyedStages, [Next]_vars, NEW k \in Keys
    PROVE  /\ keys[k] # NoAttempt => keys'[k] # NoAttempt
           /\ keys'[k] # keys[k] =>
                 \E a \in Attempts : RecordKey(a) /\ Key(a) = k
<1>1. ASSUME NEW a \in Attempts, RecordKey(a)
      PROVE  /\ keys[k] # NoAttempt => keys'[k] # NoAttempt
             /\ keys'[k] # keys[k] => Key(a) = k
  BY <1>1, FlowAssumption DEF RecordKey, TypeOK
<1>2. CASE keys' = keys
  BY <1>2
<1> QED
  BY <1>1, <1>2 DEF SerialEnvironment, Next, vars, mongo, Post, Handler, LookupKey, ReplayCheckin, ReplayTask, LoadTasks, LoadUser, LoadMembers,
       CheckProject, UploadPhotos, CreateCheckin, CreateMove, SolveTask, SaveUser,
       SaveBoard, RecordKey,
     Fail, Crash, Timeout, Receive, SaveRate, StartRate, DeleteTask, DeleteCheckin,
     ExpireKey, OpenBoard, ToggleProject

\* A handler that ends after its first write has recorded its key.
LEMMA AllRecordedStep ==
    ASSUME SerialEnvironment, TypeOK, KeyedStages, ProgressInv, SerialInv, [Next]_vars
    PROVE  AllRecorded'
<1> SUFFICES ASSUME NEW b \in Attempts, Stored(b)', ~ Running(b)', Key(b) # NoKey
             PROVE  keys'[Key(b)] # NoAttempt
  BY DEF AllRecorded, Key
<1>1. Key(b) \in Keys
  BY FlowAssumption DEF Key
<1> QED
  BY <1>1, CommitSurvives, KeysGrow DEF SerialInv, AllRecorded

\* A handler past its lookup still finds its key unrecorded.
LEMMA NoneRecordedStep ==
    ASSUME SerialEnvironment, TypeOK, KeyedStages, ProgressInv, SerialInv, [Next]_vars
    PROVE  NoneRecorded'
<1> SUFFICES ASSUME NEW b \in Attempts, Running(b)', stage'[b] \in Past, Key(b) # NoKey
             PROVE  keys'[Key(b)] = NoAttempt
  BY DEF NoneRecorded, Key
<1>1. Key(b) \in Keys
  BY FlowAssumption DEF Key
<1>2. CASE \E a \in Attempts : Post(a) \/ LookupKey(a)
  <2>1. keys' = keys
    BY <1>2 DEF Post, LookupKey, mongo
  <2>2. CASE Running(b) /\ stage[b] \in Past
    BY <2>1, <2>2 DEF SerialInv, NoneRecorded
  <2>3. CASE ~ (Running(b) /\ stage[b] \in Past)
    BY <1>2, <2>1, <2>3, FlowAssumption DEF Post, LookupKey, Goto, Throw, Running, Past, At,
       TypeOK, RunStages, ReadStages, CommitStages
  <2> QED
    BY <2>2, <2>3
<1>3. CASE \A a \in Attempts : ~ (Post(a) \/ LookupKey(a))
  <2>1. Running(b)
    BY <1>3, RunningShrinks
  <2>2. stage[b] \in Past
    BY <1>3, <2>1 DEF Next, vars, mongo, Handler, LookupKey, ReplayCheckin, ReplayTask, LoadTasks, LoadUser, LoadMembers,
       CheckProject, UploadPhotos, CreateCheckin, CreateMove, SolveTask, SaveUser,
       SaveBoard, RecordKey,
       Fail, Crash, Timeout, Receive, SaveRate, StartRate, DeleteTask, DeleteCheckin,
       ExpireKey, OpenBoard, ToggleProject, Goto, Respond, Throw, Running, Past, At,
       TypeOK, RunStages, ReadStages, CommitStages
  <2>3. keys[Key(b)] = NoAttempt
    BY <2>1, <2>2 DEF SerialInv, NoneRecorded
  <2>4. ASSUME NEW a \in Attempts, RecordKey(a) PROVE FALSE
    <3>1. a = b
      BY <2>1, <2>4 DEF RecordKey, At, SerialInv, OneAtATime
    <3> QED
      BY <2>4, <3>1 DEF RecordKey, Respond, Running, TypeOK, RunStages, ReadStages,
         CommitStages
  <2> QED
    BY <1>1, <2>3, <2>4, KeysGrow
<1> QED
  BY <1>2, <1>3

\* So a check-in is only ever created for a key that has none.
LEMMA OnePerKeyStep ==
    ASSUME SerialEnvironment, TypeOK, KeyedStages, ProgressInv, SerialInv, [Next]_vars
    PROVE  OnePerKey'
<1>1. ASSUME NEW a \in Attempts, CreateCheckin(a), NEW b \in Attempts, b # a, Stored(b),
             Key(a) = Key(b), Key(a) # NoKey
      PROVE  FALSE
  <2>1. Running(a) /\ stage[a] \in Past
    BY <1>1 DEF CreateCheckin, At, Past, CommitStages
  <2>2. ~ Running(b)
    BY <1>1, <2>1 DEF SerialInv, OneAtATime
  <2> QED
    BY <1>1, <2>1, <2>2 DEF SerialInv, AllRecorded, NoneRecorded
<1>2. ASSUME NEW b \in Attempts, Stored(b)'
      PROVE  Stored(b) \/ CreateCheckin(b)
  BY <1>2 DEF Next, vars, mongo, Post, Handler, LookupKey, ReplayCheckin, ReplayTask, LoadTasks, LoadUser, LoadMembers,
       CheckProject, UploadPhotos, CreateCheckin, CreateMove, SolveTask, SaveUser,
       SaveBoard, RecordKey,
     Fail, Crash, Timeout, Receive, SaveRate, StartRate, DeleteTask, DeleteCheckin,
     ExpireKey, OpenBoard, ToggleProject, Stored, TypeOK
<1>3. ASSUME NEW a \in Attempts, NEW b \in Attempts, CreateCheckin(a), CreateCheckin(b)
      PROVE  a = b
  BY <1>3 DEF CreateCheckin, At, SerialInv, OneAtATime
<1> QED
  BY <1>1, <1>2, <1>3 DEF OnePerKey, SerialInv, Key

\* When handlers do not overlap, keys do not expire, tasks stay, the leaderboard
\* exists and a handler only fails before its first write, the retries of a key
\* leave one check-in, for any number of volunteers, submissions and retries.
THEOREM RetriesLeaveOneCheckin == SerialEnvironment => (Spec => []NoDuplicateCheckin)
<1> SUFFICES ASSUME SerialEnvironment PROVE Spec => []NoDuplicateCheckin
  OBVIOUS
<1> DEFINE IInv == TypeOK /\ KeyedStages /\ ProgressInv /\ SerialInv
<1>1. Init => IInv
  BY FlowAssumption DEF Init, TypeOK, KeyedStages, NewUser, UserDoc, Stages, RunStages,
     ReadStages, CommitStages, Answers, ProgressInv, AfterCheckin, AfterMove, Stored,
     SerialEnvironment, SerialInv, OneAtATime, AllRecorded, NoneRecorded, OnePerKey,
     NothingMissing, Running, Past
<1>2. IInv /\ [Next]_vars => IInv'
  BY TypeStep, KeyedStagesStep, ProgressStep, OneAtATimeStep, AllRecordedStep,
     NoneRecordedStep, OnePerKeyStep, NothingMissingStep DEF SerialInv
<1>3. IInv => NoDuplicateCheckin
  BY DEF SerialInv, OnePerKey, NoDuplicateCheckin
<1> QED
  BY <1>1, <1>2, <1>3, PTL DEF Spec

-----------------------------------------------------------------------------
(* What the other properties of every environment rest on. *)

\* A replay shows the caller an own, committed check-in of an earlier attempt.
THEOREM ReplaysAreOwn == Spec => []ReplayAnswersOwnCheckin
  BY KeysAreSafe, PTL

Sound == TypeOK /\ KeyedStages /\ ProgressInv

\* The state is typed, and a handler's stage agrees with what it has written.
LEMMA Soundness == (Init => Sound) /\ (Sound /\ [Next]_vars => Sound')
<1>1. Init => Sound
  BY FlowAssumption DEF Init, Sound, TypeOK, KeyedStages, NewUser, UserDoc, Stages, RunStages,
     ReadStages, CommitStages, Answers, ProgressInv, AfterCheckin, AfterMove, Stored
<1> QED
  BY <1>1, TypeStep, KeyedStagesStep, ProgressStep DEF Sound

-----------------------------------------------------------------------------
(* Credits.  Every copy of a user's credits, stored or read, names committed   *)
(* attempts of that user, and what is committed stays so.                      *)

Committed(u) == {a \in moves : Stored(a) /\ OwnerOf(a) = u}

CreditInv ==
    /\ \A u \in Users : /\ userDoc[u].credited \subseteq Committed(u)
                        /\ board[u] \subseteq Committed(u)
                        /\ ratingSeen[u].credited \subseteq Committed(u)
    /\ \A a \in Attempts : /\ seenUser[a].credited \subseteq Committed(OwnerOf(a))
                           /\ \A u \in Users : seenMembers[a][u] \subseteq Committed(u)

\* No step takes a move or the trace of a check-in away.
LEMMA CommittedGrows ==
    ASSUME TypeOK, [Next]_vars, NEW u \in Users
    PROVE  Committed(u) \subseteq {a \in moves' : checkins'[a] # "none" /\ OwnerOf(a) = u}
<1>1. moves \subseteq moves'
  BY DEF Next, vars, mongo, Post, Handler, LookupKey, ReplayCheckin, ReplayTask, LoadTasks,
     LoadUser, LoadMembers, CheckProject, UploadPhotos, CreateCheckin, CreateMove, SolveTask,
     SaveUser, SaveBoard, RecordKey, Fail, Crash, Timeout, Receive, SaveRate, StartRate,
     DeleteTask, DeleteCheckin, ExpireKey, OpenBoard, ToggleProject
<1>2. \A a \in Attempts : checkins[a] # "none" => checkins'[a] # "none"
  BY DEF TypeOK, Next, vars, mongo, Post, Handler, LookupKey, ReplayCheckin, ReplayTask, LoadTasks,
     LoadUser, LoadMembers, CheckProject, UploadPhotos, CreateCheckin, CreateMove, SolveTask,
     SaveUser, SaveBoard, RecordKey, Fail, Crash, Timeout, Receive, SaveRate, StartRate,
     DeleteTask, DeleteCheckin, ExpireKey, OpenBoard, ToggleProject
<1> QED
  BY <1>1, <1>2 DEF Committed, Stored, TypeOK

\* Only a committed attempt is credited, to its own user, and every copy that is
\* written back was read from such documents.
LEMMA CreditStep == Sound /\ CreditInv /\ [Next]_vars => CreditInv'
<1> SUFFICES ASSUME Sound, CreditInv, [Next]_vars PROVE CreditInv'
  OBVIOUS
<1> USE DEF Sound
<1> DEFINE C(u) == {a \in moves' : checkins'[a] # "none" /\ OwnerOf(a) = u}
           Stay == UNCHANGED <<userDoc, board, ratingSeen, seenUser, seenMembers>>
<1>1. \A u \in Users : Committed(u) \subseteq C(u)
  BY CommittedGrows
<1>2. ASSUME \A u \in Users : /\ userDoc'[u].credited \subseteq C(u) /\ board'[u] \subseteq C(u)
                             /\ ratingSeen'[u].credited \subseteq C(u),
             \A a \in Attempts : /\ seenUser'[a].credited \subseteq C(OwnerOf(a))
                                /\ \A u \in Users : seenMembers'[a][u] \subseteq C(u)
      PROVE  CreditInv'
  BY <1>2 DEF CreditInv, Committed, Stored, OwnerOf
<1> HIDE DEF C
<1>3. \A a \in Attempts : OwnerOf(a) \in Users
  BY FlowAssumption DEF OwnerOf
<1>4. /\ \A u \in Users : /\ userDoc[u].credited \subseteq C(u) /\ board[u] \subseteq C(u)
                          /\ ratingSeen[u].credited \subseteq C(u)
      /\ \A a \in Attempts : /\ seenUser[a].credited \subseteq C(OwnerOf(a))
                             /\ \A u \in Users : seenMembers[a][u] \subseteq C(u)
  BY <1>1, <1>3 DEF CreditInv
<1>5. CASE Stay
  BY <1>2, <1>4, <1>5
<1>6. ASSUME NEW a \in Attempts, LoadUser(a) PROVE CreditInv'
  BY <1>2, <1>3, <1>4, <1>6 DEF LoadUser, mongo, rates, TypeOK
<1>7. ASSUME NEW a \in Attempts, LoadMembers(a) PROVE CreditInv'
  BY <1>2, <1>3, <1>4, <1>7 DEF LoadMembers, mongo, rates, TypeOK
<1>8. ASSUME NEW a \in Attempts, SaveUser(a) \/ SaveBoard(a)
      PROVE  Rewarded(a).credited \subseteq C(OwnerOf(a)) /\ OwnerOf(a) \in Users
  <2>1. Stored(a) /\ a \in moves
    BY <1>8 DEF SaveUser, SaveBoard, At, ProgressInv, AfterCheckin, AfterMove
  <2>2. a \in C(OwnerOf(a))
    BY <1>1, <1>3, <2>1 DEF Committed
  <2> QED
    BY <1>3, <1>4, <2>2, RewardedType
<1>9. ASSUME NEW a \in Attempts, SaveUser(a) PROVE CreditInv'
  BY <1>2, <1>4, <1>8, <1>9 DEF SaveUser, snapshot, rates, TypeOK
<1>10. ASSUME NEW a \in Attempts, SaveBoard(a) PROVE CreditInv'
  BY <1>2, <1>4, <1>8, <1>10 DEF SaveBoard, snapshot, rates, TypeOK
<1>11. ASSUME NEW u \in Users, NEW c \in Attempts, StartRate(u, c) PROVE CreditInv'
  BY <1>2, <1>4, <1>11 DEF StartRate, mongo, snapshot, TypeOK
<1>12. ASSUME NEW u \in Users, SaveRate(u) PROVE CreditInv'
  <2>1. [ratingSeen[u] EXCEPT !.rated = @ \cup {rating[u]}].credited = ratingSeen[u].credited
    BY DEF TypeOK, UserDoc
  <2> QED
    BY <1>2, <1>4, <1>12, <2>1 DEF SaveRate, snapshot, TypeOK
<1> QED
  BY <1>5, <1>6, <1>7, <1>9, <1>10, <1>11, <1>12
     DEF Next, vars, mongo, snapshot, rates, Post, Handler, LookupKey, ReplayCheckin, ReplayTask,
     LoadTasks, CheckProject, UploadPhotos, CreateCheckin, CreateMove, SolveTask, RecordKey, Fail,
     Crash, Timeout, Receive, DeleteTask, DeleteCheckin, ExpireKey, OpenBoard, ToggleProject

\* Points in a profile and on the leaderboard come from stored moves of that user,
\* whatever overlaps, fails or expires.
THEOREM CreditsAreReal == Spec => []NoPhantomCredit
<1>1. Init => CreditInv
  BY DEF Init, CreditInv, NewUser
<1>2. CreditInv => NoPhantomCredit
  BY DEF CreditInv, NoPhantomCredit, Committed
<1> QED
  BY Soundness, <1>1, <1>2, CreditStep, PTL DEF Spec

\* With handlers one at a time a retry is not paid twice.
THEOREM RetriesPayOnce == SerialEnvironment => (Spec => []NoDoubleCount)
<1>1. NoDuplicateCheckin /\ NoPhantomCredit /\ TypeOK => NoDoubleCount
  BY DEF NoDuplicateCheckin, NoPhantomCredit, NoDoubleCount, TypeOK, UserDoc
<1>2. Spec => []TypeOK
  BY TypeCorrect, PTL
<1> QED
  BY <1>1, <1>2, RetriesLeaveOneCheckin, CreditsAreReal, PTL

-----------------------------------------------------------------------------
(* The task a check-in contributes to is closed before it is answered. *)

SolvedInv ==
    \A a \in Attempts :
        stage[a] \in {"save", "board", "record"} \/ answer[a] = "created" =>
            (Contribution(a) # NoTask => taskState[Contribution(a)] # "open")

\* A task never opens again, and a handler that has read its tasks keeps them.
LEMMA SolvedStep == Sound /\ SolvedInv /\ [Next]_vars => SolvedInv'
<1> SUFFICES ASSUME Sound, SolvedInv, [Next]_vars,
                    NEW b \in Attempts,
                    stage'[b] \in {"save", "board", "record"} \/ answer'[b] = "created",
                    Contribution(b)' # NoTask
             PROVE  taskState'[Contribution(b)'] # "open"
  BY DEF SolvedInv
<1> USE DEF Sound
<1> DEFINE c == Contribution(b)
<1>1. \A t \in Tasks : taskState[t] # "open" => taskState'[t] # "open"
  BY DEF TypeOK, Next, vars, mongo, snapshot, Post, Handler, LookupKey, ReplayCheckin, ReplayTask, LoadTasks,
     LoadUser, LoadMembers, CheckProject, UploadPhotos, CreateCheckin, CreateMove, SolveTask,
     SaveUser, SaveBoard, RecordKey, Fail, Crash, Timeout, Receive, SaveRate, StartRate,
     DeleteTask, DeleteCheckin, ExpireKey, OpenBoard, ToggleProject
<1>2. Contribution(b)' = c
  <2>1. ASSUME LoadTasks(b) PROVE FALSE
    BY <2>1 DEF LoadTasks, At, Goto, TypeOK, ProgressInv
  <2>2. seenTasks'[b] = seenTasks[b]
    BY <2>1 DEF TypeOK, Next, vars, mongo, snapshot, Post, Handler, LookupKey, ReplayCheckin, ReplayTask, LoadTasks,
     LoadUser, LoadMembers, CheckProject, UploadPhotos, CreateCheckin, CreateMove, SolveTask,
     SaveUser, SaveBoard, RecordKey, Fail, Crash, Timeout, Receive, SaveRate, StartRate,
     DeleteTask, DeleteCheckin, ExpireKey, OpenBoard, ToggleProject
  <2> QED
    BY <2>2 DEF Contribution
<1>3. c \in Tasks
  BY <1>2, ContributionType
<1>4. CASE stage[b] \in {"save", "board", "record"} \/ answer[b] = "created"
  BY <1>1, <1>2, <1>3, <1>4 DEF SolvedInv
<1>5. CASE ~ (stage[b] \in {"save", "board", "record"} \/ answer[b] = "created")
  <2>1. CreateMove(b) \/ SolveTask(b)
    BY <1>5 DEF At, Goto, Respond, Throw, TypeOK, Next, vars, mongo, snapshot, Post, Handler, LookupKey, ReplayCheckin, ReplayTask, LoadTasks,
     LoadUser, LoadMembers, CheckProject, UploadPhotos, CreateCheckin, CreateMove, SolveTask,
     SaveUser, SaveBoard, RecordKey, Fail, Crash, Timeout, Receive, SaveRate, StartRate,
     DeleteTask, DeleteCheckin, ExpireKey, OpenBoard, ToggleProject
  <2>2. CASE CreateMove(b)
    BY <1>2, <1>5, <2>2 DEF CreateMove, Goto, TypeOK
  <2>3. CASE SolveTask(b)
    BY <1>2, <1>3, <1>5, <2>3 DEF SolveTask, Goto, Throw, TypeOK
  <2> QED
    BY <2>1, <2>2, <2>3
<1> QED
  BY <1>4, <1>5

\* Who is told that a check-in was created has its document, its move and, when it
\* contributed, a task that nobody is offered again, whatever happens beside it.
THEOREM CreatedStaysCommitted == Spec => []CreatedIsCommitted
<1>1. Init => SolvedInv
  BY DEF Init, SolvedInv
<1>2. Sound /\ SolvedInv => CreatedIsCommitted
  BY DEF Sound, ProgressInv, SolvedInv, CreatedIsCommitted
<1> QED
  BY Soundness, <1>1, <1>2, SolvedStep, PTL DEF Spec

-----------------------------------------------------------------------------
(* Delivery.  The phone also deletes its entry on a 409; there is none when no   *)
(* key is shared by two accounts and the project stays open.                    *)

NoConflicts ==
    /\ \A s, v \in Submissions : KeyOf[s] = KeyOf[v] /\ KeyOf[s] # NoKey => Owner[s] = Owner[v]
    /\ "toggle" \notin Allowed

DeliveryInv ==
    /\ available
    /\ \A a \in Attempts : answer[a] \notin {"otherAccount", "notRunning"}
    /\ \A s \in Submissions : awaited[s] # NoAttempt => SubmissionOf[awaited[s]] = s
    /\ GuaranteedDelivery

\* Handlers are only waited for by their own entry, and an answer that deletes it
\* comes from a committed check-in.
LEMMA DeliveryStep ==
    ASSUME NoConflicts, Sound, KeyAnswersCommitted, HitInv, DeliveryInv, [Next]_vars
    PROVE  DeliveryInv'
<1> USE FlowAssumption DEF Sound
<1>1. available'
  BY DEF NoConflicts, DeliveryInv, Next, vars, mongo, Post, Handler, LookupKey, ReplayCheckin,
     ReplayTask, LoadTasks, LoadUser, LoadMembers, CheckProject, UploadPhotos, CreateCheckin,
     CreateMove, SolveTask, SaveUser, SaveBoard, RecordKey, Fail, Crash, Timeout, Receive,
     SaveRate, StartRate, DeleteTask, DeleteCheckin, ExpireKey, OpenBoard, ToggleProject
<1>2. \A a \in Attempts : answer'[a] \notin {"otherAccount", "notRunning"}
  <2>1. ASSUME NEW a \in Attempts, LookupKey(a) PROVE answer' = answer
    <3>1. Key(a) \in Keys
      BY <2>1 DEF LookupKey, At, KeyedStages
    <3>2. keys[Key(a)] # NoAttempt => OwnerOf(keys[Key(a)]) = OwnerOf(a)
      BY <3>1 DEF KeyAnswersCommitted, NoConflicts, OwnerOf, Key, TypeOK
    <3> QED
      BY <2>1, <3>2 DEF LookupKey, Goto
  <2>2. ASSUME NEW a \in Attempts, CheckProject(a)
        PROVE  answer' = answer \/ answer' = [answer EXCEPT ![a] = "badRequest"]
    BY <2>2 DEF CheckProject, DeliveryInv, Goto, Throw
  <2>3. ASSUME NEW a \in Attempts, ReplayCheckin(a) \/ ReplayTask(a) \/ SolveTask(a)
                                  \/ SaveBoard(a) \/ RecordKey(a) \/ Fail(a)
        PROVE  \/ answer' = answer
               \/ \E r \in {"notFound", "replayed", "error", "created"} :
                     answer' = [answer EXCEPT ![a] = r]
    BY <2>3 DEF ReplayCheckin, ReplayTask, SolveTask, SaveBoard, RecordKey, Fail, Goto, Respond,
       Throw
  <2>4. CASE Crash
    BY <2>4 DEF Crash, DeliveryInv
  <2>5. CASE answer' = answer
    BY <2>5 DEF DeliveryInv
  <2>6. ASSUME NEW a \in Attempts, NEW r \in {"badRequest", "notFound", "replayed", "error", "created"},
               answer' = [answer EXCEPT ![a] = r]
        PROVE  \A b \in Attempts : answer'[b] \notin {"otherAccount", "notRunning"}
    BY <2>6 DEF DeliveryInv, TypeOK
  <2>7. CASE \E a \in Attempts : CheckProject(a)
    BY <2>2, <2>5, <2>6, <2>7
  <2>8. CASE \E a \in Attempts : ReplayCheckin(a) \/ ReplayTask(a) \/ SolveTask(a)
                               \/ SaveBoard(a) \/ RecordKey(a) \/ Fail(a)
    BY <2>3, <2>5, <2>6, <2>8
  <2> QED
    BY <2>1, <2>4, <2>5, <2>7, <2>8 DEF Goto, Next, vars, Post, Handler, LoadTasks, LoadUser,
       LoadMembers, UploadPhotos, CreateCheckin, CreateMove, SaveUser, Timeout, Receive, SaveRate,
       StartRate, DeleteTask, DeleteCheckin, ExpireKey, OpenBoard, ToggleProject
<1>3. \A s \in Submissions : awaited'[s] # NoAttempt => SubmissionOf[awaited'[s]] = s
  <2>1. ASSUME NEW a \in Attempts, Post(a)
        PROVE  \A s \in Submissions : awaited'[s] # NoAttempt => SubmissionOf[awaited'[s]] = s
    BY <2>1 DEF Post, DeliveryInv, TypeOK
  <2>2. ASSUME NEW v \in Submissions, Timeout(v) \/ Receive(v)
        PROVE  \A s \in Submissions : awaited'[s] # NoAttempt => SubmissionOf[awaited'[s]] = s
    BY <2>2 DEF Timeout, Receive, DeliveryInv, TypeOK
  <2>3. CASE awaited' = awaited
    BY <2>3 DEF DeliveryInv
  <2> QED
    BY <2>1, <2>2, <2>3 DEF Next, vars, phones, Handler, LookupKey, ReplayCheckin, ReplayTask,
       LoadTasks, LoadUser, LoadMembers, CheckProject, UploadPhotos, CreateCheckin, CreateMove,
       SolveTask, SaveUser, SaveBoard, RecordKey, Fail, Crash, SaveRate, StartRate, DeleteTask,
       DeleteCheckin, ExpireKey, OpenBoard, ToggleProject
<1>4. moves \subseteq moves'
  BY DEF Next, vars, mongo, snapshot, Post, Handler, LookupKey, ReplayCheckin, ReplayTask, LoadTasks,
     LoadUser, LoadMembers, CheckProject, UploadPhotos, CreateCheckin, CreateMove, SolveTask,
     SaveUser, SaveBoard, RecordKey, Fail, Crash, Timeout, Receive, SaveRate, StartRate,
     DeleteTask, DeleteCheckin, ExpireKey, OpenBoard, ToggleProject
<1>5. ASSUME NEW s \in Submissions \ outbox'
      PROVE  \E a \in moves' : OwnerOf(a) = Owner[s] /\ KeyOf[SubmissionOf[a]] = KeyOf[s]
  <2>1. CASE s \notin outbox
    BY <1>4, <2>1 DEF DeliveryInv, GuaranteedDelivery
  <2>2. CASE s \in outbox
    <3>1. Receive(s)
      BY <1>5, <2>2 DEF Next, vars, phones, Post, Handler, LookupKey, ReplayCheckin,
         ReplayTask, LoadTasks, LoadUser, LoadMembers, CheckProject, UploadPhotos, CreateCheckin,
         CreateMove, SolveTask, SaveUser, SaveBoard, RecordKey, Fail, Crash, Timeout, Receive,
         SaveRate, StartRate, DeleteTask, DeleteCheckin, ExpireKey, OpenBoard, ToggleProject
    <3> DEFINE a == awaited[s]
    <3>2. a \in Attempts /\ SubmissionOf[a] = s /\ answer[a] \in {"created", "replayed"}
      BY <1>5, <2>2, <3>1 DEF Receive, Final, DeliveryInv, TypeOK
    <3>3. CASE answer[a] = "created"
      BY <1>4, <3>2, <3>3 DEF ProgressInv, OwnerOf
    <3>4. CASE answer[a] = "replayed"
      <4>1. hit[a] \in moves /\ OwnerOf(hit[a]) = OwnerOf(a) /\ Key(hit[a]) = Key(a)
        BY <3>2, <3>4 DEF HitInv
      <4> QED
        BY <1>4, <3>2, <4>1 DEF OwnerOf, Key
    <3> QED
      BY <3>2, <3>3, <3>4
  <2> QED
    BY <2>1, <2>2
<1> QED
  BY <1>1, <1>2, <1>3, <1>5 DEF DeliveryInv, GuaranteedDelivery, OwnerOf

\* While no key is shared by two accounts and the project stays open, an outbox
\* entry is deleted only when a check-in of its owner with its key is stored, with
\* any overlap, failure, crash, lost answer or expiry.
THEOREM DeliveryIsGuaranteed == NoConflicts => (Spec => []GuaranteedDelivery)
<1> SUFFICES ASSUME NoConflicts PROVE Spec => []GuaranteedDelivery
  OBVIOUS
<1> DEFINE IInv == Sound /\ KeyAnswersCommitted /\ HitInv /\ DeliveryInv
<1>1. Init => IInv
  BY Soundness, FlowAssumption DEF Init, KeyAnswersCommitted, HitInv, DeliveryInv,
     GuaranteedDelivery
<1>2. IInv /\ [Next]_vars => IInv'
  BY Soundness, KeyStep, HitStep, DeliveryStep DEF Sound
<1>3. IInv => GuaranteedDelivery
  BY DEF DeliveryInv
<1> QED
  BY <1>1, <1>2, <1>3, PTL DEF Spec

-----------------------------------------------------------------------------
(* One handler at a time, ratings among them: what a handler has read is still   *)
(* what is stored when it writes.                                              *)

OneWriter ==
    /\ OneAtATime
    /\ \A u \in Users : rating[u] # NoAttempt =>
          /\ \A a \in Attempts : ~ Running(a)
          /\ \A v \in Users : rating[v] # NoAttempt => v = u

Loaded == {"project", "upload", "checkin", "move", "task", "save"}

AwardInv ==
    /\ \A u \in Users : rating[u] # NoAttempt => ratingSeen[u] = userDoc[u]
    /\ \A a \in Attempts : Running(a) =>
          /\ stage[a] \in Loaded \cup {"members"} => seenUser[a] = userDoc[OwnerOf(a)]
          /\ stage[a] \in Loaded => \A v \in Users : seenMembers[a][v] = userDoc[v].credited
          /\ stage[a] = "board" => /\ userDoc[OwnerOf(a)] = Rewarded(a)
                                  /\ \A v \in Users \ {OwnerOf(a)} :
                                        seenMembers[a][v] = userDoc[v].credited
    /\ \A a \in Attempts : answer[a] = "created" \/ stage[a] \in {"board", "record"} =>
          a \in userDoc[OwnerOf(a)].credited
    /\ (\A a \in Attempts : ~ (Running(a) /\ stage[a] = "board")) =>
          \/ \A u \in Users : board[u] = {}
          \/ \A u \in Users : board[u] = userDoc[u].credited

\* A handler, or a rating, starts only when nothing else is under way.
LEMMA OneWriterStep ==
    ASSUME SerialEnvironment, TypeOK, OneWriter, [Next]_vars
    PROVE  OneWriter'
<1>1. OneAtATime'
  BY OneAtATimeStep DEF OneWriter
<1>2. ASSUME NEW a \in Attempts, Post(a) PROVE OneWriter'
  BY <1>1, <1>2 DEF Post, SerialEnvironment, Quiet, OneWriter, rates
<1>3. ASSUME NEW u \in Users, NEW c \in Attempts, StartRate(u, c) PROVE OneWriter'
  <2>1. \A a \in Attempts : ~ Running(a)'
    BY <1>3 DEF StartRate, SerialEnvironment, Quiet, Running
  <2>2. \A v \in Users : rating'[v] # NoAttempt => v = u
    BY <1>3 DEF StartRate, SerialEnvironment, Quiet, TypeOK
  <2> QED
    BY <1>1, <2>1, <2>2 DEF OneWriter
<1>4. CASE \A a \in Attempts : ~ Post(a)
  <2>1. \A b \in Attempts : Running(b)' => Running(b)
    BY <1>4, RunningShrinks
  <2>2. CASE \A v \in Users : rating'[v] # NoAttempt => rating[v] # NoAttempt
    BY <1>1, <2>1, <2>2 DEF OneWriter
  <2>3. CASE \E v \in Users : rating'[v] # NoAttempt /\ rating[v] = NoAttempt
    <3>1. \E u \in Users : \E c \in Attempts : StartRate(u, c)
      BY <2>3 DEF TypeOK, Next, vars, rates, Post, Handler, LookupKey, ReplayCheckin, ReplayTask,
         LoadTasks, LoadUser, LoadMembers, CheckProject, UploadPhotos, CreateCheckin, CreateMove,
         SolveTask, SaveUser, SaveBoard, RecordKey, Fail, Crash, Timeout, Receive, SaveRate,
         DeleteTask, DeleteCheckin, ExpireKey, OpenBoard, ToggleProject
    <3> QED
      BY <1>3, <3>1
  <2> QED
    BY <2>2, <2>3
<1> QED
  BY <1>2, <1>4

\* Every write to a user document or the leaderboard builds on what is stored.
LEMMA AwardStep ==
    ASSUME SerialEnvironment, Sound, NothingMissing, OneWriter, OneWriter', AwardInv, [Next]_vars
    PROVE  /\ AwardInv'
           /\ \A u \in Users : /\ userDoc[u].credited \subseteq userDoc'[u].credited
                              /\ userDoc[u].rated \subseteq userDoc'[u].rated
<1> USE FlowAssumption DEF Sound
<1> DEFINE Grows == \A u \in Users : /\ userDoc[u].credited \subseteq userDoc'[u].credited
                                    /\ userDoc[u].rated \subseteq userDoc'[u].rated
<1>0. \A a \in Attempts : OwnerOf(a) \in Users
  BY DEF OwnerOf
<1>1. ASSUME NEW a \in Attempts,
             \/ LookupKey(a) \/ ReplayCheckin(a) \/ ReplayTask(a) \/ LoadTasks(a)
             \/ CheckProject(a) \/ UploadPhotos(a) \/ CreateCheckin(a) \/ CreateMove(a)
             \/ SolveTask(a) \/ RecordKey(a) \/ Fail(a) \/ Post(a)
      PROVE  AwardInv' /\ Grows
  <2>1. UNCHANGED <<userDoc, board, seenUser, seenMembers, rating, ratingSeen>>
    BY <1>1 DEF mongo, snapshot, rates, LookupKey, ReplayCheckin, ReplayTask, LoadTasks, CheckProject,
       UploadPhotos, CreateCheckin, CreateMove, SolveTask, RecordKey, Fail, Post
  <2>2. \A b \in Attempts : b # a => /\ stage'[b] = stage[b] /\ answer'[b] = answer[b]
                                    /\ (b \in dead' <=> b \in dead)
    BY <1>1 DEF TypeOK, Goto, Respond, Throw, LookupKey, ReplayCheckin, ReplayTask, LoadTasks,
       CheckProject, UploadPhotos, CreateCheckin, CreateMove, SolveTask, RecordKey, Fail, Post
  <2>3. /\ ~ (Running(a) /\ stage[a] = "board")
        /\ Running(a)' => stage'[a] \notin {"board", "members"}
        /\ stage'[a] \in {"board", "record"} => stage[a] = stage'[a]
        /\ Running(a)' /\ stage'[a] \in Loaded => Running(a) /\ stage[a] \in Loaded
        /\ answer'[a] = "created" => answer[a] = "created" \/ stage[a] = "record"
    <3>1. CASE LookupKey(a) \/ ReplayCheckin(a) \/ ReplayTask(a) \/ LoadTasks(a) \/ CheckProject(a)
      BY <3>1 DEF TypeOK, Goto, Respond, Throw, At, Running, Loaded, LookupKey, ReplayCheckin,
         ReplayTask, LoadTasks, CheckProject
    <3>2. CASE UploadPhotos(a) \/ CreateCheckin(a) \/ CreateMove(a) \/ RecordKey(a)
      BY <3>2 DEF TypeOK, Goto, Respond, Throw, At, Running, Loaded, RunStages, ReadStages,
         CommitStages, UploadPhotos, CreateCheckin, CreateMove, RecordKey
    <3>3. CASE SolveTask(a)
      BY <3>3 DEF TypeOK, Goto, Throw, At, Running, Loaded, SolveTask
    <3>4. CASE Fail(a)
      BY <3>4 DEF TypeOK, Throw, Running, Loaded, CommitStages, SerialEnvironment, Fail
    <3>5. CASE Post(a)
      BY <3>5 DEF TypeOK, Running, Loaded, Post
    <3> QED
      BY <1>1, <3>1, <3>2, <3>3, <3>4, <3>5
  <2>4. \A b \in Attempts : b # a => (Running(b)' <=> Running(b))
    BY <2>2 DEF Running
  <2>5. \A b \in Attempts : Rewarded(b)' = Rewarded(b)
    BY <2>1 DEF Rewarded
  <2>6. \A b \in Attempts : answer'[b] = "created" \/ stage'[b] \in {"board", "record"} =>
            answer[b] = "created" \/ stage[b] \in {"board", "record"}
    BY <2>2, <2>3
  <2>7. \A b \in Attempts : answer'[b] = "created" \/ stage'[b] \in {"board", "record"} =>
            b \in userDoc'[OwnerOf(b)].credited
    BY <2>1, <2>6 DEF AwardInv
  <2>8. \A b \in Attempts : Running(b) /\ stage[b] = "board" =>
                             Running(b)' /\ stage'[b] = "board"
    BY <2>2, <2>3, <2>4
  <2>9. \A b \in Attempts : Running(b)' =>
          /\ stage'[b] \in Loaded \cup {"members"} => Running(b) /\ stage[b] \in Loaded \cup {"members"}
          /\ stage'[b] \in Loaded => stage[b] \in Loaded
          /\ stage'[b] = "board" => stage[b] = "board"
    BY <2>2, <2>3, <2>4
  <2>10. \A b \in Attempts : Running(b)' =>
          /\ stage'[b] \in Loaded \cup {"members"} => seenUser'[b] = userDoc'[OwnerOf(b)]
          /\ stage'[b] \in Loaded => \A v \in Users : seenMembers'[b][v] = userDoc'[v].credited
    BY <2>1, <2>4, <2>9 DEF AwardInv
  <2>11. \A b \in Attempts : Running(b)' /\ stage'[b] = "board" =>
          /\ userDoc'[OwnerOf(b)] = Rewarded(b)'
          /\ \A v \in Users \ {OwnerOf(b)} : seenMembers'[b][v] = userDoc'[v].credited
    BY <2>1, <2>2, <2>3, <2>4, <2>5, <2>9 DEF AwardInv
  <2>12. AwardInv'
    BY <2>1, <2>7, <2>8, <2>10, <2>11 DEF AwardInv, OwnerOf
  <2> QED
    BY <2>1, <2>12
<1>2. ASSUME NEW a \in Attempts, LoadUser(a) \/ LoadMembers(a) PROVE AwardInv' /\ Grows
  <2>1. UNCHANGED <<userDoc, board, rating, ratingSeen, dead, answer>>
    BY <1>2 DEF LoadUser, LoadMembers, mongo, rates, Goto
  <2>2. \A b \in Attempts : b # a => /\ stage'[b] = stage[b] /\ seenUser'[b] = seenUser[b]
                                    /\ seenMembers'[b] = seenMembers[b]
    BY <1>2 DEF TypeOK, LoadUser, LoadMembers, Goto
  <2>3. CASE LoadUser(a)
    <3>1. /\ stage[a] = "user" /\ stage'[a] = "members" /\ seenUser'[a] = userDoc[OwnerOf(a)]
          /\ seenMembers' = seenMembers
      BY <2>3 DEF TypeOK, LoadUser, Goto, At
    <3> QED
      BY <2>1, <2>2, <3>1 DEF AwardInv, Running, Rewarded, OwnerOf, Loaded
  <2>4. CASE LoadMembers(a)
    <3>1. /\ stage[a] = "members" /\ stage'[a] = "project" /\ seenUser' = seenUser /\ Running(a)
          /\ \A v \in Users : seenMembers'[a][v] = userDoc[v].credited
      BY <2>4 DEF TypeOK, LoadMembers, Goto, At
    <3> QED
      BY <2>1, <2>2, <3>1 DEF AwardInv, Running, Rewarded, OwnerOf, Loaded
  <2> QED
    BY <1>2, <2>1, <2>3, <2>4
<1>4. ASSUME NEW a \in Attempts, SaveUser(a) PROVE AwardInv' /\ Grows
  <2> DEFINE o == OwnerOf(a)
  <2>1. /\ Running(a) /\ stage[a] = "save" /\ stage'[a] = "board" /\ o \in Users
        /\ userDoc' = [userDoc EXCEPT ![o] = Rewarded(a)]
        /\ UNCHANGED <<board, seenUser, seenMembers, rating, ratingSeen, dead, answer>>
        /\ \A b \in Attempts : b # a => stage'[b] = stage[b]
    BY <1>0, <1>4 DEF TypeOK, SaveUser, Goto, At, snapshot, rates
  <2>2. /\ \A b \in Attempts : b # a => ~ Running(b)
        /\ \A v \in Users : rating[v] = NoAttempt
    BY <2>1 DEF OneWriter, OneAtATime
  <2>3. /\ seenUser[a] = userDoc[o] /\ \A v \in Users : seenMembers[a][v] = userDoc[v].credited
    BY <2>1 DEF AwardInv, Loaded
  <2>4. /\ Rewarded(a).credited = userDoc[o].credited \cup {a}
        /\ Rewarded(a).rated = userDoc[o].rated
    BY <2>3 DEF Rewarded, TypeOK, UserDoc
  <2>5. /\ userDoc'[o] = Rewarded(a) /\ \A v \in Users \ {o} : userDoc'[v] = userDoc[v]
    BY <2>1 DEF TypeOK
  <2>6. \A b \in Attempts : Running(b)' => b = a
    BY <2>1, <2>2 DEF Running
  <2>7. \A b \in Attempts : answer'[b] = "created" \/ stage'[b] \in {"board", "record"} =>
            b \in userDoc'[OwnerOf(b)].credited
    BY <1>0, <2>1, <2>4, <2>5 DEF AwardInv
  <2>8. Running(a)'
    BY <2>1 DEF Running, RunStages, CommitStages
  <2>9. /\ userDoc'[OwnerOf(a)] = Rewarded(a)'
        /\ \A v \in Users \ {o} : seenMembers'[a][v] = userDoc'[v].credited
    BY <2>1, <2>3, <2>5 DEF Rewarded
  <2>10. AwardInv'
    BY <2>1, <2>2, <2>6, <2>7, <2>8, <2>9 DEF AwardInv, Loaded, OwnerOf
  <2> QED
    BY <2>4, <2>5, <2>10
<1>5. ASSUME NEW a \in Attempts, SaveBoard(a) PROVE AwardInv' /\ Grows
  <2> DEFINE o == OwnerOf(a)
  <2>1. /\ Running(a) /\ stage[a] = "board" /\ o \in Users /\ stage'[a] \in {"record", "answered"}
        /\ board' = [seenMembers[a] EXCEPT ![o] = Rewarded(a).credited]
        /\ UNCHANGED <<userDoc, seenUser, seenMembers, rating, ratingSeen, dead>>
        /\ \A b \in Attempts : b # a => stage'[b] = stage[b] /\ answer'[b] = answer[b]
    BY <1>0, <1>5 DEF TypeOK, SaveBoard, Goto, Respond, At, snapshot, rates, NothingMissing
  <2>2. /\ userDoc[o] = Rewarded(a) /\ a \in userDoc[o].credited
        /\ \A v \in Users \ {o} : seenMembers[a][v] = userDoc[v].credited
    BY <2>1 DEF AwardInv
  <2>3. \A v \in Users : board'[v] = userDoc'[v].credited
    BY <2>1, <2>2 DEF TypeOK
  <2>4. \A b \in Attempts : b # a => (Running(b)' <=> Running(b)) /\ Rewarded(b)' = Rewarded(b)
    BY <2>1 DEF Running, Rewarded
  <2>5. \A b \in Attempts : answer'[b] = "created" \/ stage'[b] \in {"board", "record"} =>
            b \in userDoc'[OwnerOf(b)].credited
    BY <2>1, <2>2 DEF AwardInv
  <2>6. AwardInv'
    BY <2>1, <2>3, <2>4, <2>5 DEF AwardInv, Loaded, OwnerOf
  <2> QED
    BY <2>1, <2>6
<1>6. ASSUME NEW u \in Users, NEW c \in Attempts, StartRate(u, c) PROVE AwardInv' /\ Grows
  <2>1. /\ UNCHANGED <<userDoc, board, seenUser, seenMembers, stage, dead, answer>>
        /\ \A v \in Users : rating'[v] # NoAttempt /\ rating[v] = NoAttempt =>
                            ratingSeen'[v] = userDoc[v]
        /\ \A v \in Users : rating[v] # NoAttempt => ratingSeen'[v] = ratingSeen[v]
    BY <1>6 DEF StartRate, TypeOK, mongo, snapshot
  <2> QED
    BY <2>1 DEF AwardInv, Running, Rewarded
<1>7. ASSUME NEW u \in Users, SaveRate(u) PROVE AwardInv' /\ Grows
  <2>1. /\ \A a \in Attempts : ~ Running(a)
        /\ \A v \in Users : rating'[v] = NoAttempt
        /\ userDoc' = [userDoc EXCEPT ![u] = [userDoc[u] EXCEPT !.rated = @ \cup {rating[u]}]]
        /\ UNCHANGED <<board, stage, dead, answer>>
    BY <1>7 DEF SaveRate, OneWriter, AwardInv, TypeOK
  <2>2. \A v \in Users : /\ userDoc'[v].credited = userDoc[v].credited
                         /\ userDoc[v].rated \subseteq userDoc'[v].rated
    BY <2>1 DEF TypeOK, UserDoc
  <2>3. \A a \in Attempts : ~ Running(a)'
    BY <2>1 DEF Running
  <2>4. AwardInv'
    BY <1>0, <2>1, <2>2, <2>3 DEF AwardInv
  <2> QED
    BY <2>2, <2>4
<1>8. CASE Crash
  <2>1. /\ UNCHANGED <<userDoc, board, stage>> /\ \A v \in Users : rating'[v] = NoAttempt
        /\ \A a \in Attempts : ~ Running(a)'
        /\ \A a \in Attempts : answer'[a] \in {"error", answer[a]}
    BY <1>8 DEF Crash, mongo, Running
  <2>2. \A a \in Attempts : ~ (Running(a) /\ stage[a] = "board")
    BY <1>8 DEF Crash, SerialEnvironment, CommitStages
  <2>3. AwardInv'
    BY <1>0, <2>1, <2>2 DEF AwardInv
  <2> QED
    BY <2>1, <2>3
<1>9. CASE UNCHANGED <<userDoc, board, stage, dead, answer, seenUser, seenMembers, rating, ratingSeen>>
  BY <1>9 DEF AwardInv, Running, Rewarded
<1> QED
  BY <1>1, <1>2, <1>4, <1>5, <1>6, <1>7, <1>8, <1>9 DEF Next, vars, mongo, snapshot, rates,
     Handler, Timeout, Receive, DeleteTask, DeleteCheckin, ExpireKey, OpenBoard, ToggleProject

Served == Sound /\ NothingMissing /\ OneWriter /\ AwardInv

\* The four facts together are inductive.
LEMMA Serving ==
    ASSUME SerialEnvironment
    PROVE  (Init => Served) /\ (Served /\ [Next]_vars => Served')
<1>1. Init => NothingMissing /\ OneWriter /\ AwardInv
  BY DEF Init, SerialEnvironment, NothingMissing, OneWriter, OneAtATime, AwardInv, Running, RunStages,
     ReadStages, CommitStages, NewUser
<1>2. Served /\ [Next]_vars => Served'
  BY Soundness, NothingMissingStep, OneWriterStep, AwardStep DEF Served, Sound
<1> QED
  BY <1>1, <1>2, Soundness DEF Served

\* One request at a time: points, badges and contributions announced to a
\* volunteer are in the volunteer's document, for any number of users and retries.
THEOREM CreditsStay == SerialEnvironment => (Spec => []NoLostCredit)
<1> SUFFICES ASSUME SerialEnvironment PROVE Spec => []NoLostCredit
  OBVIOUS
<1>1. Served => NoLostCredit
  BY DEF Served, AwardInv, NoLostCredit
<1> QED
  BY <1>1, Serving, PTL DEF Spec

\* One request at a time: between two requests the leaderboard is empty or shows
\* what the profiles hold.
THEOREM BoardAgrees == SerialEnvironment => (Spec => []BoardMatchesProfiles)
<1> SUFFICES ASSUME SerialEnvironment PROVE Spec => []BoardMatchesProfiles
  OBVIOUS
<1>1. Served => BoardMatchesProfiles
  BY DEF Served, AwardInv, BoardMatchesProfiles, Quiet
<1> QED
  BY <1>1, Serving, PTL DEF Spec

\* One request at a time: no write to a user document, of a check-in or of a
\* rating, takes anything out of it.
THEOREM AwardsGrow == SerialEnvironment => (Spec => AwardsNeverShrink)
<1> SUFFICES ASSUME SerialEnvironment PROVE Spec => AwardsNeverShrink
  OBVIOUS
<1>1. Served /\ Served' /\ [Next]_vars =>
        [\A u \in Users : /\ userDoc[u].credited \subseteq userDoc'[u].credited
                          /\ userDoc[u].rated \subseteq userDoc'[u].rated]_userDoc
  BY AwardStep DEF Served
<1> QED
  BY <1>1, Serving, PTL DEF Spec, AwardsNeverShrink

-----------------------------------------------------------------------------
(* One handler at a time: a task is offered to nobody once a move solved it.     *)

Offered == {"user", "members", "project", "upload", "checkin", "move", "task"}

SolverInv ==
    /\ \A a \in moves : Stored(a)
    /\ \A a \in moves : Contribution(a) # NoTask =>
          (Running(a) /\ stage[a] = "task") \/ taskState[Contribution(a)] # "open"
    /\ \A a \in Attempts : Running(a) /\ stage[a] \in Offered =>
          \A t \in seenTasks[a] : taskState[t] = "open"
    /\ OneSolverPerTask

\* The handler that stores a move has read only open tasks, and closes the one it
\* contributes to before another handler starts.
LEMMA SolverStep ==
    ASSUME SerialEnvironment, Sound, NothingMissing, OneAtATime, OneAtATime', SolverInv, [Next]_vars
    PROVE  SolverInv'
<1> USE FlowAssumption DEF Sound
<1>1. \A t \in Tasks : taskState[t] # "open" => taskState'[t] # "open"
  BY DEF TypeOK, Next, vars, mongo, snapshot, Post, Handler, LookupKey, ReplayCheckin, ReplayTask, LoadTasks,
     LoadUser, LoadMembers, CheckProject, UploadPhotos, CreateCheckin, CreateMove, SolveTask,
     SaveUser, SaveBoard, RecordKey, Fail, Crash, Timeout, Receive, SaveRate, StartRate,
     DeleteTask, DeleteCheckin, ExpireKey, OpenBoard, ToggleProject
<1>2. \A a \in moves : Contribution(a)' = Contribution(a) /\ Stored(a)'
  <2> SUFFICES ASSUME NEW a \in moves PROVE Contribution(a)' = Contribution(a) /\ Stored(a)'
    OBVIOUS
  <2>1. ~ LoadTasks(a) /\ a \in Attempts
    BY DEF LoadTasks, At, SolverInv, ProgressInv, ReadStages, TypeOK
  <2>2. seenTasks'[a] = seenTasks[a]
    BY <2>1 DEF TypeOK, Next, vars, mongo, snapshot, Post, Handler, LookupKey, ReplayCheckin, ReplayTask, LoadTasks,
     LoadUser, LoadMembers, CheckProject, UploadPhotos, CreateCheckin, CreateMove, SolveTask,
     SaveUser, SaveBoard, RecordKey, Fail, Crash, Timeout, Receive, SaveRate, StartRate,
     DeleteTask, DeleteCheckin, ExpireKey, OpenBoard, ToggleProject
  <2>3. Stored(a)'
    <3>1. checkins'[a] # "none"
      BY <2>1 DEF SolverInv, Stored, TypeOK, Next, vars, mongo, snapshot, Post, Handler, LookupKey, ReplayCheckin, ReplayTask, LoadTasks,
     LoadUser, LoadMembers, CheckProject, UploadPhotos, CreateCheckin, CreateMove, SolveTask,
     SaveUser, SaveBoard, RecordKey, Fail, Crash, Timeout, Receive, SaveRate, StartRate,
     DeleteTask, DeleteCheckin, ExpireKey, OpenBoard, ToggleProject
    <3> QED
      BY <3>1 DEF Stored
  <2> QED
    BY <2>2, <2>3 DEF Contribution
<1>3. \A a \in moves' \ moves : a \in Attempts /\ CreateMove(a)
  BY DEF TypeOK, Next, vars, mongo, snapshot, Post, Handler, LookupKey, ReplayCheckin, ReplayTask, LoadTasks,
     LoadUser, LoadMembers, CheckProject, UploadPhotos, CreateCheckin, CreateMove, SolveTask,
     SaveUser, SaveBoard, RecordKey, Fail, Crash, Timeout, Receive, SaveRate, StartRate,
     DeleteTask, DeleteCheckin, ExpireKey, OpenBoard, ToggleProject
<1>4. \A a \in moves' \ moves : Stored(a)' /\ Contribution(a)' = Contribution(a)
  <2> SUFFICES ASSUME NEW a \in moves', a \notin moves
               PROVE  Stored(a)' /\ Contribution(a)' = Contribution(a)
    OBVIOUS
  <2>1. CreateMove(a) /\ a \in Attempts
    BY <1>3
  <2>2. Stored(a) /\ checkins' = checkins /\ seenTasks' = seenTasks
    BY <2>1 DEF CreateMove, At, ProgressInv, AfterCheckin, snapshot
  <2> QED
    BY <2>2 DEF Contribution, Stored
<1>5. \A a \in moves' : Contribution(a)' # NoTask =>
          (Running(a)' /\ stage'[a] = "task") \/ taskState'[Contribution(a)'] # "open"
  <2> SUFFICES ASSUME NEW a \in moves', Contribution(a)' # NoTask
               PROVE  (Running(a)' /\ stage'[a] = "task") \/ taskState'[Contribution(a)'] # "open"
    OBVIOUS
  <2>0. a \in Attempts /\ Contribution(a)' = Contribution(a) /\ Contribution(a) \in Tasks
    <3>1. a \in Attempts /\ Contribution(a)' = Contribution(a)
      BY <1>2, <1>3, <1>4, TypeStep DEF TypeOK
    <3> QED
      BY <3>1, ContributionType
  <2>1. CASE a \notin moves
    BY <1>3, <2>0, <2>1 DEF CreateMove, At, Goto, Running, RunStages, CommitStages, TypeOK
  <2>2. CASE a \in moves /\ taskState[Contribution(a)] # "open"
    BY <1>1, <2>0, <2>2
  <2>3. CASE a \in moves /\ Running(a) /\ stage[a] = "task" /\ ~ (Running(a)' /\ stage'[a] = "task")
    <3>1. SolveTask(a)
      BY <2>0, <2>3 DEF SerialEnvironment, CommitStages, At, Goto, Respond, Throw, Running, TypeOK,
     Next, vars, mongo, snapshot, Post, Handler, LookupKey, ReplayCheckin, ReplayTask, LoadTasks,
     LoadUser, LoadMembers, CheckProject, UploadPhotos, CreateCheckin, CreateMove, SolveTask,
     SaveUser, SaveBoard, RecordKey, Fail, Crash, Timeout, Receive, SaveRate, StartRate,
     DeleteTask, DeleteCheckin, ExpireKey, OpenBoard, ToggleProject
    <3> QED
      BY <2>0, <3>1 DEF SolveTask, NothingMissing, TypeOK
  <2> QED
    BY <2>0, <2>1, <2>2, <2>3 DEF SolverInv
<1>6. \A a \in Attempts : Running(a)' /\ stage'[a] \in Offered =>
          \A t \in seenTasks'[a] : taskState'[t] = "open"
  <2> SUFFICES ASSUME NEW a \in Attempts, Running(a)', stage'[a] \in Offered,
                      NEW t \in seenTasks'[a]
               PROVE  taskState'[t] = "open"
    OBVIOUS
  <2>1. CASE LoadTasks(a)
    BY <2>1 DEF LoadTasks, mongo, TypeOK
  <2>2. CASE ~ LoadTasks(a)
    <3>1. Running(a) /\ stage[a] \in Offered /\ seenTasks'[a] = seenTasks[a]
      BY <2>2 DEF Offered, At, Goto, Respond, Throw, Running, RunStages, ReadStages, CommitStages,
     TypeOK, Next, vars, mongo, snapshot, Post, Handler, LookupKey, ReplayCheckin, ReplayTask, LoadTasks,
     LoadUser, LoadMembers, CheckProject, UploadPhotos, CreateCheckin, CreateMove, SolveTask,
     SaveUser, SaveBoard, RecordKey, Fail, Crash, Timeout, Receive, SaveRate, StartRate,
     DeleteTask, DeleteCheckin, ExpireKey, OpenBoard, ToggleProject
    <3>2. CASE taskState' = taskState
      BY <3>1, <3>2 DEF SolverInv
    <3>3. CASE taskState' # taskState
      <4>1. \E b \in Attempts : SolveTask(b)
        BY <3>3 DEF SerialEnvironment, Next, vars, mongo, snapshot, Post, Handler, LookupKey, ReplayCheckin, ReplayTask, LoadTasks,
     LoadUser, LoadMembers, CheckProject, UploadPhotos, CreateCheckin, CreateMove, SolveTask,
     SaveUser, SaveBoard, RecordKey, Fail, Crash, Timeout, Receive, SaveRate, StartRate,
     DeleteTask, DeleteCheckin, ExpireKey, OpenBoard, ToggleProject
      <4>2. SolveTask(a)
        BY <3>1, <4>1 DEF SolveTask, At, OneAtATime
      <4> QED
        BY <4>2 DEF SolveTask, NothingMissing, At, Goto, Offered, TypeOK
    <3> QED
      BY <3>2, <3>3
  <2> QED
    BY <2>1, <2>2
<1>7. OneSolverPerTask'
  <2> SUFFICES ASSUME NEW a \in moves', NEW b \in moves', a # b,
                      Contribution(a)' = Contribution(b)', Contribution(a)' # NoTask
               PROVE  FALSE
    BY DEF OneSolverPerTask
  <2>1. CASE a \in moves /\ b \in moves
    BY <1>2, <2>1 DEF SolverInv, OneSolverPerTask
  <2>2. ASSUME NEW c \in moves', c \notin moves, NEW d \in moves,
               Contribution(c)' = Contribution(d)', Contribution(c)' # NoTask
        PROVE  FALSE
    <3>1. CreateMove(c) /\ c \in Attempts /\ Contribution(c) = Contribution(d) /\ Contribution(c) # NoTask
      BY <1>2, <1>3, <1>4, <2>2
    <3>2. Running(c) /\ stage[c] = "move"
      BY <3>1 DEF CreateMove, At
    <3>3. Contribution(c) \in seenTasks[c]
      <4>1. seenTasks[c] \cap Accepts[SubmissionOf[c]] \in SUBSET Tasks
        BY <3>1 DEF TypeOK
      <4> QED
        BY <3>1, <4>1 DEF Contribution
    <3>4. taskState[Contribution(d)] = "open"
      BY <3>1, <3>2, <3>3 DEF SolverInv, Offered
    <3>5. Running(d) /\ stage[d] = "task" /\ d \in Attempts
      BY <3>1, <3>4 DEF SolverInv, TypeOK
    <3> QED
      BY <3>1, <3>2, <3>5 DEF OneAtATime
  <2>3. a \in moves \/ b \in moves
    BY <1>3 DEF CreateMove, TypeOK
  <2> QED
    BY <2>1, <2>2, <2>3
<1> QED
  BY <1>2, <1>4, <1>5, <1>6, <1>7 DEF SolverInv

\* One request at a time: no two stored moves name the same task.
THEOREM TasksHaveOneSolver == SerialEnvironment => (Spec => []OneSolverPerTask)
<1> SUFFICES ASSUME SerialEnvironment PROVE Spec => []OneSolverPerTask
  OBVIOUS
<1> DEFINE IInv == Sound /\ NothingMissing /\ OneAtATime /\ SolverInv
<1>1. Init => IInv
  BY Soundness DEF Init, SerialEnvironment, NothingMissing, OneAtATime, SolverInv, OneSolverPerTask,
     Running, RunStages, ReadStages, CommitStages, Offered
<1>2. IInv /\ [Next]_vars => IInv'
  BY Soundness, NothingMissingStep, OneAtATimeStep, SolverStep DEF Sound
<1>3. IInv => OneSolverPerTask
  BY DEF SolverInv
<1> QED
  BY <1>1, <1>2, <1>3, PTL DEF Spec
=============================================================================
