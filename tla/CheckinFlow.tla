---------------------------- MODULE CheckinFlow ----------------------------
(***************************************************************************)
(* POST /checkin, POST /checkin/rate and what else touches the documents    *)
(* they use, as src/src/module/checkin/checkin.service.ts runs them.        *)
(*                                                                         *)
(* A volunteer's phone keeps each check-in it wants delivered in an outbox *)
(* (a submission) and POSTs it until the server accepts it; every POST is  *)
(* an attempt.  The server runs the attempts concurrently: Node.js         *)
(* interleaves handlers at every await, and each await below is one read   *)
(* or one write of MongoDB, so each is one action.  An attempt stays at    *)
(* the stage of the await it performs next.                                *)
(*                                                                         *)
(* An attempt creates at most one check-in and one move, so both are named *)
(* by the attempt.  The part of a user document that an attempt adds to    *)
(* (points, badges, contribution) is abstracted to the set of attempts     *)
(* whose additions the stored document contains: points are the sum of     *)
(* their rewards.                                                          *)
(***************************************************************************)
EXTENDS Naturals

CONSTANTS
    Users,          \* volunteers subscribed to the one project modelled
    Submissions,    \* outbox entries; the first POST and all its retries
    Attempts,       \* the POSTs that may be sent: this bounds the retries
    Tasks,          \* tasks of the project
    Keys,           \* Idempotency-Key values
    Owner,          \* Owner[s]: the user whose token the POSTs of s carry
    KeyOf,          \* KeyOf[s]: the key of s, NoKey without the header
    SubmissionOf,   \* SubmissionOf[a]: what attempt a delivers
    Accepts,        \* Accepts[s]: tasks whose type, area and hours s meets
    FirstTask,      \* FirstTask[S]: the task of S the collection lists first
    Photos,         \* submissions with at least one photo
    FutureDated,    \* submissions whose timestamp may be too far ahead
    BoardAtStart,   \* has GET /leaderboard created the document already?
    FailStages,     \* stages at which an await may fail or the process die
    Allowed,        \* what may happen beside the handlers: see EnvKinds
    NoKey, NoTask, NoAttempt

\* "overlap": a handler may start while another one runs; "timeout": the phone
\* may stop waiting for an answer; "expire": the TTL index removes keys; the
\* others are the requests of the same name.
EnvKinds == {"overlap", "timeout", "expire", "rate", "toggle", "deleteTask",
             "deleteCheckin"}

\* The awaits of CheckinService.create in order; "unsent" and "answered" are
\* the two ends.
ReadStages   == {"lookup", "replay", "replayTask", "tasks", "user", "members",
                 "project", "upload"}
CommitStages == {"checkin", "move", "task", "save", "board", "record"}
RunStages    == ReadStages \cup CommitStages
Stages       == RunStages \cup {"unsent", "answered"}

ASSUME FlowAssumption ==
    /\ Owner \in [Submissions -> Users]
    /\ KeyOf \in [Submissions -> Keys \cup {NoKey}]
    /\ SubmissionOf \in [Attempts -> Submissions]
    /\ Accepts \in [Submissions -> SUBSET Tasks]
    /\ \A S \in SUBSET Tasks : S # {} => FirstTask[S] \in S
    /\ Photos \subseteq Submissions
    /\ FutureDated \subseteq Submissions
    /\ BoardAtStart \in BOOLEAN
    /\ FailStages \subseteq RunStages
    /\ Allowed \subseteq EnvKinds
    /\ NoKey \notin Keys
    /\ NoTask \notin Tasks
    /\ NoAttempt \notin Attempts

\* What the POST is answered: "created" and "replayed" are 2xx, "otherAccount"
\* and "notRunning" 409, "badRequest" 400, "notFound" 404, "error" 500.
Answers == {"none", "created", "replayed", "otherAccount", "notRunning",
            "badRequest", "notFound", "error"}

\* The answers on which the phone deletes its outbox entry.
Final == {"created", "replayed", "otherAccount", "notRunning"}

VARIABLES
    \* MongoDB
    available,      \* Project.available
    taskState,      \* Task.solved, or the task removed
    checkins,       \* per attempt, its check-in: "none", "stored", "removed"
    moves,          \* the attempts whose move is stored
    userDoc,        \* the user documents
    hasBoard,       \* does the project's leaderboard document exist?
    board,          \* its users list
    keys,           \* the idempotency rows: the attempt a key answers with
    \* the running handlers
    stage, dead, answer,
    hit,            \* the row a replay found
    seenTasks,      \* the tasks read, those not solved
    seenUser,       \* the user document read
    seenMembers,    \* the other members' documents read
    \* POST /checkin/rate handlers, one per user
    rating, ratingSeen,
    \* the phones
    outbox,         \* submissions whose outbox entry still exists
    awaited         \* the attempt whose answer the phone waits for

mongo    == <<available, taskState, checkins, moves, userDoc, hasBoard, board,
              keys>>
snapshot == <<hit, seenTasks, seenUser, seenMembers>>
rates    == <<rating, ratingSeen>>
phones   == <<outbox, awaited>>
vars     == <<mongo, stage, dead, answer, snapshot, rates, phones>>

-----------------------------------------------------------------------------

UserDoc == [credited : SUBSET Attempts, rated : SUBSET Attempts]
NewUser == [credited |-> {}, rated |-> {}]

OwnerOf(a) == Owner[SubmissionOf[a]]
Key(a)     == KeyOf[SubmissionOf[a]]

\* A handler exists and has not answered; rate handlers run too.
Running(a) == stage[a] \in RunStages /\ a \notin dead
Quiet      == /\ \A a \in Attempts : ~ Running(a)
              /\ \A u \in Users : rating[u] = NoAttempt

\* tasks.find(t => t.contributesToCheckin(checkin)) on the tasks read.
Contribution(a) ==
    LET open == seenTasks[a] \cap Accepts[SubmissionOf[a]]
    IN  IF open = {} THEN NoTask ELSE FirstTask[open]

TypeOK ==
    /\ available \in BOOLEAN
    /\ taskState \in [Tasks -> {"open", "solved", "deleted"}]
    /\ checkins \in [Attempts -> {"none", "stored", "removed"}]
    /\ moves \subseteq Attempts
    /\ userDoc \in [Users -> UserDoc]
    /\ hasBoard \in BOOLEAN
    /\ board \in [Users -> SUBSET Attempts]
    /\ keys \in [Keys -> Attempts \cup {NoAttempt}]
    /\ stage \in [Attempts -> Stages]
    /\ dead \subseteq Attempts
    /\ answer \in [Attempts -> Answers]
    /\ hit \in [Attempts -> Attempts \cup {NoAttempt}]
    /\ seenTasks \in [Attempts -> SUBSET Tasks]
    /\ seenUser \in [Attempts -> UserDoc]
    /\ seenMembers \in [Attempts -> [Users -> SUBSET Attempts]]
    /\ rating \in [Users -> Attempts \cup {NoAttempt}]
    /\ ratingSeen \in [Users -> UserDoc]
    /\ outbox \subseteq Submissions
    /\ awaited \in [Submissions -> Attempts \cup {NoAttempt}]

Init ==
    /\ available = TRUE
    /\ taskState = [t \in Tasks |-> "open"]
    /\ checkins = [a \in Attempts |-> "none"]
    /\ moves = {}
    /\ userDoc = [u \in Users |-> NewUser]
    /\ hasBoard = BoardAtStart
    /\ board = [u \in Users |-> {}]
    /\ keys = [k \in Keys |-> NoAttempt]
    /\ stage = [a \in Attempts |-> "unsent"]
    /\ dead = {}
    /\ answer = [a \in Attempts |-> "none"]
    /\ hit = [a \in Attempts |-> NoAttempt]
    /\ seenTasks = [a \in Attempts |-> {}]
    /\ seenUser = [a \in Attempts |-> NewUser]
    /\ seenMembers = [a \in Attempts |-> [u \in Users |-> {}]]
    /\ rating = [u \in Users |-> NoAttempt]
    /\ ratingSeen = [u \in Users |-> NewUser]
    /\ outbox = Submissions
    /\ awaited = [s \in Submissions |-> NoAttempt]

-----------------------------------------------------------------------------
(* The phone. *)

\* The drainer POSTs the entry, again if it was sent before without a final
\* answer.
Post(a) ==
    LET s == SubmissionOf[a]
    IN  /\ stage[a] = "unsent"
        /\ s \in outbox
        /\ awaited[s] = NoAttempt
        /\ "overlap" \in Allowed \/ Quiet
        /\ stage' = [stage EXCEPT ![a] = IF Key(a) = NoKey THEN "tasks"
                                                           ELSE "lookup"]
        /\ awaited' = [awaited EXCEPT ![s] = a]
        /\ UNCHANGED <<mongo, dead, answer, snapshot, rates, outbox>>

\* The request times out, or the connection that carries the answer breaks;
\* the handler runs on.  The bound: the last attempt is waited for.
Timeout(s) ==
    /\ "timeout" \in Allowed
    /\ awaited[s] # NoAttempt
    /\ \E a \in Attempts : SubmissionOf[a] = s /\ stage[a] = "unsent"
    /\ awaited' = [awaited EXCEPT ![s] = NoAttempt]
    /\ UNCHANGED <<mongo, stage, dead, answer, snapshot, rates, outbox>>

\* The answer arrives: 2xx and 409 delete the entry, anything else leaves it
\* for a retry.
Receive(s) ==
    /\ awaited[s] # NoAttempt
    /\ answer[awaited[s]] # "none"
    /\ awaited' = [awaited EXCEPT ![s] = NoAttempt]
    /\ outbox' = IF answer[awaited[s]] \in Final THEN outbox \ {s} ELSE outbox
    /\ UNCHANGED <<mongo, stage, dead, answer, snapshot, rates>>

-----------------------------------------------------------------------------
(* How a handler moves on. *)

At(a, st) == Running(a) /\ stage[a] = st

Goto(a, st) ==
    /\ stage' = [stage EXCEPT ![a] = st]
    /\ UNCHANGED <<dead, answer>>

Respond(a, result) ==
    /\ stage' = [stage EXCEPT ![a] = "answered"]
    /\ answer' = [answer EXCEPT ![a] = result]
    /\ UNCHANGED dead

\* An exception leaves the handler where it stood: what it has written stays
\* written, and the caller gets the exception's status.
Throw(a, result) ==
    /\ dead' = dead \cup {a}
    /\ answer' = [answer EXCEPT ![a] = result]
    /\ UNCHANGED stage

-----------------------------------------------------------------------------
(* Slips a change to the service could make; no step of Next takes them, the   *)
(* properties must tell them from the code.                                   *)

LookupKey_Skipped(a) ==
    /\ At(a, "lookup") /\ Goto(a, "tasks")
    /\ UNCHANGED <<mongo, snapshot, rates, phones>>

LookupKey_AnyAccount(a) ==
    /\ At(a, "lookup")
    /\ Goto(a, IF keys[Key(a)] = NoAttempt THEN "tasks" ELSE "replay")
    /\ hit' = [hit EXCEPT ![a] = keys[Key(a)]]
    /\ UNCHANGED <<mongo, seenTasks, seenUser, seenMembers, rates, phones>>

\* CheckinMapper.toEntity(checkIn, null) followed by a use of the user.
ReplayCheckin_NeedsUser(a) ==
    /\ At(a, "replay") /\ Throw(a, "error")
    /\ UNCHANGED <<mongo, snapshot, rates, phones>>

LoadTasks_SolvedToo(a) ==
    /\ At(a, "tasks") /\ Goto(a, "user")
    /\ seenTasks' = [seenTasks EXCEPT ![a] = {t \in Tasks : taskState[t] # "deleted"}]
    /\ UNCHANGED <<mongo, hit, seenUser, seenMembers, rates, phones>>

CreateCheckin_NoMove(a) ==
    /\ At(a, "checkin") /\ Goto(a, "save")
    /\ checkins' = [checkins EXCEPT ![a] = "stored"]
    /\ UNCHANGED <<available, taskState, moves, userDoc, hasBoard, board, keys,
                   snapshot, rates, phones>>

CreateMove_TaskLeftOpen(a) ==
    /\ At(a, "move") /\ Goto(a, "save")
    /\ moves' = moves \cup {a}
    /\ UNCHANGED <<available, taskState, checkins, userDoc, hasBoard, board,
                   keys, snapshot, rates, phones>>

\* The ratings of the document are not carried over.
Rewarded_NoRatings(a) == [seenUser[a] EXCEPT !.credited = @ \cup {a}, !.rated = {}]

\* The author's stale copy among the members is not replaced (play 76-82).
SaveBoard_StaleAuthor(a) ==
    /\ At(a, "board") /\ hasBoard
    /\ board' = seenMembers[a]
    /\ IF Key(a) = NoKey THEN Respond(a, "created") ELSE Goto(a, "record")
    /\ UNCHANGED <<available, taskState, checkins, moves, userDoc, hasBoard,
                   keys, snapshot, rates, phones>>

\* The row names what was sent instead of what was created.
RecordKey_OfSubmission(a) ==
    /\ At(a, "record") /\ Respond(a, "created")
    /\ keys' = [keys EXCEPT ![Key(a)] = SubmissionOf[a]]
    /\ UNCHANGED <<available, taskState, checkins, moves, userDoc, hasBoard,
                   board, snapshot, rates, phones>>

-----------------------------------------------------------------------------
(* CheckinService.create, await by await. *)

\* idempotencyDao.findByKey: unknown, of another account, or to be replayed.
LookupKey(a) ==
    /\ At(a, "lookup")
    /\ LET row == keys[Key(a)]
       IN  \/ /\ row = NoAttempt
              /\ Goto(a, "tasks")
              /\ UNCHANGED hit
           \/ /\ row # NoAttempt
              /\ OwnerOf(row) # OwnerOf(a)
              /\ Throw(a, "otherAccount")
              /\ UNCHANGED hit
           \/ /\ row # NoAttempt
              /\ OwnerOf(row) = OwnerOf(a)
              /\ Goto(a, "replay")
              /\ hit' = [hit EXCEPT ![a] = row]
    /\ UNCHANGED <<mongo, seenTasks, seenUser, seenMembers, rates, phones>>

\* maybeReplay: checkInDao.findOne(hit.checkinId).
ReplayCheckin(a) ==
    /\ At(a, "replay")
    /\ \/ /\ checkins[hit[a]] # "stored"
          /\ Throw(a, "notFound")
       \/ /\ checkins[hit[a]] = "stored"
          /\ IF Contribution(hit[a]) = NoTask THEN Respond(a, "replayed")
                                              ELSE Goto(a, "replayTask")
    /\ UNCHANGED <<mongo, snapshot, rates, phones>>

\* taskService.findOne(original.contributesTo): TaskDao.getTaskById reads
\* _doc of a missing task and throws a TypeError.
ReplayTask(a) ==
    /\ At(a, "replayTask")
    /\ IF taskState[Contribution(hit[a])] = "deleted" THEN Throw(a, "error")
                                                      ELSE Respond(a, "replayed")
    /\ UNCHANGED <<mongo, snapshot, rates, phones>>

\* getDataFromDB: the project's tasks.
LoadTasks(a) ==
    /\ At(a, "tasks")
    /\ seenTasks' = [seenTasks EXCEPT ![a] = {t \in Tasks : taskState[t] = "open"}]
    /\ Goto(a, "user")
    /\ UNCHANGED <<mongo, hit, seenUser, seenMembers, rates, phones>>

\* getDataFromDB: the user, and the user's earlier check-ins.
LoadUser(a) ==
    /\ At(a, "user")
    /\ seenUser' = [seenUser EXCEPT ![a] = userDoc[OwnerOf(a)]]
    /\ Goto(a, "members")
    /\ UNCHANGED <<mongo, hit, seenTasks, seenMembers, rates, phones>>

\* getDataFromDB: every member of the project, for the leaderboard.
LoadMembers(a) ==
    /\ At(a, "members")
    /\ seenMembers' = [seenMembers EXCEPT ![a] = [u \in Users |-> userDoc[u].credited]]
    /\ Goto(a, "project")
    /\ UNCHANGED <<mongo, hit, seenTasks, seenUser, rates, phones>>

\* getDataFromDB: the project; then the two checks that need no await.
CheckProject(a) ==
    /\ At(a, "project")
    /\ \/ /\ ~ available
          /\ Throw(a, "notRunning")
       \/ /\ available
          /\ SubmissionOf[a] \in FutureDated
          /\ Throw(a, "badRequest")
       \/ /\ available
          /\ Goto(a, IF SubmissionOf[a] \in Photos THEN "upload" ELSE "checkin")
    /\ UNCHANGED <<mongo, snapshot, rates, phones>>

\* The photos go to the object store before any document is written.
UploadPhotos(a) ==
    /\ At(a, "upload")
    /\ Goto(a, "checkin")
    /\ UNCHANGED <<mongo, snapshot, rates, phones>>

CreateCheckin(a) ==
    /\ At(a, "checkin")
    /\ checkins' = [checkins EXCEPT ![a] = "stored"]
    /\ Goto(a, "move")
    /\ UNCHANGED <<available, taskState, moves, userDoc, hasBoard, board, keys,
                   snapshot, rates, phones>>

CreateMove(a) ==
    /\ At(a, "move")
    /\ moves' = moves \cup {a}
    /\ Goto(a, IF Contribution(a) = NoTask THEN "save" ELSE "task")
    /\ UNCHANGED <<available, taskState, checkins, userDoc, hasBoard, board,
                   keys, snapshot, rates, phones>>

\* taskService.setTaskAsSolved: whoever else solved it; 404 if it is gone.
SolveTask(a) ==
    LET t == Contribution(a)
    IN  /\ At(a, "task")
        /\ \/ /\ taskState[t] = "deleted"
              /\ Throw(a, "notFound")
              /\ UNCHANGED taskState
           \/ /\ taskState[t] # "deleted"
              /\ taskState' = [taskState EXCEPT ![t] = "solved"]
              /\ Goto(a, "save")
        /\ UNCHANGED <<available, checkins, moves, userDoc, hasBoard, board,
                       keys, snapshot, rates, phones>>

\* The user as read at "user", with this attempt's additions.
Rewarded(a) == [seenUser[a] EXCEPT !.credited = @ \cup {a}]

\* userService.update(user.id, user): the whole document.
SaveUser(a) ==
    /\ At(a, "save")
    /\ userDoc' = [userDoc EXCEPT ![OwnerOf(a)] = Rewarded(a)]
    /\ Goto(a, "board")
    /\ UNCHANGED <<available, taskState, checkins, moves, hasBoard, board, keys,
                   snapshot, rates, phones>>

\* gamificationService.saveMove: the whole list; 404 without a document.  A
\* POST without a key is answered here.
SaveBoard(a) ==
    /\ At(a, "board")
    /\ \/ /\ ~ hasBoard
          /\ Throw(a, "notFound")
          /\ UNCHANGED board
       \/ /\ hasBoard
          /\ board' = [seenMembers[a] EXCEPT ![OwnerOf(a)] = Rewarded(a).credited]
          /\ IF Key(a) = NoKey THEN Respond(a, "created") ELSE Goto(a, "record")
    /\ UNCHANGED <<available, taskState, checkins, moves, userDoc, hasBoard,
                   keys, snapshot, rates, phones>>

\* idempotencyDao.record, best effort: the unique index keeps an existing row,
\* and an error is logged and swallowed.
RecordKey(a) ==
    /\ At(a, "record")
    /\ \/ keys' = [keys EXCEPT ![Key(a)] = IF @ = NoAttempt THEN a ELSE @]
       \/ "record" \in FailStages /\ UNCHANGED keys
    /\ Respond(a, "created")
    /\ UNCHANGED <<available, taskState, checkins, moves, userDoc, hasBoard,
                   board, snapshot, rates, phones>>

\* The await in progress is rejected (MongoDB or object store unreachable).
Fail(a) ==
    /\ Running(a)
    /\ stage[a] \in FailStages \ {"record"}
    /\ Throw(a, "error")
    /\ UNCHANGED <<mongo, snapshot, rates, phones>>

\* The process restarts: no running handler answers.
Crash ==
    /\ \E a \in Attempts : Running(a)
    /\ \A a \in Attempts : Running(a) => stage[a] \in FailStages
    /\ dead' = dead \cup {a \in Attempts : Running(a)}
    /\ answer' = [a \in Attempts |-> IF Running(a) THEN "error" ELSE answer[a]]
    /\ rating' = [u \in Users |-> NoAttempt]
    /\ UNCHANGED <<mongo, stage, snapshot, ratingSeen, phones>>

-----------------------------------------------------------------------------
(* The other requests that touch these documents. *)

\* CheckinService.rate: reads the check-in, then the user.
StartRate(u, c) ==
    /\ "rate" \in Allowed
    /\ rating[u] = NoAttempt
    /\ checkins[c] = "stored"
    /\ c \notin userDoc[u].rated        \* bound: one rating per user and check-in
    /\ "overlap" \in Allowed \/ Quiet
    /\ rating' = [rating EXCEPT ![u] = c]
    /\ ratingSeen' = [ratingSeen EXCEPT ![u] = userDoc[u]]
    /\ UNCHANGED <<mongo, stage, dead, answer, snapshot, phones>>

\* UserService.rate: addRating, then the whole document.
SaveRate(u) ==
    /\ rating[u] # NoAttempt
    /\ userDoc' = [userDoc EXCEPT ![u] =
                      [ratingSeen[u] EXCEPT !.rated = @ \cup {rating[u]}]]
    /\ rating' = [rating EXCEPT ![u] = NoAttempt]
    /\ UNCHANGED <<available, taskState, checkins, moves, hasBoard, board, keys,
                   stage, dead, answer, snapshot, ratingSeen, phones>>

\* GET /leaderboard/:projectId creates the document, with no users in it.
OpenBoard ==
    /\ ~ hasBoard
    /\ hasBoard' = TRUE
    /\ UNCHANGED <<available, taskState, checkins, moves, userDoc, board, keys,
                   stage, dead, answer, snapshot, rates, phones>>

ToggleProject ==
    /\ "toggle" \in Allowed
    /\ available' = ~ available
    /\ UNCHANGED <<taskState, checkins, moves, userDoc, hasBoard, board, keys,
                   stage, dead, answer, snapshot, rates, phones>>

DeleteTask(t) ==
    /\ "deleteTask" \in Allowed
    /\ taskState[t] # "deleted"
    /\ taskState' = [taskState EXCEPT ![t] = "deleted"]
    /\ UNCHANGED <<available, checkins, moves, userDoc, hasBoard, board, keys,
                   stage, dead, answer, snapshot, rates, phones>>

\* DELETE /checkin/:id removes the check-in document and nothing else.
DeleteCheckin(a) ==
    /\ "deleteCheckin" \in Allowed
    /\ checkins[a] = "stored"
    /\ checkins' = [checkins EXCEPT ![a] = "removed"]
    /\ UNCHANGED <<available, taskState, moves, userDoc, hasBoard, board, keys,
                   stage, dead, answer, snapshot, rates, phones>>

\* The TTL index sweeps a row seven days after it was written.
ExpireKey(k) ==
    /\ "expire" \in Allowed
    /\ keys[k] # NoAttempt
    /\ keys' = [keys EXCEPT ![k] = NoAttempt]
    /\ UNCHANGED <<available, taskState, checkins, moves, userDoc, hasBoard,
                   board, stage, dead, answer, snapshot, rates, phones>>

-----------------------------------------------------------------------------

Handler(a) ==
    \/ LookupKey(a) \/ ReplayCheckin(a) \/ ReplayTask(a)
    \/ LoadTasks(a) \/ LoadUser(a) \/ LoadMembers(a) \/ CheckProject(a)
    \/ UploadPhotos(a) \/ CreateCheckin(a) \/ CreateMove(a) \/ SolveTask(a)
    \/ SaveUser(a) \/ SaveBoard(a) \/ RecordKey(a)

Next ==
    \/ \E a \in Attempts : Post(a) \/ Handler(a) \/ Fail(a) \/ DeleteCheckin(a)
    \/ \E s \in Submissions : Timeout(s) \/ Receive(s)
    \/ \E u \in Users : SaveRate(u) \/ \E c \in Attempts : StartRate(u, c)
    \/ \E t \in Tasks : DeleteTask(t)
    \/ \E k \in Keys : ExpireKey(k)
    \/ Crash \/ OpenBoard \/ ToggleProject

Spec == Init /\ [][Next]_vars

\* The event loop runs every handler to its end; the outbox drains whenever the
\* phone is online; a rating request ends too.
Fairness ==
    /\ \A a \in Attempts : WF_vars(Handler(a)) /\ WF_vars(Post(a))
    /\ \A s \in Submissions : WF_vars(Receive(s))
    /\ \A u \in Users : WF_vars(SaveRate(u))

FairSpec == Spec /\ Fairness

-----------------------------------------------------------------------------
(* What holds whatever overlaps, fails or expires. *)

Stored(a) == checkins[a] # "none"

\* An idempotency row names an attempt with that key that wrote its check-in
\* and its move and was answered "created": a retry that finds the row cannot
\* be told of a check-in that is not there (create 106-143).
KeyAnswersCommitted ==
    \A k \in Keys : keys[k] # NoAttempt =>
        LET a == keys[k]
        IN  Key(a) = k /\ answer[a] = "created" /\ Stored(a) /\ a \in moves

\* A retry answered as a replay was shown the check-in of an earlier attempt of
\* the same account with the same key, never another volunteer's, although two
\* accounts may race for one key (maybeReplay 201-223).
ReplayAnswersOwnCheckin ==
    \A a \in Attempts : answer[a] = "replayed" =>
        LET b == hit[a]
        IN  /\ b \in moves /\ Stored(b)
            /\ OwnerOf(b) = OwnerOf(a)
            /\ Key(b) = Key(a)
            /\ ~ Stored(a)

\* A volunteer told that a check-in was created has its document, its move and,
\* when it contributed, a task that nobody is offered again (create 111-125).
CreatedIsCommitted ==
    \A a \in Attempts : answer[a] = "created" =>
        /\ Stored(a) /\ a \in moves
        /\ Contribution(a) # NoTask => taskState[Contribution(a)] # "open"

\* Nothing is credited without its move: the points in a profile and on the
\* leaderboard come from stored moves of that very user (create 111-125).
NoPhantomCredit ==
    \A u \in Users : \A a \in userDoc[u].credited \cup board[u] :
        a \in moves /\ Stored(a) /\ OwnerOf(a) = u

-----------------------------------------------------------------------------
(* What holds when handlers run one at a time and fail only before the first *)
(* write: the promise of docs/mobile/offline-sync.md.                        *)

SerialEnvironment ==
    /\ Allowed \cap {"overlap", "expire", "deleteTask"} = {}
    /\ FailStages \cap CommitStages = {}
    /\ BoardAtStart

\* The retries of one outbox entry leave one check-in, however many answers
\* were lost (offline-sync.md:10, create 58-64 and 127-143).
NoDuplicateCheckin ==
    \A a, b \in Attempts :
        (/\ a # b /\ Stored(a) /\ Stored(b)
         /\ Key(a) = Key(b) /\ OwnerOf(a) = OwnerOf(b)) => Key(a) = NoKey

\* A retry is not paid twice (offline-sync.md:200, "mobile retries do not corrupt
\* data or double-count points").
NoDoubleCount ==
    \A u \in Users : \A a, b \in userDoc[u].credited :
        (a # b /\ Key(a) = Key(b)) => Key(a) = NoKey

\* Points, badges and the contribution announced to a volunteer stay in the
\* volunteer's document: no later whole-document write undoes them (create 124,
\* UserDao.update 43-50).
NoLostCredit ==
    \A a \in Attempts :
        answer[a] = "created" => a \in userDoc[OwnerOf(a)].credited

\* The same of every write to the document, ratings included.
AwardsNeverShrink ==
    [][\A u \in Users : /\ userDoc[u].credited \subseteq userDoc'[u].credited
                        /\ userDoc[u].rated \subseteq userDoc'[u].rated]_userDoc

\* A task has one solver, which is what findRawByProjectId shows as solvedBy.
OneSolverPerTask ==
    \A a, b \in moves :
        (a # b /\ Contribution(a) = Contribution(b)) => Contribution(a) = NoTask

\* Between two requests the leaderboard shows what the profiles hold, or is the
\* empty list a first GET creates (play 73-96, saveMove).
BoardMatchesProfiles ==
    Quiet => \/ \A u \in Users : board[u] = {}
             \/ \A u \in Users : board[u] = userDoc[u].credited

\* "Data remains in the Outbox until the server confirms receipt": an entry is
\* deleted only when a check-in of the volunteer with its key is stored.
GuaranteedDelivery ==
    \A s \in Submissions \ outbox :
        \E a \in moves : OwnerOf(a) = Owner[s] /\ KeyOf[SubmissionOf[a]] = KeyOf[s]

\* Every entry is delivered in the end.
OutboxDrains == \A s \in Submissions : <>(s \notin outbox)
=============================================================================
