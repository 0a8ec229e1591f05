# Rayuela backend: verification project

Rayuela is a citizen-science platform. Volunteers subscribe to projects, walk to
places and *check in*; a check-in may solve a task, earns points and badges, and
moves its author on the project's leaderboard. The backend is a NestJS service
over MongoDB (`src/src/module`). One mobile client, `rayuela-mobile`, delivers
check-ins from an offline outbox with retries.

MongoDB is used without transactions, so a request is a sequence of independent awaits,
each reading or writing one document (or one list of documents). Node.js runs one piece of a
handler at a time and switches at every await. The hard behaviours of this system are
therefore: other requests' steps between two awaits, documents written back whole after having
been read long before, a rejected await after some writes, and a client that retries. Beside them stand
computations that several readers make of one history (badges, indicators, listings,
statistics), which have to agree with it and with each other.

## 1. Inventory

| component | state it keeps | operations | interacts with | what is hard | what makes it correct |
|---|---|---|---|---|---|
| check-in creation (`checkin/checkin.service.ts`, controller, daos) | `CheckIn`, `Move` collections | `create`, `rate`, `remove`, `update`, listings | reads tasks, user, members, project; writes check-in, move, task, user, leaderboard, key | 14 awaits, 6 writes, no rollback | one check-in per submission; nothing credited without its move; an answer "created" is true |
| idempotency keys (`checkin-idempotency.*`) | key → (user, check-in), unique, TTL 7 days | `findByKey`, `record` | the two ends of `create` | lookup and record are far apart; best-effort record | a row names a committed check-in of that key; a row is never rebound |
| mobile outbox (external) | its entries | post, time out, retry, delete on 2xx or 409 | `POST /checkin` | lost answers | delivered, counted exactly once |
| leaderboard | one list per project, replaced whole | lazily created by GET; replaced by `saveMove` | rebuilt from the members' documents | stale members; document missing | agrees with the profiles |
| game and engines (`game.entity.ts`, `engine/gamification`) | none (in memory) | `play`, `newBadgesFor`, `reward`, `build` | user, project, rules | order of awarding and ranking; recursive prerequisites | badge awarded iff earned; order right |
| gamification rules and fading | one document per project: badge and point rules | add, update, delete, status change, replacement of whole lists, lazy creation | badge engine, indicators | whole saves beside positional updates; status derived from the clock | names unique, an expired badge is not awarded, a fade window opens in the future |
| user documents (`auth/users`) | one document per account | `update` (whole), sessions (atomic operators) | everything | lost updates | additions are not undone |
| authentication, sessions | `refreshTokens`, legacy token, `resetToken`, `verified` | register, login, refresh, logout, verify, recover | mail, Google | session cap, sliding expiry, migration | a device that keeps refreshing stays signed in; a closed session stays closed |
| subscriptions (`volunteer`) | `gameProfiles` | toggle | user document | toggle is read-modify-write; re-subscription | one profile per project |
| tasks | `Task` collection | create, bulk save, delete, delete useless, solve | check-ins, projects | delete-then-insert; solved flags | no open task that was solved |
| projects | `Project` | create, update (areas, types, intervals), toggle | rules, tasks, areas | lost toggle; area versions | an area with history is disabled, not lost |
| recommendation | none | `generateRecommendations` | ratings, tasks | thresholds | keeps what is still to do, ordered |
| indicators (`gamification-indicators`) | none | timeline of a badge's indicators | check-ins, moves, rules | reconstruction of the past | an ignored badge is ignored by half; a timeline agrees with its days |
| analytics | none | aggregations | read only: check-ins, moves | the same thing counted in several pipelines | counts add up and agree with the listing |
| storage, maps, health, filters, guards, wiring | none of their own | I/O and plumbing | | | |

The hazards this leads to, each at its line, are listed in `PROJECT.json`.

## 2. The modules

| module | models | composed with |
|---|---|---|
| `CheckinFlow` | `POST /checkin` await by await, and what races with it | `CheckinRefinement` to the abstract `CheckinPromise` |
| `Sessions` | the refresh sessions of an account | |
| `Accounts` | every request that reads a user and writes it back whole | |
| `RuleStore` | the gamification document: badge and point rules | |
| `Catalogue` | a project, its tasks and its images as admins edit them | |
| `Play` | points, badges, board, recommendation: functions of loaded data | `Indicators`, `Reports` |
| `Indicators` | the fading indicators: functions of a history | `Community` |
| `Reports` | listing, streak, statistics: functions of a history | `Community` |
| `Community` | a project's history in time, on which the three above are compared | |
| `Sorting` | JavaScript's `sort` and `filter` | the three above |
| `CheckinFlowProofs`, `SessionsProofs`, `AccountsProofs`, `RuleStoreProofs`, `CatalogueProofs`, `CommunityProofs` | theorems about the module each is named for | |
| `CheckinRefinementProofs` | the steps of `CheckinFlow` are steps of `CheckinPromise` | |
| `DataLemmas` | lemmas about finite sets, sums, orders, sequences and ratios | `CommunityProofs` |
| `MC*` | the small instances TLC checks | |

Each `MC` module holds the values and the bounds of its instance, a `.cfg` the constants and
the properties. A definition named `X_Slip` beside a definition `X` is a slip a change could make; no
specification uses it, it shows that a property would notice.

`Accounts`, `RuleStore` and `Catalogue` interleave awaits of several requests; their shared form is *read, decide,
write later*: a request that has read is `at` its next write, and
what other requests wrote since is noted as `beside`. When the write goes over such a
write in a way some property tells apart (`Harm`), the pair is noted in `overlaps`. A
property then says what holds as long as certain overlaps have not happened. So it says
two things: that these overlaps are enough to break it is what the code's lack of
transactions means, and that *nothing else* breaks it is what is checked.

Every safety invariant and every action property of the passing runs is a theorem too (section 9).
What is left of the plan is what stands between these and liveness: that an attempt that runs gets nearer to its
answer with every step, and an entry to its deletion, as a measure that only falls.

## 3. CheckinFlow

### State and actions

A *submission* is one outbox entry, an *attempt* one POST of it. An attempt's `stage`
is the await it performs next, so the handler's program counter is the code's own
order: `lookup`, (`replay`, `replayTask`), `tasks`, `user`, `members`, `project`,
`upload`, `checkin`, `move`, `task`, `save`, `board`, `record`. Computation between two
awaits belongs to the action of the await before it (the checks of the project and of the date are part of
`CheckProject`) or of the write that stores it (`Rewarded`). A throw puts the
attempt in `dead` with the status the client gets; the writes made stay.

| action | code |
|---|---|
| `Post`, `Timeout`, `Receive` | the outbox (offline-sync.md 185-194) and `CheckinController.create` |
| `LookupKey`, `ReplayCheckin`, `ReplayTask` | `maybeReplay`, `TaskDao.getTaskById` |
| `LoadTasks`, `LoadUser`, `LoadMembers`, `CheckProject` | `getDataFromDB` and the checks after it |
| `UploadPhotos` | the image uploads |
| `CreateCheckin`, `CreateMove`, `SolveTask`, `SaveUser`, `SaveBoard`, `RecordKey` | the six writes |
| `Fail`, `Crash` | a rejected await; a process restart |
| `StartRate`, `SaveRate`, `OpenBoard`, `ToggleProject`, `DeleteTask`, `DeleteCheckin`, `ExpireKey` | the requests and the TTL index that touch the same documents |

Abstractions. A check-in and its move are named by the attempt that writes them. The growing part
of a user document is the set of attempts whose reward it contains (`credited`) and the
set of check-ins rated (`rated`): points are the sum of the rewards, so a lost or repeated
reward shows in the set. The leaderboard holds, per user, the credited set it was computed
from. Which tasks a check-in can solve (type, area, hours) is the constant `Accepts`, and
`FirstTask` is the collection's order. `TaskDao.getTasksByProject` reads the project first;
that read only decides the same 404 and is folded into `LoadTasks`. The reads of the user and of the user's own earlier check-ins are one action, `LoadUser`:
the check-ins only feed the badge rules, which are `Community`'s. `ToggleProject`
reads and writes in one step: overlapping toggles write a value some toggle could write (they are `Catalogue`'s), and any number of
toggles is allowed.

Constants that shape the environment: `Allowed` (overlap, lost answers, key expiry, ratings,
toggles, deletions), `FailStages` (where an await may fail and a restart may happen),
`BoardAtStart`.

### Runs

| run | question | instance |
|---|---|---|
| `race` | does a row, and every answer, stay true when two accounts race for one key and writes may fail? | 2 users, 3 attempts (one a retry), 1 key, failures and restarts at three of the late stages, expiry, a task deleted, leaderboard missing at first |
| `serial` | with handlers one at a time, is a check-in created once, is a task solved once, and does the leaderboard agree with the profiles? | 2 users, 4 attempts, 2 tasks, 2 keys and a keyless client, photos, a date check, toggles and deletions, failures before the first write |
| `delivery` | does the service with its phones implement `CheckinPromise`, liveness included? | 2 users with 2 attempts each, 2 tasks, ratings, lost answers |
| `retry_overlaps`, `retry_without_board` | does what the documentation says hold? No: see findings | the smallest instance of each |

The bounds: attempts bound the retries (a submission's last attempt is waited for, so that it is the
code and not the bound that decides its end), one rating per user and check-in, one project. Two
accounts and one key are what a collision needs; two attempts what a retry needs; a third
handler is what makes a stale write visible to someone who did nothing wrong. Task order and
acceptance matter only up to "same task, other task, none", hence two tasks.
CHECK_DEADLOCK is FALSE: when every attempt was sent and answered the system rests.

### What holds

Whatever overlaps, fails or expires (`race`):

* `KeyAnswersCommitted`: an idempotency row names a check-in that was stored with its move under that key.
* `ReplayAnswersOwnCheckin`: a replay shows an own earlier check-in and stored nothing.
* `NoPhantomCredit`: nothing is credited, in a profile or on the leaderboard, without a stored move of that user.
* `CreatedIsCommitted`: an answer "created" means check-in, move and the task's closing are stored.

When handlers run one at a time and fail only before their first write
(`SerialEnvironment`): `NoDuplicateCheckin`, `OneSolverPerTask`, `BoardMatchesProfiles` (`serial`);
`AwardsNeverShrink`, `OutboxDrains` and the refinement `CountedExactlyOnce` (`delivery`). These are
the properties a reader of the documentation expects in general, and the assumption is what the
code needs for them: overlap, a failure after a write and a missing leaderboard each break them, as
the violation runs show for the first and the last (which is a failure after a write).
`NoLostCredit`, `NoDoubleCount` and `GuaranteedDelivery` say in one state what
`AwardsNeverShrink` and `CountedExactlyOnce` say of a behaviour; they are proved (section 9), and
`retry_without_board` violates `NoDoubleCount`.

### Findings

Two statements of the documentation that the code does not keep, each with the run
that shows it: a retry that overlaps its first attempt creates a second check-in (`retry_overlaps`); a project whose
leaderboard nobody has opened pays each retry again (`retry_without_board`), as does any other failure between the first write and
the key's record.

### Fairness

`Fairness` is weak fairness of each handler's next await (the event loop runs every
continuation, and the drivers settle their promises), of `SaveRate` for the same reason, and of the phone sending and
receiving (the outbox drains whenever the phone is online). There is none on timeouts, failures,
restarts or other people's requests. The bound on attempts keeps timeouts from going on for ever.

## 4. Sessions

The refresh sessions of one account. A token is a model value; the server stores its hash, which
identifies it. The session list `refreshTokens` is changed by atomic MongoDB updates only,
one action each; the legacy token, from before sessions were a list, is
one of the fields every whole-document save writes back.

| action | code |
|---|---|
| `Login` | `AuthService.login` with `UserDao.addRefreshSession` (`Push`, `LastOnes`) |
| `StartRefresh`, `TouchList`, `TouchLegacy` | `refreshAccessToken` and the two updates of `touchRefreshSession` |
| `Logout`, `LogoutAll` | `AuthService.logout`: `removeRefreshSession`, `clearRefreshSessions` |
| `StartSave`, `Save` | any request that reads the user and writes it through `UserMapper` |
| `Tick` | the clock |

`pushed`, `due`, `loggedOut`, `loggedOutAll` and `restored` are history: sign-ins in order, how long
each token's last use keeps it alive, which logouts were answered, whether a save has brought legacy
fields back. A unit of the clock is long
against a request (sessions live for days), so the clock stands while a request runs. A refresh may present any
token ever issued, also one that has been logged out. The lookup of the user after a successful
touch finds it, accounts not being deleted.

| run | question | instance |
|---|---|---|
| `sessions` | is a refresh refused only when its session is dead, does a device in use stay signed in until the cap evicts it, has a token one entry, does a logout last? | 3 tokens, one of them a legacy token, 2 refreshes and a save at once, a list of 2 |
| `refreshes_migrate` | does what the comments say hold for the legacy token? No | the smallest instance |

Three tokens over two places is what eviction needs; two refreshes what a race needs; the clock reaches
past one whole life of a session; one save that restores the legacy fields is enough to see what that breaks. Tokens without a legacy role and refreshes
are interchangeable, hence the symmetry, which is used for invariants and an action property only.
CHECK_DEADLOCK stays on: a device may always refresh, log out or sign in.

`RefusedOnlyIfDead` is stated of the tokens of the list; `NeverRefusedAlive`, the comment of `user.dao.ts:80`, says it of
all, and fails: of two overlapping refreshes of a legacy token, the second missed the
list before the migration and misses the legacy fields after it. `LogoutsEndSessions` and
`OneEntryPerToken` except what a save that was under way brings back.

## 5. Accounts

The user documents, each read, changed as an entity in memory and written back whole by
`UserDao.update`. `Read` takes the copy, `Update` writes it, and any number of requests may be
between the two. What makes the difference is the mapper: `ToEntity` leaves the reset token out
(`Unset`), `ToTemplate` sends neither an undefined token nor an empty Google id, so these two survive
saves that the other fields do not.

| action | code |
|---|---|
| `Register`, `Create` | `AuthService.register`: lookups, then the insertion under the unique indexes |
| `GoogleById`, `GoogleByEmail` | `authenticateWithGoogle`: by Google id, then by e-mail, then a new account; an account found by its id may be saved for its picture alone, which is not modelled, so any is |
| `VerifyEmail`, `RecoverPassword` | the two uses of a mailed link, both by the one `resetToken` |
| `ForgotPassword`, `SaveResetToken` | two reads, then a new token |
| `UpdateProfile`, `ToggleSubscription`, `Credit` | profile edits and ratings; the subscription toggle; a check-in's reward |
| `Update` | the write of each of these |

`told` holds what the answers said of an account, `issued` the last link mailed, `used` the links
answered for. The game profiles are those of one project.

Run `accounts`: two e-mails, two of each kind of value, two requests at once. Bounds (`MCAccounts`): after a harmful overlap
requests run one at a time, since one is enough to break what it breaks and the next ones only repeat it; beside a second account only
Google sign-ins and profile edits, since accounts share nothing but names and Google identities; two profiles per account (a subscription, and one after
an unsubscription), one point. A link leads to one account, so two of them are what an old and a new one need.

* `LastLinkWorks`: no used link works again, and the last one mailed works until it is used.
* `SignInsHold`: verification and password are as the last answers said, a Google identity stays linked to one account, names are unique.
* `ProfilesAsTold`: at most the last profile is active and only the first has points; subscription and points are as told.

Each but for the overlaps it names. All three are also proved.

## 6. RuleStore

The gamification document of a project. `Find` (with `Look`) reads it and `Create` makes it when there is none; `SaveNewBadge`,
`SaveNewScore` and `SaveBadge` are `save()`s of the document as read, which Mongoose
sends as a `$push` (counting the version up) or as a `$set` of one position (`SetAt`, matching only the version read; behind the
end it leaves nulls, `Hole`). `DeleteBadge`, `DeletePointRule`, `UpdateBadgeStatus` and the whole lists of `updateGamification`
(`ReplaceBadges`, `ReplaceScores`) are one `findOneAndUpdate` each, and neither count nor check versions. `FadeTo` is what a status
makes of the dates, `Window` the admissible window.

No `ValidationPipe` strips bodies, and the code spreads them after the new `_id` and the default status. So a creation
or an edit may bring an id (`op.id`, one already stored included) and a fade (`op.fade`, from `Brought`) of the client's own, and a list
(`Bodies`) any rows. Two rows of a document may then have one id: a positional update takes the first of them (`Firsts`, `Position`), a `$pull` all.

Run `rules`: two badges, one of them fading, two names, a point rule, two requests at once, a clock of two; as bodies, an
empty list and lists of two rows with every pair of names. Bounds (`MCRuleStore`): harmful overlaps of one kind, one request
with an id or a fade of its own at a time, lists of two and one push behind them; a second document before the
first rule only. Two requests are a read-and-save and what comes in between. 1,456,709 distinct states.

* `UniqueNames`: but for overlaps of two saves, an edit over a deletion, and a list that has a name twice.
* `NoRuleLost`: the document holds what was created, less what was deleted or left out of a list, but for an edit saved over
  a deletion or a list, and for a second document.
* `FadesHold`: the badge all see has the fade last asked for by its creation, a list, an edit or a status update, unless one of these or a
  deletion came between an edit's read and its save; and no row contradicts itself
  (gamification-dao.service.ts 129-136) but as a body brought it.

## 7. Catalogue

One project, its tasks and its images. `ReadAreas`/`WriteAreas`, `ReadAvailable`/`WriteAvailable`,
`CheckTask`/`CreateTask`, `ReadForCleanup`/`DeleteUseless` are the read and the write of a request;
`StartBulk`/`InsertBulk` the two calls of `bulkSave`; `StartMigration`, `MigrateImage`,
`ReadBadges`, `ReportMigration` the image migration, one image at a time; `BreakOff` stops any of
them in between. `UpdateOffer` (types and intervals), `UpdateTask`, `RemoveTask` and `SetImage` write at once.

A task names a type, an area and an interval, which need not be the project's: `create` checks the first two only, `updateTask`
nothing. The cleanup deletes what the project it read does not offer in all three.

Run `catalogue`: an area, a type and two intervals, each the project's or not, three tasks, three image slots, two requests at
once. Bounds (`MCCatalogue`): one harmful overlap or broken bulk save, requests one at a time after it; availability, migrations and
work on tasks and areas share no state and do not mix. The cleanup treats areas and types alike, so one of each that
comes and goes is what a stale read needs; of the intervals a second one is what a task nobody checked needs. 821,844 distinct states.

* `ProjectAsSet`: an area once offered stays known; the project is open when the toggles leave it open.
* `SweepSound`: after a cleanup every task can be done, until the project or a task changes or one is created within an
  interval the project has not; and it deletes no task on offer, but for an update of the project beside it.
* `TasksAsAnswered`: the stored tasks are what the answered requests leave.
* `ImagesKept`: a slot shows the image last set there or its copy; a migration that reports no failure leaves none behind.

## 8. Community: Play, Indicators, Reports

`Play`, `Indicators` and `Reports` define what the service computes of the data it has
loaded. `Community` is a project in time: `Checkin` plays a check-in and makes the writes of `create` up to the one called
`landed` (a creation may stop after any of them; `CheckinFlow` has the overlaps), `Rate`, `Fade`, `Expire`,
`Restore`, `RaiseAmount`, `DeleteBadge`, `SetTypes` (the project's task types), and the clock. A check-in may be dated up to `Ahead` after it, the
tolerance of ten minutes `create` grants the clocks of phones. The two engines match differently: `MatchesRule` is the points engine's,
`MatchesBadge` the badge engine's, which also asks that the rule's type is one the project has. What each reader makes of the history it reaches
is compared with a reference or with another reader:

* `AwardsFollowRules`: a badge is awarded exactly when it is on offer and it is in the least set closed under the rules, where the code uses a memoised recursion. A prerequisite counts when it is held or when its own rule holds.
* `PointsBounded`: the elastic engine pays between once and twice the basic points; a task is paid at least what it was listed with.
* `BooksAgree`: the profiles are the sum of the moves of completed creations, the board is sorted but for its author's row.
* `RecommendsOpen`: open tasks, none left out that is liked better, whichever of the contributions are found among the tasks.
* `IgnoredByHalf`, `TargetIsLowest`, `TimelineAgrees`: the fading indicators, and each sample of a timeline.
* `CountsAddUp`: series, summary, strategy table and the three groupings of the statistics.
* `ListingFaithful`: listing and statistics select the same check-ins, and the pages show each once.
* `StreakIsRun`: the streak is a run of days up to yesterday, today or the day the tolerance reaches, and no longer one.

Run `community`: three members, one of them a legacy account without a creation date, a chain of two badges and a third, two
overlapping areas, an interval over midnight, three instants (two ticks to a day: the last of a day, the first of the next, a later
day; `Ahead` is one tick, so a check-in may be of tomorrow), three check-ins of one visit for each member, both
choices of engines, queries with each filter. Bounds: of fades, expiries, raises, deletions, ratings
and broken creations (`Odd`) one per history, with one check-in less; at most one task type is off the project, and other changes wait until
it is back; `PageMax` 3, `GeoCap` 2 for 100 and 5000. Three
check-ins by three members are what a median, a tie of pages and a streak need. 38,498 distinct states. CHECK_DEADLOCK is FALSE: the history is bounded.

Finding (`asof_lookahead`): the indicators of a past day count badges earned after it, though the comments of
`calculateIndicators` say they are filtered to the day.

## 9. Proofs

`CheckinFlowProofs` proves for every value of the constants, from `FlowAssumption` only:

* **TypeCorrect**: `TypeOK`, with `KeyedStages` (only an attempt with a key reaches the stages that use
  it), without which `keys[Key(a)]` is not known to be typed.
* **KeysAreSafe**, **ReplaysAreOwn**: `KeyAnswersCommitted` and `ReplayAnswersOwnCheckin`. Neither is
  inductive: a row is written at stage `record`, so `ProgressInv` says what a handler has stored by
  the stage it reached, and `HitInv` that the row a replay works from is committed and the caller's own. Together they are `Sound`.
* **CreditsAreReal**: `NoPhantomCredit`, by `CreditInv`: the documents a handler has read, too, hold real credits only.
* **CreatedStaysCommitted**: `CreatedIsCommitted`, by `SolvedInv`: a task does not open again, and who has passed stage `task` has closed it.
* **DeliveryIsGuaranteed**: `GuaranteedDelivery`, when no key is shared by two accounts and the project is not closed (`NoConflicts`); overlap, failures and lost
  answers allowed.
* Under `SerialEnvironment`: **RetriesLeaveOneCheckin** and **RetriesPayOnce** by
  `SerialInv`: at most one handler runs (`OneAtATime`); who has stored and does not run has
  recorded its key (`AllRecorded`); who runs past the lookup has no row for its key
  (`NoneRecorded`); and the updates of task and leaderboard find their documents (`NothingMissing`), or a handler
  would die between its first write and its key. **CreditsStay**, **BoardAgrees** and **AwardsGrow** by `Served`: the one writer (`OneWriter`) holds
  the document as stored (`AwardInv`). **TasksHaveOneSolver** by `SolverInv`: a stored move's task is closed,
  and the running handler's is open until it closes it.

`SessionsProofs` proves for every value of the constants, from `SessionAssumption`:

* **SessionsTyped**: `TypeOK`, the cap on the list included. `TypeInv` adds that a running
  refresh holds an issued token (`Running`), that the list holds issued tokens (`Listed`), and that the
  legacy fields hold the legacy token or none (`LegacyOwn`).
* **RefusalsAreRight**: `RefusedOnlyIfDead`. The
  invariant is `Missed`: a refresh between its two updates would still miss the list, because only a live
  session slides and a sign-in adds a token of its own.
* **LogoutsAreFinal**: `LogoutsEndSessions`, from two theorems: by `Gone` no entry of a token logged out is
  left, live or expired; by `Cleared` none of the tokens issued before a logout of all.

The proofs of the next two keep the order. `ListShapes` says what a step can do to the list: a session comes and
`cut` others leave at the front (`Comes`), one slides, those of one token leave (`Leaves`), all leave, or nothing happens.

* **OneSessionEach**: `OneEntryPerToken`. `Unlisted` strengthens it: a legacy token still in its fields is not in the list,
  so its migration adds its only session.
* **DevicesStaySignedIn**: `StaysSignedIn`. `Deep` says that a session has no more behind it in the list than were added
  after its own, hence `Kept`: what was added and not logged out is alive until its last use says, or
  as many were added after it as there are places. `Unmigrated` says it of a legacy token, and of what a save would write back.

The first three need less; their proofs see the list as
the set of its `Entries`; `PushEffect`, `PullEffect` and `SlideEffect` say what each
update does to that set, and `EntriesStep` where an entry comes from.

`AccountsProofs` proves for every value of the constants, from `AccountAssumption`:

* **AccountsTyped**: `TypeOK`. The lemma `Steps` reduces the twelve actions to four shapes, a
  read, a move between two stages, a creation and an update; every later proof has one lemma per shape.
* **SignInsLast**: names are unique by `NamesInv`; a Google identity stays where it is by `LinkInv`; the
  answers hold by `AnswersInv`, which says of a pending save that was not overlapped that its copy agrees with what was told.
* **ProfilesFollow**: `ProfilesInv` says the same of the game profiles, and that pending copies are well formed.
* **LinksWork**: `LastLinkWorks`, by `TokensInv`: a token is on one account at most, and one being written is nowhere else yet.

`RuleStoreProofs` proves for every value of the constants, from `RuleAssumption`:

* **RulesTyped**: `TypeOK`. One lemma per write (`PushEffect`, `SetEffect`, `PullEffect`, `StatusEffect`) says what it does
  to the rows, and `Shapes` that every step reads or is one of them; every later proof goes by these shapes.
* **NoRuleIsLost**: by `KnownInv` what is stored was created and no edit has read a newer version; by `PlacedInv`
  an edit that can still be saved, with no deletion beside it, writes over its own badge, and the list has no holes. `LostInv` follows.
* **NamesStayUnique**: `NameInv` says of what waits to be saved and was not overlapped that its name is free; a
  creation needs no mark against pending edits of its document, because it moves the version on.
* **FadesLast**: `FadeInv` says the same of the fade an edit writes back; `ConsistentInv`, which needs no exception, that
  neither rows nor copies contradict themselves as time goes on.

`CatalogueProofs` proves for every value of the constants, from `CatalogueAssumption`:

* **CatalogueTyped**: `TypeOK`. One lemma says for each request what a step does to it: it is kept with more noted
  `beside` it (`WrittenEffect`), it begins, it goes on migrating, or it ends.
* **ProjectStaysAsSet**: by `AreasInv` and `OpenInv`, which say of a write that waits and was not overlapped that it keeps each area, and turns
  the stored switch.
* **SweepsAreSound**, **TasksStayAsAnswered**: by `SweepInv` a cleanup or creation beside which the project was not updated holds
  it as it is; by `BulkInv` no task is stored between the two calls of a bulk save.
* **ImagesAreKept**: by `ImagesInv` a migration beside which no image was set holds the images as they were last set; by `CompleteInv`
  what is on another site, of what it has read, is still before it as long as nothing failed.

`CheckinRefinementProofs` proves the refinement step by step, under `PromisedEnvironment`: one handler at a time
(`SerialEnvironment`), a project that stays open and no key of another account (`NoConflicts`), a key of its own
for each entry (`OwnKeys`). Run `delivery` is an instance of it.

* **StepsKeepThePromise**: `CheckinFlow` starts as `CheckinPromise` does and each step is one of the promise's or stutters: `CountedExactlyOnce`
  without its fairness. `PromiseInv` joins what `CheckinFlowProofs` has shown to `PhoneInv`: the phone keeps the entry of a running
  handler, a credit is of a handler past its write, and a replay is of an attempt that is credited. Only `SaveUser` counts, only `Receive` clears.
* **ClearedOnceCounted**: so an entry that is gone from the outbox was counted, once. It is a step invariant of the promise, carried over.

`CommunityProofs` proves for every value of the constants, from `PlayAssumption`, `ReportsAssumption` and `CommunityAssumption`. These ask
that sets are finite, scores and instants natural numbers, that the limits of the environment are positive (a
zero there gives the code's default) and that the rules are without a cycle: the engine's comment says so
(basic-badge-engine.ts 69), nothing enforces it (section 10).

* **CommunityTyped**, **BooksAlwaysAgree**: `TypeOK`, and with it `BooksAgree`, are inductive. `CheckinPlays` and `WritesAre` say what a check-in
  writes, wherever its creation stops; `CheckinAddsUp` and `CheckinSorts` that profiles, moves and board follow it.
* **AwardsDoFollowRules**: the memoised recursion of `isBadgeSatisfied` computes the least set closed under the rules. `LeastSolves` and
  `LeastOnly` show that this set solves the recursion and that without cycles nothing else does; `ChainKept`, the inductive invariant, that no admin's
  edit makes a cycle.
* **PaidInBounds**: by `ElasticHelps` and `ListedIsLess`, on the engines' rounding.
* **CountsAlwaysAddUp**, **ListingIsFaithful**: sums by parts (`SumParts`, `CountInParts` of `DataLemmas`), for any range and query. The listing's theorem
  is about every order of the rows and every page size.
* **TimelineAlwaysAgrees**, **IgnoringIsByHalf**, **TargetIsAlwaysLowest**, **StreakIsAlwaysRun**, **RecommendationsAreOpen**: they hold in every typed state, since each
  reader computes afresh: the median splits in halves (`MedianHalves`), the fallback of a day is later than it (`FallbackIsLate`), the best
  of a sorted list are none worse than what it leaves (`OffersBest`).

`DataLemmas` has what these need of data. `SetInduction` and `NumberInduction` are inductions stated over the *set*
of what has the property, which first-order provers can use where they cannot take a predicate as a parameter: a minimal
set without it, which well-foundedness gives, contradicts the step. From them: sums over finite sets exist, are unique and add up by parts
(`SumParts`), a finite set can be listed in an order that tells its elements apart (**Sorted**: what `sort` is taken to
return exists), counting, ratios and least numbers.

The proofs changed the model in one place: `StatsFilter` chose by a CASE whose guards overlapped, which
leaves the choice open and had let TLC take the first; it asks for tasks first now, as the code does.

Only model-checked: liveness and fairness (`OutboxDrains`, the
fair half of `CountedExactlyOnce`), which this prover does not reach, as it does not ENABLED. The four findings are counterexamples of TLC's.

## 10. Observations

What the modelling met and no run is about:

* docs/gamification-badges.md 68-69 says a rule matches only who already possesses its previous badges; in the code it is enough that the
  previous badge's own rule holds of the history, held or not (basic-badge-engine.ts 43-45), so one check-in can award a whole chain.
* docs/analytics-queries.md 250 says the strategy table has no parameters and covers all time; it takes the dates and the project of
  the dashboard (analytics.controller.ts 55-62). Lines 122-123, 189 and 229-237 date points and badges by the timestamp of the
  move; the code dates them by their check-in (analytics.dao.ts 224-258, 310-366). Line 124 says `contributionRate` is not filtered by date;
  it is. `CountsAddUp` states what the code does.
* The comment "ending today or yesterday" of checkin.service.ts 497 forgets the tolerance of checkin.constants.ts 25: in the ten minutes before midnight (UTC) a
  streak may end tomorrow.
* A task may name an interval its project has not, since only its type and area are checked (task.service.ts 26-38); nobody can do it, and the next cleanup deletes it.
* A replaced list of rules and a creation take ids and fades as the body has them; with one id twice a status update reaches the first
  row only. A body may even name another project, which moves the document there (not modelled).
* The adaptive engine finds contributions by value: they are a Mongoose array of the loaded document, whose `includes` compares ids by
  their text (adaptive-recommendation-engine.ts 109-111). It throws a TypeError for a task whose area is no longer in the project (line 31).
* The points engine looks an area up with `===` (basic-points-engine.ts 66), the badge engine with `==` (basic-badge-engine.ts 164), tasks and their listing by
  the text of its id (task.dao.ts 70, gamification.entity.ts 201). The model has one id per area, as when the areas' ids are strings; a number as id would be
  listed with points and never paid.
* Deleting the rule of a prerequisite closes the chain above it, also to who holds its badge (basic-badge-engine.ts 71-78).
* A cycle of prerequisites, which nothing keeps an admin from saving, makes the badge engine recurse for ever; a badge rule that names an
  interval the project no longer has makes every check-in throw 400 (basic-badge-engine.ts 80 and 145).
* The badges-first board is sorted before the author's new badges are added, though game.entity.ts 76-79 means the board to show them.
* The indicators ask the stored status of a badge; `effectiveBadgeStatus` is what the engine asks.
* Rows with equal datetimes may repeat or be missed across pages; a radius looks at the first 5000 rows only and cuts the total without a sign.
* A `dateTo` with an hour ends the listing at that hour and the statistics at the end of that day.
* The elastic engine's `Math.ceil` of a double may pay one point more than the exact product.
* On a 409 "not running" the documented phone drops an entry the server never stored; an idempotency row expires after seven days, and
  a later retry is a new check-in; a replay of a deleted check-in or task answers 404 or 500.
* `X-Original-Resource` is sent when the id is a string; a replayed check-in's is an `ObjectId` (checkin.controller.ts 79).
* A save under way during a logout of every device writes the legacy token back; a legacy token never refreshed outlives a logout of its device.
* Subscribing again pushes a second game profile; points go on to the first, inactive one.
* Verification and recovery share one token: either link does for either, and asking for one ends the other.
* An account is stored before its mail is sent; when that fails the answer is 400 and the name is taken.
* `fetchImageBuffer` follows redirects without counting them.

## 11. Not modelled

`PATCH /checkin/:id` (an unchecked `findByIdAndUpdate` of any field of a check-in); `updatePointRule`, which leaves ids and number of the point rules; the
renaming of prerequisites when a badge is renamed; a body of `updateGamification` with another `projectId` or with null rows; the
errors a rule or a task of an area or interval the project has not makes the engines throw (section 10); pictures of accounts; the other fields of rules, projects and accounts, which are written as they come; the suggestion of free
user names; deletion of check-ins inside `Community`. Image optimisation, mail, Google's token check, password hashing and JWT signing, the object store and the
tile server are external I/O: an await that may fail. The stages of the analytics pipelines are MongoDB's: `Reports` has their meaning, without the cache in front of them.
Maps, health, logging, filters, guards and dependency wiring keep no state. `PROJECT.json` gives each component's status.
