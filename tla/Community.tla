----------------------------- MODULE Community -----------------------------
(***************************************************************************)
(* One project's community in time: check-ins played one at a time, rules   *)
(* faded and edited and task types dropped by an admin, the clock. After    *)
(* any history, what the service computes of it is compared: awards with    *)
(* the rules, points with the tasks' listing, the indicators, the listings  *)
(* and the statistics.                                                     *)
(*                                                                         *)
(* Overlapping check-ins, retries and replays are CheckinFlow's; here a     *)
(* creation runs alone, and may stop after any of its writes.               *)
(***************************************************************************)
EXTENDS Indicators, Reports

CONSTANTS
    Visits,         \* [who, type, spot, photo] of the check-ins made
    MaxLog, MaxAmount,  \* bounds: the check-ins made, the check-ins a rule asks for
    Instants,       \* the ticks the clock and the check-ins take
    Ahead,          \* the ticks a check-in may be dated ahead of the clock
    Deadlines,      \* the expiresAt an admin sets; None for one left out
    Created,        \* per user, createdAt, None for a legacy account
    FirstRules,     \* per badge, its rule at the start
    Queries         \* the queries asked of the listing and of the statistics

Rule == [type : {r.type : r \in Range(FirstRules)}, area : DOMAIN Ground \cup {AnyKind},
         interval : DOMAIN Hours \cup {AnyKind}, must : BOOLEAN, amount : Nat \ {0},
         prev : SUBSET Badges, status : {"active", "faded", "expired"}, until : Instants \cup {None}]

ASSUME CommunityAssumption ==
    /\ Instants \subseteq Nat /\ Instants # {} /\ Deadlines \subseteq Instants \cup {None}
    /\ Ahead \in Nat
    /\ \A u \in Users : Created[u] \in Nat \cup {None}
    /\ \A v \in Visits : v.who \in Users /\ v.photo \in BOOLEAN
    /\ \A q \in Queries : {q.contributed, q.photos} \subseteq {None, "true", "false"}
    /\ None \notin {"true", "false"}
    /\ \E D \in SUBSET Badges : FirstRules \in [D -> Rule]
    \* isBadgeSatisfied takes the rules for a DAG (basic-badge-engine.ts:69).
    /\ \A S \in SUBSET DOMAIN FirstRules :
          S # {} => \E b \in S : FirstRules[b].prev \cap S = {}

VARIABLES
    now, rules,
    types,          \* the task types the project has
    log,            \* the check-ins, in the order they were created
    solved,
    profiles,       \* per member, [points, badges, tasks, stars]
    board,
    engines         \* [points, board, recommendation], chosen with the project

vars == <<now, rules, types, log, solved, profiles, board, engines>>

\* A slip a change could make; the model does not use it.
Write_UserFirst == [checkin |-> 1, move |-> 2, user |-> 3, task |-> 4, board |-> 5]

\* The writes of create, in their order; a creation stops after one of them.
Write == [checkin |-> 1, move |-> 2, task |-> 3, user |-> 4, board |-> 5]
Moved == [k \in DOMAIN log |-> log[k].landed >= Write.move]

Kinds == {v.type : v \in Visits}
Entry == [who : Users, type : Kinds, spot : {v.spot : v \in Visits},
          photo : BOOLEAN, at : Instants, task : Tasks \cup {None},
          landed : 1..5, points : Nat, badges : SUBSET Badges]
Profile == [points : Nat, badges : SUBSET Badges, tasks : SUBSET solved,
            stars : [Tasks -> 1..5 \cup {None}]]
Row == [id : Users, points : Nat, known : Nat, badges : SUBSET Badges]

Engines == {[points |-> "basic", board |-> "pointsFirst", recommendation |-> "adaptive"],
            [points |-> "elastic", board |-> "badgesFirst", recommendation |-> "simple"]}

TypeOK ==
    /\ now \in Instants
    /\ rules \in [DOMAIN rules -> Rule] /\ DOMAIN rules \subseteq Badges
    /\ types \subseteq Kinds
    /\ log \in Seq(Entry)
    /\ \A k \in DOMAIN log : /\ log[k].at <= now + Ahead
                             /\ log[k].landed = Write.checkin => log[k].points = 0 /\ log[k].badges = {}
    /\ solved \subseteq Tasks
    /\ profiles \in [Users -> Profile]
    /\ board \in Seq(Row)
    /\ engines \in Engines

Init ==
    /\ now = Min(Instants)
    /\ rules = FirstRules /\ types = Kinds
    /\ log = <<>> /\ solved = {}
    /\ profiles = [u \in Users |-> [points |-> 0, badges |-> {}, tasks |-> {},
                                    stars |-> [t \in Tasks |-> None]]]
    /\ board = <<>>
    /\ engines \in Engines

History(u) == [k \in {j \in DOMAIN log : log[j].who = u} |-> log[k]]

\* Bound: one event out of the ordinary, and then a check-in less.
Stopped == {k \in DOMAIN log : log[k].landed # Write.board}
Edited  == {b \in Badges : b \notin DOMAIN rules \/ rules[b] # FirstRules[b]}
Rated   == {p \in Users \X Tasks : profiles[p[1]].stars[p[2]] # None}
Odd     == Cardinality(Stopped) + Cardinality(Edited) + Cardinality(Rated)
             + Cardinality(Kinds \ types)
Calm    == Odd = 0 /\ Len(log) < MaxLog

\* create, alone: dated up to Ahead after now, it plays, then writes; landed writes
\* arrive.
Checkin(v, at, landed) ==
    /\ Len(log) + Odd < MaxLog /\ at <= now + Ahead
    /\ landed # Write.board => Odd = 0 /\ Len(log) + 1 < MaxLog
    /\ LET u     == v.who
           dated == [who |-> u, type |-> v.type, spot |-> v.spot, photo |-> v.photo, at |-> at,
                     task |-> None, landed |-> landed, points |-> 0, badges |-> {}]
           c     == [dated EXCEPT !.task = Contribution(dated, solved)]
           won   == NewBadges(c, rules, types, History(u), profiles[u].badges, now)
           tasks == IF c.task = None THEN {} ELSE {c.task}
       IN  /\ c.task = None => landed # Write.task
           /\ \E points \in Points(engines.points, c, profiles) :
                LET after == [profiles EXCEPT
                        ![u].points = @ + points, ![u].badges = @ \cup won, ![u].tasks = @ \cup tasks]
                IN  /\ log' = Append(log, IF landed = Write.checkin THEN c
                                          ELSE [c EXCEPT !.points = points, !.badges = won])
                    /\ solved'   = IF landed >= Write.task THEN solved \cup tasks ELSE solved
                    /\ profiles' = IF landed >= Write.user THEN after ELSE profiles
                    /\ board'    = IF landed = Write.board THEN Board(engines.board, profiles, after) ELSE board
    /\ UNCHANGED <<now, rules, types, engines>>

\* rate: the task of any check-in, the last rating of a task counts.
Rate(u, k, s) ==
    /\ log[k].task # None
    /\ Calm \/ <<u, log[k].task>> \in Rated
    /\ profiles' = [profiles EXCEPT ![u].stars[log[k].task] = s]
    /\ UNCHANGED <<now, rules, types, log, solved, board, engines>>

Edit(b, rule) ==
    /\ Calm \/ (b \in Edited /\ rules[b].amount = FirstRules[b].amount)
    /\ rules' = [rules EXCEPT ![b] = rule]
    /\ UNCHANGED <<now, types, log, solved, profiles, board, engines>>

\* updateBadgeStatus; until may be past, or missing.
Fade(b, until) == Edit(b, [rules[b] EXCEPT !.status = "faded", !.until = until])
Expire(b)      == Edit(b, [rules[b] EXCEPT !.status = "expired", !.until = now])
Restore(b)     == Edit(b, [rules[b] EXCEPT !.status = "active", !.until = None])

\* updateBadge with a higher checkinsAmount; deleteBadge leaves the other rules alone.
RaiseAmount(b) == Calm /\ rules[b].amount < MaxAmount /\ Edit(b, [rules[b] EXCEPT !.amount = @ + 1])
DeleteBadge(b) ==
    /\ Calm \/ b \in Edited
    /\ rules' = [c \in DOMAIN rules \ {b} |-> rules[c]]
    /\ UNCHANGED <<now, types, log, solved, profiles, board, engines>>

\* An update of the project's taskTypes.
SetTypes(new) ==
    /\ Calm \/ types # Kinds
    /\ Cardinality(Kinds \ new) <= 1
    /\ types' = new
    /\ UNCHANGED <<now, rules, log, solved, profiles, board, engines>>

Tick ==
    /\ \E t \in Instants : t > now /\ (\A s \in Instants : s > now => t <= s) /\ now' = t
    /\ UNCHANGED <<rules, types, log, solved, profiles, board, engines>>

Next ==
    \/ \E v \in Visits, at \in Instants, landed \in Range(Write) : Checkin(v, at, landed)
    \/ \E u \in Users, k \in DOMAIN log, s \in {1, 5} : Rate(u, k, s)
    \/ \E b \in DOMAIN rules : \/ \E until \in Deadlines : Fade(b, until)
                               \/ Expire(b) \/ Restore(b) \/ RaiseAmount(b) \/ DeleteBadge(b)
    \/ \E new \in SUBSET Kinds : SetTypes(new)
    \/ Tick

Spec == Init /\ [][Next]_vars

-----------------------------------------------------------------------------
(* Points and badges. *)

\* The ledger and the profiles: what members hold is what the moves of completed
\* creations gave them, each badge once; a creation that stopped in between gave
\* a move and no profile, never the other way round (create, lines 107 to 127).
ProfilesAddUp ==
    \A u \in Users :
        LET mine == {k \in DOMAIN log : log[k].who = u /\ log[k].landed >= Write.user}
        IN  /\ profiles[u].points = SumFunction([k \in mine |-> log[k].points])
            /\ profiles[u].badges = UNION {log[k].badges : k \in mine}
            /\ \A j, k \in mine : j # k => log[j].badges \cap log[k].badges = {}

Awarding == Len(log') > Len(log) /\ log'[Len(log')].landed >= Write.move
Latest   == log'[Len(log')]

\* The badges a set closed under the rules must hold: the least such set. A rule about
\* a task type the project has dropped counts nothing.
Closure(u) ==
    LET mine == {k \in DOMAIN log' : log'[k].who = u}
        Enough(b) == /\ rules[b].type \in types \cup {AnyKind}
                     /\ Cardinality({k \in mine : MatchesRule(log'[k], rules[b])}) >= rules[b].amount
        Closed(S) == \A b \in DOMAIN rules : rules[b].prev \subseteq S \cap DOMAIN rules /\ Enough(b) => b \in S
        held == profiles[u].badges
    IN  {b \in Badges : \A S \in SUBSET Badges : held \subseteq S /\ Closed(S) => b \in S}

\* Until an admin or the clock expires it, and no longer (gamification.entity.ts:7-13).
OnOffer(r) == r.status = "active" \/ (r.status = "faded" /\ (r.until = None \/ now < r.until))

\* A badge is awarded exactly when it is on offer and the chain of rules below it
\* holds, over the whole history, whatever is on offer of the chain, with the badges
\* already held standing for themselves when their rule was raised or expired or its
\* task type dropped; a deleted rule closes the chain above it, even to who holds its
\* badge (basic-badge-engine.ts:19-78). A prerequisite need not be held: its own rule
\* holding is enough (lines 43-45), where docs/gamification-badges.md:68-69 asks that
\* the user already possess it.
AwardsFollowRules ==
    [][Awarding => \A b \in DOMAIN rules \ profiles[Latest.who].badges :
            b \in Latest.badges <=> OnOffer(rules[b]) /\ b \in Closure(Latest.who)]_vars

\* The elastic engine helps who is behind and has contributed, at most twofold; the
\* first gets the basic points.
ElasticBounded ==
    [][Awarding =>
        LET base == BasicPoints(Latest)
            me   == profiles[Latest.who]
        IN  /\ base <= Latest.points /\ Latest.points <= 2 * base
            /\ Latest.points > base => /\ me.tasks # {}
                                       /\ \E u \in Users : profiles[u].points > me.points]_vars

\* A check-in that solves a task earns at least the points the task was listed with
\* (task.service.ts:62), though the listing asks the rules about the task and the
\* award asks them about the check-in.
ListedIsEarned ==
    [][Awarding /\ Latest.task # None => Latest.points >= ListedPoints(Latest.task)]_vars

\* What a check-in is paid, by both engines.
PointsBounded == ElasticBounded /\ ListedIsEarned

\* The board of a completed check-in is sorted the way the project chose, but for one
\* row, badges first: its author's, whose new badges came after the sorting.
BoardSorted ==
    LET Below(p, q) == IF engines.board = "badgesFirst"
                         /\ Cardinality(p.badges) # Cardinality(q.badges)
                       THEN Cardinality(p.badges) < Cardinality(q.badges)
                       ELSE /\ engines.board = "badgesFirst" => Cardinality(p.badges) = Cardinality(q.badges)
                            /\ p.points < q.points
        Sorted(S) == \A i, j \in S : i < j => ~ Below(board[i], board[j])
    IN  IF engines.board = "pointsFirst" THEN Sorted(DOMAIN board)
        ELSE board # <<>> => \E i \in DOMAIN board : Sorted(DOMAIN board \ {i})

\* The moves, the profiles and the board a creation leaves, whole or broken off.
BooksAgree == ProfilesAddUp /\ BoardSorted

\* Who asks the adaptive engine for tasks gets open ones only, as many as there are
\* up to the limit, and none of those left out is liked better: an estimate lies
\* between the ratings it is made of. It is so whichever of the contributions are
\* found among the project's tasks, some having been deleted since.
RecommendsOpen ==
    engines.recommendation = "adaptive" => \A u \in Users : \A done \in SUBSET profiles[u].tasks :
        LET got  == Recommended("adaptive", done, profiles[u].stars, solved)
            open == Tasks \ solved
            Of(t) == Estimate(t, done, profiles[u].stars)
            Stars == {IF profiles[u].stars[t] = None THEN NeutralScore ELSE profiles[u].stars[t] : t \in done}
        IN  /\ Range(got) \subseteq open
            /\ Len(got) = Min({Shown, Cardinality(open)})
            /\ \A t \in Range(got) : \A s \in open \ Range(got) :
                   Of(s).num * Of(t).den <= Of(t).num * Of(s).den
            /\ \A t \in open : Of(t).num > 0 =>
                   /\ 5 * Of(t).num >= Min(Stars) * Of(t).den
                   /\ 5 * Of(t).num <= Max(Stars) * Of(t).den

-----------------------------------------------------------------------------
(* Indicators. *)

Thresholds == {2000, 6000}
Context(fallback) == [rules |-> rules, log |-> log, profiles |-> profiles,
                      created |-> Created, fallback |-> fallback]

\* The community ignores a badge, below the threshold, only if at least half of the
\* players who may still earn it do, and surely if more than half do (Def 3.3, 3.4).
IgnoredByHalf ==
    \A asOf \in Instants, x \in Thresholds :
        LET ctx     == Context(asOf)
            least   == 0
            ignored == [u \in Users |-> Ignored(ctx, u, asOf, x)]
        IN  \A b \in DOMAIN rules :
            LET who   == Eligible(ctx, b, asOf, least)
                cii   == CII(ctx, b, asOf, least)
                bored == Cardinality({u \in who : b \in ignored[u]})
            IN  who # {} => /\ cii < x => 2 * bored >= Cardinality(who)
                            /\ 2 * bored > Cardinality(who) => cii < x

\* The badge proposed for fading is an active one still worth it, no active candidate
\* interests the community less, and when it is triggered by active badges only, the
\* one proposed is among them (section 4.2).
TargetIsLowest ==
    \A asOf \in Instants :
        LET ctx    == Context(asOf)
            least  == 1
            target == Target(ctx, asOf, least)
        IN  /\ target # None =>
                 /\ rules[target].status = "active"
                 /\ \E u \in Pool(ctx, asOf, least) : target \notin profiles[u].badges
            /\ \A x \in Thresholds :
                 LET hit == Triggers(ctx, asOf, x, least)
                 IN  hit # {} /\ (\A b \in hit : rules[b].status = "active") => target \in hit

\* Every point of a timeline is the indicator asked for that day, though the whole
\* timeline is computed from one reading of the data, with the accounts without a
\* creation date dated by its end; the last point is the end.
TimelineAgrees ==
    \A start, end \in Instants : start <= end =>
        LET step    == 2 * DayTicks
            least   == 1
            samples == Samples(start, end, step)
        IN  /\ samples[Len(samples)] = end
            /\ \A b \in DOMAIN rules :
                 Timeline(Context(end), b, start, end, step, least)
                   = [k \in DOMAIN samples |-> CII(Context(samples[k]), b, samples[k], least)]

\* The badges a player had on a day are those earned by then: "Filters and sorts
\* check-ins up to asOfDate, resolving cumulative contributions and earned badges B_p
\* per player" (vanishing-badges.strategy.ts:34). Not so: they are those held now.
HeldByThen ==
    \A asOf \in Instants : LET ctx == Context(asOf) IN
        \A u \in Users : \A b \in Earned(ctx, u) :
            \E k \in DOMAIN log : log[k].who = u /\ b \in log[k].badges /\ log[k].at <= asOf

-----------------------------------------------------------------------------
(* Listings and statistics. *)

Ranges == {<<None, None>>} \cup {<<None, t>> : t \in Instants} \cup {<<t, None>> : t \in Instants}

\* The series and the totals count the same things: whatever the range and the
\* granularity, they add up to the summary of that range, and over all time the
\* points awarded are those of the moves, at least those of the profiles. Points and
\* badges are dated by their check-in and by-strategy takes the range
\* (analytics.controller.ts:55-62, analytics.dao.ts:224-258, 310-366), where
\* docs/analytics-queries.md dates them by the move (122-124, 189, 229-237) and gives
\* by-strategy no range (250).
TotalsAgree ==
    \A range \in Ranges :
        LET from == range[1]  to == range[2]
            sum == Summary(log, Moved, from, to)
        IN  /\ \A g \in {"day", "week"} :
                 LET paid == PointsOverTime(log, Moved, g, from, to) IN
                 /\ SumFunction(CheckinsOverTime(log, g, from, to)) = sum.checkins
                 /\ SumFunction([p \in DOMAIN paid |-> paid[p].points]) = sum.points
                 /\ SumFunction(BadgesOverTime(log, Moved, g, from, to)) = sum.badges
                 /\ sum.users <= SumFunction(ActiveUsersOverTime(log, g, from, to))
            /\ ByStrategy(log, Moved, from, to).points = sum.points
            /\ sum.rate.total = sum.checkins
            /\ range = <<None, None>> =>
                 sum.points >= SumFunction([u \in Users |-> profiles[u].points])

\* Every check-in a query selects is in one area, or outside, of one type and in one
\* interval: each of the three groupings adds up to what was selected, points included,
\* even where areas overlap.
GroupsPartition ==
    \A q \in Queries :
        LET stats == CommunityStats(log, Moved, q)
            found == CommunityMatches(log, Moved, q)
        IN  /\ SumFunction([a \in DOMAIN stats.byArea |-> stats.byArea[a].checkins]) = Cardinality(found)
            /\ SumFunction([a \in DOMAIN stats.byArea |-> stats.byArea[a].points])
                 = SumFunction([k \in found |-> log[k].points])
            /\ SumFunction(stats.byType) = Cardinality(found)
            /\ SumFunction(stats.byInterval) = Cardinality(found)

\* What is counted adds up, however it is bucketed or grouped.
CountsAddUp == TotalsAgree /\ GroupsPartition

Whole(q) == q.to = None \/ q.to % DayTicks = 0

\* The statistics and the listing, with filters written twice, select the same
\* check-ins for one query, when it gives whole days and fits the geographical cap.
StatsMatchListing ==
    \A q \in {p \in Queries : Whole(p)} : \A order \in Orders(log, Listed(log, Moved, q)) :
        (q.near # None => Len(order) <= GeoCap) =>
            Listing(log, Moved, q, 1, None, order).total
                = Cardinality(CommunityMatches(log, Moved, q))

\* Asked page by page, the listing shows each selected check-in once, in any page
\* size, if no two have the same datetime; the total never depends on the page.
PagesPartition ==
    \A q \in Queries :
        LET orders == Orders(log, Listed(log, Moved, q))
            pages  == 1..(Len(log) + 1)
        IN  \A order \in orders, raw \in {None, 0, 200} :
              LET Page(n) == Listing(log, Moved, q, n, raw, order)
                  total   == Page(1).total
              IN  /\ \A n \in pages : LET page == Page(n) IN
                        page.total = total /\ Len(page.items) <= Limit(raw)
                  /\ Cardinality(orders) = 1 =>
                        /\ SumFunction([n \in pages |-> Len(Page(n).items)]) = total
                        /\ Cardinality(UNION {Range(Page(n).items) : n \in pages}) = total

\* The listing shows what the statistics count, once.
ListingFaithful == StatsMatchListing /\ PagesPartition

\* A streak of n says: a check-in on each of n days in a row, the last one yesterday,
\* today or, the clocks of phones being allowed ahead, on the day they may have reached,
\* and none on the day before them. "Ending today or yesterday"
\* (checkin.service.ts:497) forgets the ten minutes of checkin.constants.ts:25.
StreakIsRun ==
    \A u \in Users :
        LET days == ActiveDays(log, u)
            n    == CurrentStreak(days, Day(now))
            Run(d, len) == \A i \in 0..(len - 1) : d - i \in days
        IN  IF n = 0 THEN \A d \in days : d < Day(now) - 1
            ELSE \E d \in (Day(now) - 1)..Day(now + Ahead) :
                    Run(d, n) /\ d - n \notin days /\ \A e \in days : e <= d
=============================================================================
