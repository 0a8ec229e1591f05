-------------------------------- MODULE Play --------------------------------
(***************************************************************************)
(* What one check-in earns and what a volunteer is offered, as functions of *)
(* the data the service has loaded: the points and badge engines, the board,*)
(* the tasks it contributes to and the tasks recommended                    *)
(* (gamification/entities/engine, game.entity.ts, task.entity.ts).          *)
(*                                                                         *)
(* An instant is a number of ticks, DayTicks to a day. Users, badges and    *)
(* tasks are numbers, in the order the documents are read.                  *)
(***************************************************************************)
EXTENDS Naturals, Integers, Sequences, FiniteSets, FiniteSetsExt, SequencesExt, Sorting

CONSTANTS
    Users, Badges, Tasks,
    AnyKind, None,
    Ground,         \* per area, the spots in it; areas may overlap
    Hours,          \* per interval, [days, start, end, from, to]
    Zone,           \* ticks the project's clock is ahead of UTC
    DayTicks,
    PointRules,     \* a set of [type, area, interval, score, must]
    TaskOf,         \* per task, [type, area, interval]
    Nearest, Shown  \* K and RECOMMENDATIONS_LIMIT, of the environment

ASSUME PlayAssumption ==
    /\ Users \subseteq Nat /\ Badges \subseteq Nat \ {0} /\ Tasks \subseteq Nat \ {0}
    /\ \A S \in {Users, Badges, Tasks, PointRules} : IsFiniteSet(S)
    /\ None \notin Nat
    /\ DayTicks \in Nat \ {0} /\ Zone \in Nat
    /\ \A r \in PointRules : r.score \in Nat
    /\ {Nearest, Shown} \subseteq Nat \ {0}     \* a zero of the environment gives the default

Day(t) == t \div DayTicks

-----------------------------------------------------------------------------
(* Where and when. *)

\* TimeInterval.satisfy: the day and hour on the project's clock, the dates in UTC.
Satisfies(i, t) ==
    LET h == Hours[i]
        local == t + Zone
        hour  == local % DayTicks
    IN  /\ (Day(local) % 7) + 1 \in h.days
        /\ IF h.start <= h.end THEN h.start <= hour /\ hour < h.end
                               ELSE h.start <= hour \/ hour < h.end
        /\ h.from <= t /\ t <= h.to

\* Task.accept and contributesToCheckin: tasks.find takes the first open one.
Accepts(t, c) ==
    /\ TaskOf[t].type = c.type
    /\ Satisfies(TaskOf[t].interval, c.at)
    /\ c.spot \in Ground[TaskOf[t].area]

Contribution(c, solved) ==
    LET open == {t \in Tasks \ solved : Accepts(t, c)}
    IN  IF open = {} THEN None ELSE Min(open)

\* Slips a change could make; the model does not use them.
MatchesRule_Far(c, r) ==
    /\ r.type \in {c.type, AnyKind}
    /\ r.area = AnyKind
    /\ r.interval = AnyKind \/ Satisfies(r.interval, c.at)
    /\ r.must => c.task # None

\* checkinMatchRule: the conditions of a point rule on one check-in.
MatchesRule(c, r) ==
    /\ r.type \in {c.type, AnyKind}
    /\ r.area = AnyKind \/ c.spot \in Ground[r.area]
    /\ r.interval = AnyKind \/ Satisfies(r.interval, c.at)
    /\ r.must => c.task # None

-----------------------------------------------------------------------------
(* Points. *)

BasicPoints(c) ==
    SumFunction([r \in {x \in PointRules : MatchesRule(c, x)} |-> r.score])

\* calculatePoints, matchTask: what a task is listed with; must is not looked at.
ListedPoints(t) ==
    LET Matches(r) == /\ r.type \in {TaskOf[t].type, AnyKind}
                      /\ r.area \in {TaskOf[t].area, AnyKind}
                      /\ r.interval \in {TaskOf[t].interval, AnyKind}
    IN  SumFunction([r \in {x \in PointRules : Matches(x)} |-> r.score])

ElasticPoints_Own(c, profiles) ==
    LET base == BasicPoints(c) IN {base + base * Cardinality(profiles[c.who].tasks)}

\* Math.ceil(base * (1 + a * d)): a the share of all contributions, d the distance
\* to the first. The product is a double: one that should be whole may come out a
\* little above it, and be rounded up.
ElasticPoints(c, profiles) ==
    LET base  == BasicPoints(c)
        mine  == Cardinality(profiles[c.who].tasks)
        total == SumFunction([u \in Users |-> Cardinality(profiles[u].tasks)])
        first == Max({profiles[u].points : u \in Users})
        num   == base * mine * (first - profiles[c.who].points)
        den   == total * first
        extra == IF den = 0 THEN 0 ELSE (num + den - 1) \div den
    IN  {base + extra} \cup
        (IF den # 0 /\ num # 0 /\ num % den = 0 /\ num < base * den THEN {base + extra + 1} ELSE {})

\* getPointsEngine: a fading project is scored by the basic engine.
Points(strategy, c, profiles) ==
    IF strategy = "elastic" THEN ElasticPoints(c, profiles) ELSE {BasicPoints(c)}

-----------------------------------------------------------------------------
(* Badges. A rule is [type, area, interval, must, amount, prev, status, until];  *)
(* types are the task types the project has.                                    *)

EffectiveStatus_Stored(r, now) == r.status

\* effectiveBadgeStatus: faded turns expired by the clock, nothing is written.
EffectiveStatus(r, now) ==
    IF r.status = "faded" /\ r.until # None /\ r.until <= now THEN "expired" ELSE r.status

MatchesBadge_AnyType(c, r, types) == MatchesRule(c, r)

\* matchesBadgeCriteria: those of a point rule, of a type the project still has.
MatchesBadge(c, r, types) == MatchesRule(c, r) /\ r.type \in types \cup {AnyKind}

IsBadgeSatisfied_AnyPrev(b, rules, types, history, held) ==
    \/ b \in held
    \/ /\ rules[b].prev = {} \/ \E p \in rules[b].prev : p \in held
       /\ Cardinality({k \in DOMAIN history : MatchesBadge(history[k], rules[b], types)})
            >= rules[b].amount

\* isBadgeSatisfied: holding a badge settles it; the chain is followed whatever the
\* status of a badge on it; a prerequisite without a rule closes the chain.
IsBadgeSatisfied(b, rules, types, history, held) ==
    LET Enough(x) ==
            Cardinality({k \in DOMAIN history : MatchesBadge(history[k], rules[x], types)})
                >= rules[x].amount
        satisfied[x \in DOMAIN rules] ==
            \/ x \in held
            \/ /\ \A p \in rules[x].prev : p \in DOMAIN rules /\ satisfied[p]
               /\ Enough(x)
    IN  satisfied[b]

\* [...checkins, ch]: the history of a member, a function on the places its check-ins
\* have in the log, and the one being played at place 0.
WithLatest(history, c) ==
    [k \in {0} \cup DOMAIN history |-> IF k = 0 THEN c ELSE history[k]]

NewBadges_HeldToo(c, rules, types, history, held, now) ==
    {b \in DOMAIN rules : /\ IsBadgeSatisfied(b, rules, types, WithLatest(history, c), held)
                          /\ EffectiveStatus(rules[b], now) # "expired"}

\* newBadgesFor.
NewBadges(c, rules, types, history, held, now) ==
    {b \in DOMAIN rules \ held :
        /\ IsBadgeSatisfied(b, rules, types, WithLatest(history, c), held)
        /\ EffectiveStatus(rules[b], now) # "expired"}

-----------------------------------------------------------------------------
(* The board: rows in the order of the members, re-sorted (stably). *)

Before_Fewest(board, p, q) ==
    IF p.points # q.points THEN p.points < q.points ELSE p.id < q.id

\* The two engines' comparisons, on what they know of a member.
Before(board, p, q) ==
    IF board = "badgesFirst" /\ p.known # q.known THEN p.known > q.known
    ELSE IF p.points # q.points THEN p.points > q.points
    ELSE p.id < q.id

\* play sorts before the new badges are added, and each row then shows the badges
\* of the profile, the new ones of the author included.
Board(board, before, after) ==
    LET rows == {[id |-> u, points |-> after[u].points,
                  known |-> Cardinality(before[u].badges), badges |-> after[u].badges] : u \in Users}
    IN  SortedBy(rows, LAMBDA p, q : Before(board, p, q))

-----------------------------------------------------------------------------
(* Recommendations. *)

\* Dice's coefficient, in thirds: the features two tasks share, of three.
Similarity(s, t) ==
    Cardinality({f \in {"type", "area", "interval"} : TaskOf[s][f] = TaskOf[t][f]})

MostSimilar(t, done) ==
    LET near == SortedBy(done, LAMBDA x, y :
                    IF Similarity(t, x) # Similarity(t, y)
                    THEN Similarity(t, x) > Similarity(t, y) ELSE x < y)
    IN  {near[k] : k \in 1..(IF Nearest < Len(near) THEN Nearest ELSE Len(near))}

NeutralScore == 4

\* estimateTaskRating, over MAX_STARS_AMOUNT: a fraction, 0 when nothing is similar.
Estimate(t, done, stars) ==
    LET near == MostSimilar(t, done)
        Stars(x) == IF stars[x] = None THEN NeutralScore ELSE stars[x]
        sims == SumFunction([x \in near |-> Similarity(t, x)])
    IN  IF sims = 0 THEN [num |-> 0, den |-> 1]
        ELSE [num |-> SumFunction([x \in near |-> Stars(x) * Similarity(t, x)]), den |-> 5 * sims]

Recommended_All(engine, done, stars, solved) ==
    SortedBy(Tasks, LAMBDA x, y : x < y)

\* generateRecommendations of the engine the project names. The completed tasks are
\* found by their ids' values: contributions is a Mongoose array, whose includes
\* casts what it looks for and compares the ids as strings (user.schema.ts:88).
Recommended(engine, done, stars, solved) ==
    IF engine = "simple" THEN SortedBy(Tasks, LAMBDA x, y : x < y)
    ELSE LET Score(t) == Estimate(t, done, stars)
             Better(x, y) == LET p == Score(x) q == Score(y)
                             IN  IF p.num * q.den # q.num * p.den
                                 THEN p.num * q.den > q.num * p.den ELSE x < y
             all == SortedBy(Tasks \ solved, Better)
         IN  SubSeq(all, 1, IF Shown < Len(all) THEN Shown ELSE Len(all))
=============================================================================
