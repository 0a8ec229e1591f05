------------------------------ MODULE Reports ------------------------------
(***************************************************************************)
(* What the service reports of the check-ins of a project: the admins'      *)
(* listing, page by page, and a volunteer's streak (checkin.service.ts,     *)
(* checkin.dao.ts), and the statistics (analytics.dao.ts).                  *)
(*                                                                         *)
(* log is a sequence of check-ins, moved[k] tells whether check-in k has a  *)
(* move. A query is a record                                               *)
(*   [type, who, badge, tasks, contributed, photos, from, to, near]         *)
(* with None for what it leaves out: tasks are those whose name matches,    *)
(* near the spots within the radius.                                       *)
(***************************************************************************)
EXTENDS Play

CONSTANTS
    AreaOrder, IntervalOrder,       \* as the project lists them
    PageDefault, PageMax, GeoCap    \* 20, 100 and 5000 in the code

ASSUME ReportsAssumption ==
    /\ {PageDefault, PageMax, GeoCap} \subseteq Nat \ {0}
    /\ AreaOrder \in Seq(DOMAIN Ground) /\ IntervalOrder \in Seq(DOMAIN Hours)

EndOfDay(t)       == Day(t) * DayTicks + DayTicks - 1
PointsOf(log, S)  == SumFunction([k \in S |-> log[k].points])
BadgesOf(log, S)  == SumFunction([k \in S |-> Cardinality(log[k].badges)])

-----------------------------------------------------------------------------
(* The two filters of one query, built apart. *)

\* parseEndDate: a date alone stands for its whole day, an instant for itself.
ListingEnd(q) == IF q.to % DayTicks = 0 THEN EndOfDay(q.to) ELSE q.to

\* findForAdmin of the service and of the DAO.
Listed(log, moved, q) ==
    {k \in DOMAIN log :
        LET c == log[k] IN
        /\ q.type \in {None, c.type}
        /\ q.who \in {None, c.who}
        /\ q.badge # None => moved[k] /\ q.badge \in c.badges
        /\ IF q.tasks # None THEN q.contributed # "false" /\ c.task \in q.tasks
           ELSE q.contributed \in {None, IF c.task = None THEN "false" ELSE "true"}
        /\ q.photos \in {None, IF c.photo THEN "true" ELSE "false"}
        /\ q.from # None => q.from <= c.at
        /\ q.to # None => c.at <= ListingEnd(q)}

\* Slips a change could make; the model does not use them.
StatsFilter_DayStart(log, moved, q) ==
    {k \in DOMAIN log :
        LET c == log[k] IN
        /\ q.type \in {None, c.type} /\ q.who \in {None, c.who}
        /\ q.badge # None => moved[k] /\ q.badge \in c.badges
        /\ q.to # None => c.at <= q.to}

\* buildCommunityStatsFilter: the range ends with its day, whatever the hour.
StatsFilter(log, moved, q) ==
    LET Found(c) == IF q.tasks # None THEN c.task \in q.tasks /\ q.contributed # "false"
                    ELSE CASE q.contributed = "true"   -> c.task # None
                           [] q.contributed = "false"  -> c.task = None
                           [] OTHER                    -> TRUE
        Pictured(c) == q.photos # None => c.photo = (q.photos = "true")
        Dated(c) == /\ q.from # None => c.at >= q.from
                    /\ q.to # None => c.at <= EndOfDay(q.to)
        Awarded == {k \in DOMAIN log : moved[k] /\ q.badge \in log[k].badges}
    IN  {k \in (IF q.badge = None THEN DOMAIN log ELSE Awarded) :
            /\ q.type \in {None, log[k].type} /\ q.who \in {None, log[k].who}
            /\ Found(log[k]) /\ Pictured(log[k]) /\ Dated(log[k])}

-----------------------------------------------------------------------------
(* findForAdmin. *)

Limit(raw) == IF raw = None THEN PageDefault ELSE Max({1, Min({raw, PageMax})})

\* The orders the database may return: equal datetimes come in any order.
Orders(log, found) ==
    {s \in SetToSeqs(found) : \A i, j \in DOMAIN s : i < j => log[s[i]].at >= log[s[j]].at}

Slice_Overlapping(s, page, limit) ==
    SubSeq(s, (page - 1) * limit + 1, Min({Len(s), page * limit + 1}))

Slice(s, page, limit) == SubSeq(s, (page - 1) * limit + 1, Min({Len(s), page * limit}))

\* With a radius the first GeoCap rows are read and filtered in memory.
Listing(log, moved, q, page, raw, order) ==
    LET capped == SubSeq(order, 1, Min({GeoCap, Len(order)}))
        rows   == IF q.near = None THEN order
                  ELSE Filtered(capped, {k \in DOMAIN log : log[k].spot \in q.near})
    IN  [items |-> Slice(rows, Max({1, page}), Limit(raw)), total |-> Len(rows)]

-----------------------------------------------------------------------------
(* statsForUser and currentStreak: UTC days. *)

ActiveDays(log, u) == {Day(log[k].at) : k \in {j \in DOMAIN log : log[j].who = u}}

CurrentStreak_NoBreak(days, today) ==
    IF days = {} THEN 0 ELSE IF today - Max(days) > 1 THEN 0 ELSE Cardinality(days)

CurrentStreak(days, today) ==
    LET desc == SortedBy(days, LAMBDA d, e : d > e)
    IN  IF days = {} THEN 0
        ELSE IF today - desc[1] > 1 THEN 0
        ELSE Max({n \in DOMAIN desc : \A i \in 2..n : desc[i - 1] - desc[i] = 1})

-----------------------------------------------------------------------------
(* The series: check-ins by period, or moves by the period of their check-in. *)

\* ISO weeks (day 0 is a Monday) and months (of 30 days here).
Period(granularity, t) ==
    CASE granularity = "day"   -> Day(t)
      [] granularity = "week"  -> Day(t) \div 7
      [] granularity = "month" -> Day(t) \div 30

InRange(c, from, to) ==
    (from = None \/ from <= c.at) /\ (to = None \/ c.at <= EndOfDay(to))

Counted(log, from, to)        == {k \in DOMAIN log : InRange(log[k], from, to)}
MovedIn(log, moved, from, to) == {k \in Counted(log, from, to) : moved[k]}
Periods(log, found, g)        == {Period(g, log[k].at) : k \in found}
InPeriod(log, found, g, p)    == {k \in found : Period(g, log[k].at) = p}

CheckinsOverTime(log, g, from, to) ==
    LET found == Counted(log, from, to)
    IN  [p \in Periods(log, found, g) |-> Cardinality(InPeriod(log, found, g, p))]

ActiveUsersOverTime(log, g, from, to) ==
    LET found == Counted(log, from, to)
    IN  [p \in Periods(log, found, g) |->
            Cardinality({log[k].who : k \in InPeriod(log, found, g, p)})]

PointsOverTime(log, moved, g, from, to) ==
    LET found == MovedIn(log, moved, from, to)
    IN  [p \in Periods(log, found, g) |->
            LET here == InPeriod(log, found, g, p)
            IN  [points |-> PointsOf(log, here), checkins |-> Cardinality(here)]]

BadgesOverTime(log, moved, g, from, to) ==
    LET found == {k \in MovedIn(log, moved, from, to) : log[k].badges # {}}
    IN  [p \in Periods(log, found, g) |-> BadgesOf(log, InPeriod(log, found, g, p))]

ContributionRate(log, from, to) ==
    LET found == Counted(log, from, to)
    IN  [total |-> Cardinality(found),
         withContribution |-> Cardinality({k \in found : log[k].task # None})]

\* byStrategy: a check-in without a move counts, with no points.
ByStrategy(log, moved, from, to) ==
    LET found == Counted(log, from, to)
    IN  [checkins |-> Cardinality(found),
         points   |-> PointsOf(log, {k \in found : moved[k]}),
         users    |-> {log[k].who : k \in found}]

Summary_AllMoves(log, moved, from, to) ==
    [checkins |-> Cardinality(Counted(log, from, to)),
     users    |-> Cardinality({log[k].who : k \in Counted(log, from, to)}),
     rate     |-> ContributionRate(log, from, to),
     badges   |-> BadgesOf(log, DOMAIN log),
     points   |-> PointsOf(log, DOMAIN log)]

Summary(log, moved, from, to) ==
    [checkins |-> Cardinality(Counted(log, from, to)),
     users    |-> Cardinality({log[k].who : k \in Counted(log, from, to)}),
     rate     |-> ContributionRate(log, from, to),
     badges   |-> BadgesOf(log, MovedIn(log, moved, from, to)),
     points   |-> PointsOf(log, MovedIn(log, moved, from, to))]

-----------------------------------------------------------------------------
(* communityStats. *)

FirstArea_Every(c) ==
    LET hits == {a \in DOMAIN AreaOrder : c.spot \in Ground[AreaOrder[a]]}
    IN  IF hits = {} THEN {"outside"} ELSE {AreaOrder[a] : a \in hits}

\* The first area on the list that holds the spot.
FirstArea(c) ==
    LET hits == {a \in DOMAIN AreaOrder : c.spot \in Ground[AreaOrder[a]]}
    IN  IF hits = {} THEN {"outside"} ELSE {AreaOrder[Min(hits)]}

FirstInterval(c) ==
    LET hits == {i \in DOMAIN IntervalOrder : Satisfies(IntervalOrder[i], c.at)}
    IN  IF hits = {} THEN "any" ELSE IntervalOrder[Min(hits)]

CommunityMatches(log, moved, q) ==
    {k \in StatsFilter(log, moved, q) : q.near = None \/ log[k].spot \in q.near}

CommunityStats(log, moved, q) ==
    LET found == CommunityMatches(log, moved, q)
        InArea(a) == {k \in found : a \in FirstArea(log[k])}
    IN  [byArea |->
            [a \in Range(AreaOrder) \cup {"outside"} |->
                [checkins |-> Cardinality(InArea(a)),
                 points   |-> PointsOf(log, {k \in InArea(a) : moved[k]}),
                 badges   |-> BadgesOf(log, {k \in InArea(a) : moved[k]})]],
         byType |->
            [t \in {log[k].type : k \in found} |->
                Cardinality({k \in found : log[k].type = t})],
         byInterval |->
            [i \in {FirstInterval(log[k]) : k \in found} |->
                Cardinality({k \in found : FirstInterval(log[k]) = i})]]
=============================================================================
