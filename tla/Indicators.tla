----------------------------- MODULE Indicators -----------------------------
(***************************************************************************)
(* The community indicators of a project on a day                          *)
(* (gamification-indicators.service.ts, vanishing-badges.strategy.ts).      *)
(*                                                                         *)
(* A computation gets the badge rules, the check-ins with the badges their  *)
(* moves hold, and the members: ctx is                                      *)
(*   [rules, log, profiles, created, fallback]                              *)
(* where created[u] is None for an account made before the field was kept.  *)
(* An interest is a number of ten-thousandths: the code keeps 4 decimals.   *)
(***************************************************************************)
EXTENDS Play

-----------------------------------------------------------------------------
(* loadProjectComputationData: the members and what they earned, and when. *)

Joined(ctx, u) == IF ctx.created[u] = None THEN ctx.fallback ELSE ctx.created[u]

AwardedAt(ctx, u, b) ==
    {ctx.log[k].at : k \in {j \in DOMAIN ctx.log : ctx.log[j].who = u /\ b \in ctx.log[j].badges}}

\* Every badge of a rule that a move or the profile shows, whatever the day asked for.
Earned(ctx, u) ==
    {b \in DOMAIN ctx.rules : AwardedAt(ctx, u, b) # {} \/ b \in ctx.profiles[u].badges}

EarnedAt(ctx, u, b) ==
    IF AwardedAt(ctx, u, b) # {} THEN Min(AwardedAt(ctx, u, b)) ELSE Joined(ctx, u)

-----------------------------------------------------------------------------
(* Definitions 3.1 to 3.4. *)

\* Def 3.1, computeAchievabilityAndT0: a prerequisite without a rule was never earned.
IsAchievable(ctx, u, b) == ctx.rules[b].prev \subseteq Earned(ctx, u)
Since(ctx, u, b) == Max({Joined(ctx, u)} \cup {EarnedAt(ctx, u, p) : p \in ctx.rules[b].prev})

\* Def 3.2, computeIndividualInterest: one over the days begun, at least one.
Interest(ctx, u, b, asOf) ==
    LET until == IF b \in Earned(ctx, u) THEN EarnedAt(ctx, u, b) ELSE asOf
        ticks == until - Since(ctx, u, b)
        days  == IF ticks <= DayTicks THEN 1 ELSE (ticks + DayTicks - 1) \div DayTicks
    IN  IF IsAchievable(ctx, u, b) THEN (20000 + days) \div (2 * days) ELSE 10000

\* Def 3.3, computeIgnoredBadges.
Ignored(ctx, u, asOf, x) ==
    {b \in DOMAIN ctx.rules \ Earned(ctx, u) :
        IsAchievable(ctx, u, b) /\ Interest(ctx, u, b, asOf) < x}

\* Slips a change could make; the model does not use them.
Median_Unsorted(value) ==
    LET s == SetToSeq(DOMAIN value)
    IN  IF s = <<>> THEN None ELSE value[s[(Len(s) \div 2) + 1]]

\* computeMedian of the value of each player, to 4 decimals; None when there is none.
Median(value) ==
    LET sorted == SortedBy(DOMAIN value, LAMBDA u, v :
                      value[u] < value[v] \/ (value[u] = value[v] /\ u < v))
        n   == Len(sorted)
        mid == (n \div 2) + 1
    IN  IF n = 0 THEN None
        ELSE IF n % 2 = 1 THEN value[sorted[mid]]
        ELSE (value[sorted[mid - 1]] + value[sorted[mid]] + 1) \div 2

\* The evaluated players: those with enough check-ins dated up to the day.
Pool(ctx, asOf, least) ==
    {u \in DOMAIN ctx.profiles :
        Cardinality({k \in DOMAIN ctx.log : ctx.log[k].who = u /\ ctx.log[k].at <= asOf}) >= least}

Eligible(ctx, b, asOf, least) ==
    {u \in Pool(ctx, asOf, least) : b \notin Earned(ctx, u) /\ IsAchievable(ctx, u, b)}

\* Def 3.4, computeCommunityInterest.
CII(ctx, b, asOf, least) ==
    Median([u \in Eligible(ctx, b, asOf, least) |-> Interest(ctx, u, b, asOf)])

-----------------------------------------------------------------------------
(* Sections 4.1 and 4.2: candidates, trigger and target. *)

\* The stored status is asked, not the effective one.
IsCandidate(ctx, b, asOf, least) ==
    LET pool == Pool(ctx, asOf, least)
    IN  /\ ~ (pool # {} /\ \A u \in pool : b \in Earned(ctx, u))
        /\ \E u \in pool : IsAchievable(ctx, u, b)
        /\ ctx.rules[b].status # "expired"

Triggers(ctx, asOf, x, least) ==
    {b \in DOMAIN ctx.rules :
        LET cii == CII(ctx, b, asOf, least)
        IN  IsCandidate(ctx, b, asOf, least) /\ cii # None /\ cii < x}

Ranked_Faded(ctx, asOf, least) ==
    {b \in DOMAIN ctx.rules : IsCandidate(ctx, b, asOf, least) /\ CII(ctx, b, asOf, least) # None}

Ranked(ctx, asOf, least) ==
    {b \in DOMAIN ctx.rules :
        /\ ctx.rules[b].status = "active"
        /\ IsCandidate(ctx, b, asOf, least)
        /\ CII(ctx, b, asOf, least) # None}

\* adaptationCandidateBadge: the lowest, the earlier rule first.
Target(ctx, asOf, least) ==
    LET ranked == Ranked(ctx, asOf, least)
        cii    == [b \in ranked |-> CII(ctx, b, asOf, least)]
    IN  IF ranked = {} THEN None
        ELSE Min({b \in ranked : \A c \in ranked : cii[b] <= cii[c]})

-----------------------------------------------------------------------------
(* computeIndicatorsTimeline: the days sampled and one badge's series. *)

Samples_NoEnd(start, end, step) ==
    [k \in 1..(((end - start) \div step) + 1) |-> start + (k - 1) * step]

Samples(start, end, step) ==
    LET n == (end - start + step - 1) \div step
    IN  Append([k \in 1..n |-> start + (k - 1) * step], end)

Timeline(ctx, b, start, end, step, least) ==
    LET days == Samples(start, end, step)
    IN  [k \in DOMAIN days |-> CII([ctx EXCEPT !.fallback = end], b, days[k], least)]
=============================================================================
