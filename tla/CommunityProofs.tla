-------------------------- MODULE CommunityProofs --------------------------
(***************************************************************************)
(* Proofs about Community, for any finite community, rules and history.     *)
(*                                                                         *)
(* TypeOK is inductive. BooksAgree is inductive with it, and ChainKept, that *)
(* edits leave the chain of the rules a DAG, gives the recursion of the     *)
(* badges its meaning. What is computed of a state - the series, the groups, *)
(* the indicators, the streak, the recommendations, the listing - is right   *)
(* in every state those hold in, over the lemmas of DataLemmas.             *)
(***************************************************************************)
EXTENDS Community, DataLemmas, SequenceTheorems

-----------------------------------------------------------------------------
(* Points. *)

\* Assumptions on the constants.
LEMMA Constants ==
    /\ Users \subseteq Nat /\ Badges \subseteq Nat \ {0} /\ Tasks \subseteq Nat \ {0}
    /\ IsFiniteSet(Users) /\ IsFiniteSet(Badges) /\ IsFiniteSet(Tasks) /\ IsFiniteSet(PointRules)
    /\ None \notin Nat
    /\ DayTicks \in Nat \ {0} /\ Zone \in Nat
    /\ \A r \in PointRules : r.score \in Nat
    /\ Instants \subseteq Nat /\ Instants # {} /\ Deadlines \subseteq Instants \cup {None}
    /\ Ahead \in Nat
    /\ \A u \in Users : Created[u] \in Nat \cup {None}
    /\ \A v \in Visits : v.who \in Users /\ v.photo \in BOOLEAN
    /\ FirstRules \in [DOMAIN FirstRules -> Rule] /\ DOMAIN FirstRules \subseteq Badges
    /\ PageDefault \in Nat \ {0} /\ PageMax \in Nat \ {0} /\ GeoCap \in Nat \ {0}
<1>1. \A S \in {Users, Badges, Tasks, PointRules} : IsFiniteSet(S)
  BY PlayAssumption
<1>2. IsFiniteSet(Users) /\ IsFiniteSet(Badges) /\ IsFiniteSet(Tasks) /\ IsFiniteSet(PointRules)
  BY <1>1
<1>3. FirstRules \in [DOMAIN FirstRules -> Rule] /\ DOMAIN FirstRules \subseteq Badges
  BY CommunityAssumption
<1> QED
  BY <1>2, <1>3, PlayAssumption, CommunityAssumption, ReportsAssumption

\* A sum of scores.
LEMMA ScoresAdd ==
    ASSUME NEW S \in SUBSET PointRules
    PROVE  /\ IsFiniteSet(S)
           /\ SumFunction([r \in S |-> r.score]) = SumFunctionOnSet([r \in PointRules |-> r.score], S)
           /\ SumFunction([r \in S |-> r.score]) \in Nat
<1> DEFINE w == [r \in S |-> r.score]
           v == [r \in PointRules |-> r.score]
<1>1. IsFiniteSet(S)
  BY Constants, FS_Subset
<1>2. SumFunction(w) = SumFunctionOnSet(w, S)
  <2>1. DOMAIN w = S
    OBVIOUS
  <2> HIDE DEF w
  <2> QED
    BY <2>1, SumOf
<1>3. \A r \in S : w[r] \in Nat /\ w[r] = v[r]
  BY Constants
<1> HIDE DEF w, v
<1>4. SumFunctionOnSet(w, S) = SumFunctionOnSet(v, S) /\ SumFunctionOnSet(w, S) \in Nat
  BY <1>1, <1>3, SumExt, SumNat
<1> QED
  BY <1>1, <1>2, <1>4 DEF w, v

\* What the point rules pay is a number.
LEMMA BasicIsNat == ASSUME NEW c PROVE BasicPoints(c) \in Nat
<1> DEFINE S == {x \in PointRules : MatchesRule(c, x)}
<1>1. S \in SUBSET PointRules
  OBVIOUS
<1>2. BasicPoints(c) = SumFunction([r \in S |-> r.score])
  BY DEF BasicPoints
<1> HIDE DEF S
<1> QED
  BY <1>1, <1>2, ScoresAdd

\* Members with points and finitely many contributions.
Members(prof) == /\ \A u \in Users : prof[u].points \in Nat /\ prof[u].tasks \in SUBSET Tasks

\* The elastic engine: from the basic points to twice as many, and more than them to
\* who has contributed and is behind.
LEMMA ElasticHelps ==
    ASSUME NEW prof, Members(prof), NEW c, c.who \in Users, NEW p \in ElasticPoints(c, prof)
    PROVE  /\ p \in Nat /\ BasicPoints(c) <= p /\ p <= 2 * BasicPoints(c)
           /\ p > BasicPoints(c) => /\ prof[c.who].tasks # {}
                                    /\ \E u \in Users : prof[u].points > prof[c.who].points
<1> DEFINE base   == BasicPoints(c)
           own    == prof[c.who].points
           mine   == Cardinality(prof[c.who].tasks)
           shares == [u \in Users |-> Cardinality(prof[u].tasks)]
           total  == SumFunction(shares)
           marks  == {prof[u].points : u \in Users}
           first  == Max(marks)
           num    == base * mine * (first - own)
           den    == total * first
           extra  == IF den = 0 THEN 0 ELSE (num + den - 1) \div den
<1>1. base \in Nat
  BY BasicIsNat
<1>2. \A u \in Users : IsFiniteSet(prof[u].tasks) /\ Cardinality(prof[u].tasks) \in Nat
  BY Constants, FS_Subset, FS_CardinalityType DEF Members
<1>3. mine \in Nat /\ (mine > 0 => prof[c.who].tasks # {})
  BY <1>2, FS_EmptySet
<1>4. total \in Nat /\ mine <= total
  <2>1. DOMAIN shares = Users /\ \A u \in Users : shares[u] \in Nat
    BY <1>2
  <2>2. shares[c.who] = mine
    OBVIOUS
  <2> HIDE DEF shares, mine
  <2>3. total = SumFunctionOnSet(shares, Users) /\ total \in Nat
    BY <2>1, SumOf, SumNat, Constants
  <2>4. /\ SumFunctionOnSet(shares, Users) =
              shares[c.who] + SumFunctionOnSet(shares, Users \ {c.who})
        /\ SumFunctionOnSet(shares, Users \ {c.who}) \in Nat
    <3>1. IsFiniteSet(Users \ {c.who})
      BY Constants, FS_Subset
    <3> QED
      BY <2>1, <3>1, SumRemove, SumNat, Constants
  <2> HIDE DEF total
  <2> QED
    BY <1>3, <2>2, <2>3, <2>4
<1>5. /\ own \in Nat /\ first \in Nat /\ own <= first
      /\ first > own => \E u \in Users : prof[u].points > own
  <2> DEFINE points == [u \in Users |-> prof[u].points]
  <2>1. marks = {points[u] : u \in Users}
    OBVIOUS
  <2>2. IsFiniteSet(marks)
    <3> HIDE DEF marks, points
    <3> QED
      BY <2>1, ImageIsFinite, Constants
  <2>3. marks \in SUBSET Int /\ marks # {} /\ own \in marks /\ own \in Nat /\ marks \subseteq Nat
    BY DEF Members
  <2>4. first \in marks /\ \A y \in marks : y <= first
    <3> HIDE DEF marks
    <3> QED
      BY <2>2, <2>3, MaxIs
  <2> HIDE DEF first
  <2> QED
    BY <2>3, <2>4
<1>6. p \in {base + extra} \cup
        (IF den # 0 /\ num # 0 /\ num % den = 0 /\ num < base * den THEN {base + extra + 1} ELSE {})
  BY DEF ElasticPoints
<1> HIDE DEF base, own, mine, total, first
<1>7. num \in Nat /\ den \in Nat /\ num <= base * den
  <2> DEFINE gap == first - own
  <2>1. gap \in Nat /\ gap <= first
    BY <1>5
  <2>2. mine * gap \in Nat /\ mine * gap <= total * first
    <3>1. mine * gap <= mine * first
      BY <1>3, <1>5, <2>1
    <3>2. first * mine <= first * total
      BY <1>3, <1>4, <1>5
    <3>3. /\ mine * gap \in Int /\ mine * first = first * mine /\ first * mine \in Int
          /\ first * total = total * first /\ first * total \in Int
      BY <1>3, <1>4, <1>5, <2>1
    <3>4. mine * gap \in Nat
      BY <1>3, <2>1
    <3> HIDE DEF gap
    <3> QED
      BY <3>1, <3>2, <3>3, <3>4
  <2>3. num = base * (mine * gap)
    <3> HIDE DEF gap
    <3> QED
      BY <1>1, <1>3, <2>1 DEF gap
  <2>4. den \in Nat
    BY <1>4, <1>5
  <2>5. base * (mine * gap) \in Nat /\ base * (mine * gap) <= base * den
    BY <1>1, <2>2, <2>4
  <2> QED
    BY <2>3, <2>4, <2>5
<1>8. ASSUME num # 0 PROVE mine > 0 /\ first > own
  <2>1. CASE mine = 0
    <3>1. base * 0 * (first - own) = 0
      BY <1>1, <1>5
    <3> QED
      BY <1>8, <2>1, <3>1
  <2>2. CASE first = own
    <3>1. base * mine * (own - own) = 0
      BY <1>1, <1>3, <1>5
    <3> QED
      BY <1>8, <2>2, <3>1
  <2> QED
    BY <1>3, <1>5, <2>1, <2>2
<1> HIDE DEF num, den
<1>9. /\ extra \in Nat /\ extra <= base /\ (num = 0 => extra = 0)
      /\ den # 0 /\ num % den = 0 /\ num < base * den => extra + 1 <= base
  BY <1>1, <1>7, CeilingIs
<1> HIDE DEF extra
<1>10. p \in Nat /\ base <= p /\ p <= 2 * base /\ (p > base => num # 0)
  BY <1>1, <1>6, <1>9
<1>11. p > base => prof[c.who].tasks # {} /\ \E u \in Users : prof[u].points > own
  BY <1>3, <1>5, <1>8, <1>10
<1> QED
  BY <1>10, <1>11 DEF base, own

\* What is paid, whatever the engine.
LEMMA PaidIsNat ==
    ASSUME NEW prof, Members(prof), NEW c, c.who \in Users, NEW strategy,
           NEW p \in Points(strategy, c, prof)
    PROVE  /\ p \in Nat /\ BasicPoints(c) <= p /\ p <= 2 * BasicPoints(c)
           /\ p > BasicPoints(c) => /\ prof[c.who].tasks # {}
                                    /\ \E u \in Users : prof[u].points > prof[c.who].points
<1>1. CASE strategy = "elastic"
  <2>1. p \in ElasticPoints(c, prof)
    BY <1>1 DEF Points
  <2> QED
    BY <2>1, ElasticHelps
<1>2. CASE strategy # "elastic"
  <2>1. p = BasicPoints(c)
    BY <1>2 DEF Points
  <2> QED
    BY <2>1, BasicIsNat
<1> QED
  BY <1>1, <1>2

-----------------------------------------------------------------------------
(* A check-in, step by step. *)

\* The task contributed to is an open one that accepts the check-in, if there is one.
LEMMA ContributionIs ==
    ASSUME NEW c, NEW done \in SUBSET Tasks
    PROVE  LET t == Contribution(c, done)
           IN  \/ t = None /\ \A x \in Tasks \ done : ~ Accepts(x, c)
               \/ t \in Tasks \ done /\ Accepts(t, c)
<1> DEFINE open == {t \in Tasks \ done : Accepts(t, c)}
<1>1. IsFiniteSet(open) /\ open \in SUBSET Int
  BY Constants, FS_Subset
<1>2. CASE open = {}
  BY <1>2 DEF Contribution
<1>3. CASE open # {}
  <2>1. Min(open) \in open
    <3> HIDE DEF open
    <3> QED
      BY <1>1, <1>3, MinIs
  <2>2. Contribution(c, done) = Min(open)
    BY <1>3 DEF Contribution
  <2> QED
    BY <2>1, <2>2
<1> QED
  BY <1>2, <1>3

\* The writes of a creation, by their places.
LEMMA WritesAre ==
    /\ Write.checkin = 1 /\ Write.move = 2 /\ Write.task = 3 /\ Write.user = 4 /\ Write.board = 5
    /\ \A landed \in Range(Write) : landed \in 1..5
  BY DEF Write, Range

Recorded(c, landed, points, won) ==
    IF landed = 1 THEN c ELSE [c EXCEPT !.points = points, !.badges = won]

\* The names a creation gives what it computes.
Plays(v, at, landed, c, points, won, tasks, after) ==
    /\ c = [who |-> v.who, type |-> v.type, spot |-> v.spot, photo |-> v.photo, at |-> at,
            task |-> c.task, landed |-> landed, points |-> 0, badges |-> {}]
    /\ c.task = Contribution(c, solved)
    /\ won = NewBadges(c, rules, types, History(v.who), profiles[v.who].badges, now)
    /\ tasks = IF c.task = None THEN {} ELSE {c.task}
    /\ points \in Points(engines.points, c, profiles)
    /\ after = [profiles EXCEPT ![v.who].points = @ + points,
                                ![v.who].badges = @ \cup won, ![v.who].tasks = @ \cup tasks]
    /\ log' = Append(log, Recorded(c, landed, points, won))
    /\ solved'   = IF landed >= 3 THEN solved \cup tasks ELSE solved
    /\ profiles' = IF landed >= 4 THEN after ELSE profiles
    /\ board'    = IF landed = 5 THEN Board(engines.board, profiles, after) ELSE board
    /\ now' = now /\ rules' = rules /\ types' = types /\ engines' = engines
    /\ at <= now + Ahead /\ (c.task = None => landed # 3)

\* Only where and when a check-in is made, and its type, decide of the task.
LEMMA SameContribution ==
    ASSUME NEW c, NEW d, c.type = d.type, c.at = d.at, c.spot = d.spot, NEW done
    PROVE  Contribution(c, done) = Contribution(d, done)
<1>1. \A t : Accepts(t, c) <=> Accepts(t, d)
  BY DEF Accepts
<1>2. {t \in Tasks \ done : Accepts(t, c)} = {t \in Tasks \ done : Accepts(t, d)}
  BY <1>1
<1> QED
  BY <1>2 DEF Contribution

\* A creation is played: there is what it paid and won and the profiles it leaves.
LEMMA CheckinPlays ==
    ASSUME NEW v \in Visits, NEW at \in Instants, NEW landed \in Range(Write), Checkin(v, at, landed)
    PROVE  \E c, points, won, tasks, after : Plays(v, at, landed, c, points, won, tasks, after)
<1> DEFINE dated == [who |-> v.who, type |-> v.type, spot |-> v.spot, photo |-> v.photo, at |-> at,
                     task |-> None, landed |-> landed, points |-> 0, badges |-> {}]
           c     == [dated EXCEPT !.task = Contribution(dated, solved)]
           won   == NewBadges(c, rules, types, History(v.who), profiles[v.who].badges, now)
           tasks == IF c.task = None THEN {} ELSE {c.task}
<1>1. PICK points \in Points(engines.points, c, profiles) :
        LET after == [profiles EXCEPT ![v.who].points = @ + points,
                          ![v.who].badges = @ \cup won, ![v.who].tasks = @ \cup tasks]
        IN  /\ log' = Append(log, IF landed = Write.checkin THEN c
                                  ELSE [c EXCEPT !.points = points, !.badges = won])
            /\ solved'   = IF landed >= Write.task THEN solved \cup tasks ELSE solved
            /\ profiles' = IF landed >= Write.user THEN after ELSE profiles
            /\ board'    = IF landed = Write.board THEN Board(engines.board, profiles, after) ELSE board
  BY DEF Checkin
<1> DEFINE after == [profiles EXCEPT ![v.who].points = @ + points,
                         ![v.who].badges = @ \cup won, ![v.who].tasks = @ \cup tasks]
<1>2. /\ at <= now + Ahead /\ now' = now /\ rules' = rules /\ types' = types /\ engines' = engines
      /\ c.task = None => landed # Write.task
  BY DEF Checkin
<1>3. c = [who |-> v.who, type |-> v.type, spot |-> v.spot, photo |-> v.photo, at |-> at,
           task |-> c.task, landed |-> landed, points |-> 0, badges |-> {}]
  OBVIOUS
<1>4. c.task = Contribution(c, solved)
  <2>1. c.task = Contribution(dated, solved)
    OBVIOUS
  <2>2. c.type = dated.type /\ c.at = dated.at /\ c.spot = dated.spot
    OBVIOUS
  <2> HIDE DEF c, dated
  <2> QED
    BY <2>1, <2>2, SameContribution
<1> HIDE DEF c
<1>5. Plays(v, at, landed, c, points, won, tasks, after)
  <2> HIDE DEF won, tasks
  <2> USE WritesAre
  <2>1. /\ log' = Append(log, Recorded(c, landed, points, won))
        /\ solved'   = IF landed >= 3 THEN solved \cup tasks ELSE solved
        /\ profiles' = IF landed >= 4 THEN after ELSE profiles
        /\ board'    = IF landed = 5 THEN Board(engines.board, profiles, after) ELSE board
        /\ (c.task = None => landed # 3)
    BY <1>1, <1>2 DEF Recorded
  <2> HIDE DEF after
  <2> QED
    BY <1>1, <1>2, <1>3, <1>4, <2>1 DEF Plays, won, tasks, after
<1> QED
  BY <1>5

-----------------------------------------------------------------------------
(* The board. *)

Standing(prof) == \A u \in Users : prof[u].points \in Nat /\ prof[u].badges \in SUBSET Badges

\* The board has the row of each member, in the order of the engine.
LEMMA BoardIs ==
    ASSUME NEW strategy, NEW before, Standing(before), NEW after, Standing(after)
    PROVE  LET b == Board(strategy, before, after)
               RowOf(u) == [id |-> u, points |-> after[u].points,
                            known |-> Cardinality(before[u].badges), badges |-> after[u].badges]
           IN  /\ b \in Seq(Row) /\ DOMAIN b = 1..Len(b) /\ Len(b) \in Nat
               /\ \A i \in DOMAIN b : b[i].id \in Users /\ b[i] = RowOf(b[i].id)
               /\ \A i, j \in DOMAIN b : b[i].id = b[j].id => i = j
               /\ \A i, j \in DOMAIN b : i < j => Before(strategy, b[i], b[j])
<1> DEFINE RowOf(u) == [id |-> u, points |-> after[u].points,
                        known |-> Cardinality(before[u].badges), badges |-> after[u].badges]
           rows == {RowOf(u) : u \in Users}
           R == {p \in rows \X rows : Before(strategy, p[1], p[2])}
<1>1. \A u \in Users : RowOf(u) \in Row
  BY FS_Subset, FS_CardinalityType, Constants DEF Standing, Row
<1>2. IsFiniteSet(rows)
  <2> DEFINE row == [u \in Users |-> RowOf(u)]
  <2>1. rows = {row[u] : u \in Users}
    OBVIOUS
  <2> HIDE DEF row, rows
  <2> QED
    BY <2>1, ImageIsFinite, Constants
<1>3. rows \subseteq Row /\ \A p \in rows : p.id \in Users /\ p = RowOf(p.id)
  BY <1>1
<1>4. IsOrderOf(R, rows)
  <2> HIDE DEF RowOf
  <2>1. \A p, q \in rows : p # q => p.id # q.id
    BY <1>3
  <2>2. \A p, q \in rows : <<p, q>> \in R <=> Before(strategy, p, q)
    OBVIOUS
  <2>3. \A p \in rows : p.id \in Nat /\ p.points \in Nat /\ p.known \in Nat
    BY <1>3, Constants DEF Row
  <2> HIDE DEF rows, R
  <2>4. \A p, q \in rows : p # q => <<p, q>> \in R \/ <<q, p>> \in R
    BY <2>1, <2>2, <2>3 DEF Before
  <2>5. \A p, q, r \in rows : Before(strategy, p, q) /\ Before(strategy, q, r) => Before(strategy, p, r)
    BY <2>3 DEF Before
  <2>6. \A p, q, r \in rows : <<p, q>> \in R /\ <<q, r>> \in R => <<p, r>> \in R
    BY <2>2, <2>5
  <2> QED
    BY <2>4, <2>6 DEF IsOrderOf
<1> DEFINE b == Board(strategy, before, after)
<1>5. b = SortedBy(rows, LAMBDA p, q : Before(strategy, p, q))
  BY DEF Board
<1>6. b = CHOOSE s \in SetToSeqs(rows) : \A i, j \in DOMAIN s : i < j => Before(strategy, s[i], s[j])
  BY DEF Board, SortedBy
<1>7. PICK s \in SetToSeqs(rows) : \A i, j \in DOMAIN s : i < j => <<s[i], s[j]>> \in R
  <2> HIDE DEF rows, R
  <2> QED
    BY <1>2, <1>4, Sorted
<1>8. \A i, j \in DOMAIN s : i < j => Before(strategy, s[i], s[j])
  BY <1>7
<1>9. b \in SetToSeqs(rows) /\ \A i, j \in DOMAIN b : i < j => Before(strategy, b[i], b[j])
  <2> HIDE DEF b, rows
  <2> QED
    BY <1>6, <1>7, <1>8
<1>10. /\ b \in Seq(rows) /\ DOMAIN b = 1..Len(b) /\ Len(b) \in Nat /\ \A i \in DOMAIN b : b[i] \in rows
       /\ \A i, j \in DOMAIN b : b[i] = b[j] => i = j
  <2> HIDE DEF b, rows
  <2> QED
    BY <1>2, <1>9, Enumeration
<1>11. b \in Seq(Row)
  <2> HIDE DEF b, rows
  <2> QED
    BY <1>3, <1>10
<1> HIDE DEF b, rows
<1> QED
  BY <1>3, <1>9, <1>10, <1>11 DEF b

-----------------------------------------------------------------------------
(* Types. *)

\* Once typed, members have what the engines ask of them.
LEMMA TypedMembers ==
    ASSUME TypeOK
    PROVE  Members(profiles) /\ Standing(profiles)
  BY DEF TypeOK, Profile, Members, Standing

\* The badges won are rules' and not held.
LEMMA NewOnes ==
    ASSUME NEW c, NEW rls, NEW kinds, NEW history, NEW held, NEW t
    PROVE  NewBadges(c, rls, kinds, history, held, t) \subseteq DOMAIN rls \ held
  BY DEF NewBadges

ProfileOver(done) == [points : Nat, badges : SUBSET Badges, tasks : SUBSET done,
                      stars : [Tasks -> 1..5 \cup {None}]]

\* What a check-in played is, once the state is typed.
LEMMA PlaysTyped ==
    ASSUME TypeOK, NEW v \in Visits, NEW at \in Instants, NEW landed \in 1..5,
           NEW c, NEW points, NEW won, NEW tasks, NEW after,
           Plays(v, at, landed, c, points, won, tasks, after)
    PROVE  /\ c \in Entry /\ c.who = v.who /\ v.who \in Users /\ c.landed = landed /\ c.at = at
           /\ c.points = 0 /\ c.badges = {}
           /\ points \in Nat /\ won \in SUBSET Badges
           /\ won \subseteq DOMAIN rules \ profiles[v.who].badges
           /\ tasks \in SUBSET (Tasks \ solved)
           /\ c.task = None \/ (c.task \in Tasks \ solved /\ Accepts(c.task, c))
           /\ after \in [Users -> ProfileOver(solved \cup tasks)]
           /\ log' = Append(log, Recorded(c, landed, points, won))
           /\ Recorded(c, landed, points, won) \in Entry
<1>1. v.who \in Users /\ v.photo \in BOOLEAN
  BY Constants
<1>2. c.task = None \/ (c.task \in Tasks \ solved /\ Accepts(c.task, c))
  <2>1. solved \in SUBSET Tasks /\ c.task = Contribution(c, solved)
    BY DEF Plays, TypeOK
  <2>2. \/ Contribution(c, solved) = None
        \/ Contribution(c, solved) \in Tasks \ solved /\ Accepts(Contribution(c, solved), c)
    BY <2>1, ContributionIs
  <2> DEFINE t == Contribution(c, solved)
  <2> HIDE DEF t
  <2>3. c.task = t /\ (t = None \/ (t \in Tasks \ solved /\ Accepts(t, c)))
    BY <2>1, <2>2 DEF t
  <2> QED
    BY <2>3
<1>3. c \in Entry /\ c.who = v.who /\ c.landed = landed /\ c.at = at /\ c.points = 0 /\ c.badges = {}
  <2>1. c = [who |-> v.who, type |-> v.type, spot |-> v.spot, photo |-> v.photo, at |-> at,
             task |-> c.task, landed |-> landed, points |-> 0, badges |-> {}]
    BY DEF Plays
  <2>2. c.task \in Tasks \cup {None}
    BY <1>2
  <2> DEFINE t == c.task
  <2> HIDE DEF t
  <2>3. c = [who |-> v.who, type |-> v.type, spot |-> v.spot, photo |-> v.photo, at |-> at,
             task |-> t, landed |-> landed, points |-> 0, badges |-> {}]
    BY <2>1 DEF t
  <2>4. t \in Tasks \cup {None}
    BY <2>2 DEF t
  <2> QED
    BY <1>1, <2>3, <2>4 DEF Entry, Kinds
<1>4. points \in Nat
  BY <1>1, <1>3, PaidIsNat, TypedMembers DEF Plays
<1>5. won \subseteq DOMAIN rules \ profiles[v.who].badges
  BY NewOnes DEF Plays
<1>6. won \in SUBSET Badges
  BY <1>5 DEF TypeOK
<1>7. tasks \in SUBSET (Tasks \ solved)
  BY <1>2 DEF Plays
<1>8. after \in [Users -> ProfileOver(solved \cup tasks)]
  <2>1. after = [profiles EXCEPT ![v.who].points = @ + points,
                                 ![v.who].badges = @ \cup won, ![v.who].tasks = @ \cup tasks]
    BY DEF Plays
  <2>2. profiles \in [Users -> Profile]
    BY DEF TypeOK
  <2>3. \A u \in Users \ {v.who} : after[u] = profiles[u]
    BY <2>1, <2>2
  <2>4. /\ DOMAIN after = Users
        /\ after[v.who] = [profiles[v.who] EXCEPT !.points = @ + points,
                               !.badges = @ \cup won, !.tasks = @ \cup tasks]
    BY <1>1, <2>1, <2>2
  <2>5. profiles[v.who] \in Profile
    BY <1>1, <2>2
  <2>6. after[v.who] \in ProfileOver(solved \cup tasks)
    <3> DEFINE S == ProfileOver(solved \cup tasks)
               p  == profiles[v.who]
               p1 == [p EXCEPT !.points = @ + points]
               p2 == [p1 EXCEPT !.badges = @ \cup won]
               p3 == [p2 EXCEPT !.tasks = @ \cup tasks]
    <3>1. p \in S
      BY <2>5 DEF Profile, ProfileOver
    <3>2. p1 \in S
      <4> HIDE DEF p
      <4> QED
        BY <1>4, <3>1 DEF ProfileOver
    <3>3. p2 \in S
      <4> HIDE DEF p1
      <4> QED
        BY <1>6, <3>2 DEF ProfileOver
    <3>4. p3 \in S
      <4> HIDE DEF p2
      <4> QED
        BY <1>7, <3>3 DEF ProfileOver
    <3>5. after[v.who] = p3
      BY <2>4
    <3> QED
      BY <3>4, <3>5
  <2>7. \A u \in Users \ {v.who} :
           after[u] \in ProfileOver(solved \cup tasks)
    BY <2>2, <2>3 DEF Profile, ProfileOver
  <2>8. after = [u \in Users |-> after[u]]
    BY <2>1, <2>2
  <2> QED
    BY <2>6, <2>7, <2>8
<1>9. Recorded(c, landed, points, won) \in Entry
  BY <1>3, <1>4, <1>6 DEF Entry, Recorded
<1>10. log' = Append(log, Recorded(c, landed, points, won))
  BY DEF Plays
<1> QED
  BY <1>1, <1>2, <1>3, <1>4, <1>5, <1>6, <1>7, <1>8, <1>9, <1>10

\* A check-in more in the log.
LEMMA LogGrows ==
    ASSUME log \in Seq(Entry), NEW e \in Entry, log' = Append(log, e)
    PROVE  /\ log' \in Seq(Entry) /\ Len(log) \in Nat
           /\ DOMAIN log = 1..Len(log) /\ DOMAIN log' = DOMAIN log \cup {Len(log) + 1}
           /\ Len(log') = Len(log) + 1 /\ Len(log) + 1 \notin DOMAIN log
           /\ \A k \in DOMAIN log : log'[k] = log[k]
           /\ log'[Len(log) + 1] = e
  OBVIOUS

\* The first states are typed.
LEMMA InitTyped == Init => TypeOK
<1> SUFFICES ASSUME Init PROVE TypeOK
  OBVIOUS
<1>1. now \in Instants
  BY LeastNumber, Constants DEF Init
<1>2. rules \in [DOMAIN rules -> Rule] /\ DOMAIN rules \subseteq Badges
  BY Constants DEF Init
<1>3. profiles \in [Users -> Profile]
  BY DEF Init, Profile
<1>4. log = <<>> /\ DOMAIN log = {} /\ log \in Seq(Entry) /\ board \in Seq(Row)
  BY DEF Init
<1>5. solved = {} /\ engines \in Engines /\ types \subseteq Kinds
  BY DEF Init
<1> QED
  BY <1>1, <1>2, <1>3, <1>4, <1>5 DEF TypeOK

\* A creation keeps the types, after whichever of its writes it stops.
LEMMA CheckinTyped ==
    ASSUME TypeOK, NEW v \in Visits, NEW at \in Instants, NEW landed \in Range(Write),
           Checkin(v, at, landed)
    PROVE  TypeOK'
<1>0. landed \in 1..5
  BY WritesAre
<1>1. PICK c, points, won, tasks, after : Plays(v, at, landed, c, points, won, tasks, after)
  BY CheckinPlays
<1> DEFINE e == Recorded(c, landed, points, won)
<1>2. /\ c \in Entry /\ c.landed = landed /\ c.at = at /\ c.points = 0 /\ c.badges = {}
      /\ tasks \in SUBSET Tasks /\ e \in Entry /\ log' = Append(log, e)
      /\ after \in [Users -> ProfileOver(solved \cup tasks)]
  <2>1. c \in Entry
    BY <1>0, <1>1, PlaysTyped
  <2>6. c.task = None \/ c.task \in Tasks \ solved
    BY <1>0, <1>1, PlaysTyped
  <2>7. tasks \in SUBSET Tasks
    <3>1. tasks = IF c.task = None THEN {} ELSE {c.task}
      BY <1>1 DEF Plays
    <3> QED
      BY <2>6, <3>1
  <2>5. c.landed = landed /\ c.at = at /\ c.points = 0 /\ c.badges = {}
    BY <1>1 DEF Plays
  <2>3. after \in [Users -> ProfileOver(solved \cup tasks)]
    BY <1>0, <1>1, PlaysTyped
  <2>4. e \in Entry
    BY <1>0, <1>1, PlaysTyped
  <2>2. log' = Append(log, e)
    BY <1>1 DEF Plays
  <2> QED
    BY <2>1, <2>2, <2>3, <2>4, <2>5, <2>7
<1>A. at <= now + Ahead
  BY <1>1 DEF Plays
<1>3. e.at = at /\ e.landed = landed /\ (landed = 1 => e.points = 0 /\ e.badges = {})
  BY <1>2, <1>A DEF Entry, Recorded
<1> HIDE DEF e
<1>4. log' \in Seq(Entry)
  BY <1>2, LogGrows DEF TypeOK
<1>5. \A k \in DOMAIN log' : /\ log'[k].at <= now + Ahead
                             /\ log'[k].landed = 1 => log'[k].points = 0 /\ log'[k].badges = {}
  <2>1. \A k \in DOMAIN log : /\ log[k].at <= now + Ahead
                              /\ log[k].landed = 1 => log[k].points = 0 /\ log[k].badges = {}
    BY WritesAre DEF TypeOK
  <2> QED
    BY <1>2, <1>A, <1>3, <2>1, LogGrows DEF TypeOK
<1>6. solved' \subseteq Tasks /\ (landed >= 3 => solved' = solved \cup tasks) /\ solved \subseteq solved'
  BY <1>1, <1>2 DEF Plays, TypeOK
<1>7. profiles' \in [Users -> Profile]'
  <2>1. CASE landed >= 4
    <3>1. profiles' = after /\ solved' = solved \cup tasks
      BY <1>0, <1>1, <1>6, <2>1 DEF Plays
    <3> QED
      BY <1>2, <3>1 DEF Profile, ProfileOver
  <2>2. CASE ~ (landed >= 4)
    <3>1. profiles' = profiles
      BY <1>1, <2>2 DEF Plays
    <3>2. profiles \in [Users -> Profile] /\ Profile \subseteq Profile'
      BY <1>6 DEF TypeOK, Profile
    <3> QED
      BY <3>1, <3>2
  <2> QED
    BY <2>1, <2>2
<1>8. board' \in Seq(Row)
  <2>1. CASE landed = 5
    <3>1. board' = Board(engines.board, profiles, after)
      BY <1>1, <2>1 DEF Plays
    <3>2. Standing(after)
      BY <1>2 DEF Standing, ProfileOver
    <3> QED
      BY <3>1, <3>2, BoardIs, TypedMembers
  <2>2. CASE landed # 5
    BY <1>1, <2>2 DEF Plays, TypeOK
  <2> QED
    BY <2>1, <2>2
<1>9. now' = now /\ rules' = rules /\ types' = types /\ engines' = engines
  BY <1>1 DEF Plays
<1> QED
  BY <1>4, <1>5, <1>6, <1>7, <1>8, <1>9, WritesAre DEF TypeOK, Row, Entry

\* What an admin may make of a rule is a rule.
LEMMA EditTyped ==
    ASSUME TypeOK, NEW b \in DOMAIN rules, NEW rule \in Rule, Edit(b, rule)
    PROVE  TypeOK'
<1>1. rules' \in [DOMAIN rules' -> Rule] /\ DOMAIN rules' = DOMAIN rules
  BY DEF Edit, TypeOK
<1> QED
  BY <1>1 DEF Edit, TypeOK, Profile

\* Every step keeps the types.
LEMMA StepTyped == TypeOK /\ [Next]_vars => TypeOK'
<1> SUFFICES ASSUME TypeOK, [Next]_vars PROVE TypeOK'
  OBVIOUS
<1>1. ASSUME NEW v \in Visits, NEW at \in Instants, NEW landed \in Range(Write), Checkin(v, at, landed)
      PROVE  TypeOK'
  BY <1>1, CheckinTyped
<1>2. ASSUME NEW u \in Users, NEW k \in DOMAIN log, NEW s \in {1, 5}, Rate(u, k, s)
      PROVE  TypeOK'
  <2>0. log[k] \in Entry /\ profiles \in [Users -> Profile]
    BY DEF TypeOK
  <2>1. log[k].task \in Tasks
    BY <1>2, <2>0 DEF Rate, Entry
  <2>2. profiles' \in [Users -> Profile]
    <3> DEFINE t == log[k].task
    <3>1. t \in Tasks /\ s \in 1..5
      BY <2>1
    <3>2. profiles' = [profiles EXCEPT ![u].stars[t] = s]
      BY <1>2 DEF Rate
    <3> HIDE DEF t
    <3>3. profiles[u].stars \in [Tasks -> 1..5 \cup {None}]
      BY <2>0 DEF Profile
    <3>4. [profiles[u].stars EXCEPT ![t] = s] \in [Tasks -> 1..5 \cup {None}]
      BY <3>1, <3>3
    <3>5. profiles' = [profiles EXCEPT ![u] = [profiles[u] EXCEPT !.stars = [profiles[u].stars EXCEPT ![t] = s]]]
      BY <3>2
    <3>6. [profiles[u] EXCEPT !.stars = [profiles[u].stars EXCEPT ![t] = s]] \in Profile
      BY <2>0, <3>4 DEF Profile
    <3> QED
      BY <2>0, <3>5, <3>6
  <2> QED
    BY <1>2, <2>2 DEF Rate, TypeOK, Profile
<1>3. ASSUME NEW b \in DOMAIN rules,
             (\E until \in Deadlines : Fade(b, until)) \/ Expire(b) \/ Restore(b) \/ RaiseAmount(b)
      PROVE  TypeOK'
  <2>1. rules[b] \in Rule /\ now \in Instants
    BY DEF TypeOK
  <2>2. ASSUME NEW until \in Deadlines, Fade(b, until) PROVE TypeOK'
    <3>1. [rules[b] EXCEPT !.status = "faded", !.until = until] \in Rule
      BY <2>1, Constants DEF Rule
    <3> QED
      BY <2>2, <3>1, EditTyped DEF Fade
  <2>3. ASSUME Expire(b) PROVE TypeOK'
    <3>1. [rules[b] EXCEPT !.status = "expired", !.until = now] \in Rule
      BY <2>1 DEF Rule
    <3> QED
      BY <2>3, <3>1, EditTyped DEF Expire
  <2>4. ASSUME Restore(b) PROVE TypeOK'
    <3>1. [rules[b] EXCEPT !.status = "active", !.until = None] \in Rule
      BY <2>1 DEF Rule
    <3> QED
      BY <2>4, <3>1, EditTyped DEF Restore
  <2>5. ASSUME RaiseAmount(b) PROVE TypeOK'
    <3>1. [rules[b] EXCEPT !.amount = @ + 1] \in Rule
      BY <2>1 DEF Rule
    <3> QED
      BY <2>5, <3>1, EditTyped DEF RaiseAmount
  <2> QED
    BY <1>3, <2>2, <2>3, <2>4, <2>5
<1>4. ASSUME NEW b \in DOMAIN rules, DeleteBadge(b) PROVE TypeOK'
  <2>1. rules' \in [DOMAIN rules' -> Rule] /\ DOMAIN rules' \subseteq Badges
    BY <1>4 DEF DeleteBadge, TypeOK
  <2> QED
    BY <1>4, <2>1 DEF DeleteBadge, TypeOK, Profile
<1>5. ASSUME Tick PROVE TypeOK'
  <2>1. now' \in Instants /\ now' > now
    BY <1>5 DEF Tick
  <2>2. \A k \in DOMAIN log : log[k].at <= now' + Ahead
    <3>1. \A k \in DOMAIN log : log[k].at \in Nat /\ log[k].at <= now + Ahead
      <4>1. \A k \in DOMAIN log : log[k] \in Entry /\ log[k].at <= now + Ahead
        BY DEF TypeOK
      <4> QED
        BY <4>1, Constants DEF Entry
    <3> QED
      BY <2>1, <3>1, Constants DEF TypeOK
  <2> QED
    BY <1>5, <2>1, <2>2 DEF Tick, TypeOK, Profile
<1>6. ASSUME UNCHANGED vars PROVE TypeOK'
  BY <1>6 DEF vars, TypeOK, Profile
<1>7. ASSUME NEW new \in SUBSET Kinds, SetTypes(new) PROVE TypeOK'
  BY <1>7 DEF SetTypes, TypeOK, Profile
<1> QED
  BY <1>1, <1>2, <1>3, <1>4, <1>5, <1>6, <1>7 DEF Next

\* Every state is typed: points stay numbers, awards badges, the board rows of members
\* (Community.TypeOK).
THEOREM CommunityTyped == Spec => []TypeOK
<1>1. Init => TypeOK
  BY InitTyped
<1>2. TypeOK /\ [Next]_vars => TypeOK'
  BY StepTyped
<1> QED
  BY <1>1, <1>2, PTL DEF Spec

-----------------------------------------------------------------------------
(* The books. *)

\* What check-ins earned, as a sum.
LEMMA PointsAre ==
    ASSUME NEW lg, NEW S, IsFiniteSet(S)
    PROVE  PointsOf(lg, S) = SumFunctionOnSet([k \in S |-> lg[k].points], S)
<1> DEFINE w == [k \in S |-> lg[k].points]
<1>1. DOMAIN w = S /\ PointsOf(lg, S) = SumFunction(w)
  BY DEF PointsOf
<1> HIDE DEF w
<1>2. PointsOf(lg, S) = SumFunctionOnSet(w, S)
  BY <1>1, SumOf
<1> QED
  BY <1>2 DEF w

\* The same check-ins earned the same in a longer log.
LEMMA PointsStay ==
    ASSUME NEW lg, NEW lh, NEW S, IsFiniteSet(S), \A k \in S : lh[k] = lg[k]
    PROVE  PointsOf(lh, S) = PointsOf(lg, S)
<1> DEFINE w == [k \in S |-> lg[k].points]
           x == [k \in S |-> lh[k].points]
<1>1. \A k \in S : w[k] = x[k]
  OBVIOUS
<1>2. PointsOf(lh, S) = SumFunctionOnSet(x, S) /\ PointsOf(lg, S) = SumFunctionOnSet(w, S)
  BY PointsAre
<1> HIDE DEF w, x
<1> QED
  BY <1>1, <1>2, SumExt

\* One more earned as much more.
LEMMA PointsGrow ==
    ASSUME NEW lg, NEW lh, NEW S, IsFiniteSet(S), \A k \in S : lh[k] = lg[k] /\ lg[k].points \in Nat,
           NEW n, n \notin S, lh[n].points \in Nat
    PROVE  PointsOf(lh, S \cup {n}) = PointsOf(lg, S) + lh[n].points
<1> DEFINE T == S \cup {n}
           x == [k \in T |-> lh[k].points]
           w == [k \in S |-> lg[k].points]
<1>1. IsFiniteSet(T)
  BY FS_AddElement
<1>2. /\ \A k \in T : x[k] \in Int
      /\ x[n] = lh[n].points /\ \A k \in S : x[k] = w[k]
  OBVIOUS
<1>3. PointsOf(lh, T) = SumFunctionOnSet(x, T) /\ PointsOf(lg, S) = SumFunctionOnSet(w, S)
  <2> HIDE DEF T
  <2> QED
    BY <1>1, PointsAre
<1> HIDE DEF x, w
<1>4. SumFunctionOnSet(x, S \cup {n}) = SumFunctionOnSet(x, S) + x[n]
  BY <1>2, SumAdd
<1>5. SumFunctionOnSet(x, S) = SumFunctionOnSet(w, S)
  BY <1>2, SumExt
<1> QED
  BY <1>2, <1>3, <1>4, <1>5

\* The check-ins whose profile update landed.
Credited(u) == {k \in DOMAIN log : log[k].who = u /\ log[k].landed >= 4}

\* ProfilesAddUp, member by member.
LEMMA AddUpMeans ==
    ProfilesAddUp <=>
      \A u \in Users :
         /\ profiles[u].points = PointsOf(log, Credited(u))
         /\ profiles[u].badges = UNION {log[k].badges : k \in Credited(u)}
         /\ \A j, k \in Credited(u) : j # k => log[j].badges \cap log[k].badges = {}
<1>1. Write.user = 4
  BY WritesAre
<1>2. \A u : Credited(u) = {k \in DOMAIN log : log[k].who = u /\ log[k].landed >= Write.user}
  BY <1>1 DEF Credited
<1> QED
  BY <1>2 DEF ProfilesAddUp, PointsOf

\* The log is a finite sequence of check-ins.
LEMMA LogIsFinite ==
    ASSUME TypeOK
    PROVE  /\ IsFiniteSet(DOMAIN log) /\ DOMAIN log = 1..Len(log) /\ Len(log) \in Nat
           /\ \A k \in DOMAIN log : log[k] \in Entry
<1>1. log \in Seq(Entry)
  BY DEF TypeOK
<1>2. Len(log) \in Nat /\ DOMAIN log = 1..Len(log) /\ \A k \in DOMAIN log : log[k] \in Entry
  BY <1>1
<1> QED
  BY <1>2, FS_Interval

\* A check-in keeps the books in agreement.
LEMMA CheckinAddsUp ==
    ASSUME TypeOK, ProfilesAddUp, NEW v \in Visits, NEW at \in Instants, NEW landed \in Range(Write),
           Checkin(v, at, landed)
    PROVE  ProfilesAddUp'
<1> DEFINE n == Len(log) + 1
<1>1. landed \in 1..5
  BY WritesAre
<1>2. PICK c, points, won, tasks, after : Plays(v, at, landed, c, points, won, tasks, after)
  BY CheckinPlays
<1>3. points \in Nat /\ won \subseteq DOMAIN rules \ profiles[v.who].badges
  <2>1. points \in Nat
    BY <1>1, <1>2, PlaysTyped
  <2>2. won = NewBadges(c, rules, types, History(v.who), profiles[v.who].badges, now)
    BY <1>2 DEF Plays
  <2>3. NewBadges(c, rules, types, History(v.who), profiles[v.who].badges, now)
          \subseteq DOMAIN rules \ profiles[v.who].badges
    BY NewOnes
  <2> QED
    BY <2>1, <2>2, <2>3
<1> DEFINE e == Recorded(c, landed, points, won)
<1>4. c \in Entry /\ e \in Entry /\ c.who = v.who /\ v.who \in Users
  <2>1. c \in Entry
    BY <1>1, <1>2, PlaysTyped
  <2>2. e \in Entry
    BY <1>1, <1>2, PlaysTyped
  <2>3. c.who = v.who /\ v.who \in Users
    BY <1>2, Constants DEF Plays
  <2> QED
    BY <2>1, <2>2, <2>3
<1>5. c.landed = landed /\ log' = Append(log, e)
  BY <1>2 DEF Plays
<1>6. e.who = v.who /\ e.landed = landed /\ (landed # 1 => e.points = points /\ e.badges = won)
  BY <1>4, <1>5 DEF Entry, Recorded
<1> HIDE DEF e
<1>7. /\ DOMAIN log' = DOMAIN log \cup {n} /\ n \notin DOMAIN log
      /\ \A k \in DOMAIN log : log'[k] = log[k]
      /\ log'[n] = e
  BY <1>4, <1>5, LogGrows DEF TypeOK
<1> HIDE DEF n
<1>8. \A k \in DOMAIN log : log[k].points \in Nat
  BY LogIsFinite DEF Entry
<1>9. \A u : IsFiniteSet(Credited(u)) /\ Credited(u) \subseteq DOMAIN log
  BY LogIsFinite, FS_Subset DEF Credited
<1>10. \A u : u # v.who \/ landed < 4 => Credited(u)' = Credited(u)
  BY <1>1, <1>6, <1>7 DEF Credited
<1>11. landed >= 4 => Credited(v.who)' = Credited(v.who) \cup {n}
  BY <1>1, <1>6, <1>7 DEF Credited
<1>12. SUFFICES ASSUME NEW u \in Users
                PROVE  /\ profiles'[u].points = PointsOf(log', Credited(u)')
                       /\ profiles'[u].badges = UNION {log'[k].badges : k \in Credited(u)'}
                       /\ \A j, k \in Credited(u)' : j # k => log'[j].badges \cap log'[k].badges = {}
  <2>1. (\A u \in Users :
           /\ profiles[u].points = PointsOf(log, Credited(u))
           /\ profiles[u].badges = UNION {log[k].badges : k \in Credited(u)}
           /\ \A j, k \in Credited(u) : j # k => log[j].badges \cap log[k].badges = {})' => ProfilesAddUp'
    BY AddUpMeans, PTL
  <2> QED
    BY <2>1
<1>13. /\ profiles[u].points = PointsOf(log, Credited(u))
       /\ profiles[u].badges = UNION {log[k].badges : k \in Credited(u)}
       /\ \A j, k \in Credited(u) : j # k => log[j].badges \cap log[k].badges = {}
  BY AddUpMeans
<1>14. profiles \in [Users -> Profile]
  BY DEF TypeOK
<1>15. \A k \in Credited(u) : log'[k] = log[k]
  BY <1>7, <1>9
<1>16. CASE u # v.who \/ landed < 4
  <2>1. Credited(u)' = Credited(u)
    BY <1>10, <1>16
  <2>2. profiles'[u].points = profiles[u].points /\ profiles'[u].badges = profiles[u].badges
    BY <1>1, <1>2, <1>4, <1>14, <1>16 DEF Plays
  <2>3. PointsOf(log', Credited(u)) = PointsOf(log, Credited(u))
    BY <1>9, <1>15, PointsStay
  <2>4. {log'[k].badges : k \in Credited(u)} = {log[k].badges : k \in Credited(u)}
    BY <1>15
  <2>5. \A j, k \in Credited(u) : j # k => log'[j].badges \cap log'[k].badges = {}
    BY <1>13, <1>15
  <2> QED
    BY <1>13, <2>1, <2>2, <2>3, <2>4, <2>5
<1>17. CASE u = v.who /\ landed >= 4
  <2>1. Credited(u)' = Credited(u) \cup {n}
    BY <1>11, <1>17
  <2>2. profiles' = after
    BY <1>1, <1>2, <1>17 DEF Plays
  <2>3. profiles'[u].points = profiles[u].points + points /\ profiles'[u].badges = profiles[u].badges \cup won
    BY <1>2, <1>4, <1>14, <1>17, <2>2 DEF Plays, Profile
  <2>4. e.points = points /\ e.badges = won
    BY <1>6, <1>17
  <2>5. PointsOf(log', Credited(u) \cup {n}) = PointsOf(log, Credited(u)) + points
    <3>1. n \notin Credited(u)
      BY <1>7, <1>9
    <3> QED
      BY <1>3, <1>7, <1>8, <1>9, <1>15, <2>4, <3>1, PointsGrow
  <2>6. UNION {log'[k].badges : k \in Credited(u) \cup {n}} = profiles[u].badges \cup won
    BY <1>7, <1>13, <1>15, <2>4
  <2>7. \A k \in Credited(u) : log[k].badges \subseteq profiles[u].badges
    BY <1>13
  <2>8. \A j, k \in Credited(u) \cup {n} : j # k => log'[j].badges \cap log'[k].badges = {}
    BY <1>3, <1>7, <1>13, <1>15, <1>17, <2>4, <2>7
  <2> QED
    BY <1>13, <2>1, <2>3, <2>5, <2>6, <2>8
<1> QED
  BY <1>1, <1>16, <1>17

\* No other step touches them.
LEMMA BooksUntouched ==
    ASSUME TypeOK, ProfilesAddUp, log' = log, profiles' \in [Users -> Profile]',
           \A u \in Users : profiles'[u].points = profiles[u].points /\ profiles'[u].badges = profiles[u].badges
    PROVE  ProfilesAddUp'
  BY WritesAre DEF ProfilesAddUp

\* Every step but a check-in leaves the log, the tasks and the board alone, and of a
\* profile all but its ratings.
LEMMA OtherSteps ==
    ASSUME TypeOK, [Next]_vars,
           \A v \in Visits, at \in Instants, landed \in Range(Write) : ~ Checkin(v, at, landed)
    PROVE  /\ log' = log /\ solved' = solved /\ board' = board /\ engines' = engines
           /\ \A u \in Users : /\ profiles'[u].points = profiles[u].points
                               /\ profiles'[u].badges = profiles[u].badges
                               /\ profiles'[u].tasks = profiles[u].tasks
<1> USE DEF TypeOK, Profile
<1>1. ASSUME NEW u \in Users, NEW k \in DOMAIN log, NEW s \in {1, 5}, Rate(u, k, s)
      PROVE  \A x \in Users : /\ profiles'[x].points = profiles[x].points
                              /\ profiles'[x].badges = profiles[x].badges
                              /\ profiles'[x].tasks = profiles[x].tasks
  BY <1>1 DEF Rate
<1>2. CASE \E u \in Users, k \in DOMAIN log, s \in {1, 5} : Rate(u, k, s)
  BY <1>1, <1>2 DEF Rate
<1>3. CASE \E b \in DOMAIN rules : \/ \E until \in Deadlines : Fade(b, until)
                                  \/ Expire(b) \/ Restore(b) \/ RaiseAmount(b) \/ DeleteBadge(b)
  BY <1>3 DEF Fade, Expire, Restore, RaiseAmount, DeleteBadge, Edit
<1>4. CASE Tick
  BY <1>4 DEF Tick
<1>5. CASE UNCHANGED vars
  BY <1>5 DEF vars
<1>6. CASE \E new \in SUBSET Kinds : SetTypes(new)
  BY <1>6 DEF SetTypes
<1> QED
  BY <1>2, <1>3, <1>4, <1>5, <1>6 DEF Next

\* The board of a check-in.
LEMMA CheckinSorts ==
    ASSUME TypeOK, BoardSorted, NEW v \in Visits, NEW at \in Instants, NEW landed \in Range(Write),
           Checkin(v, at, landed)
    PROVE  BoardSorted'
<1>1. landed \in 1..5
  BY WritesAre
<1>2. PICK c, points, won, tasks, after : Plays(v, at, landed, c, points, won, tasks, after)
  BY CheckinPlays
<1>3. engines' = engines
  BY <1>2 DEF Plays
<1>4. CASE landed # 5
  <2>1. board' = board
    BY <1>2, <1>4 DEF Plays
  <2> QED
    BY <1>3, <2>1 DEF BoardSorted
<1>5. CASE landed = 5
  <2> DEFINE b == Board(engines.board, profiles, after)
             own == v.who
  <2>1. board' = b
    BY <1>2, <1>5 DEF Plays
  <2>2. Standing(profiles) /\ Standing(after)
    <3>1. after \in [Users -> ProfileOver(solved \cup tasks)]
      BY <1>1, <1>2, PlaysTyped
    <3> QED
      BY <3>1, TypedMembers DEF Standing, ProfileOver
  <2>3. \A u \in Users : u # own => after[u].badges = profiles[u].badges
    <3>1. profiles \in [Users -> Profile] /\ own \in Users
      BY Constants DEF TypeOK
    <3> QED
      BY <1>2, <3>1 DEF Plays
  <2>4. /\ b \in Seq(Row) /\ DOMAIN b = 1..Len(b) /\ Len(b) \in Nat
        /\ \A i \in DOMAIN b : /\ b[i].id \in Users
                               /\ b[i] = [id |-> b[i].id, points |-> after[b[i].id].points,
                                          known |-> Cardinality(profiles[b[i].id].badges),
                                          badges |-> after[b[i].id].badges]
        /\ \A i, j \in DOMAIN b : b[i].id = b[j].id => i = j
        /\ \A i, j \in DOMAIN b : i < j => Before(engines.board, b[i], b[j])
    BY <2>2, BoardIs
  <2>5. \A i \in DOMAIN b : b[i].id # own => b[i].known = Cardinality(b[i].badges)
    <3> HIDE DEF b
    <3> SUFFICES ASSUME NEW i \in DOMAIN b, b[i].id # own PROVE b[i].known = Cardinality(b[i].badges)
      OBVIOUS
    <3> DEFINE r == b[i]
               m == b[i].id
    <3>1. m \in Users /\ r = [id |-> m, points |-> after[m].points,
                              known |-> Cardinality(profiles[m].badges), badges |-> after[m].badges]
      BY <2>4
    <3> HIDE DEF m
    <3>2. r.known = Cardinality(profiles[m].badges) /\ r.badges = after[m].badges
      BY <3>1
    <3>3. after[m].badges = profiles[m].badges
      BY <2>3, <3>1 DEF m
    <3> QED
      BY <3>2, <3>3
  <2>6. \A i \in DOMAIN b : b[i].points \in Nat /\ b[i].known \in Nat
    <3> HIDE DEF b
    <3>1. \A i \in DOMAIN b : b[i] \in Row
      BY <2>4
    <3> QED
      BY <3>1 DEF Row
  <2>7. /\ \A i, j \in DOMAIN b : b[i].id = b[j].id => i = j
        /\ \A i, j \in DOMAIN b : i < j => Before(engines.board, b[i], b[j])
        /\ b # <<>> => \E i \in DOMAIN b : TRUE
    BY <2>4
  <2> HIDE DEF b, own
  <2>8. CASE engines.board = "pointsFirst"
    <3>1. \A i, j \in DOMAIN b : i < j => ~ (b[i].points < b[j].points)
      BY <2>6, <2>7, <2>8 DEF Before
    <3> QED
      BY <1>3, <2>1, <2>8, <3>1 DEF BoardSorted
  <2>9. CASE engines.board = "badgesFirst" /\ b # <<>>
    <3>1. PICK i \in DOMAIN b : \A j \in DOMAIN b \ {i} : b[j].id # own
      BY <2>7, <2>9
    <3>2. \A j, k \in DOMAIN b \ {i} : j < k =>
             /\ Cardinality(b[j].badges) >= Cardinality(b[k].badges)
             /\ Cardinality(b[j].badges) = Cardinality(b[k].badges) => b[j].points >= b[k].points
      <4> SUFFICES ASSUME NEW j \in DOMAIN b \ {i}, NEW k \in DOMAIN b \ {i}, j < k
                   PROVE  /\ Cardinality(b[j].badges) >= Cardinality(b[k].badges)
                          /\ Cardinality(b[j].badges) = Cardinality(b[k].badges) => b[j].points >= b[k].points
        OBVIOUS
      <4>1. Before(engines.board, b[j], b[k])
        BY <2>7
      <4>2. b[j].known = Cardinality(b[j].badges) /\ b[k].known = Cardinality(b[k].badges)
        BY <2>5, <3>1
      <4> QED
        BY <2>6, <2>9, <4>1, <4>2 DEF Before
    <3>3. \A j \in DOMAIN b \ {i} : b[j].points \in Nat /\ Cardinality(b[j].badges) \in Nat
      BY <2>5, <2>6, <3>1
    <3> DEFINE num(j) == Cardinality(b[j].badges)
    <3>4. \A j, k \in DOMAIN b \ {i} : j < k =>
             ~ (IF num(j) # num(k) THEN num(j) < num(k) ELSE b[j].points < b[k].points)
      <4>1. \A j, k \in DOMAIN b \ {i} : j < k =>
             num(j) >= num(k) /\ (num(j) = num(k) => b[j].points >= b[k].points)
        BY <3>2
      <4>2. \A j \in DOMAIN b \ {i} : b[j].points \in Nat /\ num(j) \in Nat
        BY <3>3
      <4> HIDE DEF num
      <4> QED
        BY <4>1, <4>2
    <3>5. engines'.board = "badgesFirst" /\ board' = b
      BY <1>3, <2>1, <2>9
    <3>6. \A j, k \in DOMAIN b \ {i} : j < k =>
             ~ (IF engines'.board = "badgesFirst" /\ num(j) # num(k) THEN num(j) < num(k)
                ELSE /\ engines'.board = "badgesFirst" => num(j) = num(k)
                     /\ b[j].points < b[k].points)
      <4> HIDE DEF num
      <4> QED
        BY <3>4, <3>5
    <3> QED
      BY <2>9, <3>5, <3>6 DEF BoardSorted
  <2>10. engines.board = "pointsFirst" \/ engines.board = "badgesFirst"
    BY DEF TypeOK, Engines
  <2>11. CASE engines.board = "badgesFirst" /\ b = <<>>
    BY <1>3, <2>1, <2>11 DEF BoardSorted
  <2> QED
    BY <2>8, <2>9, <2>10, <2>11
<1> QED
  BY <1>4, <1>5

\* The books agree before anything is played.
LEMMA InitAgrees == Init => BooksAgree
<1> SUFFICES ASSUME Init PROVE BooksAgree
  OBVIOUS
<1>1. DOMAIN log = {} /\ DOMAIN board = {} /\ board = <<>>
  BY DEF Init
<1>2. \A u : Credited(u) = {}
  BY <1>1 DEF Credited
<1>3. PointsOf(log, {}) = 0
  BY PointsAre, FS_EmptySet, SumEmpty
<1>4. ProfilesAddUp
  BY <1>2, <1>3, AddUpMeans DEF Init
<1>5. BoardSorted
  BY <1>1 DEF BoardSorted
<1> QED
  BY <1>4, <1>5 DEF BooksAgree

\* Every step keeps the books in agreement.
LEMMA StepAgrees == TypeOK /\ BooksAgree /\ [Next]_vars => BooksAgree'
<1> SUFFICES ASSUME TypeOK, BooksAgree, [Next]_vars PROVE BooksAgree'
  OBVIOUS
<1>1. CASE \E v \in Visits, at \in Instants, landed \in Range(Write) : Checkin(v, at, landed)
  BY <1>1, CheckinAddsUp, CheckinSorts DEF BooksAgree
<1>2. CASE \A v \in Visits, at \in Instants, landed \in Range(Write) : ~ Checkin(v, at, landed)
  <2>1. /\ log' = log /\ board' = board /\ engines' = engines
        /\ \A u \in Users : /\ profiles'[u].points = profiles[u].points
                            /\ profiles'[u].badges = profiles[u].badges
    BY <1>2, OtherSteps
  <2>2. ProfilesAddUp'
    BY <2>1 DEF ProfilesAddUp, BooksAgree
  <2>3. BoardSorted'
    BY <2>1 DEF BoardSorted, BooksAgree
  <2> QED
    BY <2>2, <2>3 DEF BooksAgree
<1> QED
  BY <1>1, <1>2

\* Profiles hold what the moves of completed creations gave, each badge once, and the
\* board is sorted but for the author's row (Community.BooksAgree).
THEOREM BooksAlwaysAgree == Spec => []BooksAgree
<1>1. Init => TypeOK /\ BooksAgree
  BY InitTyped, InitAgrees
<1>2. (TypeOK /\ BooksAgree) /\ [Next]_vars => (TypeOK /\ BooksAgree)'
  BY StepTyped, StepAgrees
<1> QED
  BY <1>1, <1>2, PTL DEF Spec

-----------------------------------------------------------------------------
(* What is paid. *)

\* A rule that lists a task matches the check-ins the task accepts.
LEMMA ListedIsLess ==
    ASSUME NEW c, NEW t, Accepts(t, c), c.task # None
    PROVE  ListedPoints(t) <= BasicPoints(c)
<1> DEFINE Matches(r) == /\ r.type \in {TaskOf[t].type, AnyKind}
                         /\ r.area \in {TaskOf[t].area, AnyKind}
                         /\ r.interval \in {TaskOf[t].interval, AnyKind}
           L == {x \in PointRules : Matches(x)}
           B == {x \in PointRules : MatchesRule(c, x)}
           w == [r \in PointRules |-> r.score]
<1>1. L \in SUBSET B /\ B \in SUBSET PointRules /\ L \in SUBSET PointRules
  BY DEF Accepts, MatchesRule
<1>2. ListedPoints(t) = SumFunction([r \in L |-> r.score])
  BY DEF ListedPoints
<1>3. BasicPoints(c) = SumFunction([r \in B |-> r.score])
  BY DEF BasicPoints
<1> HIDE DEF L, B
<1>4. \A r \in PointRules : w[r] \in Nat
  BY Constants
<1>5. ListedPoints(t) = SumFunctionOnSet(w, L) /\ BasicPoints(c) = SumFunctionOnSet(w, B) /\ IsFiniteSet(B)
  BY <1>1, <1>2, <1>3, ScoresAdd
<1> HIDE DEF w
<1> QED
  BY <1>1, <1>4, <1>5, SumMono

\* The check-in a step awarded, and what it was paid by.
LEMMA AwardingPlays ==
    ASSUME TypeOK, [Next]_vars, Awarding
    PROVE  \E v \in Visits, at \in Instants, landed \in 2..5 :
              \E c, points, won, tasks, after :
                 /\ Plays(v, at, landed, c, points, won, tasks, after)
                 /\ c \in Entry /\ c.who \in Users
                 /\ Latest = [c EXCEPT !.points = points, !.badges = won]
                 /\ Len(log') = Len(log) + 1 /\ log' = Append(log, Latest)
<1>1. Len(log) \in Nat
  BY LogIsFinite
<1>2. PICK v \in Visits, at \in Instants, landed \in Range(Write) : Checkin(v, at, landed)
  <2> SUFFICES ASSUME \A v \in Visits, at \in Instants, landed \in Range(Write) : ~ Checkin(v, at, landed)
               PROVE  FALSE
    OBVIOUS
  <2>1. log' = log
    BY OtherSteps
  <2> QED
    BY <1>1, <2>1 DEF Awarding
<1>3. landed \in 1..5
  BY WritesAre
<1>4. PICK c, points, won, tasks, after : Plays(v, at, landed, c, points, won, tasks, after)
  BY <1>2, CheckinPlays
<1> DEFINE e == Recorded(c, landed, points, won)
<1>5. e \in Entry
  BY <1>3, <1>4, PlaysTyped
<1>6. c \in Entry
  BY <1>3, <1>4, PlaysTyped
<1>7. log' = Append(log, e) /\ c.who = v.who /\ c.landed = landed /\ v.who \in Users
  BY <1>4, Constants DEF Plays
<1>8. e.landed = landed /\ (landed # 1 => e = [c EXCEPT !.points = points, !.badges = won])
  BY <1>6, <1>7 DEF Entry, Recorded
<1> HIDE DEF e
<1>9. Len(log') = Len(log) + 1 /\ log'[Len(log) + 1] = e
  BY <1>5, <1>7, LogGrows DEF TypeOK
<1>10. Latest = e
  BY <1>9 DEF Latest
<1>11. landed \in 2..5
  <2>1. landed >= 2
    BY <1>8, <1>9, <1>10, WritesAre DEF Awarding, Latest
  <2> QED
    BY <1>3, <2>1
<1>12. Latest = [c EXCEPT !.points = points, !.badges = won] /\ log' = Append(log, Latest)
  BY <1>7, <1>8, <1>10, <1>11
<1> QED
  BY <1>4, <1>6, <1>7, <1>9, <1>11, <1>12

\* The step of each property.
LEMMA StepPays ==
    ASSUME TypeOK, [Next]_vars, Awarding
    PROVE  /\ LET base == BasicPoints(Latest)
                  me   == profiles[Latest.who]
              IN  /\ base <= Latest.points /\ Latest.points <= 2 * base
                  /\ Latest.points > base => /\ me.tasks # {}
                                             /\ \E u \in Users : profiles[u].points > me.points
           /\ Latest.task # None => Latest.points >= ListedPoints(Latest.task)
<1>1. PICK v \in Visits, at \in Instants, landed \in 2..5 :
              \E c, points, won, tasks, after :
                 /\ Plays(v, at, landed, c, points, won, tasks, after)
                 /\ c \in Entry /\ c.who \in Users
                 /\ Latest = [c EXCEPT !.points = points, !.badges = won]
                 /\ Len(log') = Len(log) + 1 /\ log' = Append(log, Latest)
  BY AwardingPlays
<1>2. PICK c, points, won, tasks, after :
                 /\ Plays(v, at, landed, c, points, won, tasks, after)
                 /\ c \in Entry /\ c.who \in Users
                 /\ Latest = [c EXCEPT !.points = points, !.badges = won]
  BY <1>1
<1> DEFINE e == Latest
<1>3. /\ e.points = points /\ e.who = c.who /\ e.task = c.task /\ e.type = c.type
      /\ e.spot = c.spot /\ e.at = c.at
  BY <1>2 DEF Entry
<1> HIDE DEF e
<1>4. points \in Points(engines.points, c, profiles)
  BY <1>2 DEF Plays
<1>5. Members(profiles)
  BY TypedMembers
<1>6. /\ points \in Nat /\ BasicPoints(c) <= points /\ points <= 2 * BasicPoints(c)
      /\ points > BasicPoints(c) => /\ profiles[c.who].tasks # {}
                                    /\ \E u \in Users : profiles[u].points > profiles[c.who].points
  BY <1>2, <1>4, <1>5, PaidIsNat
<1>7. BasicPoints(e) = BasicPoints(c)
  <2>1. \A r : MatchesRule(e, r) <=> MatchesRule(c, r)
    BY <1>3 DEF MatchesRule
  <2>2. {x \in PointRules : MatchesRule(e, x)} = {x \in PointRules : MatchesRule(c, x)}
    BY <2>1
  <2> QED
    BY <2>2 DEF BasicPoints
<1>8. c.task # None => Accepts(c.task, c)
  <2>1. landed \in 1..5
    OBVIOUS
  <2> QED
    BY <1>2, <2>1, PlaysTyped
<1>9. e.task # None => e.points >= ListedPoints(e.task)
  <2> SUFFICES ASSUME e.task # None PROVE ListedPoints(c.task) <= points
    <3>1. ListedPoints(c.task) \in Nat
      <4> DEFINE Matches(r) == /\ r.type \in {TaskOf[c.task].type, AnyKind}
                               /\ r.area \in {TaskOf[c.task].area, AnyKind}
                               /\ r.interval \in {TaskOf[c.task].interval, AnyKind}
                 L == {x \in PointRules : Matches(x)}
      <4>1. ListedPoints(c.task) = SumFunction([r \in L |-> r.score]) /\ L \in SUBSET PointRules
        BY DEF ListedPoints
      <4> HIDE DEF L
      <4> QED
        BY <4>1, ScoresAdd
    <3> QED
      BY <1>3, <1>6, <3>1
  <2>1. ListedPoints(c.task) <= BasicPoints(c)
    BY <1>3, <1>8, ListedIsLess
  <2>2. ListedPoints(c.task) \in Nat /\ BasicPoints(c) \in Nat
    <4> DEFINE Matches(r) == /\ r.type \in {TaskOf[c.task].type, AnyKind}
                             /\ r.area \in {TaskOf[c.task].area, AnyKind}
                             /\ r.interval \in {TaskOf[c.task].interval, AnyKind}
               L == {x \in PointRules : Matches(x)}
    <4>1. ListedPoints(c.task) = SumFunction([r \in L |-> r.score]) /\ L \in SUBSET PointRules
      BY DEF ListedPoints
    <4> HIDE DEF L
    <4> QED
      BY <4>1, ScoresAdd, BasicIsNat
  <2> QED
    BY <1>6, <2>1, <2>2
<1>10. /\ BasicPoints(e) <= e.points /\ e.points <= 2 * BasicPoints(e)
       /\ e.points > BasicPoints(e) => /\ profiles[e.who].tasks # {}
                                       /\ \E u \in Users : profiles[u].points > profiles[e.who].points
  BY <1>3, <1>6, <1>7
<1> QED
  BY <1>9, <1>10 DEF e

\* The elastic engine pays between the basic points and twice as many, more than them
\* only to who has contributed and is behind; and a check-in that solves a task earns
\* what the task was listed with (Community.PointsBounded).
THEOREM PaidInBounds == Spec => PointsBounded
<1>1. TypeOK /\ [Next]_vars =>
        [Awarding =>
          LET base == BasicPoints(Latest)
              me   == profiles[Latest.who]
          IN  /\ base <= Latest.points /\ Latest.points <= 2 * base
              /\ Latest.points > base => /\ me.tasks # {}
                                         /\ \E u \in Users : profiles[u].points > me.points]_vars
  BY StepPays
<1>2. TypeOK /\ [Next]_vars =>
        [Awarding /\ Latest.task # None => Latest.points >= ListedPoints(Latest.task)]_vars
  BY StepPays
<1>3. Spec => []TypeOK
  BY CommunityTyped
<1> QED
  BY <1>1, <1>2, <1>3, PTL DEF Spec, PointsBounded, ElasticBounded, ListedIsEarned

-----------------------------------------------------------------------------
(* Counts in parts. *)

\* Points add up part by part.
LEMMA PointsInParts ==
    ASSUME NEW lg, NEW S, IsFiniteSet(S), \A k \in S : lg[k].points \in Nat,
           NEW P, IsFiniteSet(P), NEW part, \A k \in S : part[k] \in P
    PROVE  SumFunction([p \in P |-> PointsOf(lg, {k \in S : part[k] = p})]) = PointsOf(lg, S)
<1> DEFINE In(p) == {k \in S : part[k] = p}
           w == [k \in S |-> lg[k].points]
           byPoints == [p \in P |-> PointsOf(lg, In(p))]
           bySum    == [p \in P |-> SumFunctionOnSet(w, In(p))]
<1>1. \A k \in S : w[k] \in Int
  OBVIOUS
<1>2. \A p \in P : byPoints[p] = bySum[p]
  <2> SUFFICES ASSUME NEW p \in P PROVE PointsOf(lg, In(p)) = SumFunctionOnSet(w, In(p))
    OBVIOUS
  <2> DEFINE T == In(p)
             x == [k \in T |-> lg[k].points]
  <2>1. IsFiniteSet(T)
    BY FS_Subset
  <2>2. \A k \in T : x[k] = w[k]
    OBVIOUS
  <2>3. PointsOf(lg, T) = SumFunctionOnSet(x, T)
    <3> HIDE DEF T
    <3> QED
      BY <2>1, PointsAre
  <2> HIDE DEF x, w, T
  <2> QED
    BY <2>1, <2>2, <2>3, SumExt DEF T
<1>3. SumFunctionOnSet(bySum, P) = SumFunctionOnSet(w, S)
  <2> HIDE DEF w
  <2> QED
    BY <1>1, SumParts
<1>4. PointsOf(lg, S) = SumFunctionOnSet(w, S)
  BY PointsAre
<1>5. DOMAIN byPoints = P
  OBVIOUS
<1> HIDE DEF byPoints, bySum, w
<1>6. SumFunction(byPoints) = SumFunctionOnSet(bySum, P)
  BY <1>2, <1>5, SumOf, SumExt
<1> QED
  BY <1>3, <1>4, <1>6 DEF byPoints

\* What check-ins won, as a sum.
LEMMA BadgesAre ==
    ASSUME NEW lg, NEW S, IsFiniteSet(S)
    PROVE  BadgesOf(lg, S) = SumFunctionOnSet([k \in S |-> Cardinality(lg[k].badges)], S)
<1> DEFINE w == [k \in S |-> Cardinality(lg[k].badges)]
<1>1. DOMAIN w = S /\ BadgesOf(lg, S) = SumFunction(w)
  BY DEF BadgesOf
<1> HIDE DEF w
<1>2. BadgesOf(lg, S) = SumFunctionOnSet(w, S)
  BY <1>1, SumOf
<1> QED
  BY <1>2 DEF w

\* Badges add up part by part.
LEMMA BadgesInParts ==
    ASSUME NEW lg, NEW S, IsFiniteSet(S), \A k \in S : Cardinality(lg[k].badges) \in Nat,
           NEW P, IsFiniteSet(P), NEW part, \A k \in S : part[k] \in P
    PROVE  SumFunction([p \in P |-> BadgesOf(lg, {k \in S : part[k] = p})]) = BadgesOf(lg, S)
<1> DEFINE In(p) == {k \in S : part[k] = p}
           w == [k \in S |-> Cardinality(lg[k].badges)]
           byBadges == [p \in P |-> BadgesOf(lg, In(p))]
           bySum    == [p \in P |-> SumFunctionOnSet(w, In(p))]
<1>1. \A k \in S : w[k] \in Int
  OBVIOUS
<1>2. \A p \in P : byBadges[p] = bySum[p]
  <2> SUFFICES ASSUME NEW p \in P PROVE BadgesOf(lg, In(p)) = SumFunctionOnSet(w, In(p))
    OBVIOUS
  <2> DEFINE T == In(p)
             x == [k \in T |-> Cardinality(lg[k].badges)]
  <2>1. IsFiniteSet(T)
    BY FS_Subset
  <2>2. \A k \in T : x[k] = w[k]
    OBVIOUS
  <2>3. BadgesOf(lg, T) = SumFunctionOnSet(x, T)
    <3> HIDE DEF T
    <3> QED
      BY <2>1, BadgesAre
  <2> HIDE DEF x, w, T
  <2> QED
    BY <2>1, <2>2, <2>3, SumExt DEF T
<1>3. SumFunctionOnSet(bySum, P) = SumFunctionOnSet(w, S)
  <2> HIDE DEF w
  <2> QED
    BY <1>1, SumParts
<1>4. BadgesOf(lg, S) = SumFunctionOnSet(w, S)
  BY BadgesAre
<1>5. DOMAIN byBadges = P
  OBVIOUS
<1> HIDE DEF byBadges, bySum, w
<1>6. SumFunction(byBadges) = SumFunctionOnSet(bySum, P)
  BY <1>2, <1>5, SumOf, SumExt
<1> QED
  BY <1>3, <1>4, <1>6 DEF byBadges

\* The badges of some check-ins are those of the ones that earned any.
LEMMA BadgesOfEarners ==
    ASSUME NEW lg, NEW S, IsFiniteSet(S), \A k \in S : Cardinality(lg[k].badges) \in Nat
    PROVE  BadgesOf(lg, {k \in S : lg[k].badges # {}}) = BadgesOf(lg, S)
<1> DEFINE T == {k \in S : lg[k].badges # {}}
           w == [k \in S |-> Cardinality(lg[k].badges)]
           x == [k \in T |-> Cardinality(lg[k].badges)]
<1>1. T \in SUBSET S /\ IsFiniteSet(T)
  BY FS_Subset
<1>2. \A k \in S : w[k] \in Int
  OBVIOUS
<1>3. \A k \in S \ T : w[k] = 0
  BY FS_EmptySet
<1>4. \A k \in T : x[k] = w[k]
  OBVIOUS
<1>5. BadgesOf(lg, S) = SumFunctionOnSet(w, S)
  BY BadgesAre
<1>6. BadgesOf(lg, T) = SumFunctionOnSet(x, T)
  <2> HIDE DEF T
  <2> QED
    BY <1>1, BadgesAre
<1> HIDE DEF T, w, x
<1> QED
  BY <1>1, <1>2, <1>3, <1>4, <1>5, <1>6, SumSupport, SumExt DEF T

\* Points of fewer check-ins are no more, and as many if the others earned none.
LEMMA PointsFewer ==
    ASSUME NEW lg, NEW S, IsFiniteSet(S), \A k \in S : lg[k].points \in Nat, NEW T \in SUBSET S
    PROVE  /\ PointsOf(lg, T) <= PointsOf(lg, S)
           /\ (\A k \in S \ T : lg[k].points = 0) => PointsOf(lg, T) = PointsOf(lg, S)
<1> DEFINE w == [k \in S |-> lg[k].points]
           x == [k \in T |-> lg[k].points]
<1>1. IsFiniteSet(T) /\ PointsOf(lg, S) = SumFunctionOnSet(w, S) /\ PointsOf(lg, T) = SumFunctionOnSet(x, T)
  BY FS_Subset, PointsAre
<1>2. \A k \in S : w[k] \in Nat /\ w[k] \in Int
  OBVIOUS
<1>3. \A k \in T : x[k] = w[k]
  OBVIOUS
<1>4. (\A k \in S \ T : lg[k].points = 0) => \A k \in S \ T : w[k] = 0
  OBVIOUS
<1> HIDE DEF w, x
<1>5. SumFunctionOnSet(x, T) = SumFunctionOnSet(w, T)
  BY <1>1, <1>3, SumExt
<1>6. SumFunctionOnSet(w, T) <= SumFunctionOnSet(w, S)
  BY <1>2, SumMono
<1>7. (\A k \in S \ T : w[k] = 0) => SumFunctionOnSet(w, T) = SumFunctionOnSet(w, S)
  BY <1>2, SumSupport
<1> QED
  BY <1>1, <1>4, <1>5, <1>6, <1>7

\* The check-ins of a typed log.
LEMMA LogEntries ==
    ASSUME TypeOK
    PROVE  /\ IsFiniteSet(DOMAIN log)
           /\ \A k \in DOMAIN log : /\ log[k] \in Entry
                                    /\ log[k].points \in Nat /\ Cardinality(log[k].badges) \in Nat
                                    /\ log[k].who \in Users
<1>1. \A k \in DOMAIN log : log[k] \in Entry
  BY LogIsFinite
<1>2. \A k \in DOMAIN log : log[k].badges \in SUBSET Badges /\ log[k].points \in Nat /\ log[k].who \in Users
  BY <1>1 DEF Entry
<1>3. \A k \in DOMAIN log : Cardinality(log[k].badges) \in Nat
  BY <1>2, Constants, FS_Subset, FS_CardinalityType
<1> QED
  BY <1>1, <1>2, <1>3, LogIsFinite

\* The periods of some check-ins.
LEMMA PeriodsAre ==
    ASSUME NEW S, IsFiniteSet(S), NEW g
    PROVE  LET P == Periods(log, S, g)
               part == [k \in S |-> Period(g, log[k].at)]
           IN  /\ IsFiniteSet(P) /\ \A k \in S : part[k] \in P
               /\ \A p : InPeriod(log, S, g, p) = {k \in S : part[k] = p}
<1> DEFINE part == [k \in S |-> Period(g, log[k].at)]
           P == Periods(log, S, g)
<1>1. P = {part[k] : k \in S}
  BY DEF Periods
<1>2. \A p : InPeriod(log, S, g, p) = {k \in S : part[k] = p}
  BY DEF InPeriod
<1>3. IsFiniteSet(P)
  <2> HIDE DEF part, P
  <2> QED
    BY <1>1, ImageIsFinite
<1> QED
  BY <1>1, <1>2, <1>3

\* Each series adds up to the summary.
LEMMA SeriesAddUp ==
    ASSUME TypeOK, NEW g, NEW from, NEW to
    PROVE  LET sum == Summary(log, Moved, from, to)
               paid == PointsOverTime(log, Moved, g, from, to)
           IN  /\ SumFunction(CheckinsOverTime(log, g, from, to)) = sum.checkins
               /\ SumFunction([p \in DOMAIN paid |-> paid[p].points]) = sum.points
               /\ SumFunction(BadgesOverTime(log, Moved, g, from, to)) = sum.badges
               /\ sum.users <= SumFunction(ActiveUsersOverTime(log, g, from, to))
<1> DEFINE S == Counted(log, from, to)
           M == MovedIn(log, Moved, from, to)
           E == {k \in M : log[k].badges # {}}
           part(X) == [k \in X |-> Period(g, log[k].at)]
           P(X) == Periods(log, X, g)
           paid == PointsOverTime(log, Moved, g, from, to)
<1>1. /\ S \subseteq DOMAIN log /\ M \subseteq DOMAIN log /\ E \subseteq DOMAIN log /\ E \subseteq M
      /\ IsFiniteSet(S) /\ IsFiniteSet(M) /\ IsFiniteSet(E)
  <2>1. S \subseteq DOMAIN log /\ M \subseteq S /\ E \subseteq M
    BY DEF Counted, MovedIn
  <2> QED
    BY <2>1, LogEntries, FS_Subset
<1>2. \A k \in DOMAIN log : log[k].points \in Nat /\ Cardinality(log[k].badges) \in Nat
  BY LogEntries
<1>3. Summary(log, Moved, from, to) =
        [checkins |-> Cardinality(S), users |-> Cardinality({log[k].who : k \in S}),
         rate |-> ContributionRate(log, from, to), badges |-> BadgesOf(log, M), points |-> PointsOf(log, M)]
  BY DEF Summary
<1>4. CheckinsOverTime(log, g, from, to) = [p \in P(S) |-> Cardinality(InPeriod(log, S, g, p))]
  BY DEF CheckinsOverTime
<1>5. paid = [p \in P(M) |-> [points |-> PointsOf(log, InPeriod(log, M, g, p)),
                              checkins |-> Cardinality(InPeriod(log, M, g, p))]]
  BY DEF PointsOverTime
<1>6. BadgesOverTime(log, Moved, g, from, to) = [p \in P(E) |-> BadgesOf(log, InPeriod(log, E, g, p))]
  BY DEF BadgesOverTime
<1>7. ActiveUsersOverTime(log, g, from, to)
        = [p \in P(S) |-> Cardinality({log[k].who : k \in InPeriod(log, S, g, p)})]
  BY DEF ActiveUsersOverTime
<1>8. [p \in DOMAIN paid |-> paid[p].points] = [p \in P(M) |-> PointsOf(log, InPeriod(log, M, g, p))]
  BY <1>5
<1>9. BadgesOf(log, E) = BadgesOf(log, M)
  <2> HIDE DEF M
  <2> QED
    BY <1>1, <1>2, BadgesOfEarners
<1> HIDE DEF S, M, E, paid
<1>10. SumFunction([p \in P(S) |-> Cardinality(InPeriod(log, S, g, p))]) = Cardinality(S)
  <2> DEFINE q == part(S)
  <2>1. /\ IsFiniteSet(P(S)) /\ \A k \in S : q[k] \in P(S)
        /\ \A p : InPeriod(log, S, g, p) = {k \in S : q[k] = p}
    BY <1>1, PeriodsAre
  <2> HIDE DEF q
  <2>2. SumFunction([p \in P(S) |-> Cardinality({k \in S : q[k] = p})]) = Cardinality(S)
    BY <1>1, <2>1, CountInParts
  <2> QED
    BY <2>1, <2>2
<1>11. SumFunction([p \in P(M) |-> PointsOf(log, InPeriod(log, M, g, p))]) = PointsOf(log, M)
  <2> DEFINE q == part(M)
  <2>1. /\ IsFiniteSet(P(M)) /\ \A k \in M : q[k] \in P(M)
        /\ \A p : InPeriod(log, M, g, p) = {k \in M : q[k] = p}
    BY <1>1, PeriodsAre
  <2> HIDE DEF q
  <2>2. \A k \in M : log[k].points \in Nat
    BY <1>1, <1>2
  <2>3. SumFunction([p \in P(M) |-> PointsOf(log, {k \in M : q[k] = p})]) = PointsOf(log, M)
    BY <1>1, <2>1, <2>2, PointsInParts
  <2> QED
    BY <2>1, <2>3
<1>12. SumFunction([p \in P(E) |-> BadgesOf(log, InPeriod(log, E, g, p))]) = BadgesOf(log, E)
  <2> DEFINE q == part(E)
  <2>1. /\ IsFiniteSet(P(E)) /\ \A k \in E : q[k] \in P(E)
        /\ \A p : InPeriod(log, E, g, p) = {k \in E : q[k] = p}
    BY <1>1, PeriodsAre
  <2> HIDE DEF q
  <2>2. \A k \in E : Cardinality(log[k].badges) \in Nat
    BY <1>1, <1>2
  <2>3. SumFunction([p \in P(E) |-> BadgesOf(log, {k \in E : q[k] = p})]) = BadgesOf(log, E)
    BY <1>1, <2>1, <2>2, BadgesInParts
  <2> QED
    BY <2>1, <2>3
<1>13. Cardinality({log[k].who : k \in S}) <=
          SumFunction([p \in P(S) |-> Cardinality({log[k].who : k \in InPeriod(log, S, g, p)})])
  <2> DEFINE at(p) == {log[k].who : k \in InPeriod(log, S, g, p)}
             p0 == P(S)
             here == [p \in p0 |-> at(p)]
             w == [p \in p0 |-> Cardinality(at(p))]
             q == part(S)
             T == {log[k].who : k \in S}
  <2>1. IsFiniteSet(p0) /\ (\A k \in S : q[k] \in p0) /\ \A p : InPeriod(log, S, g, p) = {k \in S : q[k] = p}
    BY <1>1, PeriodsAre
  <2> HIDE DEF p0, q
  <2>2. \A p \in p0 : at(p) \subseteq Users
    BY <1>1, <2>1, LogEntries
  <2>3. \A p \in p0 : IsFiniteSet(here[p]) /\ w[p] = Cardinality(here[p])
    BY <2>2, Constants, FS_Subset
  <2>4. \A t \in T : \E p \in p0 : t \in here[p]
    <3> SUFFICES ASSUME NEW k \in S PROVE log[k].who \in here[q[k]] /\ q[k] \in p0
      OBVIOUS
    <3> QED
      BY <2>1
  <2>5. DOMAIN w = p0
    OBVIOUS
  <2> HIDE DEF here, w, T
  <2>6. Cardinality(T) <= SumFunctionOnSet(w, p0)
    BY <2>1, <2>3, <2>4, UnionIsFewer
  <2>7. SumFunction(w) = SumFunctionOnSet(w, p0)
    BY <2>5, SumOf
  <2> QED
    BY <2>6, <2>7 DEF w, T, p0
<1> HIDE DEF P
<1> QED
  BY <1>3, <1>4, <1>6, <1>7, <1>8, <1>9, <1>10, <1>11, <1>12, <1>13 DEF paid

\* Over all time: the moves are at least the profiles.
LEMMA MovesCoverProfiles ==
    ASSUME TypeOK, ProfilesAddUp
    PROVE  Summary(log, Moved, None, None).points >= SumFunction([u \in Users |-> profiles[u].points])
<1> DEFINE M == MovedIn(log, Moved, None, None)
           C == {k \in DOMAIN log : log[k].landed >= 4}
           who == [k \in C |-> log[k].who]
           w == [u \in Users |-> profiles[u].points]
           x == [u \in Users |-> PointsOf(log, {k \in C : who[k] = u})]
<1>1. \A k \in DOMAIN log : log[k].points \in Nat /\ log[k].who \in Users /\ log[k].landed \in 1..5
  BY LogEntries DEF Entry
<1>2. M = {k \in DOMAIN log : log[k].landed >= 2}
  BY WritesAre DEF MovedIn, Counted, InRange, Moved
<1>3. C \in SUBSET M /\ M \in SUBSET DOMAIN log /\ IsFiniteSet(M) /\ IsFiniteSet(C)
  <2>1. C \in SUBSET M /\ M \in SUBSET DOMAIN log
    BY <1>1, <1>2
  <2> QED
    BY <2>1, LogEntries, FS_Subset
<1>4. \A k \in C : who[k] \in Users
  BY <1>1
<1>5. \A u \in Users : {k \in C : who[k] = u} = Credited(u)
  BY DEF Credited
<1>6. \A u \in Users : profiles[u].points = PointsOf(log, Credited(u))
  BY AddUpMeans
<1>7. w = x
  <2>1. \A u \in Users : profiles[u].points = PointsOf(log, {k \in C : who[k] = u})
    BY <1>5, <1>6
  <2> QED
    BY <2>1
<1>8. Summary(log, Moved, None, None).points = PointsOf(log, M)
  BY DEF Summary
<1> HIDE DEF who, C, M, w
<1>9. SumFunction(x) = PointsOf(log, C)
  BY <1>1, <1>3, <1>4, Constants, PointsInParts
<1>10. PointsOf(log, C) <= PointsOf(log, M)
  BY <1>1, <1>3, PointsFewer
<1>11. PointsOf(log, C) \in Int /\ PointsOf(log, M) \in Int
  <2>1. \A X \in {C, M} : PointsOf(log, X) \in Int
    <3> SUFFICES ASSUME NEW X \in {C, M} PROVE PointsOf(log, X) \in Int
      OBVIOUS
    <3> DEFINE y == [k \in X |-> log[k].points]
    <3>1. \A k \in X : y[k] \in Int
      BY <1>1, <1>3
    <3>2. PointsOf(log, X) = SumFunctionOnSet(y, X)
      BY <1>3, PointsAre
    <3> HIDE DEF y
    <3> QED
      BY <1>3, <3>1, <3>2, SumInt
  <2> QED
    BY <2>1
<1> HIDE DEF x
<1> QED
  BY <1>7, <1>8, <1>9, <1>10, <1>11 DEF w

\* The series and the totals agree in a typed state where the books do.
LEMMA TotalsDoAgree ==
    ASSUME TypeOK, ProfilesAddUp
    PROVE  TotalsAgree
<1>1. SUFFICES ASSUME NEW range \in Ranges
      PROVE  LET from == range[1]  to == range[2]
                 sum == Summary(log, Moved, from, to)
             IN  /\ \A g \in {"day", "week"} :
                      LET paid == PointsOverTime(log, Moved, g, from, to) IN
                      /\ SumFunction(CheckinsOverTime(log, g, from, to)) = sum.checkins
                      /\ SumFunction([p \in DOMAIN paid |-> paid[p].points]) = sum.points
                      /\ SumFunction(BadgesOverTime(log, Moved, g, from, to)) = sum.badges
                      /\ sum.users <= SumFunction(ActiveUsersOverTime(log, g, from, to))
                 /\ ByStrategy(log, Moved, from, to).points = sum.points
                 /\ sum.rate.total = sum.checkins
                 /\ range = <<None, None>> =>
                      sum.points >= SumFunction([u \in Users |-> profiles[u].points])
  BY DEF TotalsAgree
<1> DEFINE from == range[1]
           to == range[2]
           sum == Summary(log, Moved, from, to)
<1>2. \A g \in {"day", "week"} :
         LET paid == PointsOverTime(log, Moved, g, from, to) IN
         /\ SumFunction(CheckinsOverTime(log, g, from, to)) = sum.checkins
         /\ SumFunction([p \in DOMAIN paid |-> paid[p].points]) = sum.points
         /\ SumFunction(BadgesOverTime(log, Moved, g, from, to)) = sum.badges
         /\ sum.users <= SumFunction(ActiveUsersOverTime(log, g, from, to))
  BY SeriesAddUp
<1>3. ByStrategy(log, Moved, from, to).points = sum.points
  BY DEF ByStrategy, Summary, MovedIn
<1>4. sum.rate.total = sum.checkins
  BY DEF Summary, ContributionRate
<1>5. range = <<None, None>> => from = None /\ to = None
  OBVIOUS
<1>6. range = <<None, None>> => sum.points >= SumFunction([u \in Users |-> profiles[u].points])
  BY <1>5, MovesCoverProfiles
<1> QED
  BY <1>2, <1>3, <1>4, <1>6

\* The first area that holds a spot is one, on the list or "outside".
LEMMA FirstAreaIs ==
    ASSUME NEW c
    PROVE  /\ IsFiniteSet(Range(AreaOrder) \cup {"outside"})
           /\ \E a \in Range(AreaOrder) \cup {"outside"} : FirstArea(c) = {a}
<1> DEFINE hits == {a \in DOMAIN AreaOrder : c.spot \in Ground[AreaOrder[a]]}
<1>1. DOMAIN AreaOrder = 1..Len(AreaOrder) /\ Len(AreaOrder) \in Nat
  BY ReportsAssumption
<1>2. IsFiniteSet(DOMAIN AreaOrder) /\ DOMAIN AreaOrder \subseteq Int
  BY <1>1, FS_Interval
<1>3. IsFiniteSet(Range(AreaOrder) \cup {"outside"})
  <2> DEFINE T == {AreaOrder[a] : a \in DOMAIN AreaOrder}
  <2>1. IsFiniteSet(T)
    BY <1>2, ImageIsFinite
  <2>2. T = Range(AreaOrder)
    BY DEF Range
  <2> QED
    BY <2>1, <2>2, FS_AddElement
<1>4. CASE hits = {}
  <2>1. FirstArea(c) = {"outside"}
    BY <1>4 DEF FirstArea
  <2> QED
    BY <1>3, <2>1
<1>5. CASE hits # {}
  <2>1. hits \subseteq DOMAIN AreaOrder /\ IsFiniteSet(hits) /\ hits \in SUBSET Int
    BY <1>2, FS_Subset
  <2>2. FirstArea(c) = {AreaOrder[Min(hits)]}
    BY <1>5 DEF FirstArea
  <2>3. Min(hits) \in DOMAIN AreaOrder
    <3> HIDE DEF hits
    <3> QED
      BY <1>5, <2>1, MinIs
  <2>4. AreaOrder[Min(hits)] \in Range(AreaOrder)
    <3> HIDE DEF hits
    <3> QED
      BY <2>3 DEF Range
  <2> QED
    BY <1>3, <2>2, <2>4
<1> QED
  BY <1>4, <1>5

\* Where it is an area, when an interval, and the type: one each.
LEMMA GroupsDoPartition ==
    ASSUME TypeOK
    PROVE  GroupsPartition
<1> SUFFICES ASSUME NEW q \in Queries
             PROVE  LET stats == CommunityStats(log, Moved, q)
                        found == CommunityMatches(log, Moved, q)
                    IN  /\ SumFunction([a \in DOMAIN stats.byArea |-> stats.byArea[a].checkins])
                             = Cardinality(found)
                        /\ SumFunction([a \in DOMAIN stats.byArea |-> stats.byArea[a].points])
                             = SumFunction([k \in found |-> log[k].points])
                        /\ SumFunction(stats.byType) = Cardinality(found)
                        /\ SumFunction(stats.byInterval) = Cardinality(found)
  BY DEF GroupsPartition
<1> DEFINE stats == CommunityStats(log, Moved, q)
           found == CommunityMatches(log, Moved, q)
           moved == {k \in found : Moved[k]}
           areas == Range(AreaOrder) \cup {"outside"}
           InArea(a) == {k \in found : a \in FirstArea(log[k])}
           area == [k \in found |-> CHOOSE a : a \in FirstArea(log[k])]
           type == [k \in found |-> log[k].type]
           kinds == {type[k] : k \in found}
           interval == [k \in found |-> FirstInterval(log[k])]
           intervals == {interval[k] : k \in found}
<1>1. found \subseteq DOMAIN log /\ moved \subseteq found /\ IsFiniteSet(found) /\ IsFiniteSet(moved)
  <2>1. found \subseteq DOMAIN log /\ moved \subseteq found
    BY DEF CommunityMatches, StatsFilter
  <2> QED
    BY <2>1, LogEntries, FS_Subset
<1>2. \A k \in found : log[k].points \in Nat
  BY <1>1, LogEntries
<1>3. \A k \in found \ moved : log[k].points = 0
  <2>1. \A k \in DOMAIN log : log[k].landed \in 1..5 /\ (log[k].landed = 1 => log[k].points = 0)
    BY LogEntries, WritesAre DEF Entry, TypeOK
  <2>2. \A k \in DOMAIN log : Moved[k] <=> log[k].landed >= 2
    BY WritesAre DEF Moved
  <2> HIDE DEF found
  <2> QED
    BY <1>1, <2>1, <2>2
<1> DEFINE ofArea(a) == [checkins |-> Cardinality(InArea(a)),
                         points   |-> PointsOf(log, {k \in InArea(a) : Moved[k]}),
                         badges   |-> BadgesOf(log, {k \in InArea(a) : Moved[k]})]
           ofType(t) == Cardinality({k \in found : log[k].type = t})
           ofInterval(i) == Cardinality({k \in found : FirstInterval(log[k]) = i})
<1>4. /\ stats.byArea = [a \in areas |-> ofArea(a)]
      /\ stats.byType = [t \in {log[k].type : k \in found} |-> ofType(t)]
      /\ stats.byInterval = [i \in {FirstInterval(log[k]) : k \in found} |-> ofInterval(i)]
  BY DEF CommunityStats
<1> HIDE DEF stats, found
<1>5. \A k \in found : area[k] \in areas /\ FirstArea(log[k]) = {area[k]}
  BY FirstAreaIs
<1>6. \A a : InArea(a) = {k \in found : area[k] = a}
  <2> HIDE DEF area
  <2> QED
    BY <1>5
<1>7. \A a : {k \in InArea(a) : Moved[k]} = {k \in moved : area[k] = a}
  <2> HIDE DEF area
  <2> QED
    BY <1>6
<1>8. IsFiniteSet(areas)
  BY FirstAreaIs
<1> HIDE DEF area, InArea, areas, moved, ofArea, ofType, ofInterval
<1>9. /\ DOMAIN stats.byArea = areas
      /\ [a \in areas |-> stats.byArea[a].checkins] = [a \in areas |-> Cardinality({k \in found : area[k] = a})]
      /\ [a \in areas |-> stats.byArea[a].points] = [a \in areas |-> PointsOf(log, {k \in moved : area[k] = a})]
  <2>1. /\ DOMAIN stats.byArea = areas
        /\ \A a \in areas : /\ stats.byArea[a].checkins = Cardinality(InArea(a))
                            /\ stats.byArea[a].points = PointsOf(log, {k \in InArea(a) : Moved[k]})
    <3>1. DOMAIN stats.byArea = areas /\ \A a \in areas : stats.byArea[a] = ofArea(a)
      BY <1>4
    <3>2. \A a : /\ ofArea(a).checkins = Cardinality(InArea(a))
                 /\ ofArea(a).points = PointsOf(log, {k \in InArea(a) : Moved[k]})
      BY DEF ofArea
    <3> QED
      BY <3>1, <3>2
  <2>2. \A a : /\ Cardinality(InArea(a)) = Cardinality({k \in found : area[k] = a})
               /\ PointsOf(log, {k \in InArea(a) : Moved[k]}) = PointsOf(log, {k \in moved : area[k] = a})
    BY <1>6, <1>7
  <2>3. \A a \in areas : /\ stats.byArea[a].checkins = Cardinality({k \in found : area[k] = a})
                         /\ stats.byArea[a].points = PointsOf(log, {k \in moved : area[k] = a})
    BY <2>1, <2>2
  <2> QED
    BY <2>1, <2>3
<1>10. SumFunction([a \in areas |-> Cardinality({k \in found : area[k] = a})]) = Cardinality(found)
  BY <1>1, <1>5, <1>8, CountInParts
<1>11. SumFunction([a \in areas |-> PointsOf(log, {k \in moved : area[k] = a})]) = PointsOf(log, moved)
  <2>1. \A k \in moved : log[k].points \in Nat /\ area[k] \in areas
    BY <1>1, <1>2, <1>5
  <2> QED
    BY <1>1, <1>8, <2>1, PointsInParts
<1>12. PointsOf(log, moved) = PointsOf(log, found)
  BY <1>1, <1>2, <1>3, PointsFewer
<1>13. PointsOf(log, found) = SumFunction([k \in found |-> log[k].points])
  BY DEF PointsOf
<1>14. SumFunction(stats.byType) = Cardinality(found)
  <2>1. IsFiniteSet(kinds) /\ \A k \in found : type[k] \in kinds
    <3>1. \A k \in found : type[k] \in kinds
      OBVIOUS
    <3> HIDE DEF type
    <3> QED
      BY <1>1, <3>1, ImageIsFinite
  <2>2. stats.byType = [t \in kinds |-> Cardinality({k \in found : type[k] = t})]
    <3>1. kinds = {log[k].type : k \in found}
      OBVIOUS
    <3>2. \A t : ofType(t) = Cardinality({k \in found : type[k] = t})
      <4>1. \A t : {k \in found : log[k].type = t} = {k \in found : type[k] = t}
        OBVIOUS
      <4> HIDE DEF type
      <4> QED
        BY <4>1 DEF ofType
    <3> HIDE DEF kinds, type
    <3> QED
      BY <1>4, <3>1, <3>2
  <2> HIDE DEF kinds, type
  <2>3. SumFunction([t \in kinds |-> Cardinality({k \in found : type[k] = t})]) = Cardinality(found)
    BY <1>1, <2>1, CountInParts
  <2> QED
    BY <2>2, <2>3
<1>15. SumFunction(stats.byInterval) = Cardinality(found)
  <2>1. IsFiniteSet(intervals) /\ \A k \in found : interval[k] \in intervals
    <3>1. \A k \in found : interval[k] \in intervals
      OBVIOUS
    <3> HIDE DEF interval
    <3> QED
      BY <1>1, <3>1, ImageIsFinite
  <2>2. stats.byInterval = [t \in intervals |-> Cardinality({k \in found : interval[k] = t})]
    <3>1. intervals = {FirstInterval(log[k]) : k \in found}
      OBVIOUS
    <3>2. \A t : ofInterval(t) = Cardinality({k \in found : interval[k] = t})
      <4>1. \A t : {k \in found : FirstInterval(log[k]) = t} = {k \in found : interval[k] = t}
        OBVIOUS
      <4> HIDE DEF interval
      <4> QED
        BY <4>1 DEF ofInterval
    <3> HIDE DEF intervals, interval
    <3> QED
      BY <1>4, <3>1, <3>2
  <2> HIDE DEF intervals, interval
  <2>3. SumFunction([t \in intervals |-> Cardinality({k \in found : interval[k] = t})]) = Cardinality(found)
    BY <1>1, <2>1, CountInParts
  <2> QED
    BY <2>2, <2>3
<1> QED
  BY <1>9, <1>10, <1>11, <1>12, <1>13, <1>14, <1>15 DEF found, stats

\* Whatever the range, the period or the grouping, the series, the summary and the
\* statistics count the same check-ins, points and badges (Community.CountsAddUp).
THEOREM CountsAlwaysAddUp == Spec => []CountsAddUp
<1>1. TypeOK /\ BooksAgree => CountsAddUp
  BY TotalsDoAgree, GroupsDoPartition DEF BooksAgree, CountsAddUp
<1> QED
  BY <1>1, CommunityTyped, BooksAlwaysAgree, PTL

-----------------------------------------------------------------------------
(* The chain of rules. *)

\* The least set that holds held and is closed under the rules D, of which E are
\* fulfilled and prev[x] comes before x.
Least(D, held, E, prev) ==
    {b \in Badges : \A S \in SUBSET Badges :
        held \subseteq S /\ (\A x \in D : prev[x] \subseteq S \cap D /\ x \in E => x \in S) => b \in S}

\* It solves the recursion.
LEMMA LeastSolves ==
    ASSUME NEW D \in SUBSET Badges, NEW held \in SUBSET Badges, NEW E, NEW prev, NEW x \in D
    PROVE  (x \in Least(D, held, E, prev)) <=>
              (x \in held \/ ((\A p \in prev[x] : p \in D /\ p \in Least(D, held, E, prev)) /\ x \in E))
<1> DEFINE C == Least(D, held, E, prev)
           Closed(S) == \A y \in D : prev[y] \subseteq S \cap D /\ y \in E => y \in S
           Holds(y) == y \in held \/ (y \in D /\ prev[y] \subseteq C \cap D /\ y \in E)
<1>0. C = {b \in Badges : \A S \in SUBSET Badges : held \subseteq S /\ Closed(S) => b \in S}
  BY DEF Least
<1> HIDE DEF C
<1>1. C \in SUBSET Badges /\ held \subseteq C
  BY <1>0
<1>2. Closed(C)
  BY <1>0
<1>3. \A b \in C : Holds(b)
  <2> DEFINE S == {b \in C : Holds(b)}
  <2>1. S \in SUBSET Badges /\ held \subseteq S
    BY <1>1
  <2>2. Closed(S)
    BY <1>2
  <2>3. \A b \in C : b \in S
    <3> HIDE DEF S
    <3> QED
      BY <1>0, <2>1, <2>2
  <2> QED
    BY <2>3
<1>4. (x \in C) <=> (x \in held \/ ((\A p \in prev[x] : p \in D /\ p \in C) /\ x \in E))
  BY <1>1, <1>2, <1>3
<1> QED
  BY <1>4 DEF C

\* When the rules form a DAG, nothing else does: two solutions would differ first nowhere.
LEMMA LeastOnly ==
    ASSUME NEW D \in SUBSET Badges, NEW held \in SUBSET Badges, NEW E, NEW prev,
           \A S \in SUBSET D : S # {} => \E b \in S : prev[b] \cap S = {},
           NEW f, \A x \in D : f[x] <=> (x \in held \/ ((\A p \in prev[x] : p \in D /\ f[p]) /\ x \in E))
    PROVE  \A x \in D : f[x] <=> x \in Least(D, held, E, prev)
<1> DEFINE C == Least(D, held, E, prev)
           S == {x \in D : ~ (f[x] <=> x \in C)}
<1>1. \A x \in D : (x \in C) <=> (x \in held \/ ((\A p \in prev[x] : p \in D /\ p \in C) /\ x \in E))
  BY LeastSolves
<1> HIDE DEF C
<1> SUFFICES ASSUME S # {} PROVE FALSE
  BY DEF C
<1>2. PICK b \in S : prev[b] \cap S = {}
  OBVIOUS
<1>3. \A p \in prev[b] : p \in D => (f[p] <=> p \in C)
  BY <1>2
<1>4. (\A p \in prev[b] : p \in D /\ f[p]) <=> (\A p \in prev[b] : p \in D /\ p \in C)
  BY <1>3
<1>5. f[b] <=> b \in C
  BY <1>1, <1>4
<1> QED
  BY <1>5

\* Which rules a history fulfils by itself.
Fulfilled(rls, kinds, history) ==
    {x \in DOMAIN rls :
        Cardinality({k \in DOMAIN history : MatchesBadge(history[k], rls[x], kinds)})
            >= rls[x].amount}

\* isBadgeSatisfied is membership in that set.
LEMMA SatisfiedIs ==
    ASSUME NEW rls, DOMAIN rls \in SUBSET Badges, NEW kinds, NEW history, NEW held \in SUBSET Badges,
           \A S \in SUBSET DOMAIN rls : S # {} => \E b \in S : rls[b].prev \cap S = {},
           NEW b \in DOMAIN rls
    PROVE  IsBadgeSatisfied(b, rls, kinds, history, held)
              <=> b \in Least(DOMAIN rls, held, Fulfilled(rls, kinds, history),
                              [x \in DOMAIN rls |-> rls[x].prev])
<1> DEFINE D == DOMAIN rls
           E == Fulfilled(rls, kinds, history)
           prev == [x \in D |-> rls[x].prev]
           C == Least(D, held, E, prev)
           Enough(x) == Cardinality({k \in DOMAIN history : MatchesBadge(history[k], rls[x], kinds)})
                           >= rls[x].amount
           F(f) == [x \in D |-> x \in held \/ ((\A p \in rls[x].prev : p \in D /\ f[p]) /\ Enough(x))]
           least == [x \in D |-> x \in C]
           satisfied == CHOOSE f : f = F(f)
<1>1. IsBadgeSatisfied(b, rls, kinds, history, held) = satisfied[b]
  BY DEF IsBadgeSatisfied
<1>2. \A x \in D : x \in E <=> Enough(x)
  BY DEF Fulfilled
<1>3. \A x \in D : prev[x] = rls[x].prev
  OBVIOUS
<1>4. \A x \in D : (x \in C) <=> (x \in held \/ ((\A p \in prev[x] : p \in D /\ p \in C) /\ x \in E))
  <2> HIDE DEF E, prev
  <2> QED
    BY LeastSolves
<1>5. \A x \in D : least[x] <=> x \in C
  OBVIOUS
<1> HIDE DEF C, E, prev, Enough
<1>6. least = F(least)
  <2>1. \A x \in D : (x \in C) = (x \in held \/ ((\A p \in rls[x].prev : p \in D /\ least[p]) /\ Enough(x)))
    <3> HIDE DEF least
    <3> SUFFICES ASSUME NEW x \in D
                 PROVE  (x \in C) = (x \in held \/ ((\A p \in rls[x].prev : p \in D /\ least[p]) /\ Enough(x)))
      OBVIOUS
    <3> DEFINE l == x \in C
               r == x \in held \/ ((\A p \in rls[x].prev : p \in D /\ least[p]) /\ Enough(x))
    <3>1. (\A p \in rls[x].prev : p \in D /\ least[p]) <=> (\A p \in prev[x] : p \in D /\ p \in C)
      BY <1>3, <1>5
    <3>2. l \in BOOLEAN /\ r \in BOOLEAN /\ (l <=> r)
      BY <1>2, <1>4, <3>1
    <3> HIDE DEF l, r
    <3>3. l = r
      BY <3>2
    <3> QED
      BY <3>3 DEF l, r
  <2>2. [x \in D |-> x \in C] = F(least)
    <3> HIDE DEF least
    <3> QED
      BY <2>1, Zenon
  <2> QED
    BY <2>2, Zenon
<1>7. satisfied = F(satisfied)
  <2>1. \E f : f = F(f)
    <3> HIDE DEF least
    <3> QED
      BY <1>6
  <2> HIDE DEF F
  <2> QED
    BY <2>1
<1> HIDE DEF satisfied
<1>8. \A x \in D : satisfied[x] <=> (x \in held \/ ((\A p \in prev[x] : p \in D /\ satisfied[p]) /\ x \in E))
  <2>1. \A x \in D : satisfied[x] <=> (x \in held \/ ((\A p \in rls[x].prev : p \in D /\ satisfied[p]) /\ Enough(x)))
    BY <1>7
  <2> QED
    BY <1>2, <1>3, <2>1
<1>9. \A S \in SUBSET D : S # {} => \E y \in S : prev[y] \cap S = {}
  BY <1>3
<1>10. satisfied[b] <=> b \in C
  BY <1>8, <1>9, LeastOnly DEF C
<1> QED
  BY <1>1, <1>10 DEF C, E, prev

\* An admin's edits leave the chain as it was, but for the rules deleted.
ChainKept == /\ DOMAIN rules \subseteq DOMAIN FirstRules
             /\ \A b \in DOMAIN rules : rules[b].prev = FirstRules[b].prev

\* Every step keeps the chain of rules.
LEMMA StepKeepsChain == TypeOK /\ ChainKept /\ [Next]_vars => ChainKept'
<1> SUFFICES ASSUME TypeOK, ChainKept, [Next]_vars PROVE ChainKept'
  OBVIOUS
<1> DEFINE Same(b, r) == Edit(b, r) /\ r.prev = rules[b].prev
<1>1. ASSUME NEW b \in DOMAIN rules, NEW r, Same(b, r) PROVE ChainKept'
  <2>1. rules' = [rules EXCEPT ![b] = r] /\ r.prev = rules[b].prev
    BY <1>1 DEF Edit
  <2> QED
    BY <2>1 DEF ChainKept
<1>2. CASE rules' = rules
  BY <1>2 DEF ChainKept
<1>3. ASSUME NEW v \in Visits, NEW at \in Instants, NEW landed \in Range(Write), Checkin(v, at, landed)
      PROVE  ChainKept'
  BY <1>2, <1>3 DEF Checkin
<1>4. ASSUME NEW u \in Users, NEW k \in DOMAIN log, NEW s \in {1, 5}, Rate(u, k, s)
      PROVE  ChainKept'
  BY <1>2, <1>4 DEF Rate
<1>5. ASSUME NEW b \in DOMAIN rules,
             \/ \E until \in Deadlines : Fade(b, until)
             \/ Expire(b) \/ Restore(b) \/ RaiseAmount(b) \/ DeleteBadge(b)
      PROVE  ChainKept'
  <2>0. rules[b] \in Rule
    BY DEF TypeOK
  <2>1. ASSUME NEW until \in Deadlines, Fade(b, until) PROVE ChainKept'
    <3> DEFINE r == [rules[b] EXCEPT !.status = "faded", !.until = until]
    <3>1. Same(b, r)
      BY <2>0, <2>1 DEF Fade, Rule
    <3> HIDE DEF r, Same
    <3> QED
      BY <1>1, <3>1
  <2>2. CASE Expire(b)
    <3> DEFINE r == [rules[b] EXCEPT !.status = "expired", !.until = now]
    <3>1. Same(b, r)
      BY <2>0, <2>2 DEF Expire, Rule
    <3> HIDE DEF r, Same
    <3> QED
      BY <1>1, <3>1
  <2>3. CASE Restore(b)
    <3> DEFINE r == [rules[b] EXCEPT !.status = "active", !.until = None]
    <3>1. Same(b, r)
      BY <2>0, <2>3 DEF Restore, Rule
    <3> HIDE DEF r, Same
    <3> QED
      BY <1>1, <3>1
  <2>4. CASE RaiseAmount(b)
    <3> DEFINE r == [rules[b] EXCEPT !.amount = @ + 1]
    <3>1. Same(b, r)
      BY <2>0, <2>4 DEF RaiseAmount, Rule
    <3> HIDE DEF r, Same
    <3> QED
      BY <1>1, <3>1
  <2>5. CASE DeleteBadge(b)
    <3>1. rules' = [x \in DOMAIN rules \ {b} |-> rules[x]]
      BY <2>5 DEF DeleteBadge
    <3> QED
      BY <3>1 DEF ChainKept
  <2> QED
    BY <1>5, <2>1, <2>2, <2>3, <2>4, <2>5
<1>6. CASE Tick
  BY <1>2, <1>6 DEF Tick
<1>7. CASE UNCHANGED vars
  BY <1>2, <1>7 DEF vars
<1>8. CASE \E new \in SUBSET Kinds : SetTypes(new)
  BY <1>2, <1>8 DEF SetTypes
<1> QED
  BY <1>3, <1>4, <1>5, <1>6, <1>7, <1>8 DEF Next

\* So what is left of it is a DAG.
LEMMA ChainIsDAG ==
    ASSUME ChainKept, NEW S \in SUBSET DOMAIN rules, S # {}
    PROVE  \E b \in S : rules[b].prev \cap S = {}
<1>1. PICK b \in S : FirstRules[b].prev \cap S = {}
  BY CommunityAssumption DEF ChainKept
<1> QED
  BY <1>1 DEF ChainKept

\* The check-ins of a history, and those of a member in a log, that match a rule.
MatchingIn(h, r) == Cardinality({k \in DOMAIN h : MatchesRule(h[k], r)})

MatchingOf(u, lg, r) == Cardinality({k \in {j \in DOMAIN lg : lg[j].who = u} : MatchesRule(lg[k], r)})

\* With the check-in being played, the history holds what it will once it is recorded.
LEMMA HistoryIsLogged ==
    ASSUME TypeOK, NEW c \in Entry, NEW e \in Entry, log' = Append(log, e), NEW r,
           e.who = c.who, e.type = c.type, e.spot = c.spot, e.at = c.at, e.task = c.task
    PROVE  MatchingIn(WithLatest(History(c.who), c), r) = MatchingOf(c.who, log', r)
<1> DEFINE h == WithLatest(History(c.who), c)
           n == Len(log) + 1
           X == {k \in DOMAIN log : log[k].who = c.who /\ MatchesRule(log[k], r)}
           Y == {k \in DOMAIN h : MatchesRule(h[k], r)}
           mine == {k \in DOMAIN log' : log'[k].who = c.who}
           Z == {k \in mine : MatchesRule(log'[k], r)}
<1>1. /\ DOMAIN log' = DOMAIN log \cup {n} /\ n \notin DOMAIN log
      /\ \A k \in DOMAIN log : log'[k] = log[k]
      /\ log'[n] = e
  BY LogGrows DEF TypeOK
<1>2. /\ IsFiniteSet(X) /\ Cardinality(X) \in Nat /\ 0 \notin X
  <2>1. 0 \notin DOMAIN log
    BY LogIsFinite
  <2> QED
    BY <2>1, LogIsFinite, FS_Subset, FS_CardinalityType
<1>3. MatchesRule(e, r) <=> MatchesRule(c, r)
  BY DEF MatchesRule
<1>4. /\ DOMAIN h = {0} \cup {k \in DOMAIN log : log[k].who = c.who}
      /\ h[0] = c
      /\ \A k \in DOMAIN log : log[k].who = c.who => h[k] = log[k]
  <2> DEFINE g == History(c.who)
             D == {k \in DOMAIN log : log[k].who = c.who}
  <2>1. g = [k \in D |-> log[k]]
    BY DEF History
  <2>2. h = [k \in {0} \cup DOMAIN g |-> IF k = 0 THEN c ELSE g[k]]
    BY DEF WithLatest
  <2> HIDE DEF h, g
  <2>3. \A k \in DOMAIN log : k # 0
    BY LogIsFinite
  <2> QED
    BY <2>1, <2>2, <2>3
<1> HIDE DEF n, h
<1>5. CASE MatchesRule(c, r)
  <2>1. Y = X \cup {0}
    BY <1>4, <1>5, LogIsFinite
  <2>2. Z = X \cup {n} /\ n \notin X
    BY <1>1, <1>3, <1>5
  <2> HIDE DEF X, Y, Z
  <2>3. Cardinality(Y) = Cardinality(X) + 1 /\ Cardinality(Z) = Cardinality(X) + 1
    BY <1>2, <2>1, <2>2, FS_AddElement
  <2> QED
    BY <2>3 DEF Y, Z, h, MatchingIn, MatchingOf
<1>6. CASE ~ MatchesRule(c, r)
  <2>1. Y = X
    BY <1>4, <1>6, LogIsFinite
  <2>2. Z = X
    BY <1>1, <1>3, <1>6
  <2> QED
    BY <2>1, <2>2 DEF h, MatchingIn, MatchingOf
<1> QED
  BY <1>5, <1>6

\* A rule that asks for check-ins is fulfilled when the project has its type and enough
\* of the history match it.
LEMMA FulfilledIs ==
    ASSUME TypeOK, NEW h, NEW x \in DOMAIN rules
    PROVE  x \in Fulfilled(rules, types, h) <=> /\ rules[x].type \in types \cup {AnyKind}
                                              /\ MatchingIn(h, rules[x]) >= rules[x].amount
<1> DEFINE B == {k \in DOMAIN h : MatchesBadge(h[k], rules[x], types)}
           M == {k \in DOMAIN h : MatchesRule(h[k], rules[x])}
<1>1. x \in Fulfilled(rules, types, h) <=> Cardinality(B) >= rules[x].amount
  BY DEF Fulfilled
<1>2. MatchingIn(h, rules[x]) = Cardinality(M)
  BY DEF MatchingIn
<1>3. rules[x].amount \in Nat \ {0}
  BY DEF TypeOK, Rule
<1>4. CASE rules[x].type \in types \cup {AnyKind}
  <2>1. B = M
    BY <1>4 DEF MatchesBadge
  <2> QED
    BY <1>1, <1>2, <1>4, <2>1
<1>5. CASE rules[x].type \notin types \cup {AnyKind}
  <2>1. B = {}
    BY <1>5 DEF MatchesBadge
  <2>2. Cardinality(B) = 0
    BY <2>1, FS_EmptySet
  <2> HIDE DEF B
  <2> QED
    BY <1>1, <1>3, <1>5, <2>2
<1> QED
  BY <1>4, <1>5

\* What is on offer is what has not expired.
LEMMA OfferIs ==
    ASSUME TypeOK, NEW b \in DOMAIN rules
    PROVE  EffectiveStatus(rules[b], now) # "expired" <=> OnOffer(rules[b])
<1>1. rules[b] \in Rule /\ now \in Nat
  BY Constants DEF TypeOK
<1>2. rules[b].status \in {"active", "faded", "expired"} /\ (rules[b].until \in Nat \/ rules[b].until = None)
  BY <1>1, Constants DEF Rule
<1> QED
  BY <1>1, <1>2 DEF EffectiveStatus, OnOffer

\* The closure the rules ask for, of the log a step leaves.
LEMMA ClosureIs ==
    ASSUME NEW u, NEW E,
           \A b \in DOMAIN rules : b \in E <=> /\ rules[b].type \in types \cup {AnyKind}
                                             /\ MatchingOf(u, log', rules[b]) >= rules[b].amount
    PROVE  Closure(u) = Least(DOMAIN rules, profiles[u].badges, E, [b \in DOMAIN rules |-> rules[b].prev])
<1> DEFINE mine == {k \in DOMAIN log' : log'[k].who = u}
           Enough(b) == /\ rules[b].type \in types \cup {AnyKind}
                        /\ Cardinality({k \in mine : MatchesRule(log'[k], rules[b])}) >= rules[b].amount
           Closed(S) == \A b \in DOMAIN rules : rules[b].prev \subseteq S \cap DOMAIN rules /\ Enough(b) => b \in S
           held == profiles[u].badges
           prev == [b \in DOMAIN rules |-> rules[b].prev]
           Shut(S) == \A x \in DOMAIN rules : prev[x] \subseteq S \cap DOMAIN rules /\ x \in E => x \in S
<1>1. Closure(u) = {b \in Badges : \A S \in SUBSET Badges : held \subseteq S /\ Closed(S) => b \in S}
  BY DEF Closure
<1>2. Least(DOMAIN rules, held, E, prev) =
        {b \in Badges : \A S \in SUBSET Badges : held \subseteq S /\ Shut(S) => b \in S}
  BY DEF Least
<1>3. \A b \in DOMAIN rules : Enough(b) <=> b \in E
  BY DEF MatchingOf
<1>4. \A b \in DOMAIN rules : prev[b] = rules[b].prev
  OBVIOUS
<1> HIDE DEF mine, Enough, prev, held
<1>5. \A S \in SUBSET Badges : Closed(S) <=> Shut(S)
  BY <1>3, <1>4
<1> HIDE DEF Closed, Shut
<1>6. Closure(u) = Least(DOMAIN rules, held, E, prev)
  BY <1>1, <1>2, <1>5
<1> QED
  BY <1>6 DEF held, prev

\* What a step awards is what the rules in force give.
LEMMA StepAwards ==
    ASSUME TypeOK, ChainKept, [Next]_vars, Awarding, NEW b \in DOMAIN rules \ profiles[Latest.who].badges
    PROVE  b \in Latest.badges <=> OnOffer(rules[b]) /\ b \in Closure(Latest.who)
<1>1. PICK v \in Visits, at \in Instants, landed \in 2..5 :
              \E c, points, won, tasks, after :
                 /\ Plays(v, at, landed, c, points, won, tasks, after)
                 /\ c \in Entry /\ c.who \in Users
                 /\ Latest = [c EXCEPT !.points = points, !.badges = won]
                 /\ Len(log') = Len(log) + 1 /\ log' = Append(log, Latest)
  BY AwardingPlays
<1>2. PICK c, points, won, tasks, after :
                 /\ Plays(v, at, landed, c, points, won, tasks, after)
                 /\ c \in Entry /\ c.who \in Users
                 /\ Latest = [c EXCEPT !.points = points, !.badges = won]
                 /\ log' = Append(log, Latest)
  BY <1>1
<1> DEFINE e == Latest
           u == c.who
           held == profiles[u].badges
           h == WithLatest(History(u), c)
           E == Fulfilled(rules, types, h)
           D == DOMAIN rules
           prev == [x \in D |-> rules[x].prev]
<1>3. /\ e.badges = won /\ e.who = c.who /\ e.task = c.task /\ e.type = c.type
      /\ e.spot = c.spot /\ e.at = c.at
  BY <1>2 DEF Entry
<1>4. c.who = v.who /\ won = NewBadges(c, rules, types, History(v.who), profiles[v.who].badges, now)
  BY <1>2 DEF Plays
<1>5. points \in Nat /\ won \in SUBSET Badges /\ e \in Entry
  <2>1. landed \in 1..5
    OBVIOUS
  <2>2. points \in Nat
    BY <1>2, <2>1, PlaysTyped
  <2>3. won \in SUBSET Badges
    BY <1>2, <2>1, PlaysTyped
  <2> QED
    BY <1>2, <2>2, <2>3 DEF Entry
<1> HIDE DEF e
<1>6. b \in DOMAIN rules \ held
  BY <1>3 DEF e
<1>7. b \in won <=> IsBadgeSatisfied(b, rules, types, h, held) /\ OnOffer(rules[b])
  <2>1. won = {x \in DOMAIN rules \ held : /\ IsBadgeSatisfied(x, rules, types, h, held)
                                           /\ EffectiveStatus(rules[x], now) # "expired"}
    BY <1>4 DEF NewBadges
  <2>2. EffectiveStatus(rules[b], now) # "expired" <=> OnOffer(rules[b])
    BY OfferIs
  <2> HIDE DEF h, held
  <2> QED
    BY <1>6, <2>1, <2>2
<1>8. D \in SUBSET Badges /\ held \in SUBSET Badges
  BY <1>2 DEF TypeOK, Profile
<1>9. \A S \in SUBSET D : S # {} => \E x \in S : rules[x].prev \cap S = {}
  BY ChainIsDAG
<1>10. IsBadgeSatisfied(b, rules, types, h, held) <=> b \in Least(D, held, E, prev)
  <2> HIDE DEF h, held
  <2> QED
    BY <1>6, <1>8, <1>9, SatisfiedIs
<1>11. \A x \in D : x \in E <=> /\ rules[x].type \in types \cup {AnyKind}
                               /\ MatchingOf(u, log', rules[x]) >= rules[x].amount
  <2> SUFFICES ASSUME NEW x \in D
               PROVE  x \in E <=> /\ rules[x].type \in types \cup {AnyKind}
                                 /\ MatchingOf(u, log', rules[x]) >= rules[x].amount
    OBVIOUS
  <2>1. x \in E <=> /\ rules[x].type \in types \cup {AnyKind}
                   /\ MatchingIn(h, rules[x]) >= rules[x].amount
    BY FulfilledIs
  <2>2. log' = Append(log, e)
    BY <1>2 DEF e
  <2>3. MatchingIn(h, rules[x]) = MatchingOf(u, log', rules[x])
    BY <1>2, <1>3, <1>5, <2>2, HistoryIsLogged
  <2> QED
    BY <2>1, <2>3
<1>12. Closure(u) = Least(D, held, E, prev)
  <2> HIDE DEF E
  <2> QED
    BY <1>11, ClosureIs
<1>13. e.badges = won /\ e.who = u
  BY <1>3
<1> HIDE DEF u, held, h, E, D, prev
<1>14. b \in e.badges <=> OnOffer(rules[b]) /\ b \in Closure(e.who)
  BY <1>7, <1>10, <1>12, <1>13
<1> QED
  BY <1>14 DEF e

\* A badge is awarded exactly when it is on offer and every set of badges that holds
\* what its author holds and is closed under the rules, over the whole history, holds
\* it (Community.AwardsFollowRules).
THEOREM AwardsDoFollowRules == Spec => AwardsFollowRules
<1>1. Init => ChainKept
  BY DEF Init, ChainKept
<1>2. TypeOK /\ ChainKept /\ [Next]_vars => ChainKept'
  BY StepKeepsChain
<1>3. TypeOK /\ ChainKept /\ [Next]_vars =>
        [Awarding => \A b \in DOMAIN rules \ profiles[Latest.who].badges :
            b \in Latest.badges <=> OnOffer(rules[b]) /\ b \in Closure(Latest.who)]_vars
  BY StepAwards
<1> QED
  BY <1>1, <1>2, <1>3, CommunityTyped, PTL DEF Spec, AwardsFollowRules

-----------------------------------------------------------------------------
(* Indicators. *)

\* What the computation of a day reads.
LEMMA ContextIs ==
    ASSUME NEW fallback
    PROVE  /\ Context(fallback).rules = rules /\ Context(fallback).log = log
           /\ Context(fallback).profiles = profiles /\ Context(fallback).created = Created
           /\ Context(fallback).fallback = fallback
  BY DEF Context

\* The samples of a timeline.
LEMMA SamplesAre ==
    ASSUME NEW start \in Nat, NEW end \in Nat, start <= end, NEW step \in Nat \ {0}
    PROVE  LET s == Samples(start, end, step)
           IN  /\ DOMAIN s = 1..Len(s) /\ Len(s) \in Nat \ {0}
               /\ s[Len(s)] = end
               /\ \A k \in DOMAIN s : s[k] \in Nat /\ s[k] <= end
<1> DEFINE a == end - start + step - 1
           n == a \div step
           first == [k \in 1..n |-> start + (k - 1) * step]
           s == Samples(start, end, step)
<1>1. a \in Nat
  OBVIOUS
<1>2. n \in Nat /\ step * n <= a
  <2> HIDE DEF a
  <2> QED
    BY <1>1, DivIs
<1>3. \A k \in 1..n : first[k] \in Nat /\ first[k] <= end
  <2> SUFFICES ASSUME NEW k \in 1..n PROVE first[k] \in Nat /\ first[k] <= end
    OBVIOUS
  <2> HIDE DEF n
  <2>1. k - 1 \in Nat /\ k - 1 <= n - 1
    BY <1>2
  <2>2. (k - 1) * step \in Nat /\ (k - 1) * step <= (n - 1) * step
    BY <1>2, <2>1
  <2>3. (n - 1) * step = step * n - step /\ step * n \in Nat
    BY <1>2
  <2>4. first[k] = start + (k - 1) * step
    OBVIOUS
  <2> HIDE DEF first
  <2> QED
    BY <1>2, <2>2, <2>3, <2>4
<1>4. first \in Seq(Nat) /\ Len(first) = n /\ DOMAIN first = 1..n
  <2> HIDE DEF n
  <2>1. DOMAIN first = 1..n
    OBVIOUS
  <2>2. first \in [1..n -> Nat]
    <3> SUFFICES \A k \in 1..n : first[k] \in Nat
      OBVIOUS
    <3> QED
      BY <1>3
  <2> QED
    BY <1>2, <2>1, <2>2
<1>5. s = Append(first, end)
  BY DEF Samples
<1> HIDE DEF first, s, n
<1>6. /\ Len(s) = n + 1 /\ DOMAIN s = 1..(n + 1) /\ s[n + 1] = end
      /\ \A k \in 1..n : s[k] = first[k]
  BY <1>2, <1>4, <1>5
<1>7. \A k \in 1..(n + 1) : k = n + 1 \/ k \in 1..n
  BY <1>2
<1> QED
  BY <1>2, <1>3, <1>6, <1>7 DEF s

\* When something was earned is an instant, and what an interest counts from is one of them.
LEMMA SinceIs ==
    ASSUME TypeOK, NEW t \in Nat, NEW u \in Users, NEW b \in DOMAIN rules
    PROVE  /\ Joined(Context(t), u) \in Nat
           /\ \A p : EarnedAt(Context(t), u, p) \in Nat
           /\ Since(Context(t), u, b) \in Nat
           /\ Since(Context(t), u, b) >= Joined(Context(t), u)
<1> DEFINE ctx == Context(t)
<1>1. Joined(ctx, u) \in Nat
  BY ContextIs, Constants DEF Joined
<1>2. \A p : EarnedAt(ctx, u, p) \in Nat
  <2> TAKE p
  <2>1. AwardedAt(ctx, u, p) \in SUBSET Nat
    <3>1. \A k \in DOMAIN log : log[k].at \in Nat
      BY LogEntries, Constants DEF Entry
    <3> QED
      BY <3>1, ContextIs DEF AwardedAt
  <2>2. AwardedAt(ctx, u, p) # {} => Min(AwardedAt(ctx, u, p)) \in Nat
    BY <2>1, LeastNumber
  <2> QED
    BY <1>1, <2>2 DEF EarnedAt
<1> DEFINE prev == rules[b].prev
           at == [p \in prev |-> EarnedAt(ctx, u, p)]
           S == {Joined(ctx, u)} \cup {at[p] : p \in prev}
<1>3. IsFiniteSet(prev)
  <2>1. prev \in SUBSET Badges
    BY DEF TypeOK, Rule
  <2> QED
    BY <2>1, Constants, FS_Subset
<1>4. IsFiniteSet({at[p] : p \in prev})
  <2> HIDE DEF prev, at
  <2> QED
    BY <1>3, ImageIsFinite
<1>5. Since(ctx, u, b) = Max(S)
  BY ContextIs DEF Since
<1>6. S \in SUBSET Nat /\ Joined(ctx, u) \in S /\ S # {}
  BY <1>1, <1>2
<1>7. IsFiniteSet(S)
  <2> DEFINE T == {at[p] : p \in prev}
  <2>1. IsFiniteSet(T)
    BY <1>4
  <2>2. S = T \cup {Joined(ctx, u)}
    OBVIOUS
  <2> HIDE DEF T, S
  <2> QED
    BY <2>1, <2>2, FS_AddElement
<1> HIDE DEF S, ctx
<1>8. Max(S) \in S /\ \A y \in S : y <= Max(S)
  BY <1>6, <1>7, MaxIs
<1>9. Since(ctx, u, b) \in Nat /\ Joined(ctx, u) <= Since(ctx, u, b)
  BY <1>5, <1>6, <1>8
<1> QED
  BY <1>1, <1>2, <1>9 DEF ctx

\* Of a rule a member may still earn, the interest of a day is the same whether the
\* accounts without a date are dated by that day or by a later one.
LEMMA FallbackIsLate ==
    ASSUME TypeOK, NEW s \in Nat, NEW end \in Nat, s <= end, NEW u \in Users, NEW b \in DOMAIN rules,
           b \notin Earned(Context(s), u)
    PROVE  Interest(Context(end), u, b, s) = Interest(Context(s), u, b, s)
<1> DEFINE c == Context(s)
           d == Context(end)
<1> USE ContextIs
<1>1. \A p : AwardedAt(c, u, p) = AwardedAt(d, u, p)
  BY DEF AwardedAt
<1>2. Earned(c, u) = Earned(d, u)
  BY <1>1 DEF Earned
<1>3. IsAchievable(c, u, b) <=> IsAchievable(d, u, b)
  BY <1>2 DEF IsAchievable
<1>4. Interest(c, u, b, s) = LET ticks == s - Since(c, u, b)
                                 days  == IF ticks <= DayTicks THEN 1 ELSE (ticks + DayTicks - 1) \div DayTicks
                             IN  IF IsAchievable(c, u, b) THEN (20000 + days) \div (2 * days) ELSE 10000
  BY DEF Interest
<1>5. Interest(d, u, b, s) = LET ticks == s - Since(d, u, b)
                                 days  == IF ticks <= DayTicks THEN 1 ELSE (ticks + DayTicks - 1) \div DayTicks
                             IN  IF IsAchievable(d, u, b) THEN (20000 + days) \div (2 * days) ELSE 10000
  BY <1>2 DEF Interest
<1>6. CASE Created[u] # None
  <2>1. Joined(c, u) = Joined(d, u)
    BY <1>6 DEF Joined
  <2>2. \A p : EarnedAt(c, u, p) = EarnedAt(d, u, p)
    BY <1>1, <2>1 DEF EarnedAt
  <2>3. Since(c, u, b) = Since(d, u, b)
    <3>1. {EarnedAt(c, u, p) : p \in rules[b].prev} = {EarnedAt(d, u, p) : p \in rules[b].prev}
      BY <2>2
    <3> HIDE DEF c, d
    <3> QED
      BY <2>1, <3>1 DEF Since, c, d
  <2> HIDE DEF c, d
  <2> QED
    BY <1>3, <1>4, <1>5, <2>3 DEF c, d
<1>7. CASE Created[u] = None
  <2>1. Joined(c, u) = s /\ Joined(d, u) = end
    BY <1>7 DEF Joined
  <2>2. /\ Since(c, u, b) \in Nat /\ Since(c, u, b) >= s
        /\ Since(d, u, b) \in Nat /\ Since(d, u, b) >= end
    BY <2>1, SinceIs
  <2> HIDE DEF c, d
  <2>3. s - Since(c, u, b) <= DayTicks /\ s - Since(d, u, b) <= DayTicks
    BY <2>2, Constants
  <2> QED
    BY <1>3, <1>4, <1>5, <2>3 DEF c, d
<1> QED
  BY <1>6, <1>7

\* A day's indicator does not depend on the end the accounts without a date fall back to.
LEMMA CIIOfDay ==
    ASSUME TypeOK, NEW s \in Nat, NEW end \in Nat, s <= end, NEW b \in DOMAIN rules, NEW least
    PROVE  CII(Context(end), b, s, least) = CII(Context(s), b, s, least)
<1> DEFINE c == Context(s)
           d == Context(end)
           who == Eligible(c, b, s, least)
<1>1. \A u : Earned(c, u) = Earned(d, u)
  BY ContextIs DEF Earned, AwardedAt
<1>2. \A u : IsAchievable(c, u, b) <=> IsAchievable(d, u, b)
  BY <1>1, ContextIs DEF IsAchievable
<1>3. Pool(c, s, least) = Pool(d, s, least)
  BY ContextIs DEF Pool
<1>4. Eligible(d, b, s, least) = who
  <2> HIDE DEF c, d
  <2> QED
    BY <1>1, <1>2, <1>3 DEF Eligible
<1>5. \A u \in who : u \in Users /\ b \notin Earned(c, u)
  BY ContextIs DEF Eligible, Pool, TypeOK
<1>6. \A u \in who : Interest(c, u, b, s) = Interest(d, u, b, s)
  BY <1>5, FallbackIsLate
<1> HIDE DEF c, d, who
<1>7. [u \in who |-> Interest(c, u, b, s)] = [u \in who |-> Interest(d, u, b, s)]
  BY <1>6
<1> QED
  BY <1>4, <1>7 DEF CII, c, d, who

\* A timeline is the indicator asked day by day, and ends with its end
\* (Community.TimelineAgrees).
LEMMA TimelineDoesAgree ==
    ASSUME TypeOK
    PROVE  TimelineAgrees
<1> SUFFICES ASSUME NEW start \in Instants, NEW end \in Instants, start <= end
             PROVE  LET step == 2 * DayTicks
                        samples == Samples(start, end, step)
                    IN  /\ samples[Len(samples)] = end
                        /\ \A b \in DOMAIN rules :
                             Timeline(Context(end), b, start, end, step, 1)
                               = [k \in DOMAIN samples |-> CII(Context(samples[k]), b, samples[k], 1)]
  BY DEF TimelineAgrees
<1> DEFINE step == 2 * DayTicks
           samples == Samples(start, end, step)
<1>1. start \in Nat /\ end \in Nat /\ step \in Nat \ {0}
  BY Constants
<1> HIDE DEF step
<1>2. samples[Len(samples)] = end /\ \A k \in DOMAIN samples : samples[k] \in Nat /\ samples[k] <= end
  BY <1>1, SamplesAre
<1>3. ASSUME NEW b \in DOMAIN rules
      PROVE  Timeline(Context(end), b, start, end, step, 1)
               = [k \in DOMAIN samples |-> CII(Context(samples[k]), b, samples[k], 1)]
  <2>1. [Context(end) EXCEPT !.fallback = end] = Context(end)
    BY DEF Context
  <2>2. Timeline(Context(end), b, start, end, step, 1)
          = [k \in DOMAIN samples |-> CII(Context(end), b, samples[k], 1)]
    BY <2>1 DEF Timeline
  <2> HIDE DEF samples
  <2>3. \A k \in DOMAIN samples : CII(Context(end), b, samples[k], 1) = CII(Context(samples[k]), b, samples[k], 1)
    BY <1>1, <1>2, CIIOfDay
  <2> QED
    BY <2>2, <2>3
<1> QED
  BY <1>2, <1>3 DEF step

\* A point of a timeline is the indicator asked for on its day, though the timeline is
\* computed from one reading of the data (Community.TimelineAgrees).
THEOREM TimelineAlwaysAgrees == Spec => []TimelineAgrees
  BY CommunityTyped, TimelineDoesAgree, PTL

\* The values of the players in order, and the median of them.
LEMMA MedianIs ==
    ASSUME NEW S \in SUBSET Nat, IsFiniteSet(S), NEW value, DOMAIN value = S,
           \A u \in S : value[u] \in Nat
    PROVE  /\ S = {} => Median(value) = None
           /\ S # {} =>
                \E s \in SetToSeqs(S), n \in Nat \ {0} :
                   /\ n = Cardinality(S) /\ n = Len(s)
                   /\ \A i, j \in 1..n : i < j => value[s[i]] <= value[s[j]]
                   /\ n % 2 = 1 => Median(value) = value[s[(n \div 2) + 1]]
                   /\ n % 2 # 1 => Median(value) = (value[s[n \div 2]] + value[s[(n \div 2) + 1]] + 1) \div 2
<1> DEFINE Less(u, v) == value[u] < value[v] \/ (value[u] = value[v] /\ u < v)
           R == {p \in S \X S : Less(p[1], p[2])}
           sorted == SortedBy(S, Less)
<1>1. \A u, v \in S : <<u, v>> \in R <=> Less(u, v)
  OBVIOUS
<1>2. IsOrderOf(R, S)
  <2> HIDE DEF R
  <2>1. \A u, v \in S : u # v => <<u, v>> \in R \/ <<v, u>> \in R
    BY <1>1
  <2>2. \A u, v, w \in S : Less(u, v) /\ Less(v, w) => Less(u, w)
    OBVIOUS
  <2>3. \A u, v, w \in S : <<u, v>> \in R /\ <<v, w>> \in R => <<u, w>> \in R
    <3> HIDE DEF Less
    <3> QED
      BY <1>1, <2>2
  <2> QED
    BY <2>1, <2>3 DEF IsOrderOf
<1>3. PICK t \in SetToSeqs(S) : \A i, j \in DOMAIN t : i < j => <<t[i], t[j]>> \in R
  <2> HIDE DEF R
  <2> QED
    BY <1>2, Sorted
<1>4. \A i, j \in DOMAIN t : i < j => Less(t[i], t[j])
  BY <1>3
<1>5. sorted = CHOOSE s \in SetToSeqs(S) : \A i, j \in DOMAIN s : i < j => Less(s[i], s[j])
  BY DEF SortedBy
<1>6. sorted \in SetToSeqs(S) /\ \A i, j \in DOMAIN sorted : i < j => Less(sorted[i], sorted[j])
  <2> HIDE DEF sorted, Less
  <2> QED
    BY <1>3, <1>4, <1>5
<1> DEFINE n == Len(sorted)
<1>7. Median(value) = IF n = 0 THEN None
                      ELSE IF n % 2 = 1 THEN value[sorted[(n \div 2) + 1]]
                      ELSE (value[sorted[(n \div 2) + 1 - 1]] + value[sorted[(n \div 2) + 1]] + 1) \div 2
  BY DEF Median
<1> HIDE DEF sorted
<1>8. /\ n = Cardinality(S) /\ n \in Nat /\ DOMAIN sorted = 1..n
      /\ \A i \in 1..n : sorted[i] \in S
  BY <1>6, Enumeration
<1>9. S = {} <=> n = 0
  BY <1>8, FS_EmptySet
<1>10. \A i, j \in 1..n : i < j => value[sorted[i]] <= value[sorted[j]]
  <2> SUFFICES ASSUME NEW i \in 1..n, NEW j \in 1..n, i < j
               PROVE  value[sorted[i]] <= value[sorted[j]]
    OBVIOUS
  <2>1. Less(sorted[i], sorted[j])
    BY <1>6, <1>8
  <2>2. value[sorted[i]] \in Nat /\ value[sorted[j]] \in Nat
    BY <1>8
  <2> QED
    BY <2>1, <2>2
<1>11. (n \div 2) + 1 - 1 = n \div 2
  BY <1>8, DivIs
<1> HIDE DEF n
<1>12. S = {} => Median(value) = None
  BY <1>7, <1>9
<1>13. S # {} => /\ n \in Nat \ {0}
                 /\ n % 2 = 1 => Median(value) = value[sorted[(n \div 2) + 1]]
                 /\ n % 2 # 1 =>
                      Median(value) = (value[sorted[n \div 2]] + value[sorted[(n \div 2) + 1]] + 1) \div 2
  BY <1>7, <1>8, <1>9, <1>11
<1> QED
  BY <1>6, <1>8, <1>10, <1>12, <1>13 DEF n

\* The median is a value, or none of nothing; below a bound, at least half of the
\* values are, and if more than half of them are, it is.
LEMMA MedianHalves ==
    ASSUME NEW S \in SUBSET Nat, IsFiniteSet(S), NEW value, DOMAIN value = S,
           \A u \in S : value[u] \in Nat, NEW x \in Nat
    PROVE  LET low == {u \in S : value[u] < x}
           IN  /\ S = {} => Median(value) = None
               /\ S # {} => /\ Median(value) \in Nat
                            /\ Median(value) < x => 2 * Cardinality(low) >= Cardinality(S)
                            /\ 2 * Cardinality(low) > Cardinality(S) => Median(value) < x
<1>1. S = {} => Median(value) = None
  BY MedianIs
<1> DEFINE low == {u \in S : value[u] < x}
<1>2. SUFFICES ASSUME S # {}
               PROVE  /\ Median(value) \in Nat
                      /\ Median(value) < x => 2 * Cardinality(low) >= Cardinality(S)
                      /\ 2 * Cardinality(low) > Cardinality(S) => Median(value) < x
  BY <1>1
<1>3. PICK s \in SetToSeqs(S), n \in Nat \ {0} :
         /\ n = Cardinality(S) /\ n = Len(s)
         /\ \A i, j \in 1..n : i < j => value[s[i]] <= value[s[j]]
         /\ n % 2 = 1 => Median(value) = value[s[(n \div 2) + 1]]
         /\ n % 2 # 1 => Median(value) = (value[s[n \div 2]] + value[s[(n \div 2) + 1]] + 1) \div 2
  BY <1>2, MedianIs
<1>4. /\ \A i \in 1..n : s[i] \in S
      /\ \A i, j \in 1..n : s[i] = s[j] => i = j
      /\ \A u \in S : \E i \in 1..n : s[i] = u
  BY <1>3, Enumeration
<1> DEFINE K == {i \in 1..n : value[s[i]] < x}
           f == [i \in K |-> s[i]]
           k == Cardinality(K)
<1>5. \A i \in 1..n : value[s[i]] \in Nat
  BY <1>4
<1>6. /\ IsFiniteSet(K) /\ k \in Nat /\ \A j \in 1..n : j \in K <=> j <= k
  <2>1. \A i \in K, j \in 1..n : j < i => j \in K
    BY <1>3, <1>5
  <2>2. K \in SUBSET (1..n)
    OBVIOUS
  <2> HIDE DEF K
  <2> QED
    BY <2>1, <2>2, FirstPlaces
<1>7. Cardinality(low) = k
  <2>1. f \in Bijection(K, low)
    <3>1. f \in [K -> low]
      BY <1>4
    <3>2. \A i, j \in K : f[i] = f[j] => i = j
      BY <1>4
    <3>3. \A u \in low : \E i \in K : f[i] = u
      BY <1>4
    <3> HIDE DEF f, K, low
    <3> QED
      BY <3>1, <3>2, <3>3 DEF Bijection, Injection, Surjection, IsInjective
  <2>2. IsFiniteSet(low)
    BY FS_Subset
  <2> HIDE DEF f, K, low
  <2> QED
    BY <1>6, <2>1, <2>2, FS_Bijection DEF k, ExistsBijection
<1>8. \A j \in 1..n : value[s[j]] < x <=> j <= k
  BY <1>6
<1> HIDE DEF K, low
<1> DEFINE m == n \div 2
<1>9. /\ m \in Nat
      /\ n % 2 = 1 => n = 2 * m + 1 /\ m + 1 \in 1..n
      /\ n % 2 # 1 => n = 2 * m /\ m \in 1..n /\ m + 1 \in 1..n
  BY HalfIs
<1>10. /\ n % 2 = 1 => Median(value) = value[s[m + 1]]
       /\ n % 2 # 1 => Median(value) = (value[s[m]] + value[s[m + 1]] + 1) \div 2
  BY <1>3
<1> HIDE DEF m, k
<1>11. CASE n % 2 = 1
  <2> DEFINE v == value[s[m + 1]]
  <2>1. v \in Nat /\ (v < x <=> m + 1 <= k) /\ n = 2 * m + 1 /\ Median(value) = v
    BY <1>5, <1>8, <1>9, <1>10, <1>11
  <2> HIDE DEF v
  <2>2. v < x => 2 * k >= n
    BY <1>6, <1>9, <2>1
  <2>3. 2 * k > n => v < x
    BY <1>6, <1>9, <2>1
  <2> QED
    BY <1>3, <1>7, <2>1, <2>2, <2>3
<1>12. CASE n % 2 # 1
  <2> DEFINE v == value[s[m]]
             w == value[s[m + 1]]
             h == (v + w + 1) \div 2
  <2>1. /\ v \in Nat /\ w \in Nat /\ (v < x <=> m <= k) /\ (w < x <=> m + 1 <= k) /\ n = 2 * m
        /\ Median(value) = h /\ v <= w
    <3>1. m \in 1..n /\ m + 1 \in 1..n /\ n = 2 * m /\ m < m + 1
      BY <1>9, <1>12
    <3> QED
      BY <1>3, <1>5, <1>8, <1>10, <1>12, <3>1
  <2> HIDE DEF v, w
  <2>2. h \in Nat /\ 2 * h <= v + w + 1 /\ v + w + 1 < 2 * h + 2
    <3> DEFINE a == v + w + 1
    <3>1. a \in Nat
      BY <2>1
    <3> HIDE DEF a
    <3>2. a \div 2 \in Nat /\ 2 * (a \div 2) <= a /\ a < 2 * (a \div 2) + 2
      BY <3>1, DivIs
    <3> QED
      BY <3>2 DEF a
  <2> HIDE DEF h
  <2>3. h < x => 2 * k >= n
    BY <1>6, <1>9, <2>1, <2>2
  <2>4. 2 * k > n => h < x
    BY <1>6, <1>9, <2>1, <2>2
  <2> QED
    BY <1>3, <1>7, <2>1, <2>2, <2>3, <2>4
<1> QED
  BY <1>11, <1>12

\* An interest is a number.
LEMMA InterestIsNat ==
    ASSUME TypeOK, NEW t \in Nat, NEW asOf \in Nat, NEW u \in Users, NEW b \in DOMAIN rules
    PROVE  Interest(Context(t), u, b, asOf) \in Nat
<1> DEFINE ctx == Context(t)
           until == IF b \in Earned(ctx, u) THEN EarnedAt(ctx, u, b) ELSE asOf
           ticks == until - Since(ctx, u, b)
           days == IF ticks <= DayTicks THEN 1 ELSE (ticks + DayTicks - 1) \div DayTicks
           n == 20000 + days
           d == 2 * days
<1>1. Interest(ctx, u, b, asOf) = IF IsAchievable(ctx, u, b) THEN n \div d ELSE 10000
  BY DEF Interest
<1>2. until \in Nat /\ Since(ctx, u, b) \in Nat
  BY SinceIs
<1> HIDE DEF until, ctx
<1>3. ticks \in Int
  BY <1>2
<1> HIDE DEF ticks
<1>4. days \in Nat \ {0}
  <2>1. CASE ticks <= DayTicks
    BY <2>1
  <2>2. CASE ~ (ticks <= DayTicks)
    <3> DEFINE a == ticks + DayTicks - 1
    <3>1. a \in Nat /\ a >= DayTicks
      BY <1>3, <2>2, Constants
    <3> HIDE DEF a
    <3>2. a \div DayTicks \in Nat /\ a < DayTicks * (a \div DayTicks) + DayTicks
      BY <3>1, DivIs, Constants
    <3>3. a \div DayTicks # 0
      <4> SUFFICES ASSUME a \div DayTicks = 0 PROVE FALSE
        OBVIOUS
      <4>1. DayTicks * 0 = 0
        BY Constants
      <4> QED
        BY <3>1, <3>2, <4>1, Constants
    <3> QED
      BY <2>2, <3>2, <3>3 DEF a
  <2> QED
    BY <2>1, <2>2
<1> HIDE DEF days
<1>5. n \in Nat /\ d \in Nat \ {0}
  BY <1>4
<1> HIDE DEF n, d
<1>6. n \div d \in Nat
  BY <1>5, DivIs
<1> QED
  BY <1>1, <1>6 DEF ctx

\* The community's interest is a number, or none when no player may still earn the badge.
LEMMA CIIIs ==
    ASSUME TypeOK, NEW t \in Nat, NEW asOf \in Nat, NEW b \in DOMAIN rules, NEW least, NEW x \in Nat
    PROVE  LET who == Eligible(Context(t), b, asOf, least)
               cii == CII(Context(t), b, asOf, least)
               low == {u \in who : Interest(Context(t), u, b, asOf) < x}
           IN  /\ who \subseteq Users /\ IsFiniteSet(who)
               /\ who = {} => cii = None
               /\ who # {} => /\ cii \in Nat
                              /\ cii < x => 2 * Cardinality(low) >= Cardinality(who)
                              /\ 2 * Cardinality(low) > Cardinality(who) => cii < x
<1> DEFINE who == Eligible(Context(t), b, asOf, least)
           value == [u \in who |-> Interest(Context(t), u, b, asOf)]
           cii == CII(Context(t), b, asOf, least)
           low == {u \in who : Interest(Context(t), u, b, asOf) < x}
<1>1. who \subseteq Users
  BY ContextIs DEF Eligible, Pool, TypeOK
<1>2. IsFiniteSet(who) /\ who \in SUBSET Nat
  BY <1>1, Constants, FS_Subset
<1>3. DOMAIN value = who /\ \A u \in who : value[u] = Interest(Context(t), u, b, asOf)
  OBVIOUS
<1>4. \A u \in who : value[u] \in Nat
  BY <1>1, <1>3, InterestIsNat
<1>5. cii = Median(value)
  BY DEF CII
<1>6. low = {u \in who : value[u] < x}
  BY <1>3
<1> HIDE DEF who, value, low
<1>7. /\ who = {} => Median(value) = None
      /\ who # {} => /\ Median(value) \in Nat
                     /\ Median(value) < x => 2 * Cardinality(low) >= Cardinality(who)
                     /\ 2 * Cardinality(low) > Cardinality(who) => Median(value) < x
  <2>1. /\ who = {} => Median(value) = None
        /\ who # {} =>
             /\ Median(value) \in Nat
             /\ Median(value) < x => 2 * Cardinality({u \in who : value[u] < x}) >= Cardinality(who)
             /\ 2 * Cardinality({u \in who : value[u] < x}) > Cardinality(who) => Median(value) < x
    <3>1. DOMAIN value = who
      BY <1>3
    <3> QED
      BY <1>2, <1>4, <3>1, MedianHalves
  <2> QED
    BY <1>6, <2>1
<1> QED
  BY <1>1, <1>2, <1>5, <1>7 DEF who, low

\* The community ignores a badge only if half of the players do.
LEMMA HalfDoIgnore ==
    ASSUME TypeOK
    PROVE  IgnoredByHalf
<1> SUFFICES ASSUME NEW asOf \in Instants, NEW x \in Thresholds, NEW b \in DOMAIN rules
             PROVE  LET ctx     == Context(asOf)
                        ignored == [u \in Users |-> Ignored(ctx, u, asOf, x)]
                        who     == Eligible(ctx, b, asOf, 0)
                        cii     == CII(ctx, b, asOf, 0)
                        bored   == Cardinality({u \in who : b \in ignored[u]})
                    IN  who # {} => /\ cii < x => 2 * bored >= Cardinality(who)
                                    /\ 2 * bored > Cardinality(who) => cii < x
  BY DEF IgnoredByHalf
<1> DEFINE ctx == Context(asOf)
           ignored == [u \in Users |-> Ignored(ctx, u, asOf, x)]
           who == Eligible(ctx, b, asOf, 0)
           low == {u \in who : Interest(ctx, u, b, asOf) < x}
           bored == {u \in who : b \in ignored[u]}
<1>1. asOf \in Nat /\ x \in Nat
  BY Constants DEF Thresholds
<1>2. who \subseteq Users
  BY ContextIs DEF Eligible, Pool, TypeOK
<1>3. bored = low
  <2>1. \A u \in who : b \notin Earned(ctx, u) /\ IsAchievable(ctx, u, b)
    BY DEF Eligible
  <2>2. \A u : b \in Ignored(ctx, u, asOf, x) <=>
                  b \notin Earned(ctx, u) /\ IsAchievable(ctx, u, b) /\ Interest(ctx, u, b, asOf) < x
    BY ContextIs DEF Ignored
  <2>3. \A u \in who : ignored[u] = Ignored(ctx, u, asOf, x)
    BY <1>2
  <2> HIDE DEF ctx, who, ignored
  <2>4. \A u \in who : b \in ignored[u] <=> Interest(ctx, u, b, asOf) < x
    BY <2>1, <2>2, <2>3
  <2> QED
    BY <2>4
<1> HIDE DEF bored
<1>4. who # {} => /\ CII(ctx, b, asOf, 0) < x => 2 * Cardinality(low) >= Cardinality(who)
                  /\ 2 * Cardinality(low) > Cardinality(who) => CII(ctx, b, asOf, 0) < x
  BY <1>1, CIIIs
<1> HIDE DEF low, who, ctx
<1> QED
  BY <1>3, <1>4 DEF bored, who, ctx

\* The badge proposed for fading is the lowest of those ranked.
LEMMA TargetIs ==
    ASSUME TypeOK, NEW asOf \in Nat
    PROVE  LET ctx    == Context(asOf)
               ranked == Ranked(ctx, asOf, 1)
               target == Target(ctx, asOf, 1)
           IN  /\ ranked = {} => target = None
               /\ ranked # {} => /\ target \in ranked
                                 /\ \A c \in ranked : CII(ctx, target, asOf, 1) <= CII(ctx, c, asOf, 1)
               /\ \A c \in ranked : CII(ctx, c, asOf, 1) \in Nat
<1> DEFINE ctx == Context(asOf)
           ranked == Ranked(ctx, asOf, 1)
           target == Target(ctx, asOf, 1)
           cii == [b \in ranked |-> CII(ctx, b, asOf, 1)]
           lows == {b \in ranked : \A c \in ranked : cii[b] <= cii[c]}
           values == {cii[b] : b \in ranked}
<1>1. target = IF ranked = {} THEN None ELSE Min(lows)
  BY DEF Target
<1>2. ranked \subseteq DOMAIN rules /\ DOMAIN rules \subseteq Badges
  BY ContextIs DEF Ranked, TypeOK
<1>3. \A b \in ranked : cii[b] = CII(ctx, b, asOf, 1) /\ cii[b] # None
  BY DEF Ranked
<1>4. \A b \in ranked : CII(ctx, b, asOf, 1) \in Nat
  <2> SUFFICES ASSUME NEW b \in ranked PROVE CII(ctx, b, asOf, 1) \in Nat
    OBVIOUS
  <2>1. b \in DOMAIN rules /\ CII(ctx, b, asOf, 1) # None
    BY <1>2, <1>3
  <2> HIDE DEF ranked
  <2> QED
    BY <2>1, CIIIs
<1>5. IsFiniteSet(ranked) /\ ranked \in SUBSET Nat
  BY <1>2, Constants, FS_Subset
<1> HIDE DEF ranked, target, ctx
<1>6. \A b \in ranked : cii[b] \in Nat
  BY <1>3, <1>4
<1> HIDE DEF cii
<1>7. CASE ranked # {}
  <2>1. IsFiniteSet(values)
    BY <1>5, ImageIsFinite
  <2>2. values \in SUBSET Int /\ values # {}
    BY <1>6, <1>7
  <2>3. PICK v \in values : \A y \in values : v <= y
    <3> HIDE DEF values
    <3> QED
      BY <2>1, <2>2, Extrema
  <2>4. lows # {} /\ lows \subseteq ranked /\ lows \in SUBSET Nat
    <3>1. PICK b \in ranked : v = cii[b]
      OBVIOUS
    <3>2. \A c \in ranked : cii[b] <= cii[c]
      BY <2>3, <3>1
    <3>3. b \in lows
      BY <3>2
    <3> QED
      BY <1>5, <3>3
  <2>5. Min(lows) \in lows
    <3> HIDE DEF lows
    <3> QED
      BY <2>4, LeastNumber
  <2>6. target \in ranked /\ \A c \in ranked : cii[target] <= cii[c]
    BY <1>1, <1>7, <2>5
  <2>7. \A c \in ranked : CII(ctx, target, asOf, 1) <= CII(ctx, c, asOf, 1)
    BY <1>3, <2>6
  <2> QED
    BY <1>4, <1>7, <2>6, <2>7 DEF ranked, target, ctx
<1>8. CASE ranked = {}
  BY <1>1, <1>4, <1>8 DEF ranked, target, ctx
<1> QED
  BY <1>7, <1>8

\* The badge proposed is the lowest in a typed state.
LEMMA TargetDoesLowest ==
    ASSUME TypeOK
    PROVE  TargetIsLowest
<1> SUFFICES ASSUME NEW asOf \in Instants
             PROVE  LET ctx    == Context(asOf)
                        target == Target(ctx, asOf, 1)
                    IN  /\ target # None =>
                             /\ rules[target].status = "active"
                             /\ \E u \in Pool(ctx, asOf, 1) : target \notin profiles[u].badges
                        /\ \A x \in Thresholds :
                             LET hit == Triggers(ctx, asOf, x, 1)
                             IN  hit # {} /\ (\A b \in hit : rules[b].status = "active") => target \in hit
  BY DEF TargetIsLowest
<1> DEFINE ctx == Context(asOf)
           ranked == Ranked(ctx, asOf, 1)
           target == Target(ctx, asOf, 1)
<1>1. asOf \in Nat
  BY Constants
<1>2. /\ ranked = {} => target = None
      /\ ranked # {} => /\ target \in ranked
                        /\ \A c \in ranked : CII(ctx, target, asOf, 1) <= CII(ctx, c, asOf, 1)
      /\ \A c \in ranked : CII(ctx, c, asOf, 1) \in Nat
  BY <1>1, TargetIs
<1>3. \A b : b \in ranked <=> /\ b \in DOMAIN rules /\ rules[b].status = "active"
                              /\ IsCandidate(ctx, b, asOf, 1) /\ CII(ctx, b, asOf, 1) # None
  BY ContextIs DEF Ranked
<1>4. \A b \in DOMAIN rules : IsCandidate(ctx, b, asOf, 1) =>
         \E u \in Pool(ctx, asOf, 1) : b \notin profiles[u].badges
  <2>1. \A b \in DOMAIN rules : \A u : b \notin Earned(ctx, u) => b \notin profiles[u].badges
    BY ContextIs DEF Earned
  <2> QED
    BY <2>1 DEF IsCandidate
<1>5. target # None =>
         /\ rules[target].status = "active"
         /\ \E u \in Pool(ctx, asOf, 1) : target \notin profiles[u].badges
  <2> HIDE DEF ctx, ranked, target
  <2> QED
    BY <1>2, <1>3, <1>4
<1>6. ASSUME NEW x \in Thresholds,
             Triggers(ctx, asOf, x, 1) # {}, \A b \in Triggers(ctx, asOf, x, 1) : rules[b].status = "active"
      PROVE  target \in Triggers(ctx, asOf, x, 1)
  <2> DEFINE hit == Triggers(ctx, asOf, x, 1)
  <2>1. \A b : b \in hit <=> /\ b \in DOMAIN rules /\ IsCandidate(ctx, b, asOf, 1)
                             /\ CII(ctx, b, asOf, 1) # None /\ CII(ctx, b, asOf, 1) < x
    BY ContextIs DEF Triggers
  <2>2. PICK h : h \in hit /\ rules[h].status = "active"
    BY <1>6
  <2> HIDE DEF ctx, ranked, target, hit
  <2>3. h \in ranked /\ CII(ctx, h, asOf, 1) < x
    BY <1>3, <2>1, <2>2
  <2>4. /\ target \in ranked /\ CII(ctx, target, asOf, 1) <= CII(ctx, h, asOf, 1)
        /\ CII(ctx, target, asOf, 1) \in Nat /\ CII(ctx, h, asOf, 1) \in Nat
    BY <1>2, <2>3
  <2>5. CII(ctx, target, asOf, 1) < x
    BY <2>3, <2>4 DEF Thresholds
  <2>6. target \in hit
    BY <1>3, <2>1, <2>4, <2>5
  <2> QED
    BY <2>6 DEF hit
<1> QED
  BY <1>5, <1>6

\* The community ignores a badge only if at least half of the players who may still earn
\* it do, and surely if more than half do (Community.IgnoredByHalf).
THEOREM IgnoringIsByHalf == Spec => []IgnoredByHalf
  BY CommunityTyped, HalfDoIgnore, PTL

\* The badge proposed for fading is an active one that somebody may still earn, and it is
\* among those that trigger when these are all active (Community.TargetIsLowest).
THEOREM TargetIsAlwaysLowest == Spec => []TargetIsLowest
  BY CommunityTyped, TargetDoesLowest, PTL

-----------------------------------------------------------------------------
(* Streaks. *)

\* A later instant is not on an earlier day.
LEMMA DaysInOrder ==
    ASSUME NEW s \in Nat, NEW t \in Nat, s <= t
    PROVE  Day(s) \in Nat /\ Day(t) \in Nat /\ Day(s) <= Day(t)
<1> DEFINE p == s \div DayTicks
           q == t \div DayTicks
<1>1. /\ p \in Nat /\ DayTicks * p <= s /\ s < DayTicks * p + DayTicks
      /\ q \in Nat /\ DayTicks * q <= t /\ t < DayTicks * q + DayTicks
  BY DivIs, Constants
<1> HIDE DEF p, q
<1>2. p <= q
  <2> SUFFICES ASSUME q + 1 <= p PROVE FALSE
    BY <1>1
  <2>1. DayTicks * (q + 1) <= DayTicks * p /\ DayTicks * (q + 1) = DayTicks * q + DayTicks
    BY <1>1, Constants
  <2>2. DayTicks * q \in Nat /\ DayTicks * p \in Nat
    BY <1>1, Constants
  <2> QED
    BY <1>1, <2>1, <2>2, Constants
<1> QED
  BY <1>1, <1>2 DEF Day, p, q

\* The numbers of a set, from the highest down.
LEMMA Descending ==
    ASSUME NEW S \in SUBSET Nat, IsFiniteSet(S)
    PROVE  LET s == SortedBy(S, LAMBDA d, e : d > e)
           IN  /\ DOMAIN s = 1..Len(s) /\ Len(s) \in Nat /\ (S # {} => Len(s) # 0)
               /\ \A i \in DOMAIN s : s[i] \in S
               /\ \A d \in S : \E i \in DOMAIN s : s[i] = d
               /\ \A i, j \in DOMAIN s : i < j => s[i] > s[j]
<1> DEFINE s == SortedBy(S, LAMBDA d, e : d > e)
           R == {p \in S \X S : p[1] > p[2]}
<1>1. \A d, e \in S : <<d, e>> \in R <=> d > e
  OBVIOUS
<1>2. IsOrderOf(R, S)
  <2> HIDE DEF R
  <2> QED
    BY <1>1 DEF IsOrderOf
<1>3. PICK t \in SetToSeqs(S) : \A i, j \in DOMAIN t : i < j => <<t[i], t[j]>> \in R
  <2> HIDE DEF R
  <2> QED
    BY <1>2, Sorted
<1>4. \A i, j \in DOMAIN t : i < j => t[i] > t[j]
  BY <1>3
<1>5. s = CHOOSE x \in SetToSeqs(S) : \A i, j \in DOMAIN x : i < j => x[i] > x[j]
  BY DEF SortedBy
<1>6. s \in SetToSeqs(S) /\ \A i, j \in DOMAIN s : i < j => s[i] > s[j]
  <2> HIDE DEF s
  <2> QED
    BY <1>3, <1>4, <1>5
<1> HIDE DEF s
<1>7. /\ DOMAIN s = 1..Len(s) /\ Len(s) \in Nat /\ Len(s) = Cardinality(S)
      /\ \A i \in DOMAIN s : s[i] \in S
      /\ \A d \in S : \E i \in DOMAIN s : s[i] = d
  BY <1>6, Enumeration
<1>8. S # {} => Len(s) # 0
  BY <1>7, FS_EmptySet
<1> QED
  BY <1>6, <1>7, <1>8 DEF s

\* A streak of n days ends today or yesterday and is broken before.
LEMMA StreakRuns ==
    ASSUME NEW days \in SUBSET Nat, IsFiniteSet(days), NEW today \in Nat, NEW last \in Nat, today <= last,
           \A d \in days : d <= last
    PROVE  LET n == CurrentStreak(days, today)
               Run(d, len) == \A i \in 0..(len - 1) : d - i \in days
           IN  IF n = 0 THEN \A d \in days : d < today - 1
               ELSE \E d \in (today - 1)..last :
                       Run(d, n) /\ d - n \notin days /\ \A e \in days : e <= d
<1> DEFINE desc == SortedBy(days, LAMBDA d, e : d > e)
           N == {n \in DOMAIN desc : \A i \in 2..n : desc[i - 1] - desc[i] = 1}
           n == CurrentStreak(days, today)
           top == desc[1]
<1>1. n = IF days = {} THEN 0 ELSE IF today - top > 1 THEN 0 ELSE Max(N)
  BY DEF CurrentStreak
<1>2. /\ DOMAIN desc = 1..Len(desc) /\ Len(desc) \in Nat /\ (days # {} => Len(desc) # 0)
      /\ \A i \in DOMAIN desc : desc[i] \in days
      /\ \A d \in days : \E i \in DOMAIN desc : desc[i] = d
      /\ \A i, j \in DOMAIN desc : i < j => desc[i] > desc[j]
  BY Descending
<1> HIDE DEF desc, n
<1>3. CASE days = {}
  BY <1>1, <1>3 DEF n
<1>4. CASE days # {}
  <2>1. 1 \in DOMAIN desc /\ top \in days /\ top \in Nat /\ top <= last
    <3>1. 1 \in DOMAIN desc
      BY <1>2, <1>4
    <3>2. top \in days
      BY <1>2, <3>1
    <3> HIDE DEF top
    <3> QED
      BY <3>1, <3>2
  <2>2. \A e \in days : e <= top
    <3> SUFFICES ASSUME NEW e \in days PROVE e <= top
      OBVIOUS
    <3>1. PICK i \in DOMAIN desc : desc[i] = e
      BY <1>2
    <3>2. i = 1 \/ 1 < i
      BY <1>2
    <3> QED
      BY <1>2, <2>1, <3>1, <3>2
  <2>3. CASE today - top > 1
    <3>1. n = 0
      BY <1>1, <1>4, <2>3
    <3>2. \A d \in days : d < today - 1
      BY <2>1, <2>2, <2>3
    <3> QED
      BY <3>1, <3>2 DEF n
  <2>4. CASE ~ (today - top > 1)
    <3>1. n = Max(N)
      BY <1>1, <1>4, <2>4
    <3>2. N \in SUBSET Int /\ 1 \in N /\ IsFiniteSet(N)
      <4>1. N \subseteq 1..Len(desc) /\ 1 \in N
        BY <1>2, <2>1
      <4>2. IsFiniteSet(1..Len(desc))
        BY <1>2, FS_Interval
      <4> HIDE DEF N
      <4>3. IsFiniteSet(N)
        BY <4>1, <4>2, FS_Subset
      <4>4. N \in SUBSET Int
        BY <4>1
      <4> QED
        BY <4>1, <4>3, <4>4
    <3>3. n \in N /\ \A m \in N : m <= n
      <4> HIDE DEF N
      <4> QED
        BY <3>1, <3>2, MaxIs
    <3>4. n \in DOMAIN desc /\ n \in Nat /\ n >= 1 /\ \A i \in 2..n : desc[i - 1] - desc[i] = 1
      BY <1>2, <3>3
    <3> DEFINE G == {m \in Nat : m + 1 <= n => desc[m + 1] = top - m}
    <3>5. Nat \subseteq G
      <4>1. 0 \in G
        BY <2>1
      <4>2. ASSUME NEW m \in Nat, m \in G PROVE m + 1 \in G
        <5> SUFFICES ASSUME m + 2 <= n PROVE desc[m + 2] = top - (m + 1)
          OBVIOUS
        <5>1. desc[m + 1] = top - m
          BY <3>4, <4>2
        <5>2. m + 2 \in 2..n /\ m + 2 \in DOMAIN desc
          BY <1>2, <3>4
        <5>3. desc[(m + 2) - 1] - desc[m + 2] = 1
          BY <3>4, <5>2
        <5>4. (m + 2) - 1 = m + 1
          OBVIOUS
        <5>5. desc[m + 2] \in Nat
          BY <1>2, <5>2
        <5> QED
          BY <2>1, <5>1, <5>3, <5>4, <5>5
      <4> HIDE DEF G
      <4> QED
        BY <4>1, <4>2, NumberInduction
    <3>6. \A m \in 0..(n - 1) : desc[m + 1] = top - m /\ top - m \in days
      <4> SUFFICES ASSUME NEW m \in 0..(n - 1) PROVE desc[m + 1] = top - m /\ top - m \in days
        OBVIOUS
      <4>1. m \in G /\ m + 1 <= n /\ m + 1 \in DOMAIN desc
        BY <1>2, <3>4, <3>5
      <4> QED
        BY <1>2, <4>1
    <3> HIDE DEF G
    <3>7. top - n \notin days
      <4> SUFFICES ASSUME top - n \in days PROVE FALSE
        OBVIOUS
      <4>1. PICK j \in DOMAIN desc : desc[j] = top - n
        BY <1>2
      <4>2. desc[n] = top - n + 1
        <5>1. n - 1 \in 0..(n - 1) /\ (n - 1) + 1 = n
          BY <3>4
        <5> QED
          BY <2>1, <3>4, <3>6, <5>1
      <4>3. j > n
        <5> SUFFICES ASSUME j <= n PROVE FALSE
          BY <1>2, <3>4
        <5>1. j - 1 \in 0..(n - 1) /\ (j - 1) + 1 = j
          BY <1>2, <3>4
        <5>2. desc[j] = top - (j - 1)
          BY <3>6, <5>1
        <5> QED
          BY <2>1, <3>4, <4>1, <5>1, <5>2
      <4>4. n + 1 \in DOMAIN desc /\ desc[n + 1] >= desc[j] /\ desc[n + 1] < desc[n]
        <5>1. n + 1 \in DOMAIN desc /\ (n + 1 = j \/ n + 1 < j) /\ n < n + 1
          BY <1>2, <3>4, <4>3
        <5>2. desc[n] > desc[n + 1] /\ (n + 1 < j => desc[n + 1] > desc[j])
          BY <1>2, <3>4, <5>1
        <5>3. desc[n] \in Nat /\ desc[n + 1] \in Nat /\ desc[j] \in Nat
          BY <1>2, <3>4, <5>1
        <5> QED
          BY <5>1, <5>2, <5>3
      <4>5. desc[n] - desc[n + 1] = 1
        <5> DEFINE next == desc[n + 1]
        <5>1. next \in Nat
          BY <1>2, <4>4
        <5>2. next >= top - n /\ next < top - n + 1
          BY <4>1, <4>2, <4>4
        <5> HIDE DEF next, top
        <5>3. top - n + 1 - next = 1
          BY <2>1, <3>4, <5>1, <5>2
        <5>4. desc[n] - next = 1
          BY <2>1, <3>4, <4>2, <5>1, <5>3
        <5> QED
          BY <5>4 DEF next
      <4>6. \A i \in 2..(n + 1) : desc[i - 1] - desc[i] = 1
        <5> SUFFICES ASSUME NEW i \in 2..(n + 1) PROVE desc[i - 1] - desc[i] = 1
          OBVIOUS
        <5>1. CASE i = n + 1
          <6>1. i - 1 = n
            BY <3>4, <5>1
          <6> QED
            BY <4>5, <5>1, <6>1
        <5>2. CASE i # n + 1
          <6>1. i \in 2..n
            BY <3>4, <5>2
          <6> QED
            BY <3>4, <6>1
        <5> QED
          BY <5>1, <5>2
      <4>7. n + 1 \in N
        BY <4>4, <4>6
      <4> QED
        BY <3>3, <3>4, <4>7
    <3>8. top \in (today - 1)..last
      BY <2>1, <2>4
    <3>9. n # 0
      BY <3>4
    <3> HIDE DEF N, top
    <3> QED
      BY <2>2, <3>6, <3>7, <3>8, <3>9 DEF n
  <2> QED
    BY <2>3, <2>4
<1> QED
  BY <1>3, <1>4

\* A streak is a run of days in a typed state.
LEMMA StreakDoesRun ==
    ASSUME TypeOK
    PROVE  StreakIsRun
<1> SUFFICES ASSUME NEW u \in Users
             PROVE  LET days == ActiveDays(log, u)
                        n    == CurrentStreak(days, Day(now))
                        Run(d, len) == \A i \in 0..(len - 1) : d - i \in days
                    IN  IF n = 0 THEN \A d \in days : d < Day(now) - 1
                        ELSE \E d \in (Day(now) - 1)..Day(now + Ahead) :
                                Run(d, n) /\ d - n \notin days /\ \A e \in days : e <= d
  BY DEF StreakIsRun
<1> DEFINE mine == {j \in DOMAIN log : log[j].who = u}
           day == [k \in mine |-> Day(log[k].at)]
           days == ActiveDays(log, u)
<1>1. \A k \in DOMAIN log : log[k].at \in Nat /\ log[k].at <= now + Ahead
  BY LogEntries, Constants DEF Entry, TypeOK
<1>2. /\ now \in Nat /\ now + Ahead \in Nat
      /\ Day(now) \in Nat /\ Day(now + Ahead) \in Nat /\ Day(now) <= Day(now + Ahead)
  <2>1. now \in Nat /\ now + Ahead \in Nat /\ now <= now + Ahead
    BY Constants DEF TypeOK
  <2> QED
    BY <2>1, DaysInOrder
<1>3. days = {day[k] : k \in mine}
  BY DEF ActiveDays
<1>4. IsFiniteSet(mine)
  BY LogEntries, FS_Subset
<1>5. \A k \in mine : day[k] \in Nat /\ day[k] <= Day(now + Ahead)
  BY <1>1, <1>2, DaysInOrder
<1> HIDE DEF day, mine, days
<1>6. IsFiniteSet(days)
  BY <1>3, <1>4, ImageIsFinite
<1>7. days \in SUBSET Nat /\ \A d \in days : d <= Day(now + Ahead)
  BY <1>3, <1>5
<1> QED
  BY <1>2, <1>6, <1>7, StreakRuns DEF days

\* A streak of n is a check-in on each of n days in a row, the last of them yesterday,
\* today or on a day a check-in dated ahead of the clock may have, and none on the day
\* before them (Community.StreakIsRun).
THEOREM StreakIsAlwaysRun == Spec => []StreakIsRun
  BY CommunityTyped, StreakDoesRun, PTL

-----------------------------------------------------------------------------
(* Recommendations. *)

\* Similarities are counts of three features.
LEMMA SimilarityIsNat == ASSUME NEW s, NEW t PROVE Similarity(s, t) \in Nat
<1> DEFINE F == {"type", "area", "interval"}
           G == {f \in F : TaskOf[s][f] = TaskOf[t][f]}
<1>1. IsFiniteSet(F)
  <2>1. IsFiniteSet({}) /\ IsFiniteSet({} \cup {"type"})
    BY FS_EmptySet, FS_AddElement
  <2>2. IsFiniteSet(({} \cup {"type"}) \cup {"area"})
    BY <2>1, FS_AddElement
  <2>3. IsFiniteSet((({} \cup {"type"}) \cup {"area"}) \cup {"interval"})
    BY <2>2, FS_AddElement
  <2>4. F = (({} \cup {"type"}) \cup {"area"}) \cup {"interval"}
    OBVIOUS
  <2> HIDE DEF F
  <2> QED
    BY <2>3, <2>4
<1>2. G \in SUBSET F
  OBVIOUS
<1>3. Similarity(s, t) = Cardinality(G)
  BY DEF Similarity
<1> HIDE DEF F, G
<1>4. IsFiniteSet(G)
  BY <1>1, <1>2, FS_Subset
<1> QED
  BY <1>3, <1>4, FS_CardinalityType

\* The most similar tasks done are some of those done.
LEMMA MostSimilarAre ==
    ASSUME NEW done \in SUBSET Tasks, NEW t
    PROVE  MostSimilar(t, done) \in SUBSET done /\ IsFiniteSet(MostSimilar(t, done))
<1> DEFINE Closer(x, y) == IF Similarity(t, x) # Similarity(t, y)
                           THEN Similarity(t, x) > Similarity(t, y) ELSE x < y
           R == {p \in done \X done : Closer(p[1], p[2])}
           near == SortedBy(done, Closer)
           n == IF Nearest < Len(near) THEN Nearest ELSE Len(near)
<1>1. IsFiniteSet(done) /\ done \subseteq Nat
  BY Constants, FS_Subset
<1>2. \A x, y \in done : <<x, y>> \in R <=> Closer(x, y)
  OBVIOUS
<1>3. IsOrderOf(R, done)
  <2> HIDE DEF R
  <2>1. \A x : Similarity(t, x) \in Nat
    BY SimilarityIsNat
  <2>2. \A x, y \in done : x # y => Closer(x, y) \/ Closer(y, x)
    BY <1>1, <2>1
  <2>3. \A x, y, z \in done : Closer(x, y) /\ Closer(y, z) => Closer(x, z)
    BY <1>1, <2>1
  <2> HIDE DEF Closer
  <2> QED
    BY <1>2, <2>2, <2>3 DEF IsOrderOf
<1>4. PICK s \in SetToSeqs(done) : \A i, j \in DOMAIN s : i < j => <<s[i], s[j]>> \in R
  <2> HIDE DEF R
  <2> QED
    BY <1>1, <1>3, Sorted
<1>5. \A i, j \in DOMAIN s : i < j => Closer(s[i], s[j])
  BY <1>4
<1>6. near = CHOOSE x \in SetToSeqs(done) : \A i, j \in DOMAIN x : i < j => Closer(x[i], x[j])
  BY DEF SortedBy
<1>7. near \in SetToSeqs(done)
  <2> HIDE DEF near, Closer
  <2> QED
    BY <1>4, <1>5, <1>6
<1>8. MostSimilar(t, done) = {near[k] : k \in 1..n}
  BY DEF MostSimilar
<1> HIDE DEF near
<1>9. Len(near) \in Nat /\ \A i \in 1..Len(near) : near[i] \in done
  BY <1>1, <1>7, Enumeration
<1>10. n <= Len(near) /\ n \in Nat
  BY <1>9, PlayAssumption
<1> HIDE DEF n
<1>11. \A k \in 1..n : near[k] \in done
  BY <1>9, <1>10
<1>12. MostSimilar(t, done) \in SUBSET done
  BY <1>8, <1>11
<1> QED
  BY <1>1, <1>12, FS_Subset

\* An estimate is a fraction between the lowest and the highest rating it is made of.
LEMMA EstimateIs ==
    ASSUME NEW done \in SUBSET Tasks, NEW stars \in [Tasks -> 1..5 \cup {None}], NEW t
    PROVE  LET Score == Estimate(t, done, stars)
               Stars == {IF stars[x] = None THEN NeutralScore ELSE stars[x] : x \in done}
           IN  /\ Score.num \in Nat /\ Score.den \in Nat \ {0}
               /\ Score.num > 0 => /\ 5 * Score.num >= Min(Stars) * Score.den
                                   /\ 5 * Score.num <= Max(Stars) * Score.den
<1> DEFINE near == MostSimilar(t, done)
           star(x) == IF stars[x] = None THEN NeutralScore ELSE stars[x]
           Stars == {star(x) : x \in done}
           w == [x \in near |-> Similarity(t, x)]
           v == [x \in near |-> star(x) * Similarity(t, x)]
           sims == SumFunction(w)
           marks == SumFunction(v)
           Score == Estimate(t, done, stars)
<1>1. near \in SUBSET done /\ IsFiniteSet(near) /\ IsFiniteSet(done)
  BY MostSimilarAre, Constants, FS_Subset
<1>2. Score = IF sims = 0 THEN [num |-> 0, den |-> 1] ELSE [num |-> marks, den |-> 5 * sims]
  BY DEF Estimate
<1>3. \A x \in done : star(x) \in Nat
  BY DEF NeutralScore
<1>4. DOMAIN w = near /\ DOMAIN v = near /\ \A x \in near : v[x] = star(x) * w[x]
  OBVIOUS
<1>5. \A x \in near : w[x] \in Nat
  BY SimilarityIsNat
<1>6. \A x \in near : star(x) \in Nat
  BY <1>1, <1>3
<1> HIDE DEF w, v, star, near
<1>7. \A x \in near : v[x] \in Nat
  <2> SUFFICES ASSUME NEW x \in near PROVE v[x] \in Nat
    OBVIOUS
  <2>1. v[x] = star(x) * w[x] /\ star(x) \in Nat /\ w[x] \in Nat
    BY <1>4, <1>5, <1>6
  <2> QED
    BY <2>1
<1>8. sims = SumFunctionOnSet(w, near) /\ marks = SumFunctionOnSet(v, near)
  BY <1>4, SumOf
<1>9. sims \in Nat /\ marks \in Nat
  BY <1>1, <1>5, <1>7, <1>8, SumNat
<1> HIDE DEF Score, sims, marks
<1>10. Score.num \in Nat /\ Score.den \in Nat \ {0}
  BY <1>2, <1>9
<1>11. ASSUME Score.num > 0
       PROVE  5 * Score.num >= Min(Stars) * Score.den /\ 5 * Score.num <= Max(Stars) * Score.den
  <2>1. sims # 0 /\ Score.num = marks /\ Score.den = 5 * sims
    BY <1>2, <1>11
  <2>2. near # {}
    <3>1. near = {} => sims = 0
      BY <1>8, SumEmpty
    <3> QED
      BY <2>1, <3>1
  <2> DEFINE f == [x \in done |-> star(x)]
  <2>3. Stars = {f[x] : x \in done}
    OBVIOUS
  <2>4. IsFiniteSet(Stars)
    <3> HIDE DEF f, Stars
    <3> QED
      BY <1>1, <2>3, ImageIsFinite
  <2>5. Stars \in SUBSET Int /\ Stars # {} /\ \A x \in near : star(x) \in Stars
    BY <1>1, <1>3, <2>2
  <2> DEFINE lo == Min(Stars)
             hi == Max(Stars)
  <2>6. lo \in Int /\ hi \in Int /\ \A x \in near : lo <= star(x) /\ star(x) <= hi
    <3> HIDE DEF Stars
    <3>1. lo \in Stars /\ hi \in Stars /\ \A y \in Stars : lo <= y /\ y <= hi
      BY <2>4, <2>5, MinIs, MaxIs
    <3> QED
      BY <2>5, <3>1
  <2> HIDE DEF Stars, lo, hi
  <2> DEFINE below == [x \in near |-> lo * w[x]]
             above == [x \in near |-> hi * w[x]]
  <2>7. \A x \in near : below[x] = lo * w[x] /\ above[x] = hi * w[x]
    OBVIOUS
  <2> HIDE DEF below, above
  <2>8. \A x \in near : /\ below[x] \in Int /\ above[x] \in Int /\ v[x] \in Int
                        /\ below[x] <= v[x] /\ v[x] <= above[x]
    <3> SUFFICES ASSUME NEW x \in near
                 PROVE  /\ below[x] \in Int /\ above[x] \in Int /\ v[x] \in Int
                        /\ below[x] <= v[x] /\ v[x] <= above[x]
      OBVIOUS
    <3> DEFINE m == star(x)
               y == w[x]
    <3>1. /\ m \in Nat /\ y \in Nat /\ lo \in Int /\ hi \in Int /\ lo <= m /\ m <= hi
          /\ below[x] = lo * y /\ above[x] = hi * y /\ v[x] = m * y
      BY <1>4, <1>5, <1>6, <2>6, <2>7
    <3> HIDE DEF m, y
    <3>2. lo * y <= m * y /\ m * y <= hi * y
      BY <3>1
    <3> QED
      BY <3>1, <3>2
  <2>9. /\ SumFunctionOnSet(below, near) <= SumFunctionOnSet(v, near)
        /\ SumFunctionOnSet(v, near) <= SumFunctionOnSet(above, near)
    BY <1>1, <2>8, SumLe
  <2>10. \A x \in near : w[x] \in Int
    BY <1>5
  <2>11. /\ SumFunctionOnSet(below, near) = lo * SumFunctionOnSet(w, near)
         /\ SumFunctionOnSet(above, near) = hi * SumFunctionOnSet(w, near)
    BY <1>1, <2>6, <2>7, <2>10, SumTimes
  <2>12. lo * sims <= marks /\ marks <= hi * sims
    BY <1>8, <2>9, <2>11
  <2>13. lo * (5 * sims) = 5 * (lo * sims) /\ hi * (5 * sims) = 5 * (hi * sims)
    BY <1>9, <2>6
  <2>14. lo * sims \in Int /\ hi * sims \in Int
    BY <1>9, <2>6
  <2>15. 5 * marks >= lo * (5 * sims) /\ 5 * marks <= hi * (5 * sims)
    BY <1>9, <2>12, <2>13, <2>14
  <2> QED
    BY <2>1, <2>15 DEF lo, hi
<1> QED
  BY <1>10, <1>11 DEF Score, star

\* The adaptive engine offers the best estimates of the open tasks, up to the limit.
LEMMA OffersBest ==
    ASSUME NEW done \in SUBSET Tasks, NEW stars \in [Tasks -> 1..5 \cup {None}],
           NEW closed \in SUBSET Tasks
    PROVE  LET got == Recommended("adaptive", done, stars, closed)
               open == Tasks \ closed
               Of(t) == Estimate(t, done, stars)
           IN  /\ Range(got) \subseteq open
               /\ Len(got) = Min({Shown, Cardinality(open)})
               /\ \A t \in Range(got) : \A s \in open \ Range(got) :
                      Of(s).num * Of(t).den <= Of(t).num * Of(s).den
<1> DEFINE open == Tasks \ closed
           got == Recommended("adaptive", done, stars, closed)
           Of(t) == Estimate(t, done, stars)
           times(x, y) == Of(x).num * Of(y).den
           Better(x, y) == IF times(x, y) # times(y, x) THEN times(x, y) > times(y, x) ELSE x < y
           R == {p \in open \X open : Better(p[1], p[2])}
           all == SortedBy(open, Better)
           n == IF Shown < Len(all) THEN Shown ELSE Len(all)
<1>1. IsFiniteSet(open) /\ open \subseteq Nat
  BY Constants, FS_Subset
<1>2. \A x : Of(x).num \in Nat /\ Of(x).den \in Nat \ {0}
  BY EstimateIs
<1>3. \A x, y : times(x, y) \in Nat
  BY <1>2
<1>4. ASSUME NEW x, NEW y, NEW z, times(y, x) <= times(x, y), times(z, y) <= times(y, z)
      PROVE  times(z, x) <= times(x, z)
  <2> DEFINE a == Of(x).num
             b == Of(x).den
             c == Of(y).num
             d == Of(y).den
             e == Of(z).num
             f == Of(z).den
  <2>1. /\ a \in Nat /\ b \in Nat \ {0} /\ c \in Nat /\ d \in Nat \ {0}
        /\ e \in Nat /\ f \in Nat \ {0}
    BY <1>2
  <2>2. c * b <= a * d /\ e * d <= c * f
    BY <1>4
  <2> HIDE DEF a, b, c, d, e, f
  <2>3. e * b <= a * f
    BY <2>1, <2>2, RatiosOrdered
  <2> QED
    BY <2>3 DEF a, b, c, d, e, f
<1>5. got = SubSeq(all, 1, n)
  BY DEF Recommended
<1> HIDE DEF Of, times
<1>6. \A x, y \in open : <<x, y>> \in R <=> Better(x, y)
  OBVIOUS
<1>7. IsOrderOf(R, open)
  <2> HIDE DEF R
  <2>1. \A x, y \in open : x # y => Better(x, y) \/ Better(y, x)
    BY <1>1, <1>3
  <2>2. ASSUME NEW x \in open, NEW y \in open, NEW z \in open, Better(x, y), Better(y, z)
        PROVE  Better(x, z)
    <3>1. times(y, x) <= times(x, y) /\ times(z, y) <= times(y, z)
      BY <1>3, <2>2
    <3>2. times(z, x) <= times(x, z)
      BY <1>4, <3>1
    <3>3. CASE times(x, z) = times(z, x)
      <4>1. times(x, z) <= times(z, x)
        BY <1>3, <3>3
      <4>2. times(x, y) <= times(y, x)
        BY <1>4, <3>1, <4>1
      <4>3. times(y, z) <= times(z, y)
        BY <1>4, <3>1, <4>1
      <4>4. times(x, y) = times(y, x) /\ times(y, z) = times(z, y)
        BY <1>3, <3>1, <4>2, <4>3
      <4>5. x < y /\ y < z
        BY <2>2, <4>4
      <4> QED
        BY <1>1, <3>3, <4>5
    <3>4. CASE times(x, z) # times(z, x)
      BY <1>3, <3>2, <3>4
    <3> QED
      BY <3>3, <3>4
  <2> HIDE DEF Better
  <2> QED
    BY <1>6, <2>1, <2>2 DEF IsOrderOf
<1>8. PICK s \in SetToSeqs(open) : \A i, j \in DOMAIN s : i < j => <<s[i], s[j]>> \in R
  <2> HIDE DEF R
  <2> QED
    BY <1>1, <1>7, Sorted
<1>9. \A i, j \in DOMAIN s : i < j => Better(s[i], s[j])
  BY <1>8
<1>10. all = CHOOSE x \in SetToSeqs(open) : \A i, j \in DOMAIN x : i < j => Better(x[i], x[j])
  BY DEF SortedBy
<1>11. all \in SetToSeqs(open) /\ \A i, j \in DOMAIN all : i < j => Better(all[i], all[j])
  <2> HIDE DEF all, Better
  <2> QED
    BY <1>8, <1>9, <1>10
<1> HIDE DEF all
<1>12. /\ all \in Seq(open) /\ Len(all) = Cardinality(open) /\ Len(all) \in Nat
       /\ DOMAIN all = 1..Len(all) /\ \A i \in DOMAIN all : all[i] \in open
       /\ \A x \in open : \E i \in DOMAIN all : all[i] = x
  BY <1>1, <1>11, Enumeration
<1>13. n \in Nat /\ n <= Len(all) /\ (n = Shown \/ n = Len(all)) /\ n <= Shown /\ Shown \in Nat
  BY <1>12, PlayAssumption
<1> HIDE DEF n
<1>14. Len(got) = n /\ DOMAIN got = 1..n /\ \A i \in 1..n : got[i] = all[i]
  <2> HIDE DEF got
  <2> QED
    BY <1>5, <1>12, <1>13
<1>15. Range(got) = {all[i] : i \in 1..n}
  <2> HIDE DEF got
  <2> QED
    BY <1>14 DEF Range
<1> HIDE DEF got
<1>16. Range(got) \subseteq open
  BY <1>12, <1>13, <1>15
<1>17. Len(got) = Min({Shown, Cardinality(open)})
  BY <1>12, <1>13, <1>14 DEF Min
<1>18. ASSUME NEW t \in Range(got), NEW x \in open \ Range(got)
       PROVE  times(x, t) <= times(t, x)
  <2>1. PICK i \in 1..n : t = all[i]
    BY <1>15
  <2>2. PICK j \in DOMAIN all : x = all[j]
    BY <1>12
  <2>3. i \in DOMAIN all /\ j \notin 1..n /\ i < j
    <3>1. j \notin 1..n
      BY <1>15, <1>18, <2>2
    <3>2. i \in 1..n /\ j \in 1..Len(all)
      BY <1>12, <2>2
    <3> QED
      BY <1>12, <1>13, <3>1, <3>2
  <2>4. Better(t, x)
    BY <1>11, <2>1, <2>2, <2>3
  <2> QED
    BY <1>3, <2>4
<1> QED
  BY <1>16, <1>17, <1>18 DEF times, Of, got

\* Whatever has been done and rated, the recommendations are right.
LEMMA TypedRecommends == TypeOK => RecommendsOpen
<1> SUFFICES ASSUME TypeOK, NEW u \in Users, NEW done \in SUBSET profiles[u].tasks
             PROVE
        LET got  == Recommended("adaptive", done, profiles[u].stars, solved)
            open == Tasks \ solved
            Of(t) == Estimate(t, done, profiles[u].stars)
            Stars == {IF profiles[u].stars[t] = None THEN NeutralScore ELSE profiles[u].stars[t] : t \in done}
        IN  /\ Range(got) \subseteq open
            /\ Len(got) = Min({Shown, Cardinality(open)})
            /\ \A t \in Range(got) : \A s \in open \ Range(got) :
                   Of(s).num * Of(t).den <= Of(t).num * Of(s).den
            /\ \A t \in open : Of(t).num > 0 =>
                   /\ 5 * Of(t).num >= Min(Stars) * Of(t).den
                   /\ 5 * Of(t).num <= Max(Stars) * Of(t).den
  BY DEF RecommendsOpen
<1> DEFINE stars == profiles[u].stars
<1>1. done \in SUBSET Tasks /\ stars \in [Tasks -> 1..5 \cup {None}] /\ solved \in SUBSET Tasks
  BY DEF TypeOK, Profile
<1> HIDE DEF stars
<1> DEFINE got  == Recommended("adaptive", done, stars, solved)
           open == Tasks \ solved
           Of(t) == Estimate(t, done, stars)
           Stars == {IF stars[t] = None THEN NeutralScore ELSE stars[t] : t \in done}
<1>2. /\ Range(got) \subseteq open
      /\ Len(got) = Min({Shown, Cardinality(open)})
      /\ \A t \in Range(got) : \A s \in open \ Range(got) :
             Of(s).num * Of(t).den <= Of(t).num * Of(s).den
  BY <1>1, OffersBest
<1>3. ASSUME NEW t \in open, Of(t).num > 0
      PROVE  /\ 5 * Of(t).num >= Min(Stars) * Of(t).den
             /\ 5 * Of(t).num <= Max(Stars) * Of(t).den
  BY <1>1, <1>3, EstimateIs
<1> QED
  BY <1>2, <1>3 DEF stars

\* The adaptive engine offers open tasks only, as many as there are up to the limit, and
\* leaves out none that is estimated higher, whichever of the contributions it finds
\* (Community.RecommendsOpen).
THEOREM RecommendationsAreOpen == Spec => []RecommendsOpen
<1>1. TypeOK => RecommendsOpen
  BY TypedRecommends
<1> QED
  BY <1>1, CommunityTyped, PTL

-----------------------------------------------------------------------------
(* The listing. *)

\* A page limit is a positive number.
LEMMA LimitIs == ASSUME NEW raw \in {None, 0, 200} PROVE Limit(raw) \in Nat \ {0}
<1>1. CASE raw = None
  BY <1>1, ReportsAssumption DEF Limit
<1>2. CASE raw # None
  <2> DEFINE m == Min({raw, PageMax})
  <2>1. raw \in Nat /\ PageMax \in Nat
    BY <1>2, ReportsAssumption
  <2>2. m \in Nat
    BY <2>1, OfTwo
  <2>3. Limit(raw) = Max({1, m})
    BY <1>2 DEF Limit
  <2> HIDE DEF m
  <2> QED
    BY <2>2, <2>3, OfTwo
<1> QED
  BY <1>1, <1>2

\* A page is what is left of the rows up to its end, after those of the pages before.
LEMMA SliceIs ==
    ASSUME NEW S, NEW rows \in Seq(S), NEW limit \in Nat \ {0}, NEW n \in Nat \ {0}
    PROVE  LET cut(m) == IF Len(rows) <= m * limit THEN Len(rows) ELSE m * limit
               page == Slice(rows, n, limit)
           IN  /\ Len(page) = cut(n) - cut(n - 1) /\ Len(page) \in Nat /\ Len(page) <= limit
               /\ DOMAIN page = 1..Len(page)
               /\ \A i \in 1..Len(page) : /\ (n - 1) * limit + i \in 1..Len(rows)
                                          /\ page[i] = rows[(n - 1) * limit + i]
<1> DEFINE first == (n - 1) * limit
           last == n * limit
           size == Len(rows)
           cut(m) == IF size <= m * limit THEN size ELSE m * limit
           page == Slice(rows, n, limit)
           end == Min({size, last})
<1>1. size \in Nat /\ first \in Nat /\ last \in Nat /\ last = first + limit
  OBVIOUS
<1>2. end = cut(n) /\ end \in Nat
  BY <1>1, OfTwo
<1>3. page = SubSeq(rows, first + 1, end)
  BY DEF Slice
<1>4. cut(n) = (IF size <= last THEN size ELSE last)
      /\ cut(n - 1) = (IF size <= first THEN size ELSE first)
  OBVIOUS
<1> DEFINE until == cut(n)
           before == cut(n - 1)
<1>5. until = end /\ before = (IF size <= first THEN size ELSE first)
      /\ end = (IF size <= last THEN size ELSE last)
  BY <1>2, <1>4
<1> HIDE DEF first, last, page, end, until, before
<1>6. /\ Len(page) = (IF first + 1 <= end THEN end - first ELSE 0)
      /\ DOMAIN page = 1..Len(page)
      /\ \A i \in 1..Len(page) : page[i] = rows[first + i]
  <2> DEFINE a == first + 1
  <2>1. a \in Int /\ end \in Int /\ \A i \in a..end : rows[i] \in S
    BY <1>1, <1>2, <1>5
  <2> HIDE DEF a
  <2>2. /\ SubSeq(rows, a, end) \in Seq(S)
        /\ Len(SubSeq(rows, a, end)) = (IF a <= end THEN end - a + 1 ELSE 0)
        /\ \A i \in 1..(end - a + 1) : SubSeq(rows, a, end)[i] = rows[a + i - 1]
    BY <2>1, SubSeqProperties
  <2>3. page = SubSeq(rows, a, end)
    BY <1>3 DEF a
  <2>4. a = first + 1
    BY DEF a
  <2>5. Len(page) = (IF first + 1 <= end THEN end - first ELSE 0) /\ DOMAIN page = 1..Len(page)
    BY <1>1, <1>2, <2>2, <2>3, <2>4
  <2>6. ASSUME NEW i \in 1..Len(page) PROVE page[i] = rows[first + i]
    <3>1. i \in 1..(end - a + 1) /\ a + i - 1 = first + i
      BY <1>1, <1>2, <2>4, <2>5
    <3> QED
      BY <2>2, <2>3, <3>1
  <2> QED
    BY <2>5, <2>6
<1>7. Len(page) = until - before /\ Len(page) \in Nat /\ Len(page) <= limit
  <2>1. Len(page) = (IF first + 1 <= end THEN end - first ELSE 0)
    BY <1>6
  <2>2. CASE size <= first
    <3>1. end = size /\ until = size /\ before = size
      BY <1>1, <1>5, <2>2
    <3>2. Len(page) = 0
      BY <1>1, <2>1, <2>2, <3>1
    <3> QED
      BY <1>1, <3>1, <3>2
  <2>3. CASE first < size /\ size <= last
    <3>1. end = size /\ until = size /\ before = first
      BY <1>1, <1>5, <2>3
    <3>2. Len(page) = size - first
      BY <1>1, <2>1, <2>3, <3>1
    <3> QED
      BY <1>1, <2>3, <3>1, <3>2
  <2>4. CASE last < size
    <3>1. end = last /\ until = last /\ before = first
      BY <1>1, <1>5, <2>4
    <3>2. Len(page) = limit
      BY <1>1, <2>1, <2>4, <3>1
    <3> QED
      BY <1>1, <3>1, <3>2
  <2> QED
    BY <1>1, <2>2, <2>3, <2>4
<1>8. \A i \in 1..Len(page) : first + i \in 1..size
  BY <1>1, <1>2, <1>5, <1>6
<1> QED
  BY <1>6, <1>7, <1>8 DEF first, page, until, before

\* Pages enough to hold the rows hold each of them, and no more rows together.
LEMMA PagesAddUp ==
    ASSUME NEW S, NEW rows \in Seq(S), NEW limit \in Nat \ {0}, NEW pages \in Nat,
           Len(rows) <= pages
    PROVE  /\ SumFunction([n \in 1..pages |-> Len(Slice(rows, n, limit))]) = Len(rows)
           /\ UNION {Range(Slice(rows, n, limit)) : n \in 1..pages} = Range(rows)
<1> DEFINE size == Len(rows)
           cut(m) == IF size <= m * limit THEN size ELSE m * limit
           page(n) == Slice(rows, n, limit)
           w == [n \in Nat \ {0} |-> Len(page(n))]
           v == [n \in 1..pages |-> Len(page(n))]
<1>1. /\ \A n \in Nat \ {0} : Len(page(n)) = cut(n) - cut(n - 1) /\ Len(page(n)) \in Nat
      /\ \A n \in Nat \ {0} : \A i \in 1..Len(page(n)) :
            /\ (n - 1) * limit + i \in 1..size
            /\ page(n)[i] = rows[(n - 1) * limit + i]
      /\ \A n \in Nat \ {0} : DOMAIN page(n) = 1..Len(page(n))
  BY SliceIs
<1>2. size \in Nat /\ cut(0) = 0 /\ \A m \in Nat : cut(m) \in Nat
  OBVIOUS
<1>3. cut(pages) = size
  <2>1. pages <= pages * limit /\ pages * limit \in Nat
    <3>1. pages * limit = pages * (limit - 1) + pages /\ pages * (limit - 1) \in Nat
      OBVIOUS
    <3> QED
      BY <3>1
  <2>2. size <= pages * limit
    BY <1>2, <2>1
  <2> QED
    BY <2>2
<1>4. \A n \in Nat \ {0} : w[n] = cut(n) - cut(n - 1) /\ w[n] \in Int
  <2>1. \A n \in Nat \ {0} : w[n] = Len(page(n))
    OBVIOUS
  <2> HIDE DEF w
  <2>2. ASSUME NEW n \in Nat \ {0}
        PROVE  Len(page(n)) = cut(n) - cut(n - 1) /\ Len(page(n)) \in Int
    <3>1. Len(page(n)) = cut(n) - cut(n - 1) /\ Len(page(n)) \in Nat
      BY <1>1
    <3> QED
      BY <3>1
  <2> QED
    BY <2>1, <2>2
<1>5. \A n \in 1..pages : v[n] = w[n]
  OBVIOUS
<1>6. DOMAIN v = 1..pages
  OBVIOUS
<1> HIDE DEF cut, page, w, v
<1> DEFINE G == {m \in Nat : SumFunctionOnSet(w, 1..m) = cut(m)}
<1>7. 0 \in G
  <2>1. 1..0 = {}
    OBVIOUS
  <2> QED
    BY <1>2, <2>1, SumEmpty
<1>8. ASSUME NEW m \in Nat, m \in G PROVE m + 1 \in G
  <2>1. 1..(m + 1) = (1..m) \cup {m + 1} /\ m + 1 \notin 1..m
    OBVIOUS
  <2>2. IsFiniteSet(1..m) /\ \A n \in (1..m) \cup {m + 1} : w[n] \in Int
    <3>1. \A n \in (1..m) \cup {m + 1} : n \in Nat \ {0}
      OBVIOUS
    <3>2. IsFiniteSet(1..m)
      BY FS_Interval
    <3>3. \A n \in Nat \ {0} : w[n] \in Int
      BY <1>4
    <3> QED
      BY <3>1, <3>2, <3>3
  <2>3. SumFunctionOnSet(w, (1..m) \cup {m + 1}) = SumFunctionOnSet(w, 1..m) + w[m + 1]
    BY <2>1, <2>2, SumAdd
  <2>4. w[m + 1] = cut(m + 1) - cut(m)
    <3>1. m + 1 \in Nat \ {0} /\ (m + 1) - 1 = m
      OBVIOUS
    <3> QED
      BY <1>4, <3>1
  <2>5. SumFunctionOnSet(w, 1..m) = cut(m) /\ cut(m) \in Nat /\ cut(m + 1) \in Nat
    <3>1. m + 1 \in Nat
      OBVIOUS
    <3>2. cut(m) \in Nat /\ cut(m + 1) \in Nat
      BY <1>2, <3>1
    <3> QED
      BY <1>8, <3>2
  <2>6. SumFunctionOnSet(w, 1..(m + 1)) = cut(m + 1)
    <3>1. SumFunctionOnSet(w, 1..(m + 1)) = SumFunctionOnSet(w, 1..m) + w[m + 1]
      <4> HIDE DEF G
      <4> QED
        BY ONLY <2>1, <2>3
    <3>2. cut(m) + (cut(m + 1) - cut(m)) = cut(m + 1)
      BY <2>5
    <3> QED
      BY <2>4, <2>5, <3>1, <3>2
  <2> QED
    BY <2>6
<1>9. pages \in G
  <2> HIDE DEF G
  <2> QED
    BY <1>7, <1>8, NumberInduction
<1>10. SumFunction(v) = size
  <2>1. SumFunction(v) = SumFunctionOnSet(v, 1..pages)
    BY <1>6, SumOf
  <2>2. IsFiniteSet(1..pages)
    BY FS_Interval
  <2>3. SumFunctionOnSet(v, 1..pages) = SumFunctionOnSet(w, 1..pages)
    BY <1>5, <2>2, SumExt
  <2> QED
    BY <1>3, <1>9, <2>1, <2>3
<1>11. \A n \in 1..pages : Range(page(n)) \subseteq Range(rows)
  <2> SUFFICES ASSUME NEW n \in 1..pages, NEW x \in Range(page(n)) PROVE x \in Range(rows)
    OBVIOUS
  <2>0. n \in Nat \ {0}
    OBVIOUS
  <2>1. PICK i \in 1..Len(page(n)) : x = page(n)[i]
    <3>1. DOMAIN page(n) = 1..Len(page(n))
      BY <1>1, <2>0
    <3> QED
      BY <3>1 DEF Range
  <2>2. (n - 1) * limit + i \in DOMAIN rows /\ x = rows[(n - 1) * limit + i]
    <3>1. /\ (n - 1) * limit + i \in 1..size
          /\ page(n)[i] = rows[(n - 1) * limit + i]
      BY <1>1, <2>0, <2>1
    <3>2. DOMAIN rows = 1..size
      OBVIOUS
    <3> QED
      BY <2>1, <3>1, <3>2
  <2> QED
    BY <2>2 DEF Range
<1>12. ASSUME NEW x \in Range(rows) PROVE \E n \in 1..pages : x \in Range(page(n))
  <2>1. PICK i \in 1..size : x = rows[i]
    BY DEF Range
  <2> DEFINE q == (i - 1) \div limit
             n == q + 1
             j == i - q * limit
  <2>2. /\ q \in Nat /\ limit * q <= i - 1 /\ i - 1 < limit * q + limit
    <3>1. i - 1 \in Nat /\ i - 1 \in Int
      BY <1>2, <2>1
    <3> QED
      BY <3>1, DivIs
  <2> HIDE DEF q
  <2>3. q * limit = limit * q /\ n * limit = q * limit + limit /\ q * limit \in Nat
        /\ n - 1 = q /\ n \in Nat \ {0}
    BY <2>2
  <2>4. q <= limit * q
    <3>1. limit * q = (limit - 1) * q + q /\ (limit - 1) * q \in Nat
      BY <2>2
    <3> QED
      BY <2>2, <3>1
  <2>5. n \in 1..pages
    BY <1>2, <2>1, <2>2, <2>3, <2>4
  <2>6. j \in Nat \ {0} /\ i = q * limit + j /\ j <= limit
    BY <2>1, <2>2, <2>3
  <2> HIDE DEF j, n
  <2>7. cut(n) = (IF size <= n * limit THEN size ELSE n * limit)
        /\ cut(n - 1) = (IF size <= q * limit THEN size ELSE q * limit)
    BY <2>3 DEF cut
  <2>8. Len(page(n)) = cut(n) - cut(n - 1)
    BY <1>1, <2>3
  <2>9. j \in 1..Len(page(n))
    <3>1. i <= size /\ i \in Nat
      BY <1>2, <2>1
    <3>2. q * limit < i
      BY <2>3, <2>6, <3>1
    <3>3. cut(n - 1) = q * limit
      BY <1>2, <2>3, <2>7, <3>1, <3>2
    <3>5. i <= cut(n)
      <4>1. n * limit \in Nat /\ i <= n * limit
        BY <2>3, <2>6, <3>1
      <4> QED
        BY <1>2, <2>7, <3>1, <4>1
    <3>4. cut(n) \in Nat
      BY <1>2, <2>3
    <3> QED
      BY <2>3, <2>6, <2>8, <3>3, <3>4, <3>5
  <2>10. page(n)[j] = x /\ j \in DOMAIN page(n)
    BY <1>1, <2>1, <2>3, <2>6, <2>9
  <2> QED
    BY <2>5, <2>10 DEF Range
<1>13. UNION {Range(page(n)) : n \in 1..pages} = Range(rows)
  BY <1>11, <1>12
<1> QED
  BY <1>10, <1>13 DEF v, page

\* For a query over whole days, the filter of the listing and that of the statistics agree.
LEMMA FiltersAgree ==
    ASSUME TypeOK, NEW q \in Queries, Whole(q)
    PROVE  Listed(log, Moved, q) = StatsFilter(log, Moved, q)
<1>1. q.contributed \in {None, "true", "false"} /\ q.photos \in {None, "true", "false"}
      /\ None # "true" /\ None # "false"
  BY CommunityAssumption
<1>2. q.to # None => ListingEnd(q) = EndOfDay(q.to)
  BY DEF Whole, ListingEnd
<1> DEFINE Found(c) == IF q.tasks # None THEN c.task \in q.tasks /\ q.contributed # "false"
                       ELSE CASE q.contributed = "true"   -> c.task # None
                              [] q.contributed = "false"  -> c.task = None
                              [] OTHER                    -> TRUE
           Pictured(c) == q.photos # None => c.photo = (q.photos = "true")
           Asked(c) == IF q.tasks # None THEN q.contributed # "false" /\ c.task \in q.tasks
                       ELSE q.contributed \in {None, IF c.task = None THEN "false" ELSE "true"}
           Taken(c) == q.photos \in {None, IF c.photo THEN "true" ELSE "false"}
<1>3. ASSUME NEW k \in DOMAIN log
      PROVE  /\ Found(log[k]) <=> Asked(log[k])
             /\ Pictured(log[k]) <=> Taken(log[k])
  <2> DEFINE c == log[k]
  <2>1. c.photo \in BOOLEAN
    BY LogEntries DEF Entry
  <2>2. c.photo = TRUE \/ c.photo = FALSE
    BY <2>1
  <2>3. Found(c) <=> Asked(c)
    <3>1. CASE q.tasks # None
      BY <3>1
    <3>2. CASE q.tasks = None /\ q.contributed = "true"
      BY <1>1, <3>2
    <3>3. CASE q.tasks = None /\ q.contributed = "false"
      BY <1>1, <3>3
    <3>4. CASE q.tasks = None /\ q.contributed = None
      BY <1>1, <3>4
    <3> QED
      BY <1>1, <3>1, <3>2, <3>3, <3>4
  <2>4. Pictured(c) <=> Taken(c)
    <3>1. CASE q.photos = None
      BY <3>1
    <3>2. CASE q.photos = "true"
      BY <1>1, <2>2, <3>2
    <3>3. CASE q.photos = "false"
      BY <1>1, <2>2, <3>3
    <3> QED
      BY <1>1, <3>1, <3>2, <3>3
  <2> QED
    BY <2>3, <2>4
<1> HIDE DEF Found, Pictured, Asked, Taken
<1> DEFINE Base(k) == /\ q.type \in {None, log[k].type} /\ q.who \in {None, log[k].who}
                      /\ q.badge # None => Moved[k] /\ q.badge \in log[k].badges
                      /\ q.from # None => q.from <= log[k].at
<1>4. Listed(log, Moved, q) =
        {k \in DOMAIN log : /\ Base(k) /\ Asked(log[k]) /\ Taken(log[k])
                            /\ q.to # None => log[k].at <= ListingEnd(q)}
  BY DEF Listed, Asked, Taken
<1>5. StatsFilter(log, Moved, q) =
        {k \in DOMAIN log : /\ Base(k) /\ Found(log[k]) /\ Pictured(log[k])
                            /\ q.to # None => log[k].at <= EndOfDay(q.to)}
  BY DEF StatsFilter, Found, Pictured
<1> HIDE DEF Base
<1> QED
  BY <1>2, <1>3, <1>4, <1>5

RowsOf(q, order) ==
    IF q.near = None THEN order
    ELSE Filtered(SubSeq(order, 1, Min({GeoCap, Len(order)})),
                  {k \in DOMAIN log : log[k].spot \in q.near})

\* What one call of the listing returns, by the rows it pages through.
LEMMA ListingIs ==
    ASSUME NEW q, NEW order, NEW page, NEW raw
    PROVE  LET l == Listing(log, Moved, q, page, raw, order)
               rows == RowsOf(q, order)
           IN  l.items = Slice(rows, Max({1, page}), Limit(raw)) /\ l.total = Len(rows)
  BY DEF Listing, RowsOf

\* An order the database may return has each check-in found, once.
LEMMA OrdersAre ==
    ASSUME NEW found \in SUBSET DOMAIN log, TypeOK, NEW order \in Orders(log, found)
    PROVE  /\ order \in Seq(found) /\ Len(order) = Cardinality(found) /\ IsFiniteSet(found)
           /\ \A i, j \in DOMAIN order : order[i] = order[j] => i = j
           /\ Range(order) = found
<1>1. IsFiniteSet(found)
  BY LogIsFinite, FS_Subset
<1>2. order \in SetToSeqs(found)
  BY DEF Orders
<1>3. /\ order \in Seq(found) /\ Len(order) = Cardinality(found) /\ DOMAIN order = 1..Len(order)
      /\ \A i \in DOMAIN order : order[i] \in found
      /\ \A i, j \in DOMAIN order : order[i] = order[j] => i = j
      /\ \A x \in found : \E i \in DOMAIN order : order[i] = x
  BY <1>1, <1>2, Enumeration
<1> QED
  BY <1>1, <1>3 DEF Range

\* The rows are check-ins, told apart, no more than there are.
LEMMA RowsAre ==
    ASSUME TypeOK, NEW q \in Queries, NEW order \in Orders(log, Listed(log, Moved, q))
    PROVE  LET rows == RowsOf(q, order)
           IN  /\ rows \in Seq(DOMAIN log) /\ Len(rows) \in Nat /\ Len(rows) <= Len(log)
               /\ Cardinality(Range(rows)) = Len(rows)
               /\ Range(rows) \subseteq Listed(log, Moved, q)
               /\ q.near = None => Range(rows) = Listed(log, Moved, q)
               /\ q.near # None /\ Len(order) <= GeoCap =>
                     Range(rows) = {k \in Listed(log, Moved, q) : log[k].spot \in q.near}
<1> DEFINE found == Listed(log, Moved, q)
           capped == SubSeq(order, 1, Min({GeoCap, Len(order)}))
           T == {k \in DOMAIN log : log[k].spot \in q.near}
           rows == RowsOf(q, order)
<1>1. found \in SUBSET DOMAIN log
  BY DEF Listed
<1>2. rows = IF q.near = None THEN order ELSE Filtered(capped, T)
  BY DEF RowsOf
<1>3. order \in Orders(log, found)
  OBVIOUS
<1>4. \A k \in found : k \in T <=> log[k].spot \in q.near
  BY <1>1
<1> HIDE DEF found, T, capped, rows
<1>5. /\ order \in Seq(found) /\ IsFiniteSet(found)
      /\ \A i, j \in DOMAIN order : order[i] = order[j] => i = j
      /\ Range(order) = found
  BY <1>1, <1>3, OrdersAre
<1> DEFINE m == Min({GeoCap, Len(order)})
<1>6. /\ Len(order) \in Nat /\ DOMAIN order = 1..Len(order) /\ m \in Nat /\ m <= Len(order)
      /\ Len(order) <= GeoCap => m = Len(order)
  <2>1. Len(order) \in Nat /\ DOMAIN order = 1..Len(order) /\ GeoCap \in Nat
    BY <1>5, ReportsAssumption
  <2> QED
    BY <2>1, OfTwo
<1>7. capped = SubSeq(order, 1, m)
  BY DEF capped
<1> HIDE DEF m
<1>14. m \in Nat /\ m \in Int /\ m - 1 + 1 = m /\ \A i \in 1..m : i \in DOMAIN order /\ i \in Int /\ 1 + i - 1 = i
  <2>1. m \in Nat /\ m <= Len(order) /\ Len(order) \in Nat /\ DOMAIN order = 1..Len(order)
    BY <1>6
  <2> QED
    BY <2>1
<1>8. /\ capped \in Seq(found)
      /\ \A i, j \in DOMAIN capped : capped[i] = capped[j] => i = j
      /\ Range(capped) \subseteq found
      /\ Len(order) <= GeoCap => Range(capped) = found
  <2>0. \A i \in DOMAIN order : order[i] \in found
    BY <1>5
  <2>1. 1 \in Int /\ m \in Int /\ \A i \in 1..m : i \in DOMAIN order /\ order[i] \in found
    BY <1>14, <2>0
  <2>2. /\ capped \in Seq(found) /\ Len(capped) = (IF 1 <= m THEN m - 1 + 1 ELSE 0)
        /\ \A i \in 1..(m - 1 + 1) : capped[i] = order[1 + i - 1]
    BY <1>7, <2>1, SubSeqProperties
  <2>3. DOMAIN capped = 1..m /\ \A i \in 1..m : capped[i] = order[i]
    <3>1. Len(capped) = m
      <4>1. Len(capped) = (IF 1 <= m THEN m ELSE 0)
        BY <1>14, <2>2
      <4> QED
        BY <1>14, <4>1
    <3>2. DOMAIN capped = 1..Len(capped)
      BY <2>2
    <3>3. ASSUME NEW i \in 1..m PROVE capped[i] = order[i]
      <4>1. i \in 1..(m - 1 + 1) /\ 1 + i - 1 = i
        BY <1>14
      <4> QED
        BY <2>2, <4>1
    <3> QED
      BY <3>1, <3>2, <3>3
  <2>4. \A i, j \in DOMAIN capped : capped[i] = capped[j] => i = j
    BY <1>5, <2>1, <2>3
  <2>5. Range(capped) \subseteq found
    BY <2>1, <2>3 DEF Range
  <2>6. Len(order) <= GeoCap => Range(capped) = Range(order)
    BY <1>6, <2>3 DEF Range
  <2> QED
    BY <1>5, <2>2, <2>4, <2>5, <2>6
<1>9. /\ rows \in Seq(found)
      /\ \A i, j \in DOMAIN rows : rows[i] = rows[j] => i = j
      /\ Range(rows) \subseteq found
      /\ q.near = None => Range(rows) = found
      /\ q.near # None /\ Len(order) <= GeoCap => Range(rows) = found \cap T
  <2>1. CASE q.near = None
    BY <1>2, <1>5, <2>1
  <2>2. CASE q.near # None
    <3>1. rows = Filtered(capped, T)
      BY <1>2, <2>2
    <3>2. /\ rows \in Seq(found)
          /\ \A i, j \in DOMAIN rows : rows[i] = rows[j] => i = j
          /\ Range(rows) = Range(capped) \cap T
      BY <1>8, <3>1, FilteredIs
    <3> QED
      BY <1>8, <2>2, <3>2
  <2> QED
    BY <2>1, <2>2
<1>10. Cardinality(Range(rows)) = Len(rows) /\ Len(rows) \in Nat
  BY <1>9, RangeIsLong
<1>11. Len(rows) <= Len(log)
  <2>1. IsFiniteSet(DOMAIN log) /\ DOMAIN log = 1..Len(log) /\ Len(log) \in Nat
    BY LogIsFinite
  <2>2. Cardinality(DOMAIN log) = Len(log)
    <3>0. Len(log) \in Nat
      BY <2>1
    <3>1. Cardinality(1..Len(log)) = Len(log)
      BY <3>0, FS_Interval
    <3> QED
      BY <2>1, <3>1
  <2>3. Range(rows) \subseteq DOMAIN log
    BY <1>1, <1>9
  <2>4. Cardinality(Range(rows)) <= Cardinality(DOMAIN log)
    BY <2>1, <2>3, FS_Subset
  <2> QED
    BY <1>10, <2>2, <2>4
<1>12. rows \in Seq(DOMAIN log)
  BY <1>1, <1>9
<1>13. found \cap T = {k \in found : log[k].spot \in q.near}
  BY <1>4
<1> QED
  BY <1>9, <1>10, <1>11, <1>12, <1>13 DEF found, rows

\* The listing and the statistics find the same check-ins for a query over whole days.
LEMMA ListingCounts == TypeOK => StatsMatchListing
<1> SUFFICES ASSUME TypeOK, NEW q \in Queries, Whole(q),
                    NEW order \in Orders(log, Listed(log, Moved, q)),
                    q.near # None => Len(order) <= GeoCap
             PROVE  Listing(log, Moved, q, 1, None, order).total
                      = Cardinality(CommunityMatches(log, Moved, q))
  BY DEF StatsMatchListing
<1> DEFINE rows == RowsOf(q, order)
           found == Listed(log, Moved, q)
<1>1. Listing(log, Moved, q, 1, None, order).total = Len(rows)
  BY ListingIs
<1>2. found = StatsFilter(log, Moved, q)
  BY FiltersAgree
<1>3. CommunityMatches(log, Moved, q) = {k \in found : q.near = None \/ log[k].spot \in q.near}
  BY <1>2 DEF CommunityMatches
<1>4. /\ Cardinality(Range(rows)) = Len(rows)
      /\ q.near = None => Range(rows) = found
      /\ q.near # None /\ Len(order) <= GeoCap => Range(rows) = {k \in found : log[k].spot \in q.near}
  BY RowsAre
<1> HIDE DEF rows, found
<1>5. Range(rows) = CommunityMatches(log, Moved, q)
  <2>1. CASE q.near = None
    BY <1>3, <1>4, <2>1
  <2>2. CASE q.near # None
    BY <1>3, <1>4, <2>2
  <2> QED
    BY <2>1, <2>2
<1> QED
  BY <1>1, <1>4, <1>5

\* Page by page, the listing shows each check-in found once.
LEMMA ListingPages == TypeOK => PagesPartition
<1> SUFFICES ASSUME TypeOK, NEW q \in Queries,
                    NEW order \in Orders(log, Listed(log, Moved, q)), NEW raw \in {None, 0, 200}
             PROVE
              LET orders  == Orders(log, Listed(log, Moved, q))
                  pages   == 1..(Len(log) + 1)
                  Page(n) == Listing(log, Moved, q, n, raw, order)
                  total   == Page(1).total
              IN  /\ \A n \in pages : LET page == Page(n) IN
                        page.total = total /\ Len(page.items) <= Limit(raw)
                  /\ Cardinality(orders) = 1 =>
                        /\ SumFunction([n \in pages |-> Len(Page(n).items)]) = total
                        /\ Cardinality(UNION {Range(Page(n).items) : n \in pages}) = total
  BY DEF PagesPartition
<1> DEFINE Page(n) == Listing(log, Moved, q, n, raw, order)
           rows == RowsOf(q, order)
           total == Page(1).total
           M == Len(log) + 1
           limit == Limit(raw)
<1>1. limit \in Nat \ {0}
  BY LimitIs
<1>2. \A n : Page(n).items = Slice(rows, Max({1, n}), limit) /\ Page(n).total = Len(rows)
  BY ListingIs
<1>3. /\ rows \in Seq(DOMAIN log) /\ Len(rows) \in Nat /\ Len(rows) <= Len(log)
      /\ Cardinality(Range(rows)) = Len(rows)
  BY RowsAre
<1>4. M \in Nat /\ Len(rows) <= M
  BY <1>3, LogIsFinite
<1> HIDE DEF Page, rows, M, limit
<1>5. total = Len(rows)
  BY <1>2
<1> HIDE DEF total
<1>6. \A n \in 1..M : Page(n).items = Slice(rows, n, limit) /\ n \in Nat \ {0}
  <2> SUFFICES ASSUME NEW n \in 1..M
               PROVE  Page(n).items = Slice(rows, n, limit) /\ n \in Nat \ {0}
    OBVIOUS
  <2>1. Max({1, n}) = n
    <3>1. n \in Int /\ 1 <= n
      BY <1>4
    <3> QED
      BY <3>1, OfTwo
  <2> QED
    BY <1>2, <2>1
<1>7. ASSUME NEW n \in 1..M PROVE Page(n).total = total /\ Len(Page(n).items) <= limit
  <2>1. Len(Slice(rows, n, limit)) <= limit
    BY <1>1, <1>3, SliceIs
  <2> QED
    BY <1>2, <1>5, <1>6, <2>1
<1>8. /\ SumFunction([n \in 1..M |-> Len(Slice(rows, n, limit))]) = Len(rows)
      /\ UNION {Range(Slice(rows, n, limit)) : n \in 1..M} = Range(rows)
  BY <1>1, <1>3, <1>4, PagesAddUp
<1>9. [n \in 1..M |-> Len(Page(n).items)] = [n \in 1..M |-> Len(Slice(rows, n, limit))]
  BY <1>6
<1>10. UNION {Range(Page(n).items) : n \in 1..M} = UNION {Range(Slice(rows, n, limit)) : n \in 1..M}
  BY <1>6
<1>11. /\ SumFunction([n \in 1..M |-> Len(Page(n).items)]) = total
       /\ Cardinality(UNION {Range(Page(n).items) : n \in 1..M}) = total
  BY <1>3, <1>5, <1>8, <1>9, <1>10
<1> QED
  BY <1>7, <1>11 DEF Page, total, M, limit

\* Asked page by page, the listing shows each check-in it finds once, and for whole days
\* finds those the statistics count (Community.ListingFaithful).
THEOREM ListingIsFaithful == Spec => []ListingFaithful
<1>1. TypeOK => ListingFaithful
  BY ListingCounts, ListingPages DEF ListingFaithful
<1> QED
  BY <1>1, CommunityTyped, PTL
=============================================================================
