---------------------------- MODULE MCCommunity ----------------------------
(* A small instance of Community: three members, a legacy account among them,
   a chain of badges, two overlapping areas. *)
EXTENDS Community

CONSTANTS T1, T2, A1, A2, S1, S2, S3, I1, I2, none

MCGround == (A1 :> {S1, S2}) @@ (A2 :> {S2})
\* I1: every day, around midnight; I2: three weekdays by day, until tick 20.
MCHours == (I1 :> [days |-> 1..7, start |-> 1, end |-> 0, from |-> 0, to |-> 40])
        @@ (I2 :> [days |-> {1, 3, 4}, start |-> 0, end |-> 2, from |-> 0, to |-> 20])
MCTaskOf == << [type |-> T1, area |-> A1, interval |-> I2],
               [type |-> T1, area |-> A2, interval |-> I2],
               [type |-> T2, area |-> A1, interval |-> I2] >>
MCPointRules ==
    { [type |-> T1, area |-> AnyKind, interval |-> AnyKind, score |-> 2, must |-> FALSE],
      [type |-> AnyKind, area |-> A2, interval |-> I2, score |-> 1, must |-> TRUE] }

MCRule(type, area, must, amount, prev) ==
    [type |-> type, area |-> area, interval |-> AnyKind, must |-> must, amount |-> amount,
     prev |-> prev, status |-> "active", until |-> None]
MCRules == << MCRule(AnyKind, A1, FALSE, 1, {}), MCRule(AnyKind, AnyKind, FALSE, 2, {1}),
              MCRule(T1, AnyKind, TRUE, 1, {}) >>

Visit(who, type, spot, photo) == [who |-> who, type |-> type, spot |-> spot, photo |-> photo]
MCVisits == { Visit(1, T1, S2, TRUE), Visit(2, T2, S1, FALSE), Visit(3, T1, S3, TRUE) }
MCAreaOrder == <<A1, A2>>
MCIntervalOrder == <<I1, I2>>
\* The last tick of a day, the first of the next, and a later day.
MCInstants == {15, 16, 22}
MCDeadlines == {16, None}
MCCreated  == <<10, None, 2>>

Query == [type |-> None, who |-> None, badge |-> None, tasks |-> None, contributed |-> None,
          photos |-> None, from |-> None, to |-> None, near |-> None]
MCQueries ==
    { Query, [Query EXCEPT !.who = 1, !.photos = "false"], [Query EXCEPT !.badge = 1, !.from = 16],
      [Query EXCEPT !.tasks = {1, 2}], [Query EXCEPT !.contributed = "true", !.to = 14],
      [Query EXCEPT !.contributed = "false", !.to = 15], [Query EXCEPT !.near = {S1, S2}, !.type = T1] }
=============================================================================
