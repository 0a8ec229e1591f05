-------------------------- MODULE RuleStoreProofs --------------------------
(* Theorems about RuleStore for any number of badges, point rules, names and  *)
(* requests at once.                                                         *)
EXTENDS RuleStore, FiniteSets, FiniteSetTheorems, WellFoundedInduction, TLAPS

Row(d, i) == docs[d].badges[i]
Rows(d)   == DOMAIN docs[d].badges

\* Every document has its parts.
LEMMA DocFacts ==
    ASSUME TypeOK
    PROVE  /\ docs \in Seq(Doc) /\ Len(docs) \in Nat /\ DOMAIN docs = 1..Len(docs)
           /\ \A d \in DOMAIN docs :
                 /\ docs[d] \in Doc
                 /\ docs[d].badges \in Seq(Badge \cup {Hole})
                 /\ Len(docs[d].badges) \in Nat
                 /\ Rows(d) = 1..Len(docs[d].badges)
                 /\ \A i \in Rows(d) : Row(d, i) \in Badge \cup {Hole}
                 /\ docs[d].version \in Nat
                 /\ docs[d].scores \in SUBSET Scores
<1>1. docs \in Seq(Doc) /\ Len(docs) \in Nat /\ DOMAIN docs = 1..Len(docs)
  BY DEF TypeOK
<1>2. ASSUME NEW d \in DOMAIN docs
      PROVE  /\ docs[d] \in Doc
             /\ docs[d].badges \in Seq(Badge \cup {Hole})
             /\ docs[d].version \in Nat
             /\ docs[d].scores \in SUBSET Scores
  <2>1. docs[d] \in Doc
    BY <1>1
  <2> QED
    BY <2>1 DEF Doc
<1>3. ASSUME NEW d \in DOMAIN docs
      PROVE  /\ Len(docs[d].badges) \in Nat
             /\ Rows(d) = 1..Len(docs[d].badges)
             /\ \A i \in Rows(d) : Row(d, i) \in Badge \cup {Hole}
  BY <1>2 DEF Row, Rows
<1> QED
  BY <1>1, <1>2, <1>3

\* A badge of a list has a first row in it.
LEMMA FirstExists ==
    ASSUME NEW s \in Seq(Badge \cup {Hole}), NEW b \in Ids(s)
    PROVE  \E i \in Firsts(s) : s[i].id = b
<1> DEFINE T    == {i \in DOMAIN s : s[i] # Hole /\ s[i].id = b}
           S    == 1..Len(s)
           Upto == {1..i : i \in T}
<1>1. T \subseteq S /\ T # {} /\ DOMAIN s = S /\ Len(s) \in Nat
  BY DEF Ids
<1>2. IsFiniteSet(S)
  BY <1>1, FS_Interval
<1>3. IsWellFoundedOn(StrictSubsetOrdering(S), SUBSET S)
  BY <1>2, FS_StrictSubsetOrderingWellFounded, FS_FiniteSubsetsOfFinite
<1>4. Upto \subseteq SUBSET S /\ Upto # {}
  BY <1>1
<1>5. PICK X \in Upto : \A Y \in Upto : <<Y, X>> \notin StrictSubsetOrdering(S)
  <2> HIDE DEF Upto, S
  <2> QED
    BY <1>3, <1>4, WFMin
<1>6. PICK i \in T : X = 1..i
  OBVIOUS
<1>7. ASSUME NEW j \in T, j < i PROVE FALSE
  <2>1. i \in Nat /\ j \in Nat
    BY <1>1
  <2>2. 1..j \subseteq 1..i /\ i \in 1..i /\ i \notin 1..j
    BY <1>1, <1>7, <2>1
  <2>3. 1..j \in Upto /\ 1..j \in SUBSET S /\ X \in SUBSET S
    BY <1>4
  <2> HIDE DEF Upto, S, T
  <2>4. <<1..j, X>> \in StrictSubsetOrdering(S)
    BY <1>6, <2>2, <2>3 DEF StrictSubsetOrdering
  <2> QED
    BY <1>5, <2>3, <2>4
<1>8. \A j \in 1..(i - 1) : j \in DOMAIN s /\ j \notin T
  <2>1. i \in Nat /\ i <= Len(s)
    BY <1>1
  <2> HIDE DEF T
  <2> QED
    BY <1>1, <1>7, <2>1
<1> QED
  BY <1>8 DEF Firsts

\* A badge of a list has a position in it.
LEMMA PositionFacts ==
    ASSUME NEW s \in Seq(Badge \cup {Hole}), NEW b \in Ids(s)
    PROVE  /\ Position(s, b) \in DOMAIN s /\ Position(s, b) \in Nat \ {0}
           /\ s[Position(s, b)] # Hole /\ s[Position(s, b)].id = b
           /\ s[Position(s, b)] \in Badge /\ Position(s, b) \in Firsts(s)
<1>1. Position(s, b) \in Firsts(s) /\ s[Position(s, b)].id = b
  BY FirstExists DEF Position
<1>2. DOMAIN s = 1..Len(s) /\ Len(s) \in Nat /\ \A i \in DOMAIN s : s[i] \in Badge \cup {Hole}
  OBVIOUS
<1> QED
  BY <1>1, <1>2 DEF Firsts

\* Row i of document d is the first of its badge.
FirstRow(d, i) ==
    /\ i \in Rows(d) /\ Row(d, i) # Hole
    /\ \A j \in Rows(d) : j < i => Row(d, j) = Hole \/ Row(d, j).id # Row(d, i).id

LEMMA FirstFacts ==
    ASSUME NEW s \in Seq(Badge \cup {Hole}), NEW i
    PROVE  i \in Firsts(s) <=>
              /\ i \in DOMAIN s /\ s[i] # Hole
              /\ \A j \in DOMAIN s : j < i => s[j] = Hole \/ s[j].id # s[i].id
<1>1. DOMAIN s = 1..Len(s) /\ Len(s) \in Nat
  OBVIOUS
<1>2. ASSUME i \in DOMAIN s
      PROVE  \A j : j \in 1..(i - 1) <=> j \in DOMAIN s /\ j < i
  BY <1>1, <1>2
<1> QED
  BY <1>1, <1>2 DEF Firsts

\* A badge has one first row.
LEMMA FirstOnce ==
    ASSUME NEW s \in Seq(Badge \cup {Hole}), NEW i \in Firsts(s), NEW j \in Firsts(s),
           s[i].id = s[j].id
    PROVE  i = j
<1>1. i \in Nat /\ j \in Nat /\ i \in DOMAIN s /\ j \in DOMAIN s /\ s[i] # Hole /\ s[j] # Hole
  BY DEF Firsts
<1>2. ~ (i < j) /\ ~ (j < i)
  BY <1>1, FirstFacts
<1> QED
  BY <1>1, <1>2

LEMMA FirstRows ==
    ASSUME docs \in Seq(Doc), NEW d \in DOMAIN docs, NEW i
    PROVE  i \in Firsts(docs[d].badges) <=> FirstRow(d, i)
<1>1. PICK s : s = docs[d].badges
  OBVIOUS
<1>2. docs[d] \in Doc
  OBVIOUS
<1>3. s \in Seq(Badge \cup {Hole})
  BY <1>1, <1>2 DEF Doc
<1>4. i \in Firsts(s) <=> /\ i \in DOMAIN s /\ s[i] # Hole
                         /\ \A j \in DOMAIN s : j < i => s[j] = Hole \/ s[j].id # s[i].id
  BY <1>3, FirstFacts
<1> QED
  BY <1>1, <1>4 DEF FirstRow, Row, Rows

LEMMA NextFirstRows ==
    ASSUME docs' \in Seq(Doc), NEW d \in DOMAIN docs', NEW i
    PROVE  i \in Firsts(docs'[d].badges) <=> FirstRow(d, i)'
<1>1. PICK s : s = docs'[d].badges
  OBVIOUS
<1>2. docs'[d] \in Doc
  OBVIOUS
<1>3. s \in Seq(Badge \cup {Hole})
  BY <1>1, <1>2 DEF Doc
<1>4. i \in Firsts(s) <=> /\ i \in DOMAIN s /\ s[i] # Hole
                         /\ \A j \in DOMAIN s : j < i => s[j] = Hole \/ s[j].id # s[i].id
  BY <1>3, FirstFacts
<1> QED
  BY <1>1, <1>4 DEF FirstRow, Row, Rows

\* A document whose rows keep their ids has the first rows it had.
LEMMA FirstsStay ==
    ASSUME NEW d, Rows(d)' = Rows(d),
           \A i \in Rows(d) : Row(d, i) # Hole /\ Row(d, i)' # Hole /\ Row(d, i)'.id = Row(d, i).id
    PROVE  \A i : FirstRow(d, i)' <=> FirstRow(d, i)
BY DEF FirstRow

-----------------------------------------------------------------------------
(* What each write does to the rows of the documents. *)

\* Document d alone changes.
Only(d) ==
    /\ docs' \in Seq(Doc) /\ Len(docs') = Len(docs) /\ DOMAIN docs' = DOMAIN docs
    /\ \A e \in DOMAIN docs : e # d => docs'[e] = docs[e]

LEMMA OneChanges ==
    ASSUME TypeOK, NEW d \in DOMAIN docs, NEW x \in Doc, docs' = [docs EXCEPT ![d] = x]
    PROVE  Only(d) /\ docs'[d] = x
<1>1. docs \in Seq(Doc)
  BY DEF TypeOK
<1>2. docs' \in Seq(Doc) /\ Len(docs') = Len(docs) /\ DOMAIN docs' = DOMAIN docs
  BY <1>1
<1> QED
  BY <1>1, <1>2 DEF Only

\* $push adds one row at the end and counts the version up.
Pushed(r, d, b, n) ==
    /\ d = req[r].doc /\ Only(d)
    /\ docs'[d].version = docs[d].version + 1 /\ docs'[d].scores = docs[d].scores
    /\ created' = created \cup {b} /\ expected' = expected \cup {b}
    /\ n \notin Rows(d) /\ Rows(d)' = Rows(d) \cup {n} /\ \A i \in Rows(d) : i < n
    /\ \A i \in Rows(d) : Row(d, i)' = Row(d, i)
    /\ Row(d, n)' \in Badge
    /\ Row(d, n)'.id = b /\ Row(d, n)'.name = req[r].op.name
    /\ Row(d, n)'.fade \in {Active} \cup Brought
    /\ IF b \in Ids(docs[d].badges) THEN intent' = intent ELSE Asked(d, b, Row(d, n)'.fade)

LEMMA PushEffect ==
    ASSUME RuleAssumption, TypeOK, NEW r \in Requests, SaveNewBadge(r)
    PROVE  \E d \in DOMAIN docs, b \in Badges, n \in Nat : Pushed(r, d, b, n)
<1>0. PICK d : d = req[r].doc
  OBVIOUS
<1>1. /\ req[r].at = "save" /\ req[r].op.kind = "add" /\ req[r] \in Request
      /\ d \in DOMAIN docs
  BY <1>0 DEF SaveNewBadge, Saving, TypeOK
<1>2. req[r].op \in Op
  BY <1>1 DEF Request, Idle
<1>3. /\ req[r].op.name \in Names /\ req[r].op.id \in Badges \cup {Unset}
      /\ req[r].op.fade \in Brought \cup {Unset}
  BY <1>1, <1>2 DEF Op
<1>4. PICK b \in NewId(req[r].op, Badges) :
         /\ docs' = [docs EXCEPT ![d].badges = Append(@, NewBadge(req[r].op, b)),
                                 ![d].version = @ + 1]
         /\ created' = created \cup {b} /\ expected' = expected \cup {b}
         /\ IF b \in Ids(docs[d].badges) THEN intent' = intent
                                          ELSE Asked(d, b, NewBadge(req[r].op, b).fade)
  BY <1>0 DEF SaveNewBadge
<1> DEFINE new  == NewBadge(req[r].op, b)
           long == Append(docs[d].badges, new)
           x    == [badges |-> long, scores |-> docs[d].scores, version |-> docs[d].version + 1]
<1>20. b \in Badges
  BY <1>3 DEF NewId
<1>5. /\ new \in Badge /\ new.id = b /\ new.name = req[r].op.name
      /\ new.fade \in {Active} \cup Brought
  <2>1. Active \in Fade
    BY DEF Fade, Active
  <2> QED
    BY <1>3, <1>20, <2>1 DEF NewBadge, Badge, RuleAssumption
<1>6. /\ docs[d] \in Doc /\ docs[d].badges \in Seq(Badge \cup {Hole})
      /\ docs[d].version \in Nat /\ Len(docs[d].badges) \in Nat
      /\ Rows(d) = 1..Len(docs[d].badges)
  BY <1>1, DocFacts
<1> HIDE DEF new
<1>7. /\ long \in Seq(Badge \cup {Hole}) /\ Len(long) = Len(docs[d].badges) + 1
      /\ \A i \in 1..Len(docs[d].badges) : long[i] = docs[d].badges[i]
      /\ long[Len(docs[d].badges) + 1] = new
      /\ DOMAIN long = 1..(Len(docs[d].badges) + 1)
  BY <1>5, <1>6
<1> HIDE DEF long
<1>8. x \in Doc /\ x.badges = long /\ x.version = docs[d].version + 1 /\ x.scores = docs[d].scores
  BY <1>6, <1>7 DEF Doc
<1>9. docs' = [docs EXCEPT ![d] = x]
  <2> DEFINE mid == [docs EXCEPT ![d] = [docs[d] EXCEPT !.badges = long]]
  <2>1. docs \in Seq(Doc)
    BY DEF TypeOK
  <2>2. mid[d] = [docs[d] EXCEPT !.badges = long] /\ DOMAIN mid = DOMAIN docs
    BY <1>1
  <2>3. docs' = [mid EXCEPT ![d] = [mid[d] EXCEPT !.version = docs[d].version + 1]]
    BY <1>4 DEF long, new
  <2>4. [mid[d] EXCEPT !.version = docs[d].version + 1] = x
    BY <1>6, <2>2 DEF Doc
  <2> QED
    BY <1>1, <2>1, <2>3, <2>4
<1> HIDE DEF x
<1>10. Only(d) /\ docs'[d] = x
  BY <1>1, <1>8, <1>9, OneChanges
<1>11. PICK n \in Nat : n = Len(docs[d].badges) + 1
  BY <1>6
<1>12. Rows(d)' = Rows(d) \cup {n}
  <2>1. Rows(d)' = DOMAIN long
    BY <1>8, <1>10 DEF Rows
  <2>2. 1..n = 1..Len(docs[d].badges) \cup {n}
    BY <1>6, <1>11
  <2> QED
    BY <1>6, <1>7, <1>11, <2>1, <2>2
<1>13. (\A i \in Rows(d) : Row(d, i)' = Row(d, i)) /\ Row(d, n)' = new
  BY <1>6, <1>7, <1>8, <1>10, <1>11 DEF Row
<1>14. /\ created' = created \cup {b} /\ expected' = expected \cup {b}
       /\ IF b \in Ids(docs[d].badges) THEN intent' = intent ELSE Asked(d, b, new.fade)
  BY <1>4 DEF new
<1>15. docs'[d].version = docs[d].version + 1 /\ docs'[d].scores = docs[d].scores
  BY <1>8, <1>10
<1>16. n \notin Rows(d) /\ \A i \in Rows(d) : i < n
  BY <1>6, <1>11
<1>17. /\ Row(d, n)' \in Badge /\ Row(d, n)'.id = b /\ Row(d, n)'.name = req[r].op.name
       /\ Row(d, n)'.fade \in {Active} \cup Brought /\ Row(d, n)'.fade = new.fade
  BY <1>5, <1>13
<1>18. Pushed(r, d, b, n)
  BY <1>0, <1>10, <1>12, <1>13, <1>14, <1>15, <1>16, <1>17 DEF Pushed
<1> QED
  BY <1>1, <1>18, <1>20

\* $set of a position puts the edited badge there; behind the end it leaves holes.
RowSet(r, d, k) ==
    /\ d = req[r].doc /\ k = req[r].seen.index /\ Only(d)
    /\ docs'[d].version = docs[d].version /\ docs'[d].scores = docs[d].scores
    /\ Merged(r) \in Badge /\ Merged(r).id = req[r].seen.badge.id
    /\ Merged(r).name = req[r].op.name
    /\ IF req[r].op.fade = Unset THEN Merged(r).fade = req[r].seen.badge.fade
                                 ELSE Merged(r).fade = req[r].op.fade /\ req[r].op.fade \in Brought
    /\ k \in Rows(d)' /\ Row(d, k)' = Merged(r)
    /\ Rows(d) \subseteq Rows(d)' /\ (k \in Rows(d) => Rows(d)' = Rows(d))
    /\ \A i \in Rows(d)' : i # k => Row(d, i)' = IF i \in Rows(d) THEN Row(d, i) ELSE Hole

LEMMA SetEffect ==
    ASSUME RuleAssumption, TypeOK, NEW r \in Requests, Saving(r, "edit"), req[r].seen \in Copy,
           docs' = [docs EXCEPT ![req[r].doc].badges = SetAt(@, req[r].seen.index, Merged(r))]
    PROVE  \E d \in DOMAIN docs, k \in Nat : RowSet(r, d, k)
<1>0. PICK d, k : d = req[r].doc /\ k = req[r].seen.index
  OBVIOUS
<1>1. /\ req[r].at = "save" /\ req[r].op.kind = "edit" /\ req[r] \in Request
      /\ d \in DOMAIN docs
  BY <1>0 DEF Saving, TypeOK
<1>2. req[r].op \in Op
  BY <1>1 DEF Request, Idle
<1>3. req[r].op.name \in Names /\ req[r].op.fade \in Brought \cup {Unset}
  BY <1>1, <1>2 DEF Op
<1>4. req[r].seen.badge \in Badge /\ k \in Nat \ {0}
  BY <1>0 DEF Copy
<1>5. /\ Merged(r) \in Badge /\ Merged(r).id = req[r].seen.badge.id
      /\ Merged(r).name = req[r].op.name
      /\ IF req[r].op.fade = Unset THEN Merged(r).fade = req[r].seen.badge.fade
                                   ELSE Merged(r).fade = req[r].op.fade /\ req[r].op.fade \in Brought
  BY <1>3, <1>4 DEF Merged, Badge, RuleAssumption
<1>6. /\ docs[d] \in Doc /\ docs[d].badges \in Seq(Badge \cup {Hole})
      /\ Len(docs[d].badges) \in Nat /\ Rows(d) = 1..Len(docs[d].badges)
      /\ \A i \in Rows(d) : Row(d, i) \in Badge \cup {Hole}
  BY <1>1, DocFacts
<1> DEFINE L   == IF k > Len(docs[d].badges) THEN k ELSE Len(docs[d].badges)
           new == SetAt(docs[d].badges, k, Merged(r))
           x   == [docs[d] EXCEPT !.badges = new]
<1>7. /\ L \in Nat /\ k \in 1..L /\ Rows(d) \subseteq 1..L
      /\ k \in Rows(d) => 1..L = Rows(d)
  BY <1>4, <1>6
<1>8. new = [j \in 1..L |-> IF j = k THEN Merged(r)
                            ELSE IF j <= Len(docs[d].badges) THEN docs[d].badges[j] ELSE Hole]
  BY DEF SetAt
<1> HIDE DEF L, new
<1>9. /\ DOMAIN new = 1..L /\ new[k] = Merged(r)
      /\ \A i \in 1..L : i # k => new[i] = IF i \in Rows(d) THEN Row(d, i) ELSE Hole
  BY <1>4, <1>6, <1>7, <1>8 DEF Row
<1>10. new \in Seq(Badge \cup {Hole})
  <2>1. \A i \in 1..L : new[i] \in Badge \cup {Hole}
    BY <1>5, <1>6, <1>9
  <2> QED
    BY <1>7, <1>8, <1>9, <2>1
<1>11. x \in Doc /\ x.badges = new /\ x.version = docs[d].version /\ x.scores = docs[d].scores
  BY <1>6, <1>10 DEF Doc
<1>12. docs' = [docs EXCEPT ![d] = x]
  BY <1>0, <1>1, <1>6 DEF new
<1> HIDE DEF x
<1>13. Only(d) /\ docs'[d] = x
  BY <1>1, <1>11, <1>12, OneChanges
<1>14. Rows(d)' = 1..L /\ \A i \in 1..L : Row(d, i)' = new[i]
  BY <1>9, <1>11, <1>13 DEF Rows, Row
<1>15. /\ k \in Rows(d)' /\ Row(d, k)' = Merged(r)
       /\ Rows(d) \subseteq Rows(d)' /\ (k \in Rows(d) => Rows(d)' = Rows(d))
  BY <1>7, <1>9, <1>14
<1>16. \A i \in Rows(d)' : i # k => Row(d, i)' = IF i \in Rows(d) THEN Row(d, i) ELSE Hole
  BY <1>9, <1>14
<1>17. docs'[d].version = docs[d].version /\ docs'[d].scores = docs[d].scores
  BY <1>11, <1>13
<1>18. RowSet(r, d, k)
  BY <1>0, <1>5, <1>13, <1>15, <1>16, <1>17 DEF RowSet
<1> QED
  BY <1>1, <1>4, <1>18

\* $pull leaves the other badges, each once.
Pulled(b, kept) ==
    /\ Only(1) /\ docs'[1].version = docs[1].version /\ docs'[1].scores = docs[1].scores
    /\ kept \in [Rows(1)' -> Rows(1)]
    /\ \A i \in Rows(1)' : Row(1, i)' = Row(1, kept[i])
    /\ \A i \in Rows(1)' : Row(1, i)' = Hole \/ Row(1, i)'.id # b
    /\ \A i, j \in Rows(1)' : i # j => kept[i] # kept[j]
    /\ \A i, j \in Rows(1)' : i < j => kept[i] < kept[j]
    /\ \A k \in Rows(1) : Row(1, k) = Hole \/ Row(1, k).id # b => \E i \in Rows(1)' : kept[i] = k

LEMMA PullEffect ==
    ASSUME TypeOK, docs # <<>>, NEW b \in Badges, Pull(b)
    PROVE  1 \in DOMAIN docs /\ \E kept : Pulled(b, kept)
<1>1. 1 \in DOMAIN docs
  BY DocFacts
<1>2. /\ docs[1] \in Doc /\ docs[1].badges \in Seq(Badge \cup {Hole})
      /\ Len(docs[1].badges) \in Nat /\ Rows(1) = 1..Len(docs[1].badges)
      /\ \A i \in Rows(1) : Row(1, i) \in Badge \cup {Hole}
  BY <1>1, DocFacts
<1>3. PICK n \in 0..Len(docs[1].badges) : \E kept \in [1..n -> Rows(1)] :
         /\ \A i, j \in 1..n : i < j => kept[i] < kept[j]
         /\ {kept[i] : i \in 1..n} = {i \in Rows(1) : Row(1, i) = Hole \/ Row(1, i).id # b}
         /\ docs' = [docs EXCEPT ![1].badges = [i \in 1..n |-> Row(1, kept[i])]]
  BY DEF Pull, Rows, Row
<1>4. PICK kept \in [1..n -> Rows(1)] :
         /\ \A i, j \in 1..n : i < j => kept[i] < kept[j]
         /\ {kept[i] : i \in 1..n} = {i \in Rows(1) : Row(1, i) = Hole \/ Row(1, i).id # b}
         /\ docs' = [docs EXCEPT ![1].badges = [i \in 1..n |-> Row(1, kept[i])]]
  BY <1>3
<1> DEFINE new == [i \in 1..n |-> Row(1, kept[i])]
           x   == [docs[1] EXCEPT !.badges = new]
<1>5. n \in Nat
  BY <1>2
<1>6. \A i \in 1..n : new[i] \in Badge \cup {Hole}
  BY <1>2, <1>4
<1>7. new \in Seq(Badge \cup {Hole})
  BY <1>5, <1>6
<1>8. x \in Doc /\ x.badges = new /\ x.version = docs[1].version /\ x.scores = docs[1].scores
  BY <1>2, <1>7 DEF Doc
<1>9. docs' = [docs EXCEPT ![1] = x]
  BY <1>1, <1>2, <1>4
<1> HIDE DEF x
<1>10. Only(1) /\ docs'[1] = x
  BY <1>1, <1>8, <1>9, OneChanges
<1>11. Rows(1)' = 1..n /\ \A i \in 1..n : Row(1, i)' = Row(1, kept[i])
  BY <1>8, <1>10 DEF Rows, Row
<1>12. \A i, j \in 1..n : i # j => kept[i] # kept[j]
  <2> SUFFICES ASSUME NEW i \in 1..n, NEW j \in 1..n, i # j PROVE kept[i] # kept[j]
    OBVIOUS
  <2>1. kept[i] \in Nat /\ kept[j] \in Nat /\ (i < j \/ j < i)
    BY <1>2, <1>4, <1>5
  <2> QED
    BY <1>4, <2>1
<1>13. \A i \in 1..n : Row(1, kept[i]) = Hole \/ Row(1, kept[i]).id # b
  BY <1>4
<1>14. \A k \in Rows(1) : Row(1, k) = Hole \/ Row(1, k).id # b => \E i \in 1..n : kept[i] = k
  BY <1>4
<1>15. kept \in [Rows(1)' -> Rows(1)]
  BY <1>4, <1>11
<1>16. /\ \A i \in Rows(1)' : Row(1, i)' = Row(1, kept[i])
       /\ \A i \in Rows(1)' : Row(1, i)' = Hole \/ Row(1, i)'.id # b
  BY <1>11, <1>13
<1>17. /\ \A i, j \in Rows(1)' : i # j => kept[i] # kept[j]
       /\ \A i, j \in Rows(1)' : i < j => kept[i] < kept[j]
       /\ \A k \in Rows(1) : Row(1, k) = Hole \/ Row(1, k).id # b =>
             \E i \in Rows(1)' : kept[i] = k
  BY <1>4, <1>11, <1>12, <1>14
<1>18. docs'[1].version = docs[1].version /\ docs'[1].scores = docs[1].scores
  BY <1>8, <1>10
<1>19. Pulled(b, kept)
  BY <1>10, <1>15, <1>16, <1>17, <1>18 DEF Pulled
<1> QED
  BY <1>1, <1>19

\* A status update changes the fade of one row of the badge.
Restated(b, d, p, f) ==
    /\ Only(d) /\ docs'[d].version = docs[d].version /\ docs'[d].scores = docs[d].scores
    /\ p \in Rows(d) /\ Rows(d)' = Rows(d)
    /\ Row(d, p) \in Badge /\ Row(d, p).id = b
    /\ Row(d, p)' = [Row(d, p) EXCEPT !.fade = f] /\ Row(d, p)' \in Badge
    /\ \A i \in Rows(d) : i # p => Row(d, i)' = Row(d, i)
    /\ p \in Firsts(docs[d].badges)
    /\ \A e \in 1..(d - 1) : b \notin Ids(docs[e].badges)
    /\ Asked(d, b, f)

LEMMA StatusEffect ==
    ASSUME RuleAssumption, TypeOK, NEW b \in Fading, NEW status \in {"active", "faded", "expired"},
           NEW until \in 1..LastNow, UpdateBadgeStatus(b, status, until)
    PROVE  \E d \in DOMAIN docs, p \in Nat, f \in Fade :
              /\ Restated(b, d, p, f)
              /\ f = FadeTo(Row(d, p).fade, status, until) /\ Window(status, until)
<1>0. PICK d \in DOMAIN docs : \E p \in Firsts(docs[d].badges) :
         /\ Row(d, p).id = b
         /\ \A e \in 1..(d - 1) : b \notin Ids(docs[e].badges)
         /\ docs' = [docs EXCEPT ![d].badges[p].fade = FadeTo(Row(d, p).fade, status, until)]
         /\ Asked(d, b, FadeTo(Row(d, p).fade, status, until))
  BY DEF UpdateBadgeStatus, Row
<1>20. PICK p \in Firsts(docs[d].badges) :
         /\ Row(d, p).id = b
         /\ \A e \in 1..(d - 1) : b \notin Ids(docs[e].badges)
         /\ docs' = [docs EXCEPT ![d].badges[p].fade = FadeTo(Row(d, p).fade, status, until)]
         /\ Asked(d, b, FadeTo(Row(d, p).fade, status, until))
  BY <1>0
<1>1. /\ p \in Rows(d) /\ Row(d, p) # Hole /\ Row(d, p).id = b
      /\ \A e \in 1..(d - 1) : b \notin Ids(docs[e].badges)
      /\ docs' = [docs EXCEPT ![d].badges[p].fade = FadeTo(Row(d, p).fade, status, until)]
      /\ Asked(d, b, FadeTo(Row(d, p).fade, status, until))
  BY <1>20 DEF Firsts, Rows, Row
<1>2. /\ docs[d] \in Doc /\ docs[d].badges \in Seq(Badge \cup {Hole})
      /\ Len(docs[d].badges) \in Nat /\ Rows(d) = 1..Len(docs[d].badges)
      /\ Row(d, p) \in Badge
  BY <1>1, DocFacts
<1> DEFINE f   == FadeTo(Row(d, p).fade, status, until)
           row == [Row(d, p) EXCEPT !.fade = f]
           new == [docs[d].badges EXCEPT ![p] = row]
           x   == [docs[d] EXCEPT !.badges = new]
<1>3. f \in Fade
  <2>1. Row(d, p).fade \in Fade /\ now \in Nat /\ until \in Nat
    BY <1>2 DEF Badge, TypeOK, RuleAssumption
  <2>2. CASE status = "faded"
    BY <2>1, <2>2 DEF FadeTo, Fade
  <2>3. CASE status = "expired"
    BY <2>1, <2>3 DEF FadeTo, Fade
  <2>4. CASE status = "active"
    BY <2>4 DEF FadeTo, Fade, Active
  <2> QED
    BY <2>2, <2>3, <2>4
<1>4. docs' = [docs EXCEPT ![d] = x]
  BY <1>1, <1>2 DEF Row
<1> HIDE DEF f
<1>5. row \in Badge
  BY <1>2, <1>3 DEF Badge
<1> HIDE DEF row
<1>6. /\ new \in Seq(Badge \cup {Hole}) /\ DOMAIN new = Rows(d) /\ new[p] = row
      /\ \A i \in Rows(d) : i # p => new[i] = Row(d, i)
  BY <1>1, <1>2, <1>5 DEF Rows, Row
<1> HIDE DEF new
<1>7. x \in Doc /\ x.badges = new /\ x.version = docs[d].version /\ x.scores = docs[d].scores
  BY <1>2, <1>6 DEF Doc
<1> HIDE DEF x
<1>8. Only(d) /\ docs'[d] = x
  BY <1>1, <1>4, <1>7, OneChanges
<1>9. Rows(d)' = Rows(d) /\ \A i : Row(d, i)' = new[i]
  BY <1>6, <1>7, <1>8 DEF Rows, Row
<1>10. Window(status, until)
  BY DEF UpdateBadgeStatus
<1>11. f = FadeTo(Row(d, p).fade, status, until) /\ Asked(d, b, f)
  BY <1>1 DEF f
<1>12. p \in Nat /\ Row(d, p).id = b /\ Row(d, p) \in Badge
  BY <1>1, <1>2
<1>13. /\ Row(d, p)' = [Row(d, p) EXCEPT !.fade = f] /\ Row(d, p)' \in Badge
       /\ \A i \in Rows(d) : i # p => Row(d, i)' = Row(d, i)
  BY <1>5, <1>6, <1>9 DEF row
<1>14. docs'[d].version = docs[d].version /\ docs'[d].scores = docs[d].scores
  BY <1>7, <1>8
<1>15. \A e \in 1..(d - 1) : b \notin Ids(docs[e].badges)
  BY <1>1
<1>16. Restated(b, d, p, f)
  BY <1>1, <1>8, <1>9, <1>11, <1>12, <1>13, <1>14, <1>15, <1>20 DEF Restated
<1> QED
  BY <1>3, <1>10, <1>11, <1>12, <1>16

\* A point rule comes by a $push, which counts the version up, and goes by a $pull.
Scored(r, d, c) ==
    /\ d = req[r].doc /\ Only(d)
    /\ docs'[d].badges = docs[d].badges /\ docs'[d].version = docs[d].version + 1
    /\ docs'[d].scores = docs[d].scores \cup {c}
    /\ created' = created \cup {c} /\ expected' = expected \cup {c}

LEMMA ScoreEffect ==
    ASSUME TypeOK, NEW r \in Requests, SaveNewScore(r)
    PROVE  \E d \in DOMAIN docs, c \in Scores : Scored(r, d, c)
<1>0. PICK d : d = req[r].doc
  OBVIOUS
<1>1. /\ d \in DOMAIN docs /\ req[r] \in Request
      /\ req[r].at = "save" /\ req[r].op.kind = "score"
  BY <1>0 DEF SaveNewScore, Saving, TypeOK
<1>10. req[r].op \in Op
  BY <1>1 DEF Request, Idle
<1>11. req[r].op.id \in Scores \cup {Unset}
  BY <1>1, <1>10 DEF Op
<1>2. PICK c \in NewId(req[r].op, Scores) :
         /\ docs' = [docs EXCEPT ![d].scores = @ \cup {c}, ![d].version = @ + 1]
         /\ created' = created \cup {c} /\ expected' = expected \cup {c}
  BY <1>0 DEF SaveNewScore
<1>12. c \in Scores
  BY <1>11 DEF NewId
<1>3. docs[d] \in Doc /\ docs[d].version \in Nat /\ docs[d].scores \in SUBSET Scores
  BY <1>1, DocFacts
<1> DEFINE all == docs[d].scores \cup {c}
           x   == [badges |-> docs[d].badges, scores |-> all, version |-> docs[d].version + 1]
           mid == [docs EXCEPT ![d] = [docs[d] EXCEPT !.scores = all]]
<1>8. all \in SUBSET Scores
  BY <1>3, <1>12
<1> HIDE DEF all
<1>4. x \in Doc /\ x.badges = docs[d].badges /\ x.scores = all /\ x.version = docs[d].version + 1
  BY <1>3, <1>8 DEF Doc
<1>5. docs' = [docs EXCEPT ![d] = x]
  <2>1. docs \in Seq(Doc)
    BY DEF TypeOK
  <2>2. mid[d] = [docs[d] EXCEPT !.scores = all] /\ DOMAIN mid = DOMAIN docs
    BY <1>1
  <2>3. docs' = [mid EXCEPT ![d] = [mid[d] EXCEPT !.version = docs[d].version + 1]]
    BY <1>2 DEF all
  <2>4. [mid[d] EXCEPT !.version = docs[d].version + 1] = x
    BY <1>3, <2>2 DEF Doc
  <2> QED
    BY <1>1, <2>1, <2>3, <2>4
<1> HIDE DEF x
<1>6. Only(d) /\ docs'[d] = x
  BY <1>1, <1>4, <1>5, OneChanges
<1>7. created' = created \cup {c} /\ expected' = expected \cup {c}
  BY <1>2
<1>9. Scored(r, d, c)
  BY <1>0, <1>4, <1>6, <1>7 DEF all, Scored
<1> QED
  BY <1>1, <1>9, <1>12

LEMMA ScoreDropEffect ==
    ASSUME TypeOK, NEW c \in Scores, DeletePointRule(c)
    PROVE  /\ 1 \in DOMAIN docs /\ Only(1)
           /\ docs'[1].badges = docs[1].badges /\ docs'[1].version = docs[1].version
           /\ docs'[1].scores = docs[1].scores \ {c}
<1>1. 1 \in DOMAIN docs
  BY DocFacts DEF DeletePointRule
<1>2. docs[1] \in Doc /\ docs[1].scores \in SUBSET Scores
  BY <1>1, DocFacts
<1> DEFINE x == [docs[1] EXCEPT !.scores = docs[1].scores \ {c}]
<1>3. /\ x \in Doc /\ x.badges = docs[1].badges /\ x.version = docs[1].version
      /\ x.scores = docs[1].scores \ {c}
  BY <1>2 DEF Doc
<1>4. docs' = [docs EXCEPT ![1] = x]
  BY <1>1, <1>2 DEF DeletePointRule
<1> HIDE DEF x
<1>5. Only(1) /\ docs'[1] = x
  BY <1>1, <1>3, <1>4, OneChanges
<1> QED
  BY <1>1, <1>3, <1>5

\* A list of rules takes the place of another.
Replaced(x) ==
    /\ 1 \in DOMAIN docs /\ Only(1)
    /\ docs'[1].version = docs[1].version /\ docs'[1].badges = x

LEMMA ReplaceEffect ==
    ASSUME RuleAssumption, TypeOK, NEW s \in Bodies, ReplaceBadges(s)
    PROVE  /\ Replaced(s) /\ docs'[1].scores = docs[1].scores
           /\ s \in Seq(Badge) /\ Hole \notin Badge
           /\ \A i \in DOMAIN s : s[i].fade \in {Active} \cup Brought
<1>1. 1 \in DOMAIN docs
  BY DocFacts DEF ReplaceBadges
<1>2. docs[1] \in Doc
  BY <1>1, DocFacts
<1>3. s \in Seq([id : Badges, name : Names, fade : {Active} \cup Brought])
  BY DEF RuleAssumption
<1>4. Active \in Fade /\ Brought \subseteq Fade
  BY DEF Active, Fade, RuleAssumption
<1>5. ASSUME NEW i \in DOMAIN s PROVE s[i] \in Badge /\ s[i].fade \in {Active} \cup Brought
  <2> DEFINE R == [id : Badges, name : Names, fade : {Active} \cup Brought]
  <2>1. s[i] \in R
    <3>1. s \in Seq(R)
      BY <1>3
    <3> HIDE DEF R
    <3> QED
      BY <3>1
  <2> QED
    BY <1>4, <2>1 DEF Badge
<1>6. s \in Seq(Badge)
  BY <1>3, <1>5
<1> DEFINE x == [docs[1] EXCEPT !.badges = s]
<1>7. /\ x \in Doc /\ x.badges = s /\ x.version = docs[1].version /\ x.scores = docs[1].scores
  <2>1. s \in Seq(Badge \cup {Hole})
    BY <1>6
  <2> QED
    BY <1>2, <2>1 DEF Doc
<1>8. docs' = [docs EXCEPT ![1] = x]
  BY <1>1, <1>2 DEF ReplaceBadges
<1> HIDE DEF x
<1>9. Only(1) /\ docs'[1] = x
  BY <1>1, <1>7, <1>8, OneChanges
<1> QED
  BY <1>1, <1>5, <1>6, <1>7, <1>9 DEF Replaced, RuleAssumption

LEMMA ScoresEffect ==
    ASSUME TypeOK, NEW cs \in SUBSET Scores, ReplaceScores(cs)
    PROVE  /\ 1 \in DOMAIN docs /\ Only(1)
           /\ docs'[1].badges = docs[1].badges /\ docs'[1].version = docs[1].version
           /\ docs'[1].scores = cs
<1>1. 1 \in DOMAIN docs
  BY DocFacts DEF ReplaceScores
<1>2. docs[1] \in Doc
  BY <1>1, DocFacts
<1> DEFINE x == [docs[1] EXCEPT !.scores = cs]
<1>3. x \in Doc /\ x.badges = docs[1].badges /\ x.version = docs[1].version /\ x.scores = cs
  BY <1>2 DEF Doc
<1>4. docs' = [docs EXCEPT ![1] = x]
  BY <1>1, <1>2 DEF ReplaceScores
<1> HIDE DEF x
<1>5. Only(1) /\ docs'[1] = x
  BY <1>1, <1>3, <1>4, OneChanges
<1> QED
  BY <1>1, <1>3, <1>5

-----------------------------------------------------------------------------
(* What each step does to the requests. *)

\* If r waits to save, it did before, for the same, and knows of as much beside it.
Same(r) ==
    req'[r].at = "save" =>
        /\ req[r].at = "save" /\ req'[r].op = req[r].op /\ req'[r].doc = req[r].doc
        /\ req'[r].seen = req[r].seen /\ req[r].beside \subseteq req'[r].beside
        /\ \A l \in req'[r].beside \ req[r].beside : <<req[r].op.kind, l>> \in Harm

LEMMA WrittenEffect ==
    ASSUME TypeOK, NEW kinds \in SUBSET Kinds, NEW w, Written(kinds, w)
    PROVE  /\ req' \in [Requests -> Request]
           /\ w \in Requests => req'[w] = Idle
           /\ \A r \in Requests : Same(r)
           /\ \A r \in Requests : req'[r].at = "save" =>
                 /\ r # w
                 /\ \A k \in kinds : <<req[r].op.kind, k>> \in Harm => k \in req'[r].beside
<1>1. ASSUME NEW r \in Requests
      PROVE  /\ req'[r] \in Request /\ Same(r)
             /\ r = w => req'[r] = Idle
             /\ req'[r].at = "save" => r # w
             /\ req'[r].at = "save" => \A k \in kinds :
                   <<req[r].op.kind, k>> \in Harm => k \in req'[r].beside
  <2>1. req[r] \in Request
    BY DEF TypeOK
  <2>2. CASE r = w
    BY <2>2 DEF Written, Idle, Request, Same
  <2>3. CASE r # w /\ req[r].at = "save"
    <3> DEFINE more == {k \in kinds : <<req[r].op.kind, k>> \in Harm}
    <3>1. req'[r] = [req[r] EXCEPT !.beside = @ \cup more]
      BY <2>3 DEF Written
    <3>2. /\ req[r] \in [at : {"save"}, op : Op, doc : Nat \ {0}, seen : Copy \cup {NoCopy},
                         beside : SUBSET Kinds]
      BY <2>1, <2>3 DEF Request, Idle
    <3>3. req[r].beside \cup more \in SUBSET Kinds
      BY <3>2
    <3> HIDE DEF more
    <3>4. /\ req'[r] \in [at : {"save"}, op : Op, doc : Nat \ {0}, seen : Copy \cup {NoCopy},
                          beside : SUBSET Kinds]
          /\ req'[r].op = req[r].op /\ req'[r].doc = req[r].doc /\ req'[r].seen = req[r].seen
          /\ req'[r].beside = req[r].beside \cup more
      BY <3>1, <3>2, <3>3
    <3>5. req'[r] \in Request
      BY <3>4 DEF Request
    <3>6. Same(r)
      BY <2>3, <3>4 DEF Same, more
    <3> QED
      BY <2>3, <3>4, <3>5, <3>6 DEF more
  <2>4. CASE r # w /\ req[r].at # "save"
    <3>1. req'[r] = req[r]
      BY <2>4 DEF Written
    <3> QED
      BY <2>1, <2>4, <3>1 DEF Same
  <2> QED
    BY <2>2, <2>3, <2>4
<1>2. req' \in [Requests -> Request]
  BY <1>1 DEF Written
<1>3. w \in Requests => req'[w] = Idle
  BY <1>1
<1>4. \A r \in Requests : Same(r)
  BY <1>1
<1> QED
  BY <1>1, <1>2, <1>3, <1>4 DEF Same

\* Request q has just read document d, and passed the checks.
Fresh(q, d) ==
    /\ q.beside = {} /\ q.op \in Op /\ q.op.kind # "read"
    /\ q.op.kind # "score" => \A i \in DOMAIN d.badges : d.badges[i] # Hole
    /\ q.op.kind = "add" => \A i \in DOMAIN d.badges : d.badges[i].name # q.op.name
    /\ q.op.kind = "edit" =>
          /\ q.seen \in Copy /\ q.seen.version = d.version
          /\ q.seen.index \in Firsts(d.badges) /\ d.badges[q.seen.index] = q.seen.badge
          /\ \A i \in DOMAIN d.badges : i # q.seen.index => d.badges[i].name # q.op.name

LEMMA LookFresh ==
    ASSUME NEW o \in Op, NEW n \in Nat \ {0}, NEW d \in Doc,
           NEW q, q = Look(o, n, d)
    PROVE  /\ q \in Request
           /\ q.at = "save" => q.doc = n /\ Fresh(q, d)
<1>1. d \in Doc /\ d.badges \in Seq(Badge \cup {Hole})
  BY DEF Doc
<1>2. CASE o.kind = "read" \/ Refused(o, d.badges)
  BY <1>2 DEF Look, Idle, Request
<1>3. CASE ~ (o.kind = "read" \/ Refused(o, d.badges))
  <2> DEFINE p    == Position(d.badges, o.badge)
             seen == IF o.kind # "edit" THEN NoCopy
                     ELSE [badge |-> d.badges[p], index |-> p, version |-> d.version]
  <2>1. q = [at |-> "save", op |-> o, doc |-> n, beside |-> {}, seen |-> seen]
    BY <1>3 DEF Look
  <2>2. ASSUME o.kind = "edit"
        PROVE  /\ seen \in Copy /\ seen.version = d.version /\ seen.index = p
               /\ p \in Firsts(d.badges) /\ d.badges[p] = seen.badge
    <3>1. o.badge \in Ids(d.badges)
      BY <1>3, <2>2 DEF Refused
    <3>2. /\ p \in Firsts(d.badges) /\ p \in Nat \ {0} /\ d.badges[p] \in Badge
      BY <1>1, <3>1, PositionFacts
    <3>3. d.version \in Nat
      BY DEF Doc
    <3> QED
      BY <2>2, <3>2, <3>3 DEF Copy
  <2>3. seen \in Copy \cup {NoCopy}
    BY <2>2
  <2>4. o.kind # "score" => \A i \in DOMAIN d.badges : d.badges[i] # Hole
    <3>1. o.kind # "score" => Hole \notin {d.badges[i] : i \in DOMAIN d.badges}
      BY <1>3 DEF Refused
    <3> QED
      BY <3>1
  <2>5. o.kind = "add" => \A i \in DOMAIN d.badges : d.badges[i].name # o.name
    BY <1>3 DEF Refused, Taken
  <2>6. o.kind = "edit" => \A i \in DOMAIN d.badges : i # p => d.badges[i].name # o.name
    BY <1>3 DEF Refused, Taken
  <2> HIDE DEF seen, p
  <2>7. /\ q.at = "save" /\ q.op = o /\ q.doc = n /\ q.beside = {} /\ q.seen = seen
    BY <2>1
  <2>8. q \in Request
    BY <2>1, <2>3 DEF Request
  <2> QED
    BY <1>3, <2>2, <2>4, <2>5, <2>6, <2>7, <2>8 DEF Fresh
<1> QED
  BY <1>2, <1>3

\* Request r reads a document, waits to create it, or finds it just created.
Reads(r) ==
    /\ docs' \in Seq(Doc) /\ req' \in [Requests -> Request]
    /\ docs' = docs \/ (docs' = Append(docs, NewDoc) /\ Len(docs') = Len(docs) + 1)
    /\ \A d \in DOMAIN docs : d \in DOMAIN docs' /\ docs'[d] = docs[d]
    /\ \A d \in DOMAIN docs' \ DOMAIN docs : docs'[d] = NewDoc
    /\ \A q \in Requests \ {r} : req'[q] = req[q]
    /\ req'[r].at = "save" => /\ req'[r].doc \in DOMAIN docs'
                              /\ Fresh(req'[r], docs'[req'[r].doc])
    /\ UNCHANGED <<now, history>>

LEMMA FindEffect ==
    ASSUME RuleAssumption, TypeOK, NEW r \in Requests, NEW o \in Op, Find(r, o)
    PROVE  Reads(r)
<1>1. docs \in Seq(Doc) /\ req \in [Requests -> Request]
  BY DEF TypeOK
<1>2. CASE docs = <<>>
  <2>1. req' = [req EXCEPT ![r] = [at |-> "create", op |-> o]]
    BY <1>2 DEF Find
  <2>2. [at |-> "create", op |-> o] \in Request
    BY DEF Request
  <2> QED
    BY <1>1, <2>1, <2>2 DEF Find, Reads
<1>3. CASE docs # <<>>
  <2>1. req' = [req EXCEPT ![r] = Look(o, 1, docs[1])]
    BY <1>3 DEF Find
  <2>2. 1 \in DOMAIN docs /\ docs[1] \in Doc
    BY <1>3, DocFacts
  <2> DEFINE q == Look(o, 1, docs[1])
  <2>3. q \in Request /\ (q.at = "save" => q.doc = 1 /\ Fresh(q, docs[1]))
    BY <2>2, LookFresh
  <2> HIDE DEF q
  <2>4. req'[r] = q /\ req' \in [Requests -> Request] /\ \A p \in Requests \ {r} : req'[p] = req[p]
    BY <1>1, <2>1, <2>3 DEF q
  <2>5. docs' = docs
    BY DEF Find
  <2> QED
    BY <1>1, <2>2, <2>3, <2>4, <2>5 DEF Find, Reads
<1> QED
  BY <1>2, <1>3

LEMMA CreateEffect ==
    ASSUME RuleAssumption, TypeOK, NEW r \in Requests, Create(r)
    PROVE  Reads(r)
<1>1. docs \in Seq(Doc) /\ req \in [Requests -> Request] /\ Len(docs) \in Nat
  BY DEF TypeOK
<1>2. req[r].at = "create" /\ req[r] \in Request
  BY <1>1 DEF Create
<1>3. req[r].op \in Op
  BY <1>2 DEF Request, Idle
<1>4. NewDoc \in Doc
  BY DEF NewDoc, Doc
<1> DEFINE n == Len(docs) + 1
           q == Look(req[r].op, n, NewDoc)
<1>5. docs' = Append(docs, NewDoc) /\ req' = [req EXCEPT ![r] = q] /\ UNCHANGED <<now, history>>
  BY DEF Create
<1>6. /\ docs' \in Seq(Doc) /\ Len(docs') = n /\ DOMAIN docs' = DOMAIN docs \cup {n}
      /\ \A d \in DOMAIN docs : docs'[d] = docs[d]
      /\ docs'[n] = NewDoc /\ n \in Nat \ {0}
  BY <1>1, <1>4, <1>5
<1>7. q \in Request /\ (q.at = "save" => q.doc = n /\ Fresh(q, NewDoc))
  BY <1>3, <1>4, <1>6, LookFresh
<1> HIDE DEF q, n
<1>8. req'[r] = q /\ req' \in [Requests -> Request] /\ \A p \in Requests \ {r} : req'[p] = req[p]
  BY <1>1, <1>5, <1>7
<1> QED
  BY <1>5, <1>6, <1>7, <1>8 DEF Reads, n

-----------------------------------------------------------------------------
(* Types. *)

\* A request that waits to save has something to save, and knows of harm only.
Waits(q) ==
    /\ q.op.kind # "read"
    /\ q.op.kind = "edit" => q.seen \in Copy
    /\ \A l \in q.beside : <<q.op.kind, l>> \in Harm

TypeInv == TypeOK /\ \A r \in Requests : req[r].at = "save" => Waits(req[r])

\* Requests that read or go on as they were stay typed.
LEMMA WaitsStep ==
    ASSUME RuleAssumption, TypeInv, req' \in [Requests -> Request],
           \A d \in DOMAIN docs : d \in DOMAIN docs',
           NEW r \in Requests, req'[r].at = "save",
           \/ Same(r)
           \/ req'[r].doc \in DOMAIN docs' /\ Fresh(req'[r], docs'[req'[r].doc])
    PROVE  req'[r].doc \in DOMAIN docs' /\ Waits(req'[r])
<1>1. CASE Same(r)
  <2>1. /\ req[r].at = "save" /\ req'[r].op = req[r].op /\ req'[r].doc = req[r].doc
        /\ req'[r].seen = req[r].seen
        /\ \A l \in req'[r].beside : l \in req[r].beside \/ <<req[r].op.kind, l>> \in Harm
    BY <1>1 DEF Same
  <2>2. Waits(req[r]) /\ req[r].doc \in DOMAIN docs
    BY <2>1 DEF TypeInv, TypeOK
  <2> QED
    BY <2>1, <2>2 DEF Waits
<1>2. CASE req'[r].doc \in DOMAIN docs' /\ Fresh(req'[r], docs'[req'[r].doc])
  BY <1>2 DEF Fresh, Waits
<1> QED
  BY <1>1, <1>2

\* The overlaps a save notes are harmful ones.
LEMMA OverlappedTyped ==
    ASSUME TypeInv, NEW r \in Requests, req[r].at = "save", Overlapped(r)
    PROVE  overlaps' \subseteq Harm /\ overlaps \subseteq overlaps'
<1>1. Waits(req[r])
  BY DEF TypeInv
<1> QED
  BY <1>1 DEF TypeInv, TypeOK, Overlapped, Waits

\* What a step makes of the documents, the requests and the overlaps.
Typed ==
    /\ docs' \in Seq(Doc) /\ req' \in [Requests -> Request]
    /\ \A d \in DOMAIN docs : d \in DOMAIN docs'
    /\ \A r \in Requests :
          \/ Same(r)
          \/ req'[r].at = "save" => /\ req'[r].doc \in DOMAIN docs'
                                    /\ Fresh(req'[r], docs'[req'[r].doc])
    /\ created' \subseteq Badges \cup Scores /\ expected' \subseteq Badges \cup Scores
    /\ intent' \in [Badges -> Fade]
    /\ overlaps' \subseteq Harm

LEMMA TypedKeeps ==
    ASSUME RuleAssumption, TypeInv, Typed, now' \in 1..LastNow
    PROVE  TypeInv'
<1>1. \A r \in Requests : req'[r].at = "save" => /\ req'[r].doc \in DOMAIN docs'
                                                 /\ Waits(req'[r])
  BY WaitsStep DEF Typed
<1> QED
  BY <1>1 DEF Typed, TypeInv, TypeOK, Waits

LEMMA ReadsTyped ==
    ASSUME TypeInv, NEW r \in Requests, Reads(r)
    PROVE  Typed
<1>1. \A q \in Requests \ {r} : Same(q)
  BY DEF Reads, Same
<1> QED
  BY <1>1 DEF Reads, Typed, TypeInv, TypeOK, history

\* What an edit asks of the fade.
EditAsks(r) ==
    IF req[r].op.fade = Unset THEN intent' = intent
                              ELSE Asked(req[r].doc, req[r].seen.badge.id, req[r].op.fade)

\* What is asked of the fade of a badge is a fade.
LEMMA AskedTyped ==
    ASSUME RuleAssumption, TypeOK, NEW d, NEW b \in Badges, NEW f \in {Active} \cup Brought \cup Fade,
           Asked(d, b, f)
    PROVE  intent' \in [Badges -> Fade]
<1>1. f \in Fade /\ intent \in [Badges -> Fade]
  BY DEF Active, Fade, RuleAssumption, TypeOK
<1> QED
  BY <1>1 DEF Asked

\* A save by the one version check of the code that fails writes nothing.
LEMMA SaveBadgeEffect ==
    ASSUME RuleAssumption, TypeInv, NEW r \in Requests, SaveBadge(r)
    PROVE  /\ Typed /\ UNCHANGED <<now, created, expected>>
           /\ overlaps \subseteq overlaps'
           /\ \A q \in Requests : Same(q)
           /\ \/ UNCHANGED <<docs, intent, overlaps>>
              \/ /\ docs[req[r].doc].version = req[r].seen.version
                 /\ docs' = [docs EXCEPT ![req[r].doc].badges =
                               SetAt(@, req[r].seen.index, Merged(r))]
                 /\ EditAsks(r)
                 /\ Saving(r, "edit") /\ Overlapped(r) /\ Written(EditWrites(req[r].op), r)
<1>1. /\ Saving(r, "edit") /\ req[r].at = "save" /\ req[r].op.kind = "edit"
      /\ UNCHANGED <<now, created, expected>> /\ req[r] \in Request
  BY DEF SaveBadge, Saving, TypeInv, TypeOK
<1>2. TypeOK /\ Waits(req[r]) /\ req[r].seen \in Copy
  BY <1>1 DEF TypeInv, Waits
<1>3. CASE req' = [req EXCEPT ![r] = Idle] /\ UNCHANGED <<docs, intent, overlaps>>
  <2>1. req' \in [Requests -> Request] /\ \A q \in Requests : Same(q)
    BY <1>2, <1>3 DEF TypeOK, Request, Same, Idle
  <2> QED
    BY <1>1, <1>2, <1>3, <2>1 DEF Typed, TypeOK
<1>4. CASE /\ docs[req[r].doc].version = req[r].seen.version
           /\ docs' = [docs EXCEPT ![req[r].doc].badges =
                         SetAt(@, req[r].seen.index, Merged(r))]
           /\ EditAsks(r) /\ Overlapped(r) /\ Written(EditWrites(req[r].op), r)
  <2>1. \E d \in DOMAIN docs, k \in Nat : RowSet(r, d, k)
    BY <1>1, <1>2, <1>4, SetEffect
  <2>2. req' \in [Requests -> Request] /\ \A q \in Requests : Same(q)
    <3>1. EditWrites(req[r].op) \in SUBSET Kinds
      BY DEF EditWrites, Kinds, Saves
    <3> QED
      BY <1>2, <1>4, <3>1, WrittenEffect
  <2>3. overlaps' \subseteq Harm /\ overlaps \subseteq overlaps'
    BY <1>1, <1>4, OverlappedTyped
  <2>4. intent' \in [Badges -> Fade]
    <3>1. req[r].op \in Op
      BY <1>1 DEF Request, Idle
    <3>2. req[r].op.fade \in Brought \cup {Unset} /\ req[r].seen.badge.id \in Badges
      BY <1>1, <1>2, <3>1 DEF Op, Copy, Badge
    <3> QED
      BY <1>2, <1>4, <3>2, AskedTyped DEF EditAsks, TypeOK
  <2>5. Typed
    BY <1>1, <1>2, <2>1, <2>2, <2>3, <2>4 DEF Typed, TypeOK, Only, RowSet
  <2> QED
    BY <1>1, <1>4, <2>2, <2>3, <2>5
<1> QED
  BY <1>3, <1>4 DEF SaveBadge, EditAsks

\* The other writes note who has read and not saved yet.
LEMMA WritesTyped ==
    ASSUME RuleAssumption, TypeInv,
           \/ \E r \in Requests : SaveNewBadge(r) \/ SaveNewScore(r)
           \/ \E b \in Badges : DeleteBadge(b)
           \/ \E b \in Fading, status \in {"active", "faded", "expired"}, until \in 1..LastNow :
                 UpdateBadgeStatus(b, status, until)
           \/ \E c \in Scores : DeletePointRule(c)
           \/ \E s \in Bodies : ReplaceBadges(s)
           \/ \E cs \in SUBSET Scores : ReplaceScores(cs)
           \/ Tick
    PROVE  Typed /\ now' \in 1..LastNow /\ \A q \in Requests : Same(q)
<1>0. TypeOK /\ \A q \in Requests : UNCHANGED req => Same(q)
  BY DEF TypeInv, Same
<1>1. ASSUME NEW r \in Requests, SaveNewBadge(r)
      PROVE  Typed /\ now' = now /\ \A q \in Requests : Same(q)
  <2>1. PICK d \in DOMAIN docs, b \in Badges, n \in Nat : Pushed(r, d, b, n)
    BY <1>0, <1>1, PushEffect
  <2>2. req' \in [Requests -> Request] /\ \A q \in Requests : Same(q)
    BY <1>0, <1>1, WrittenEffect DEF SaveNewBadge, Kinds, Saves
  <2>3. overlaps' \subseteq Harm
    BY <1>1, OverlappedTyped DEF SaveNewBadge, Saving
  <2>4. intent' \in [Badges -> Fade]
    BY <1>0, <2>1, AskedTyped DEF Pushed, TypeOK
  <2>5. Only(d) /\ created' \subseteq Badges \cup Scores /\ expected' \subseteq Badges \cup Scores
    BY <1>0, <2>1 DEF Pushed, TypeOK
  <2>6. now' = now
    BY <1>1 DEF SaveNewBadge
  <2> QED
    BY <2>2, <2>3, <2>4, <2>5, <2>6 DEF Typed, Only
<1>2. ASSUME NEW r \in Requests, SaveNewScore(r)
      PROVE  Typed /\ now' = now /\ \A q \in Requests : Same(q)
  <2>1. \E d \in DOMAIN docs : /\ Only(d) /\ created' \subseteq Badges \cup Scores
                               /\ expected' \subseteq Badges \cup Scores
    <3>1. PICK d \in DOMAIN docs, c \in Scores : Scored(r, d, c)
      BY <1>0, <1>2, ScoreEffect
    <3> QED
      BY <1>0, <3>1 DEF Scored, TypeOK
  <2>2. req' \in [Requests -> Request] /\ \A q \in Requests : Same(q)
    BY <1>0, <1>2, WrittenEffect DEF SaveNewScore, Kinds, Saves
  <2>3. overlaps' \subseteq Harm
    BY <1>2, OverlappedTyped DEF SaveNewScore, Saving
  <2> QED
    BY <1>0, <1>2, <2>1, <2>2, <2>3 DEF Typed, TypeOK, Only, SaveNewScore
<1>3. ASSUME NEW b \in Badges, DeleteBadge(b)
      PROVE  Typed /\ now' = now /\ \A q \in Requests : Same(q)
  <2>1. Only(1)
    BY <1>0, <1>3, PullEffect DEF DeleteBadge, Pulled
  <2>2. req' \in [Requests -> Request] /\ \A q \in Requests : Same(q)
    BY <1>0, <1>3, WrittenEffect DEF DeleteBadge, Kinds
  <2>3. intent' \in [Badges -> Fade]
    BY <1>0, <1>3 DEF DeleteBadge, TypeOK, Active, Fade
  <2> QED
    BY <1>0, <1>3, <2>1, <2>2, <2>3 DEF Typed, TypeOK, Only, DeleteBadge
<1>4. ASSUME NEW b \in Fading, NEW status \in {"active", "faded", "expired"},
             NEW until \in 1..LastNow, UpdateBadgeStatus(b, status, until)
      PROVE  Typed /\ now' = now /\ \A q \in Requests : Same(q)
  <2>1. \E d \in DOMAIN docs, f \in Fade : Only(d) /\ Asked(d, b, f)
    <3>1. PICK d \in DOMAIN docs, p \in Nat, f \in Fade : Restated(b, d, p, f)
      BY <1>0, <1>4, StatusEffect
    <3> QED
      BY <3>1 DEF Restated
  <2>2. req' \in [Requests -> Request] /\ \A q \in Requests : Same(q)
    BY <1>0, <1>4, WrittenEffect DEF UpdateBadgeStatus, Kinds
  <2>3. intent' \in [Badges -> Fade]
    BY <1>0, <2>1, AskedTyped DEF RuleAssumption
  <2> QED
    BY <1>0, <1>4, <2>1, <2>2, <2>3 DEF Typed, TypeOK, Only, UpdateBadgeStatus
<1>5. ASSUME NEW c \in Scores, DeletePointRule(c)
      PROVE  Typed /\ now' = now /\ \A q \in Requests : Same(q)
  <2>1. Only(1)
    BY <1>0, <1>5, ScoreDropEffect
  <2> QED
    BY <1>0, <1>5, <2>1 DEF Typed, TypeOK, Only, DeletePointRule
<1>6. ASSUME Tick
      PROVE  Typed /\ now' \in 1..LastNow /\ \A q \in Requests : Same(q)
  BY <1>0, <1>6 DEF Typed, TypeOK, Tick, history, RuleAssumption
<1>7. ASSUME NEW s \in Bodies, ReplaceBadges(s)
      PROVE  Typed /\ now' = now /\ \A q \in Requests : Same(q)
  <2>1. Only(1) /\ s \in Seq(Badge) /\ Hole \notin Badge
    BY <1>0, <1>7, ReplaceEffect DEF Replaced
  <2>2. req' \in [Requests -> Request] /\ \A q \in Requests : Same(q)
    BY <1>0, <1>7, WrittenEffect DEF ReplaceBadges, Kinds, Saves
  <2>3. \A i \in DOMAIN s : s[i] \in Badge
    BY <2>1
  <2>4. Ids(s) \subseteq Badges
    BY <2>3 DEF Ids, Badge
  <2>5. intent' \in [Badges -> Fade]
    <3>1. intent' = [b \in Badges |-> IF b \in Ids(s) THEN s[Position(s, b)].fade ELSE Active]
      BY <1>7 DEF ReplaceBadges
    <3>2. ASSUME NEW b \in Ids(s) PROVE s[Position(s, b)].fade \in Fade
      <4>1. s \in Seq(Badge \cup {Hole})
        BY <2>1
      <4> QED
        BY <4>1, PositionFacts DEF Badge
    <3> QED
      BY <3>1, <3>2 DEF Active, Fade
  <2>6. overlaps' \subseteq Harm
    BY <1>0, <1>7 DEF ReplaceBadges, TypeOK, Harm
  <2> QED
    BY <1>0, <1>7, <2>1, <2>2, <2>4, <2>5, <2>6 DEF Typed, TypeOK, Only, ReplaceBadges
<1>8. ASSUME NEW cs \in SUBSET Scores, ReplaceScores(cs)
      PROVE  Typed /\ now' = now /\ \A q \in Requests : Same(q)
  <2>1. Only(1)
    BY <1>0, <1>8, ScoresEffect
  <2> QED
    BY <1>0, <1>8, <2>1 DEF Typed, TypeOK, Only, ReplaceScores
<1> QED
  BY <1>0, <1>1, <1>2, <1>3, <1>4, <1>5, <1>6, <1>7, <1>8 DEF TypeOK

LEMMA TypeStep ==
    ASSUME RuleAssumption, TypeInv, [Next]_vars
    PROVE  TypeInv'
<1>0. TypeOK /\ now \in 1..LastNow
  BY DEF TypeInv, TypeOK
<1>1. ASSUME NEW r \in Requests, Reads(r)
      PROVE  Typed /\ now' = now
  BY <1>1, ReadsTyped DEF Reads
<1>2. ASSUME NEW r \in Requests, NEW o \in Op, Find(r, o)
      PROVE  Typed /\ now' = now
  BY <1>0, <1>1, <1>2, FindEffect
<1>3. ASSUME NEW r \in Requests, Create(r)
      PROVE  Typed /\ now' = now
  BY <1>0, <1>1, <1>3, CreateEffect
<1>4. ASSUME NEW r \in Requests, SaveBadge(r)
      PROVE  Typed /\ now' = now
  BY <1>4, SaveBadgeEffect
<1>5. CASE UNCHANGED vars
  BY <1>0, <1>5 DEF TypeInv, TypeOK, vars
<1>6. ASSUME NEW r \in Requests, SaveNewBadge(r) \/ SaveNewScore(r)
      PROVE  Typed /\ now' \in 1..LastNow
  BY <1>6, WritesTyped
<1>7. ASSUME NEW b \in Badges, DeleteBadge(b)
      PROVE  Typed /\ now' \in 1..LastNow
  BY <1>7, WritesTyped
<1>8. ASSUME NEW b \in Fading, NEW status \in {"active", "faded", "expired"},
             NEW until \in 1..LastNow, UpdateBadgeStatus(b, status, until)
      PROVE  Typed /\ now' \in 1..LastNow
  BY <1>8, WritesTyped
<1>9. ASSUME \/ (\E c \in Scores : DeletePointRule(c)) \/ Tick
             \/ (\E s \in Bodies : ReplaceBadges(s)) \/ \E cs \in SUBSET Scores : ReplaceScores(cs)
      PROVE  Typed /\ now' \in 1..LastNow
  BY <1>9, WritesTyped
<1>10. CASE Next
  BY <1>0, <1>2, <1>3, <1>4, <1>6, <1>7, <1>8, <1>9, <1>10, TypedKeeps DEF Next
<1> QED
  BY <1>5, <1>10

LEMMA TypeStarts == Init => TypeInv
BY RuleAssumption DEF Init, TypeInv, TypeOK, Idle, Request, Active, Fade, RuleAssumption

LEMMA TypeStays == TypeInv /\ [Next]_vars => TypeInv'
BY TypeStep, RuleAssumption

\* The documents, the requests and the history are what they should be.
THEOREM RulesTyped == Spec => []TypeOK
<1>1. TypeInv => TypeOK
  BY DEF TypeInv
<1> QED
  BY TypeStarts, TypeStays, <1>1, PTL DEF Spec

-----------------------------------------------------------------------------
(* The steps, by what they do to the rows. *)

Editing(r) == req[r].at = "save" /\ req[r].op.kind = "edit"
Adding(r)  == req[r].at = "save" /\ req[r].op.kind = "add"

\* A write of some kinds by w: whoever waits to save knows of it if it harms.
Beside(kinds, w) ==
    \A q \in Requests : req'[q].at = "save" =>
        q # w /\ \A k \in kinds : <<req[q].op.kind, k>> \in Harm => k \in req'[q].beside

Adds(r, d, b, n) ==
    /\ Adding(r) /\ Pushed(r, d, b, n) /\ Overlapped(r) /\ Beside({"add"}, r)
    /\ UNCHANGED now
Edits(r, d, k) ==
    /\ Editing(r) /\ req[r].seen \in Copy /\ docs[d].version = req[r].seen.version
    /\ RowSet(r, d, k) /\ EditAsks(r) /\ Overlapped(r) /\ Beside(EditWrites(req[r].op), r)
    /\ UNCHANGED <<now, created, expected>>
Deletes(b, kept) ==
    /\ 1 \in DOMAIN docs /\ Pulled(b, kept) /\ Beside({"delete"}, "nobody")
    /\ expected' = expected \ {b} /\ intent' = [intent EXCEPT ![b] = Active]
    /\ UNCHANGED <<now, created, overlaps>>
Restates(b, d, p, f) ==
    /\ Restated(b, d, p, f) /\ Consistent(f) /\ Beside({"status"}, "nobody")
    /\ UNCHANGED <<now, created, expected, overlaps>>
Replaces(s) ==
    /\ Replaced(s) /\ docs'[1].scores = docs[1].scores /\ s \in Seq(Badge)
    /\ \A i \in DOMAIN s : s[i].fade \in {Active} \cup Brought
    /\ Beside({"delete", "edit"}, "nobody")
    /\ expected' = (expected \ Badges) \cup Ids(s)
    /\ intent' = [b \in Badges |-> IF b \in Ids(s) THEN s[Position(s, b)].fade ELSE Active]
    /\ overlaps \subseteq overlaps'
    /\ <<"list", "names">> \notin overlaps' =>
          \A i, j \in DOMAIN s : s[i].name = s[j].name => i = j
    /\ UNCHANGED now
\* A point rule comes or goes, all of them do, or none does.
Rescored ==
    \/ UNCHANGED expected /\ \A d \in DOMAIN docs : docs'[d].scores = docs[d].scores
    \/ \E d \in DOMAIN docs, c \in Scores :
          expected' = expected \cup {c} /\ docs'[d].scores = docs[d].scores \cup {c}
    \/ 1 \in DOMAIN docs /\ \E c \in Scores :
          expected' = expected \ {c} /\ docs'[1].scores = docs[1].scores \ {c}
    \/ 1 \in DOMAIN docs /\ \E cs \in SUBSET Scores :
          expected' = (expected \ Scores) \cup cs /\ docs'[1].scores = cs
\* The rows stay.
Leaves ==
    /\ docs' \in Seq(Doc) /\ DOMAIN docs' = DOMAIN docs
    /\ \A d \in DOMAIN docs : /\ docs'[d].badges = docs[d].badges
                              /\ docs'[d].version \in {docs[d].version, docs[d].version + 1}
    /\ now' \in {now, now + 1} /\ intent' = intent /\ overlaps \subseteq overlaps'
    /\ Rescored

\* A step reads, or leaves every request where it was and has one of the shapes.
Writes ==
    /\ \A q \in Requests : Same(q)
    /\ \/ \E r \in Requests, d \in DOMAIN docs, b \in Badges, n \in Nat : Adds(r, d, b, n)
       \/ \E r \in Requests, d \in DOMAIN docs, k \in Nat : Edits(r, d, k)
       \/ \E b \in Badges : \E kept : Deletes(b, kept)
       \/ \E b \in Fading, d \in DOMAIN docs, p \in Nat, f \in Fade : Restates(b, d, p, f)
       \/ \E s \in Bodies : Replaces(s)
       \/ Leaves

LEMMA FadeConsistent ==
    ASSUME RuleAssumption, TypeOK, NEW f \in Fade, NEW status \in {"active", "faded", "expired"},
           NEW until \in 1..LastNow, Window(status, until)
    PROVE  Consistent(FadeTo(f, status, until))
<1>1. now \in Nat \ {0} /\ until \in Nat
  BY DEF TypeOK, RuleAssumption
<1>2. CASE status = "faded"
  BY <1>1, <1>2 DEF FadeTo, Consistent, Window
<1>3. CASE status = "expired"
  <2>1. FadeTo(f, status, until) = [status |-> "expired", since |-> f.since, until |-> now]
    BY <1>3 DEF FadeTo, Fade
  <2> QED
    BY <1>1, <2>1 DEF Consistent
<1>4. CASE status = "active"
  BY <1>4 DEF FadeTo, Consistent, Active
<1> QED
  BY <1>2, <1>3, <1>4

LEMMA Shapes ==
    ASSUME RuleAssumption, TypeInv, [Next]_vars
    PROVE  Writes \/ \E r \in Requests : Reads(r)
<1>0. TypeOK /\ docs \in Seq(Doc) /\ \A q \in Requests : UNCHANGED req => Same(q)
  BY DEF TypeInv, TypeOK, Same
<1>1. ASSUME NEW r \in Requests, SaveNewBadge(r) PROVE Writes
  <2>1. PICK d \in DOMAIN docs, b \in Badges, n \in Nat : Pushed(r, d, b, n)
    BY <1>0, <1>1, PushEffect
  <2>2. (\A q \in Requests : Same(q)) /\ Beside({"add"}, r)
    BY <1>0, <1>1, WrittenEffect DEF SaveNewBadge, Kinds, Saves, Beside
  <2>3. Adds(r, d, b, n)
    BY <1>1, <2>1, <2>2 DEF Adds, SaveNewBadge, Saving, Adding
  <2> QED
    BY <2>1, <2>2, <2>3 DEF Writes
<1>2. ASSUME NEW r \in Requests, SaveNewScore(r) PROVE Writes
  <2>1. PICK d \in DOMAIN docs, c \in Scores : Scored(r, d, c)
    BY <1>0, <1>2, ScoreEffect
  <2>2. /\ docs' \in Seq(Doc) /\ DOMAIN docs' = DOMAIN docs
        /\ \A e \in DOMAIN docs : /\ docs'[e].badges = docs[e].badges
                                  /\ docs'[e].version \in {docs[e].version, docs[e].version + 1}
    BY <2>1 DEF Scored, Only
  <2>3. overlaps \subseteq overlaps' /\ now' = now /\ intent' = intent
    BY <1>2 DEF SaveNewScore, Overlapped
  <2>4. \A q \in Requests : Same(q)
    BY <1>2, WritesTyped
  <2>5. Rescored
    BY <2>1 DEF Scored, Rescored
  <2>6. Leaves
    BY <2>2, <2>3, <2>5 DEF Leaves
  <2> QED
    BY <2>4, <2>6 DEF Writes
<1>3. ASSUME NEW r \in Requests, SaveBadge(r) PROVE Writes
  <2>1. /\ UNCHANGED <<now, created, expected>> /\ overlaps \subseteq overlaps'
        /\ \A q \in Requests : Same(q)
    BY <1>3, SaveBadgeEffect
  <2>2. CASE UNCHANGED <<docs, intent, overlaps>>
    BY <1>0, <2>1, <2>2 DEF Writes, Leaves, Rescored
  <2>3. CASE /\ docs[req[r].doc].version = req[r].seen.version
             /\ docs' = [docs EXCEPT ![req[r].doc].badges =
                           SetAt(@, req[r].seen.index, Merged(r))]
             /\ EditAsks(r)
             /\ Saving(r, "edit") /\ Overlapped(r) /\ Written(EditWrites(req[r].op), r)
    <3>1. Editing(r) /\ req[r].seen \in Copy
      BY <2>3 DEF Saving, Editing, TypeInv, Waits
    <3>2. PICK d \in DOMAIN docs, k \in Nat : RowSet(r, d, k)
      BY <1>0, <2>3, <3>1, SetEffect
    <3>3. EditWrites(req[r].op) \in SUBSET Kinds
      BY DEF EditWrites, Kinds, Saves
    <3>4. Beside(EditWrites(req[r].op), r)
      BY <1>0, <2>3, <3>3, WrittenEffect DEF Beside
    <3>5. Edits(r, d, k)
      BY <2>1, <2>3, <3>1, <3>2, <3>4 DEF Edits, RowSet
    <3> QED
      BY <2>1, <3>2, <3>5 DEF Writes
  <2> QED
    BY <1>3, <2>2, <2>3, SaveBadgeEffect
<1>4. ASSUME NEW b \in Badges, DeleteBadge(b) PROVE Writes
  <2>1. PICK kept : 1 \in DOMAIN docs /\ Pulled(b, kept)
    BY <1>0, <1>4, PullEffect DEF DeleteBadge
  <2>2. (\A q \in Requests : Same(q)) /\ Beside({"delete"}, "nobody")
    BY <1>0, <1>4, WrittenEffect DEF DeleteBadge, Kinds, Beside
  <2>3. Deletes(b, kept)
    BY <1>4, <2>1, <2>2 DEF Deletes, DeleteBadge
  <2> QED
    BY <2>2, <2>3 DEF Writes
<1>5. ASSUME NEW b \in Fading, NEW status \in {"active", "faded", "expired"},
             NEW until \in 1..LastNow, UpdateBadgeStatus(b, status, until)
      PROVE  Writes
  <2>1. PICK d \in DOMAIN docs, p \in Nat, f \in Fade :
           /\ Restated(b, d, p, f)
           /\ f = FadeTo(Row(d, p).fade, status, until) /\ Window(status, until)
    BY <1>0, <1>5, StatusEffect
  <2>2. (\A q \in Requests : Same(q)) /\ Beside({"status"}, "nobody")
    BY <1>0, <1>5, WrittenEffect DEF UpdateBadgeStatus, Kinds, Beside
  <2>3. Row(d, p).fade \in Fade
    BY <2>1 DEF Restated, Badge
  <2>4. Consistent(f)
    BY <1>0, <2>1, <2>3, FadeConsistent
  <2>5. Restates(b, d, p, f)
    BY <1>5, <2>1, <2>2, <2>4 DEF Restates, UpdateBadgeStatus
  <2> QED
    BY <2>1, <2>2, <2>5 DEF Writes
<1>6. ASSUME NEW c \in Scores, DeletePointRule(c) PROVE Writes
  <2>1. /\ 1 \in DOMAIN docs /\ Only(1)
        /\ docs'[1].badges = docs[1].badges /\ docs'[1].version = docs[1].version
        /\ docs'[1].scores = docs[1].scores \ {c}
    BY <1>0, <1>6, ScoreDropEffect
  <2>2. Rescored
    BY <1>6, <2>1 DEF Rescored, DeletePointRule
  <2>3. Leaves
    BY <1>6, <2>1, <2>2 DEF Leaves, Only, DeletePointRule
  <2> QED
    BY <1>0, <1>6, <2>3 DEF Writes, DeletePointRule
<1>7. ASSUME NEW s \in Bodies, ReplaceBadges(s) PROVE Writes
  <2>1. /\ Replaced(s) /\ docs'[1].scores = docs[1].scores /\ s \in Seq(Badge)
        /\ \A i \in DOMAIN s : s[i].fade \in {Active} \cup Brought
    BY <1>0, <1>7, ReplaceEffect
  <2>2. (\A q \in Requests : Same(q)) /\ Beside({"delete", "edit"}, "nobody")
    <3>1. PICK kinds : kinds = {"delete", "edit"}
      OBVIOUS
    <3>2. kinds \in SUBSET Kinds /\ Written(kinds, "nobody")
      BY <1>7, <3>1 DEF ReplaceBadges, Kinds, Saves
    <3>3. (\A q \in Requests : Same(q)) /\ Beside(kinds, "nobody")
      BY <1>0, <3>2, WrittenEffect DEF Beside
    <3> QED
      BY <3>1, <3>3
  <2>3. /\ overlaps \subseteq overlaps'
        /\ <<"list", "names">> \notin overlaps' =>
              \A i, j \in DOMAIN s : s[i].name = s[j].name => i = j
    BY <1>7 DEF ReplaceBadges
  <2>4. Replaces(s)
    BY <1>7, <2>1, <2>2, <2>3 DEF Replaces, ReplaceBadges
  <2> QED
    BY <2>2, <2>4 DEF Writes
<1>8. ASSUME NEW cs \in SUBSET Scores, ReplaceScores(cs) PROVE Writes
  <2>1. /\ 1 \in DOMAIN docs /\ Only(1)
        /\ docs'[1].badges = docs[1].badges /\ docs'[1].version = docs[1].version
        /\ docs'[1].scores = cs
    BY <1>0, <1>8, ScoresEffect
  <2>2. Rescored
    BY <1>8, <2>1 DEF Rescored, ReplaceScores
  <2>3. Leaves
    BY <1>8, <2>1, <2>2 DEF Leaves, Only, ReplaceScores
  <2> QED
    BY <1>0, <1>8, <2>3 DEF Writes, ReplaceScores
<1>9. CASE Tick \/ UNCHANGED vars
  BY <1>0, <1>9 DEF Writes, Leaves, Rescored, Tick, vars, history
<1>10. ASSUME NEW r \in Requests, (\E o \in Op : Find(r, o)) \/ Create(r) PROVE Reads(r)
  BY <1>0, <1>10, FindEffect, CreateEffect
<1> QED
  BY <1>1, <1>2, <1>3, <1>4, <1>5, <1>6, <1>7, <1>8, <1>9, <1>10 DEF Next

-----------------------------------------------------------------------------
(* What an edit has read is no newer than what is stored, and no rule is        *)
(* expected before there is a document.                                      *)

KnownInv ==
    /\ \A r \in Requests : Editing(r) => req[r].seen.version <= docs[req[r].doc].version
    /\ docs = <<>> => expected = {}

\* A request that edits after a step was editing before it, or has just read.
LEMMA EditingStep ==
    ASSUME TypeInv, NEW r \in Requests, Same(r), Editing(r)'
    PROVE  /\ Editing(r) /\ req'[r].op = req[r].op /\ req'[r].doc = req[r].doc
           /\ req'[r].seen = req[r].seen /\ req[r].beside \subseteq req'[r].beside
           /\ req[r].seen \in Copy /\ req[r].doc \in DOMAIN docs
           /\ req[r].seen.badge \in Badge /\ req[r].seen.version \in Nat
           /\ req[r].seen.index \in Nat
<1>1. /\ Editing(r) /\ req'[r].op = req[r].op /\ req'[r].doc = req[r].doc
      /\ req'[r].seen = req[r].seen /\ req[r].beside \subseteq req'[r].beside
  BY DEF Same, Editing
<1>2. req[r].seen \in Copy /\ req[r].doc \in DOMAIN docs
  BY <1>1 DEF TypeInv, TypeOK, Waits, Editing
<1> QED
  BY <1>1, <1>2 DEF Copy

LEMMA ReadsRows ==
    ASSUME TypeInv, NEW r \in Requests, Reads(r)
    PROVE  /\ \A d \in DOMAIN docs : /\ d \in DOMAIN docs' /\ docs'[d] = docs[d]
                                     /\ Rows(d)' = Rows(d)
                                     /\ \A i \in Rows(d) : Row(d, i)' = Row(d, i)
           /\ \A d \in DOMAIN docs' \ DOMAIN docs : Rows(d)' = {}
           /\ \A q \in Requests \ {r} : Same(q)
<1>1. \A d \in DOMAIN docs : d \in DOMAIN docs' /\ docs'[d] = docs[d]
  BY DEF Reads
<1>2. \A d \in DOMAIN docs' \ DOMAIN docs : docs'[d].badges = <<>>
  BY DEF Reads, NewDoc
<1>3. \A q \in Requests \ {r} : Same(q)
  BY DEF Reads, Same
<1> QED
  BY <1>1, <1>2, <1>3 DEF Rows, Row, Same

\* An edit that has just read names a row of a stored document.
ReadRow(r, d, k) ==
    /\ d = req'[r].doc /\ k = req'[r].seen.index
    /\ FirstRow(d, k) /\ Row(d, k) = req'[r].seen.badge /\ req'[r].seen \in Copy
    /\ req'[r].seen.version = docs[d].version /\ docs[d].version \in Nat
    /\ req'[r].beside = {}
    /\ \A i \in Rows(d) : Row(d, i) # Hole
    /\ \A i \in Rows(d) : i # k => Row(d, i).name # req'[r].op.name

LEMMA ReadsEdit ==
    ASSUME RuleAssumption, TypeInv, NEW r \in Requests, Reads(r), Editing(r)'
    PROVE  \E d \in DOMAIN docs, k \in Nat : k \in Rows(d) /\ ReadRow(r, d, k)
<1>1. PICK d \in DOMAIN docs' : d = req'[r].doc /\ Fresh(req'[r], docs'[d])
  BY DEF Reads, Editing
<1>2. PICK k \in DOMAIN docs'[d].badges : k = req'[r].seen.index
  BY <1>1 DEF Fresh, Editing, Firsts
<1>3. d \in DOMAIN docs /\ docs'[d] = docs[d]
  BY <1>2, ReadsRows DEF Rows
<1>4. k \in Rows(d) /\ docs[d].version \in Nat /\ k \in Nat
  BY <1>2, <1>3, DocFacts DEF Rows, TypeInv
<1>7. k \in Firsts(docs[d].badges) /\ docs \in Seq(Doc)
  BY <1>1, <1>2, <1>3 DEF Fresh, Editing, TypeInv, TypeOK
<1>8. FirstRow(d, k)
  BY <1>3, <1>7, FirstRows
<1>5. /\ Row(d, k) = req'[r].seen.badge /\ req'[r].seen \in Copy /\ req'[r].beside = {}
      /\ req'[r].seen.version = docs[d].version
      /\ \A i \in Rows(d) : Row(d, i) # Hole
      /\ \A i \in Rows(d) : i # k => Row(d, i).name # req'[r].op.name
  BY <1>1, <1>2, <1>3 DEF Fresh, Editing, Rows, Row
<1>6. ReadRow(r, d, k)
  BY <1>1, <1>2, <1>4, <1>5, <1>8 DEF ReadRow
<1> QED
  BY <1>3, <1>4, <1>6

LEMMA KnownReads ==
    ASSUME RuleAssumption, TypeInv, KnownInv, NEW r \in Requests, Reads(r)
    PROVE  KnownInv'
<1>1. ASSUME NEW q \in Requests, Editing(q)'
      PROVE  req'[q].seen.version <= docs'[req'[q].doc].version
  <2>1. CASE q # r
    <3>1. Same(q)
      BY <2>1, ReadsRows
    <3> QED
      BY <1>1, <2>1, <3>1, EditingStep, ReadsRows DEF KnownInv
  <2>2. CASE q = r
    <3>1. PICK d \in DOMAIN docs, k \in Nat : k \in Rows(d) /\ ReadRow(r, d, k)
      BY <1>1, <2>2, ReadsEdit
    <3> QED
      BY <2>2, <3>1, ReadsRows DEF ReadRow
  <2> QED
    BY <2>1, <2>2
<1>2. docs' = <<>> => expected' = {}
  BY DEF Reads, KnownInv, TypeInv, TypeOK, history
<1> QED
  BY <1>1, <1>2 DEF KnownInv

\* The version of every document stays or counts on, and nothing noted is undone.
Dated ==
    /\ \A d \in DOMAIN docs : /\ d \in DOMAIN docs'
                              /\ docs'[d].version \in {docs[d].version, docs[d].version + 1}
    /\ overlaps \subseteq overlaps'

LEMMA WritesDate ==
    ASSUME TypeInv, Writes
    PROVE  Dated /\ DOMAIN docs' = DOMAIN docs /\ docs' \in Seq(Doc)
<1>1. ASSUME NEW d \in DOMAIN docs, Only(d),
             docs'[d].version \in {docs[d].version, docs[d].version + 1}
      PROVE  /\ DOMAIN docs' = DOMAIN docs /\ docs' \in Seq(Doc)
             /\ \A e \in DOMAIN docs : docs'[e].version \in {docs[e].version, docs[e].version + 1}
  BY <1>1 DEF Only
<1>2. ASSUME NEW r \in Requests, NEW d \in DOMAIN docs, NEW b \in Badges, NEW n \in Nat,
             Adds(r, d, b, n)
      PROVE  Dated /\ DOMAIN docs' = DOMAIN docs /\ docs' \in Seq(Doc)
  BY <1>1, <1>2 DEF Adds, Pushed, Overlapped, Dated
<1>3. ASSUME NEW r \in Requests, NEW d \in DOMAIN docs, NEW k \in Nat, Edits(r, d, k)
      PROVE  Dated /\ DOMAIN docs' = DOMAIN docs /\ docs' \in Seq(Doc)
  BY <1>1, <1>3 DEF Edits, RowSet, Overlapped, Dated
<1>4. ASSUME NEW b \in Badges, NEW kept, Deletes(b, kept)
      PROVE  Dated /\ DOMAIN docs' = DOMAIN docs /\ docs' \in Seq(Doc)
  BY <1>1, <1>4 DEF Deletes, Pulled, Dated
<1>5. ASSUME NEW b \in Fading, NEW d \in DOMAIN docs, NEW p \in Nat, NEW f \in Fade,
             Restates(b, d, p, f)
      PROVE  Dated /\ DOMAIN docs' = DOMAIN docs /\ docs' \in Seq(Doc)
  BY <1>1, <1>5 DEF Restates, Restated, Dated
<1>6. ASSUME NEW s \in Bodies, Replaces(s)
      PROVE  Dated /\ DOMAIN docs' = DOMAIN docs /\ docs' \in Seq(Doc)
  BY <1>1, <1>6 DEF Replaces, Replaced, Dated
<1>7. CASE Leaves
  BY <1>7 DEF Leaves, Dated
<1> QED
  BY <1>2, <1>3, <1>4, <1>5, <1>6, <1>7 DEF Writes

LEMMA ReadsDate ==
    ASSUME TypeInv, NEW r \in Requests, Reads(r)
    PROVE  Dated
BY DEF Reads, Dated, history

\* A write moves versions on.
LEMMA KnownRequests ==
    ASSUME TypeInv, KnownInv, \A q \in Requests : Same(q), Dated
    PROVE  \A q \in Requests : Editing(q)' =>
                 req'[q].seen.version <= docs'[req'[q].doc].version
<1> SUFFICES ASSUME NEW q \in Requests, Editing(q)'
             PROVE  req'[q].seen.version <= docs'[req'[q].doc].version
  OBVIOUS
<1>1. /\ Editing(q) /\ req'[q].doc = req[q].doc /\ req'[q].seen = req[q].seen
      /\ req[q].doc \in DOMAIN docs /\ req[q].seen.version \in Nat
  BY EditingStep
<1>2. docs[req[q].doc].version \in Nat
  BY <1>1, DocFacts DEF TypeInv
<1>3. req[q].seen.version <= docs[req[q].doc].version
  BY <1>1 DEF KnownInv
<1> QED
  BY <1>1, <1>2, <1>3 DEF Dated

LEMMA KnownStep ==
    ASSUME RuleAssumption, TypeInv, KnownInv, [Next]_vars
    PROVE  KnownInv'
<1>0. TypeOK /\ (Writes \/ \E r \in Requests : Reads(r))
  BY Shapes DEF TypeInv
<1>1. CASE Writes
  <2>1. /\ Dated /\ DOMAIN docs' = DOMAIN docs /\ docs' \in Seq(Doc)
        /\ \A q \in Requests : Same(q)
    BY <1>1, WritesDate DEF Writes
  <2>2. \A q \in Requests : Editing(q)' => req'[q].seen.version <= docs'[req'[q].doc].version
    BY <2>1, KnownRequests
  <2>3. ASSUME docs' = <<>> PROVE expected' = {}
    <3>1. DOMAIN docs = {} /\ docs = <<>>
      BY <1>0, <2>1, <2>3 DEF TypeOK
    <3>2. Leaves
      BY <1>1, <3>1 DEF Writes, Deletes, Replaces, Replaced
    <3> QED
      BY <3>1, <3>2 DEF Leaves, Rescored, KnownInv
  <2> QED
    BY <2>2, <2>3 DEF KnownInv
<1> QED
  BY <1>0, <1>1, KnownReads

LEMMA KnownStarts == Init => KnownInv
BY DEF Init, KnownInv, Editing, Idle

-----------------------------------------------------------------------------
(* Unless a badge was edited beside a deletion or a new list, the lists have no *)
(* holes, and an edit that can still be saved writes over its badge's first row. *)

\* An edit that can still be saved, with no deletion beside it.
Current(r) ==
    /\ Editing(r) /\ req[r].seen.version = docs[req[r].doc].version
    /\ "delete" \notin req[r].beside

InPlace(r) ==
    /\ FirstRow(req[r].doc, req[r].seen.index)
    /\ Row(req[r].doc, req[r].seen.index).id = req[r].seen.badge.id

PlacedInv ==
    Harmless({<<"edit", "delete">>}) =>
        /\ \A d \in DOMAIN docs : \A i \in Rows(d) : Row(d, i) # Hole
        /\ \A r \in Requests : Current(r) => InPlace(r)

\* An edit is no more current for a step, and its document keeps its version.
LEMMA CurrentStep ==
    ASSUME TypeInv, KnownInv, NEW r \in Requests, Same(r), Dated, Current(r)'
    PROVE  /\ Current(r) /\ req'[r].op = req[r].op /\ req'[r].doc = req[r].doc
           /\ req'[r].seen = req[r].seen /\ req[r].beside \subseteq req'[r].beside
           /\ req[r].op.kind = "edit" /\ req[r].doc \in DOMAIN docs
           /\ docs[req[r].doc].version \in Nat
           /\ docs'[req[r].doc].version = docs[req[r].doc].version
<1>1. Editing(r)' /\ req'[r].seen.version = docs'[req'[r].doc].version /\ "delete" \notin req'[r].beside
  BY DEF Current
<1>2. /\ Editing(r) /\ req'[r].op = req[r].op /\ req'[r].doc = req[r].doc
      /\ req'[r].seen = req[r].seen /\ req[r].beside \subseteq req'[r].beside
      /\ req[r].doc \in DOMAIN docs /\ req[r].seen.version \in Nat
  BY <1>1, EditingStep
<1>3. req[r].seen.version <= docs[req[r].doc].version /\ docs[req[r].doc].version \in Nat
  BY <1>2, DocFacts DEF KnownInv, TypeInv
<1>4. docs'[req[r].doc].version = docs[req[r].doc].version
  BY <1>1, <1>2, <1>3 DEF Dated
<1> QED
  BY <1>1, <1>2, <1>3, <1>4 DEF Current, Editing

LEMMA PlacedReads ==
    ASSUME RuleAssumption, TypeInv, KnownInv, PlacedInv, NEW r \in Requests, Reads(r)
    PROVE  PlacedInv'
<1> SUFFICES ASSUME Harmless({<<"edit", "delete">>}) PROVE PlacedInv'
  BY DEF PlacedInv, Harmless, Reads, history
<1>1. \A d \in DOMAIN docs' : \A i \in Rows(d)' : Row(d, i)' # Hole
  BY ReadsRows DEF PlacedInv
<1>2. \A d \in DOMAIN docs : \A i : FirstRow(d, i)' <=> FirstRow(d, i)
  BY ReadsRows DEF FirstRow
<1>3. ASSUME NEW q \in Requests \ {r}, Current(q)'
      PROVE  InPlace(q)'
  <2>1. /\ Current(q) /\ req'[q].doc = req[q].doc /\ req'[q].seen = req[q].seen
        /\ req[q].doc \in DOMAIN docs
    BY <1>3, ReadsDate, ReadsRows, CurrentStep
  <2>2. InPlace(q) /\ req[q].seen.index \in Rows(req[q].doc)
    BY <2>1 DEF PlacedInv, InPlace, FirstRow
  <2>3. Row(req[q].doc, req[q].seen.index)' = Row(req[q].doc, req[q].seen.index)
    BY <2>1, <2>2, ReadsRows DEF Row
  <2> QED
    BY <1>2, <2>1, <2>2, <2>3 DEF InPlace, Row
<1>4. ASSUME Current(r)'
      PROVE  InPlace(r)'
  <2>1. PICK d \in DOMAIN docs, k \in Nat : k \in Rows(d) /\ ReadRow(r, d, k)
    BY <1>4, ReadsEdit DEF Current
  <2>2. /\ d = req'[r].doc /\ k = req'[r].seen.index /\ FirstRow(d, k)'
        /\ Row(d, k)' = req'[r].seen.badge
    BY <1>2, <2>1, ReadsRows DEF ReadRow
  <2> QED
    BY <2>2 DEF InPlace, Row
<1> QED
  BY <1>1, <1>3, <1>4 DEF PlacedInv, Row, Rows

\* A step that changes neither the ids nor who may save where.
LEMMA PlacedStays ==
    ASSUME TypeInv, KnownInv, PlacedInv, \A q \in Requests : Same(q), Dated,
           Harmless({<<"edit", "delete">>}), DOMAIN docs' = DOMAIN docs,
           \A d \in DOMAIN docs : /\ Rows(d)' = Rows(d)
                                  /\ \A i \in Rows(d) : Row(d, i)' # Hole /\ Row(d, i)'.id = Row(d, i).id
    PROVE  PlacedInv'
<1>1. ASSUME NEW q \in Requests, Current(q)'
      PROVE  InPlace(q)'
  <2>1. /\ Current(q) /\ req'[q].doc = req[q].doc /\ req'[q].seen = req[q].seen
        /\ req[q].doc \in DOMAIN docs
    BY <1>1, CurrentStep
  <2> DEFINE d == req[q].doc
             k == req[q].seen.index
  <2>2. FirstRow(d, k) /\ Row(d, k).id = req[q].seen.badge.id /\ k \in Rows(d)
    BY <2>1 DEF PlacedInv, InPlace, FirstRow
  <2>3. FirstRow(d, k)' /\ Row(d, k)'.id = req[q].seen.badge.id
    BY <2>1, <2>2, FirstsStay DEF PlacedInv
  <2> QED
    BY <2>1, <2>3 DEF InPlace, Row
<1> QED
  BY <1>1 DEF PlacedInv, Row, Rows

\* A step beside which no edit stays current.
LEMMA PlacedAlone ==
    ASSUME TypeInv, KnownInv, \A q \in Requests : Same(q), Dated, DOMAIN docs' = DOMAIN docs,
           NEW kinds, "delete" \in kinds, Beside(kinds, "nobody")
    PROVE  \A q \in Requests : ~ Current(q)'
<1> SUFFICES ASSUME NEW q \in Requests, Current(q)' PROVE FALSE
  OBVIOUS
<1>1. Current(q) /\ req[q].op.kind = "edit" /\ req'[q].at = "save" /\ "delete" \notin req'[q].beside
  BY CurrentStep DEF Current, Editing
<1> QED
  BY <1>1 DEF Beside, Harm

LEMMA PlacedStep ==
    ASSUME RuleAssumption, TypeInv, KnownInv, PlacedInv, [Next]_vars
    PROVE  PlacedInv'
<1>0. TypeOK /\ (Writes \/ \E r \in Requests : Reads(r))
  BY Shapes DEF TypeInv
<1>1. CASE Writes
  <2>0. /\ Dated /\ DOMAIN docs' = DOMAIN docs /\ docs' \in Seq(Doc)
        /\ \A q \in Requests : Same(q)
    BY <1>1, WritesDate DEF Writes
  <2> SUFFICES ASSUME Harmless({<<"edit", "delete">>})' PROVE PlacedInv'
    BY DEF PlacedInv
  <2>1. Harmless({<<"edit", "delete">>})
    BY <2>0 DEF Harmless, Dated
  <2>2. \A d \in DOMAIN docs : \A i \in Rows(d) : Row(d, i) # Hole
    BY <2>1 DEF PlacedInv
  <2>10. Hole \notin Badge
    BY DEF RuleAssumption
  <2>11. ASSUME NEW d \in DOMAIN docs, Only(d), NEW e \in DOMAIN docs, e # d
         PROVE  /\ Rows(e)' = Rows(e) /\ \A i : Row(e, i)' = Row(e, i)
                /\ \A i : FirstRow(e, i)' <=> FirstRow(e, i)
    BY <2>11 DEF Only, Row, Rows, FirstRow
  <2>3. ASSUME NEW r \in Requests, NEW d \in DOMAIN docs, NEW b \in Badges,
               NEW n \in Nat, Adds(r, d, b, n)
        PROVE  PlacedInv'
    <3>1. /\ Only(d) /\ docs'[d].version = docs[d].version + 1 /\ n \notin Rows(d)
          /\ Rows(d)' = Rows(d) \cup {n} /\ Row(d, n)'.id = b /\ Row(d, n)' \in Badge
          /\ \A i \in Rows(d) : Row(d, i)' = Row(d, i)
      BY <2>3 DEF Adds, Pushed
    <3>3. ASSUME NEW q \in Requests, Current(q)'
          PROVE  InPlace(q)'
      <4>1. /\ req[q].doc \in DOMAIN docs /\ req[q].doc # d /\ Current(q)
            /\ req'[q].doc = req[q].doc /\ req'[q].seen = req[q].seen
        BY <2>0, <3>1, <3>3, CurrentStep
      <4>2. InPlace(q)
        BY <2>1, <4>1 DEF PlacedInv
      <4> QED
        BY <2>11, <3>1, <4>1, <4>2 DEF InPlace, Row
    <3>4. \A e \in DOMAIN docs' : \A i \in Rows(e)' : Row(e, i)' # Hole
      BY <2>0, <2>2, <2>10, <2>11, <3>1
    <3> QED
      BY <3>3, <3>4 DEF PlacedInv, Row, Rows
  <2>4. ASSUME NEW r \in Requests, NEW d \in DOMAIN docs, NEW k \in Nat, Edits(r, d, k)
        PROVE  PlacedInv'
    <3>1. /\ Editing(r) /\ docs[d].version = req[r].seen.version /\ Overlapped(r)
          /\ d = req[r].doc /\ k = req[r].seen.index /\ Only(d)
          /\ Merged(r) \in Badge /\ Merged(r).id = req[r].seen.badge.id
          /\ Row(d, k)' = Merged(r) /\ (k \in Rows(d) => Rows(d)' = Rows(d))
          /\ \A i \in Rows(d)' : i # k => Row(d, i)' = IF i \in Rows(d) THEN Row(d, i) ELSE Hole
      BY <2>4 DEF Edits, RowSet
    <3>2. "delete" \notin req[r].beside
      BY <3>1 DEF Overlapped, Editing, Harmless
    <3>3. k \in Rows(d) /\ Row(d, k).id = req[r].seen.badge.id
      BY <2>1, <3>1, <3>2 DEF PlacedInv, Current, InPlace, FirstRow
    <3>4. ASSUME NEW e \in DOMAIN docs
          PROVE  /\ Rows(e)' = Rows(e)
                 /\ \A i \in Rows(e) : Row(e, i)' # Hole /\ Row(e, i)'.id = Row(e, i).id
      <4>1. CASE e = d
        BY <2>2, <2>10, <3>1, <3>3, <4>1
      <4>2. CASE e # d
        BY <2>2, <2>11, <3>1, <4>2
      <4> QED
        BY <4>1, <4>2
    <3> QED
      BY <2>0, <2>1, <3>4, PlacedStays
  <2>5. ASSUME NEW b \in Badges, NEW kept, Deletes(b, kept)
        PROVE  PlacedInv'
    <3>1. /\ 1 \in DOMAIN docs /\ Only(1) /\ kept \in [Rows(1)' -> Rows(1)]
          /\ \A i \in Rows(1)' : Row(1, i)' = Row(1, kept[i])
          /\ Beside({"delete"}, "nobody")
      BY <2>5 DEF Deletes, Pulled
    <3>2. \A q \in Requests : ~ Current(q)'
      BY <2>0, <3>1, PlacedAlone
    <3>3. \A e \in DOMAIN docs' : \A i \in Rows(e)' : Row(e, i)' # Hole
      BY <2>0, <2>2, <2>11, <3>1
    <3> QED
      BY <3>2, <3>3 DEF PlacedInv, Row, Rows
  <2>6. ASSUME NEW b \in Fading, NEW d \in DOMAIN docs, NEW p \in Nat, NEW f \in Fade,
               Restates(b, d, p, f)
        PROVE  PlacedInv'
    <3>1. /\ Only(d) /\ p \in Rows(d) /\ Rows(d)' = Rows(d) /\ Row(d, p) \in Badge
          /\ Row(d, p)' = [Row(d, p) EXCEPT !.fade = f] /\ Row(d, p)' \in Badge
          /\ \A i \in Rows(d) : i # p => Row(d, i)' = Row(d, i)
      BY <2>6 DEF Restates, Restated
    <3>2. Row(d, p)'.id = Row(d, p).id /\ Row(d, p)' # Hole
      BY <3>1 DEF Badge, RuleAssumption
    <3>3. ASSUME NEW e \in DOMAIN docs
          PROVE  /\ Rows(e)' = Rows(e)
                 /\ \A i \in Rows(e) : Row(e, i)' # Hole /\ Row(e, i)'.id = Row(e, i).id
      <4>1. CASE e = d
        BY <2>2, <3>1, <3>2, <4>1
      <4>2. CASE e # d
        BY <2>2, <2>11, <3>1, <4>2
      <4> QED
        BY <4>1, <4>2
    <3> QED
      BY <2>0, <2>1, <3>3, PlacedStays
  <2>7. ASSUME NEW s \in Bodies, Replaces(s)
        PROVE  PlacedInv'
    <3>1. /\ 1 \in DOMAIN docs /\ Only(1) /\ docs'[1].badges = s /\ s \in Seq(Badge)
          /\ Beside({"delete", "edit"}, "nobody")
      BY <2>7 DEF Replaces, Replaced
    <3>2. \A q \in Requests : ~ Current(q)'
      BY <2>0, <3>1, PlacedAlone
    <3>3. \A i \in Rows(1)' : Row(1, i)' # Hole
      BY <2>10, <3>1 DEF Row, Rows
    <3>4. \A e \in DOMAIN docs' : \A i \in Rows(e)' : Row(e, i)' # Hole
      BY <2>0, <2>2, <2>11, <3>1, <3>3
    <3> QED
      BY <3>2, <3>4 DEF PlacedInv, Row, Rows
  <2>8. CASE Leaves
    BY <2>0, <2>1, <2>2, <2>8, PlacedStays DEF Leaves, Row, Rows
  <2> QED
    BY <1>1, <2>3, <2>4, <2>5, <2>6, <2>7, <2>8 DEF Writes
<1> QED
  BY <1>0, <1>1, PlacedReads

LEMMA PlacedStarts == Init => PlacedInv
BY DEF Init, PlacedInv, Current, Editing, Idle

-----------------------------------------------------------------------------
(* No row of the documents, and no row an edit writes back, contradicts itself, *)
(* unless a body brought it.                                                  *)

Sound(f) == f \in Brought \/ Consistent(f)

ConsistentInv ==
    /\ \A d \in DOMAIN docs : \A i \in Rows(d) : Row(d, i) # Hole => Sound(Row(d, i).fade)
    /\ \A r \in Requests : Editing(r) => Sound(req[r].seen.badge.fade)

\* Time closes windows, and none opens again.
LEMMA ConsistentKeeps ==
    ASSUME TypeInv, NEW f \in Fade, Sound(f), now' \in {now, now + 1}
    PROVE  Sound(f)'
<1>1. now \in Nat /\ f.since \in Nat /\ f.until \in Nat
  BY DEF TypeInv, TypeOK, Fade
<1> QED
  BY <1>1 DEF Consistent, Sound

LEMMA ActiveSound == Sound(Active)
BY DEF Consistent, Active, Sound

\* The rows of a step: kept, or sound when they come.
LEMMA ConsistentRows ==
    ASSUME RuleAssumption, TypeInv, ConsistentInv, \A q \in Requests : Same(q), now' \in {now, now + 1},
           docs' \in Seq(Doc), DOMAIN docs' = DOMAIN docs,
           \A d \in DOMAIN docs : \A i \in Rows(d)' :
              \/ \E j \in Rows(d) : Row(d, i)' = Row(d, j)
              \/ Row(d, i)' = Hole
              \/ \E f \in Fade : Row(d, i)'.fade = f /\ Sound(f)
    PROVE  ConsistentInv'
<1>1. ASSUME NEW d \in DOMAIN docs, NEW i \in Rows(d)', Row(d, i)' # Hole
      PROVE  Sound(Row(d, i).fade)'
  <2>1. CASE \E j \in Rows(d) : Row(d, i)' = Row(d, j)
    <3>1. PICK j \in Rows(d) : Row(d, i)' = Row(d, j)
      BY <2>1
    <3>2. Row(d, j) \in Badge \cup {Hole}
      BY <3>1, DocFacts DEF TypeInv
    <3>3. PICK f \in Fade : f = Row(d, j).fade
      BY <1>1, <3>1, <3>2 DEF Badge
    <3>4. Sound(f)
      BY <1>1, <3>1, <3>3 DEF ConsistentInv
    <3>5. Sound(f)'
      BY <3>4, ConsistentKeeps
    <3> QED
      BY <3>1, <3>3, <3>5
  <2>2. CASE \E f \in Fade : Row(d, i)'.fade = f /\ Sound(f)
    <3>1. PICK f \in Fade : Row(d, i)'.fade = f /\ Sound(f)
      BY <2>2
    <3>2. Sound(f)'
      BY <3>1, ConsistentKeeps
    <3> QED
      BY <3>1, <3>2
  <2> QED
    BY <1>1, <2>1, <2>2
<1>2. ASSUME NEW q \in Requests, Editing(q)'
      PROVE  Sound(req[q].seen.badge.fade)'
  <2>1. Editing(q) /\ req'[q].seen = req[q].seen /\ req[q].seen.badge \in Badge
    BY <1>2, EditingStep
  <2>2. PICK f \in Fade : f = req[q].seen.badge.fade
    BY <2>1 DEF Badge
  <2>3. Sound(f)'
    BY <2>1, <2>2, ConsistentKeeps DEF ConsistentInv
  <2> QED
    BY <2>1, <2>2, <2>3
<1> QED
  BY <1>1, <1>2 DEF ConsistentInv, Row, Rows

LEMMA ConsistentReads ==
    ASSUME RuleAssumption, TypeInv, ConsistentInv, NEW r \in Requests, Reads(r)
    PROVE  ConsistentInv'
<1>0. UNCHANGED now
  BY DEF Reads
<1>1. ASSUME NEW d \in DOMAIN docs', NEW i \in Rows(d)', Row(d, i)' # Hole
      PROVE  Sound(Row(d, i).fade)'
  <2>1. d \in DOMAIN docs /\ i \in Rows(d) /\ Row(d, i)' = Row(d, i)
    BY <1>1, ReadsRows
  <2> QED
    BY <1>0, <1>1, <2>1 DEF ConsistentInv, Sound, Consistent
<1>2. ASSUME NEW q \in Requests, Editing(q)'
      PROVE  Sound(req[q].seen.badge.fade)'
  <2>1. CASE q # r
    <3>1. Editing(q) /\ req'[q].seen = req[q].seen
      BY <1>2, <2>1, ReadsRows, EditingStep
    <3> QED
      BY <1>0, <3>1 DEF ConsistentInv, Sound, Consistent
  <2>2. CASE q = r
    <3>1. PICK d \in DOMAIN docs, k \in Nat : k \in Rows(d) /\ ReadRow(r, d, k)
      BY <1>2, <2>2, ReadsEdit
    <3>2. Row(d, k) # Hole /\ req'[r].seen.badge = Row(d, k)
      BY <3>1 DEF ReadRow
    <3>3. Sound(Row(d, k).fade)
      BY <3>1, <3>2 DEF ConsistentInv
    <3> QED
      BY <1>0, <2>2, <3>2, <3>3 DEF Sound, Consistent
  <2> QED
    BY <2>1, <2>2
<1> QED
  BY <1>1, <1>2 DEF ConsistentInv, Row, Rows

LEMMA ConsistentStep ==
    ASSUME RuleAssumption, TypeInv, ConsistentInv, [Next]_vars
    PROVE  ConsistentInv'
<1>0. TypeOK /\ (Writes \/ \E r \in Requests : Reads(r))
  BY Shapes DEF TypeInv
<1>1. CASE Writes
  <2>0. DOMAIN docs' = DOMAIN docs /\ \A q \in Requests : Same(q)
    BY <1>1, WritesDate DEF Writes
  <2>1. ASSUME docs' \in Seq(Doc), now' \in {now, now + 1},
               \A d \in DOMAIN docs : \A i \in Rows(d)' :
                  \/ \E j \in Rows(d) : Row(d, i)' = Row(d, j)
                  \/ Row(d, i)' = Hole
                  \/ \E f \in Fade : Row(d, i)'.fade = f /\ Sound(f)
        PROVE  ConsistentInv'
    BY <2>0, <2>1, ConsistentRows
  <2>20. \A f \in {Active} \cup Brought : f \in Fade /\ Sound(f)
    BY ActiveSound DEF Active, Fade, RuleAssumption, Sound
  <2>2. \A d \in DOMAIN docs, e \in DOMAIN docs : Only(d) /\ e # d =>
           Rows(e)' = Rows(e) /\ \A i \in Rows(e) : Row(e, i)' = Row(e, i)
    BY DEF Only, Row, Rows
  <2>3. ASSUME NEW r \in Requests, NEW d \in DOMAIN docs, NEW b \in Badges,
               NEW n \in Nat, Adds(r, d, b, n)
        PROVE  ConsistentInv'
    <3>1. /\ Only(d) /\ docs' \in Seq(Doc) /\ now' = now
          /\ Rows(d)' = Rows(d) \cup {n} /\ Row(d, n)'.fade \in {Active} \cup Brought
          /\ \A i \in Rows(d) : Row(d, i)' = Row(d, i)
      BY <2>3 DEF Adds, Pushed, Only
    <3>2. Row(d, n)'.fade \in Fade /\ Sound(Row(d, n)'.fade)
      BY <2>20, <3>1
    <3> QED
      BY <2>1, <2>2, <3>1, <3>2
  <2>4. ASSUME NEW r \in Requests, NEW d \in DOMAIN docs, NEW k \in Nat, Edits(r, d, k)
        PROVE  ConsistentInv'
    <3>1. /\ Editing(r) /\ req[r].seen \in Copy /\ Only(d) /\ docs' \in Seq(Doc) /\ now' = now
          /\ Merged(r).fade \in {req[r].seen.badge.fade} \cup Brought /\ Row(d, k)' = Merged(r)
          /\ \A i \in Rows(d)' : i # k => Row(d, i)' = IF i \in Rows(d) THEN Row(d, i) ELSE Hole
      BY <2>4 DEF Edits, RowSet, Only
    <3>2. req[r].seen.badge.fade \in Fade /\ Sound(req[r].seen.badge.fade)
      BY <3>1 DEF Copy, Badge, ConsistentInv
    <3>3. Merged(r).fade \in Fade /\ Sound(Merged(r).fade)
      BY <2>20, <3>1, <3>2
    <3> QED
      BY <2>1, <2>2, <3>1, <3>3
  <2>5. ASSUME NEW b \in Badges, NEW kept, Deletes(b, kept)
        PROVE  ConsistentInv'
    <3>1. /\ 1 \in DOMAIN docs /\ Only(1) /\ docs' \in Seq(Doc) /\ now' = now
          /\ kept \in [Rows(1)' -> Rows(1)] /\ \A i \in Rows(1)' : Row(1, i)' = Row(1, kept[i])
      BY <2>5 DEF Deletes, Pulled, Only
    <3> QED
      BY <2>1, <2>2, <3>1
  <2>6. ASSUME NEW b \in Fading, NEW d \in DOMAIN docs, NEW p \in Nat, NEW f \in Fade,
               Restates(b, d, p, f)
        PROVE  ConsistentInv'
    <3>1. /\ Only(d) /\ docs' \in Seq(Doc) /\ now' = now /\ Sound(f)
          /\ p \in Rows(d) /\ Rows(d)' = Rows(d) /\ Row(d, p) \in Badge
          /\ Row(d, p)' = [Row(d, p) EXCEPT !.fade = f]
          /\ \A i \in Rows(d) : i # p => Row(d, i)' = Row(d, i)
      BY <2>6 DEF Restates, Restated, Only, Sound
    <3>2. Row(d, p)'.fade = f
      BY <3>1 DEF Badge
    <3>3. ASSUME NEW e \in DOMAIN docs, NEW i \in Rows(e)', ~ (e = d /\ i = p)
          PROVE  \E j \in Rows(e) : Row(e, i)' = Row(e, j)
      <4>1. CASE e = d
        BY <3>1, <3>3, <4>1
      <4>2. CASE e # d
        BY <2>2, <3>1, <3>3, <4>2
      <4> QED
        BY <4>1, <4>2
    <3> QED
      BY <2>1, <3>1, <3>2, <3>3
  <2>8. ASSUME NEW s \in Bodies, Replaces(s)
        PROVE  ConsistentInv'
    <3>1. /\ 1 \in DOMAIN docs /\ Only(1) /\ docs' \in Seq(Doc) /\ now' = now
          /\ docs'[1].badges = s /\ \A i \in DOMAIN s : s[i].fade \in {Active} \cup Brought
      BY <2>8 DEF Replaces, Replaced, Only
    <3>2. \A i \in Rows(1)' : Row(1, i)'.fade \in Fade /\ Sound(Row(1, i)'.fade)
      BY <2>20, <3>1 DEF Row, Rows
    <3> QED
      BY <2>1, <2>2, <3>1, <3>2
  <2>7. CASE Leaves
    <3>1. \A d \in DOMAIN docs : Rows(d)' = Rows(d) /\ \A i \in Rows(d) : Row(d, i)' = Row(d, i)
      BY <2>7 DEF Leaves, Row, Rows
    <3> QED
      BY <2>1, <2>7, <3>1 DEF Leaves
  <2> QED
    BY <1>1, <2>3, <2>4, <2>5, <2>6, <2>7, <2>8 DEF Writes
<1> QED
  BY <1>0, <1>1, ConsistentReads

LEMMA ConsistentStarts == Init => ConsistentInv
BY DEF Init, ConsistentInv, Editing, Idle

LEMMA NoContradiction ==
    ASSUME TypeInv, ConsistentInv
    PROVE  NoContradictoryRow
BY DEF NoContradictoryRow, ConsistentInv, Sound, Row, Rows

-----------------------------------------------------------------------------
(* Unless an edit was saved over a status update, a deletion or a new list, the *)
(* first rows of the document all see have the fade last asked for, and so has   *)
(* what an edit of it writes back.                                            *)

FadeHarm == {<<"edit", "status">>, <<"edit", "delete">>}

AsIntended(r) == req[r].seen.badge.fade = intent[req[r].seen.badge.id]
Unstirred(r)  == Current(r) /\ req[r].doc = 1 /\ "status" \notin req[r].beside

FadeInv ==
    Harmless(FadeHarm) =>
        /\ 1 \in DOMAIN docs =>
              \A i : FirstRow(1, i) => Row(1, i).fade = intent[Row(1, i).id]
        /\ \A r \in Requests : Unstirred(r) => AsIntended(r)

LEMMA FadeReads ==
    ASSUME RuleAssumption, TypeInv, KnownInv, PlacedInv, FadeInv, NEW r \in Requests, Reads(r)
    PROVE  FadeInv'
<1>0. UNCHANGED <<intent, overlaps>>
  BY DEF Reads, history
<1> SUFFICES ASSUME Harmless(FadeHarm) PROVE FadeInv'
  BY <1>0 DEF FadeInv, Harmless
<1>1. ASSUME 1 \in DOMAIN docs', NEW i, FirstRow(1, i)'
      PROVE  Row(1, i)'.fade = intent[Row(1, i)'.id]
  <2>1. 1 \in DOMAIN docs /\ i \in Rows(1) /\ Row(1, i)' = Row(1, i)
    BY <1>1, ReadsRows DEF FirstRow
  <2>2. FirstRow(1, i)
    BY <1>1, <2>1, ReadsRows DEF FirstRow
  <2> QED
    BY <2>1, <2>2 DEF FadeInv
<1>2. ASSUME NEW q \in Requests \ {r}, Unstirred(q)'
      PROVE  AsIntended(q)'
  <2>1. /\ Current(q) /\ req'[q].doc = req[q].doc /\ req'[q].seen = req[q].seen
        /\ req[q].beside \subseteq req'[q].beside
    BY <1>2, ReadsRows, ReadsDate, CurrentStep DEF Unstirred
  <2>2. AsIntended(q)
    BY <1>2, <2>1 DEF FadeInv, Unstirred
  <2> QED
    BY <1>0, <2>1, <2>2 DEF AsIntended
<1>3. ASSUME Unstirred(r)'
      PROVE  AsIntended(r)'
  <2>1. PICK d \in DOMAIN docs, k \in Nat : k \in Rows(d) /\ ReadRow(r, d, k)
    BY <1>3, ReadsEdit DEF Unstirred, Current
  <2>2. d = 1 /\ FirstRow(d, k) /\ Row(d, k) = req'[r].seen.badge
    BY <1>3, <2>1 DEF Unstirred, ReadRow
  <2>3. Row(1, k).fade = intent[Row(1, k).id]
    BY <2>1, <2>2 DEF FadeInv
  <2> QED
    BY <1>0, <2>2, <2>3 DEF AsIntended
<1> QED
  BY <1>0, <1>1, <1>2, <1>3 DEF FadeInv, Row, FirstRow, Rows

\* The edits that are as intended stay so when the intent of their badge stays.
LEMMA FadeRequests ==
    ASSUME TypeInv, KnownInv, PlacedInv, FadeInv, \A q \in Requests : Same(q), Dated,
           Harmless(FadeHarm),
           \A i \in Rows(1) : Row(1, i) # Hole => intent'[Row(1, i).id] = intent[Row(1, i).id]
    PROVE  \A q \in Requests : Unstirred(q)' => AsIntended(q)'
<1> SUFFICES ASSUME NEW q \in Requests, Unstirred(q)' PROVE AsIntended(q)'
  OBVIOUS
<1>1. /\ Current(q) /\ req'[q].doc = req[q].doc /\ req'[q].seen = req[q].seen
      /\ req[q].beside \subseteq req'[q].beside
  BY CurrentStep DEF Unstirred
<1>2. AsIntended(q) /\ req[q].doc = 1
  BY <1>1 DEF FadeInv, Unstirred
<1>3. InPlace(q)
  BY <1>1 DEF PlacedInv, Harmless, FadeHarm
<1>4. intent'[req[q].seen.badge.id] = intent[req[q].seen.badge.id]
  BY <1>2, <1>3 DEF InPlace, FirstRow
<1> QED
  BY <1>1, <1>2, <1>4 DEF AsIntended

\* Beside a status update or a deletion, no edit is as intended for sure.
LEMMA FadeAlone ==
    ASSUME TypeInv, KnownInv, \A q \in Requests : Same(q), Dated,
           NEW kinds, "status" \in kinds \/ "delete" \in kinds, NEW w, Beside(kinds, w)
    PROVE  \A q \in Requests : ~ Unstirred(q)'
<1> SUFFICES ASSUME NEW q \in Requests, Unstirred(q)' PROVE FALSE
  OBVIOUS
<1>1. /\ req[q].op.kind = "edit" /\ req'[q].at = "save"
      /\ "delete" \notin req'[q].beside /\ "status" \notin req'[q].beside
  BY CurrentStep DEF Unstirred, Current, Editing
<1> QED
  BY <1>1 DEF Beside, Harm

LEMMA FadeStep ==
    ASSUME RuleAssumption, TypeInv, KnownInv, PlacedInv, FadeInv, [Next]_vars
    PROVE  FadeInv'
<1>0. TypeOK /\ (Writes \/ \E r \in Requests : Reads(r))
  BY Shapes DEF TypeInv
<1>1. CASE Writes
  <2>0. /\ Dated /\ DOMAIN docs' = DOMAIN docs /\ docs' \in Seq(Doc) /\ docs \in Seq(Doc)
        /\ \A q \in Requests : Same(q)
    BY <1>0, <1>1, WritesDate DEF Writes, TypeOK
  <2> SUFFICES ASSUME Harmless(FadeHarm)' PROVE FadeInv'
    BY DEF FadeInv
  <2>1. Harmless(FadeHarm) /\ Harmless({<<"edit", "delete">>})
    BY <2>0 DEF Harmless, Dated, FadeHarm
  <2>2. ASSUME 1 \in DOMAIN docs
        PROVE  /\ \A i : FirstRow(1, i) => Row(1, i).fade = intent[Row(1, i).id]
               /\ \A i \in Rows(1) : Row(1, i) # Hole /\ Row(1, i).id \in Badges
               /\ \A i, j : FirstRow(1, i) /\ FirstRow(1, j) /\ Row(1, i).id = Row(1, j).id => i = j
               /\ \A b : b \in Ids(docs[1].badges) <=> \E i \in Rows(1) : Row(1, i).id = b
    <3>1. \A i \in Rows(1) : Row(1, i) \in Badge /\ Row(1, i) # Hole
      BY <1>0, <2>1, <2>2, DocFacts DEF PlacedInv
    <3>2. docs[1].badges \in Seq(Badge \cup {Hole})
      BY <1>0, <2>2, DocFacts
    <3>3. ASSUME NEW i, NEW j, FirstRow(1, i), FirstRow(1, j), Row(1, i).id = Row(1, j).id
          PROVE  i = j
      <4>1. i \in Firsts(docs[1].badges) /\ j \in Firsts(docs[1].badges)
        BY <2>0, <2>2, <3>3, FirstRows
      <4> QED
        BY <3>2, <3>3, <4>1, FirstOnce DEF Row
    <3>4. \A b : b \in Ids(docs[1].badges) <=> \E i \in Rows(1) : Row(1, i).id = b
      BY <3>1 DEF Ids, Row, Rows
    <3> QED
      BY <2>1, <2>2, <3>1, <3>3, <3>4 DEF FadeInv, Badge
  <2>3. ASSUME 1 \in DOMAIN docs => \A i : FirstRow(1, i)' => Row(1, i)'.fade = intent'[Row(1, i)'.id],
               \A q \in Requests : Unstirred(q)' => AsIntended(q)'
        PROVE  FadeInv'
    BY <2>0, <2>3 DEF FadeInv, Row, Rows, FirstRow
  <2>4. ASSUME NEW d \in DOMAIN docs, Only(d), d # 1
        PROVE  /\ 1 \in DOMAIN docs /\ \A i : Row(1, i)' = Row(1, i)
               /\ \A i : FirstRow(1, i)' <=> FirstRow(1, i)
    <3>1. 1 \in DOMAIN docs
      BY <1>0, DocFacts
    <3> QED
      BY <2>4, <3>1 DEF Only, Row, Rows, FirstRow
  <2>5. ASSUME UNCHANGED intent PROVE \A q \in Requests : Unstirred(q)' => AsIntended(q)'
    BY <2>0, <2>1, <2>5, FadeRequests
  <2>20. ASSUME NEW d \in DOMAIN docs, Only(d), d # 1, UNCHANGED intent
         PROVE  FadeInv'
    BY <2>2, <2>3, <2>4, <2>5, <2>20
  <2>21. ASSUME NEW b \in Badges, NEW f, intent' = [intent EXCEPT ![b] = f]
         PROVE  intent'[b] = f /\ \A c \in Badges : c # b => intent'[c] = intent[c]
    BY <1>0, <2>21 DEF TypeOK
  <2>6. ASSUME NEW r \in Requests, NEW d \in DOMAIN docs, NEW b \in Badges,
               NEW n \in Nat, Adds(r, d, b, n)
        PROVE  FadeInv'
    <3>1. /\ Only(d) /\ n \notin Rows(d) /\ \A i \in Rows(d) : i < n
          /\ Rows(d)' = Rows(d) \cup {n} /\ Row(d, n)'.id = b
          /\ \A i \in Rows(d) : Row(d, i)' = Row(d, i)
          /\ IF b \in Ids(docs[d].badges) THEN intent' = intent ELSE Asked(d, b, Row(d, n)'.fade)
      BY <2>6 DEF Adds, Pushed
    <3>2. CASE d # 1
      BY <2>20, <3>1, <3>2 DEF Asked
    <3>3. CASE d = 1
      <4>1. ASSUME NEW i, FirstRow(1, i)'
            PROVE  Row(1, i)'.fade = intent'[Row(1, i)'.id]
        <5>1. CASE i \in Rows(1)
          <6>1. FirstRow(1, i) /\ Row(1, i)' = Row(1, i)
            BY <3>1, <3>3, <4>1, <5>1 DEF FirstRow
          <6>2. Row(1, i).fade = intent[Row(1, i).id] /\ Row(1, i).id \in Badges
                /\ Row(1, i).id \in Ids(docs[1].badges)
            BY <2>2, <3>3, <5>1, <6>1
          <6>3. intent'[Row(1, i).id] = intent[Row(1, i).id]
            BY <2>21, <3>1, <3>3, <6>2 DEF Asked
          <6> QED
            BY <6>1, <6>2, <6>3
        <5>2. CASE i \notin Rows(1)
          <6>1. i = n
            BY <3>1, <3>3, <4>1, <5>2 DEF FirstRow
          <6>2. b \notin Ids(docs[1].badges)
            <7>1. ASSUME NEW j \in Rows(1) PROVE Row(1, j).id # b
              <8>1. j \in Rows(1)' /\ j < n /\ Row(1, j)' = Row(1, j) /\ Row(1, j) # Hole
                BY <2>2, <3>1, <3>3
              <8> QED
                BY <3>1, <3>3, <4>1, <6>1, <8>1 DEF FirstRow
            <7> QED
              BY <2>2, <3>3, <7>1
          <6>3. intent' = [intent EXCEPT ![b] = Row(1, n)'.fade]
            BY <3>1, <3>3, <6>2 DEF Asked
          <6> QED
            BY <2>21, <3>1, <3>3, <6>1, <6>3
        <5> QED
          BY <5>1, <5>2
      <4>2. \A i \in Rows(1) : intent'[Row(1, i).id] = intent[Row(1, i).id]
        <5>1. ASSUME NEW i \in Rows(1) PROVE intent'[Row(1, i).id] = intent[Row(1, i).id]
          <6>1. Row(1, i).id \in Badges /\ Row(1, i).id \in Ids(docs[1].badges)
            BY <2>2, <3>3
          <6> QED
            BY <2>21, <3>1, <3>3, <6>1 DEF Asked
        <5> QED
          BY <5>1
      <4>3. \A q \in Requests : Unstirred(q)' => AsIntended(q)'
        BY <2>0, <2>1, <4>2, FadeRequests
      <4> QED
        BY <2>3, <4>1, <4>3
    <3> QED
      BY <3>2, <3>3
  <2>7. ASSUME NEW r \in Requests, NEW d \in DOMAIN docs, NEW k \in Nat, Edits(r, d, k)
        PROVE  FadeInv'
    <3>1. /\ Editing(r) /\ docs[d].version = req[r].seen.version /\ Overlapped(r)
          /\ req[r].seen \in Copy /\ EditAsks(r) /\ Beside(EditWrites(req[r].op), r)
          /\ d = req[r].doc /\ k = req[r].seen.index /\ Only(d)
          /\ Merged(r).id = req[r].seen.badge.id
          /\ IF req[r].op.fade = Unset THEN Merged(r).fade = req[r].seen.badge.fade
                                        ELSE Merged(r).fade = req[r].op.fade
          /\ Merged(r) \in Badge
          /\ Row(d, k)' = Merged(r) /\ (k \in Rows(d) => Rows(d)' = Rows(d))
          /\ \A i \in Rows(d)' : i # k => Row(d, i)' = IF i \in Rows(d) THEN Row(d, i) ELSE Hole
      BY <2>7 DEF Edits, RowSet
    <3>2. "delete" \notin req[r].beside /\ "status" \notin req[r].beside
      BY <3>1 DEF Overlapped, Editing, Harmless, FadeHarm
    <3>3. Current(r) /\ FirstRow(d, k) /\ Row(d, k).id = req[r].seen.badge.id /\ k \in Rows(d)
      BY <2>1, <3>1, <3>2 DEF PlacedInv, Current, InPlace, FirstRow
    <3>4. d = 1 => req[r].seen.badge.fade = intent[req[r].seen.badge.id]
      BY <2>1, <3>1, <3>2, <3>3 DEF FadeInv, Unstirred, AsIntended
    <3>5. CASE d # 1
      BY <2>20, <3>1, <3>5 DEF EditAsks, Asked
    <3>6. CASE d = 1
      <4> DEFINE b == req[r].seen.badge.id
      <4>1. b \in Badges
        BY <3>1 DEF Copy, Badge
      <4>2. /\ intent'[b] = Merged(r).fade
            /\ \A c \in Badges : c # b => intent'[c] = intent[c]
        <5>1. CASE req[r].op.fade = Unset
          BY <3>1, <3>4, <3>6, <5>1 DEF EditAsks
        <5>2. CASE req[r].op.fade # Unset
          <6>1. intent' = [intent EXCEPT ![b] = req[r].op.fade]
            BY <3>1, <3>6, <5>2 DEF EditAsks, Asked
          <6> QED
            BY <2>21, <3>1, <4>1, <5>2, <6>1
        <5> QED
          BY <5>1, <5>2
      <4>3. /\ Rows(1)' = Rows(1) /\ Row(1, k)' = Merged(r)
            /\ \A i \in Rows(1) : i # k => Row(1, i)' = Row(1, i)
        BY <3>1, <3>3, <3>6
      <4>4. \A i : FirstRow(1, i)' <=> FirstRow(1, i)
        <5>1. \A i \in Rows(1) : /\ Row(1, i) # Hole /\ Row(1, i)' # Hole
                                 /\ Row(1, i)'.id = Row(1, i).id
          BY <2>2, <3>1, <3>3, <3>6, <4>3 DEF RuleAssumption
        <5> QED
          BY <4>3, <5>1, FirstsStay
      <4>5. ASSUME NEW i, FirstRow(1, i)'
            PROVE  Row(1, i)'.fade = intent'[Row(1, i)'.id]
        <5>1. FirstRow(1, i) /\ i \in Rows(1)
          BY <4>4, <4>5 DEF FirstRow
        <5>2. CASE i = k
          BY <3>1, <4>2, <4>3, <5>2
        <5>3. CASE i # k
          <6>1. Row(1, i)' = Row(1, i) /\ Row(1, i).id # b /\ Row(1, i).id \in Badges
            BY <2>2, <3>3, <3>6, <4>3, <5>1, <5>3
          <6> QED
            BY <2>2, <3>6, <4>2, <5>1, <6>1
        <5> QED
          BY <5>2, <5>3
      <4>6. \A q \in Requests : Unstirred(q)' => AsIntended(q)'
        <5>1. CASE req[r].op.fade = Unset
          BY <2>5, <3>1, <5>1 DEF EditAsks
        <5>2. CASE req[r].op.fade # Unset
          <6>1. "status" \in EditWrites(req[r].op)
            BY <5>2 DEF EditWrites
          <6> QED
            BY <2>0, <3>1, <6>1, FadeAlone
        <5> QED
          BY <5>1, <5>2
      <4> QED
        BY <2>3, <4>5, <4>6
    <3> QED
      BY <3>5, <3>6
  <2>8. ASSUME NEW b \in Badges, NEW kept, Deletes(b, kept)
        PROVE  FadeInv'
    <3>1. /\ 1 \in DOMAIN docs /\ intent' = [intent EXCEPT ![b] = Active]
          /\ kept \in [Rows(1)' -> Rows(1)] /\ \A i \in Rows(1)' : Row(1, i)' = Row(1, kept[i])
          /\ \A i \in Rows(1)' : Row(1, i)' = Hole \/ Row(1, i)'.id # b
          /\ \A i, j \in Rows(1)' : i < j => kept[i] < kept[j]
          /\ \A k \in Rows(1) : Row(1, k) = Hole \/ Row(1, k).id # b =>
                \E i \in Rows(1)' : kept[i] = k
          /\ Beside({"delete"}, "nobody")
      BY <2>8 DEF Deletes, Pulled
    <3>2. Rows(1) \subseteq Nat /\ Rows(1)' \subseteq Nat
      <4>1. docs'[1] \in Doc /\ docs[1] \in Doc
        BY <2>0, <3>1
      <4> QED
        BY <4>1 DEF Doc, Rows
    <3>3. ASSUME NEW i, FirstRow(1, i)'
          PROVE  Row(1, i)'.fade = intent'[Row(1, i)'.id]
      <4>1. i \in Rows(1)' /\ Row(1, i)' # Hole /\ Row(1, i)'.id # b
        BY <3>1, <3>3 DEF FirstRow
      <4>2. kept[i] \in Rows(1) /\ Row(1, kept[i]) = Row(1, i)'
        BY <3>1, <4>1
      <4>3. ASSUME NEW j \in Rows(1), j < kept[i], Row(1, j) # Hole,
                   Row(1, j).id = Row(1, kept[i]).id
            PROVE  FALSE
        <5>1. PICK m \in Rows(1)' : kept[m] = j
          BY <3>1, <4>1, <4>2, <4>3
        <5>2. m < i
          BY <3>1, <3>2, <4>1, <4>2, <4>3, <5>1
        <5>3. Row(1, m)' = Row(1, j)
          BY <3>1, <5>1
        <5> QED
          BY <3>3, <4>2, <4>3, <5>2, <5>3 DEF FirstRow
      <4>4. FirstRow(1, kept[i])
        BY <4>1, <4>2, <4>3 DEF FirstRow
      <4>5. Row(1, i)'.fade = intent[Row(1, i)'.id] /\ Row(1, i)'.id \in Badges
        BY <2>2, <3>1, <4>2, <4>4
      <4> QED
        BY <2>21, <3>1, <4>1, <4>5
    <3>4. \A q \in Requests : ~ Unstirred(q)'
      BY <2>0, <3>1, FadeAlone
    <3> QED
      BY <2>3, <3>3, <3>4
  <2>9. ASSUME NEW b \in Fading, NEW d \in DOMAIN docs, NEW p \in Nat, NEW f \in Fade,
               Restates(b, d, p, f)
        PROVE  FadeInv'
    <3>1. /\ Only(d) /\ p \in Rows(d) /\ Rows(d)' = Rows(d) /\ Row(d, p) \in Badge /\ Row(d, p).id = b
          /\ Row(d, p)' = [Row(d, p) EXCEPT !.fade = f] /\ Row(d, p)' \in Badge
          /\ \A i \in Rows(d) : i # p => Row(d, i)' = Row(d, i)
          /\ Asked(d, b, f) /\ Beside({"status"}, "nobody")
          /\ p \in Firsts(docs[d].badges)
      BY <2>9 DEF Restates, Restated
    <3>2. CASE d # 1
      BY <2>20, <3>1, <3>2 DEF Asked
    <3>3. CASE d = 1
      <4>1. /\ Row(1, p)'.id = b /\ Row(1, p)'.fade = f /\ Row(1, p)' # Hole
            /\ b \in Badges /\ FirstRow(1, p)
        BY <2>0, <3>1, <3>3, FirstRows DEF Badge, RuleAssumption
      <4>2. intent'[b] = f /\ \A c \in Badges : c # b => intent'[c] = intent[c]
        BY <2>21, <3>1, <3>3, <4>1 DEF Asked
      <4>3. \A i : FirstRow(1, i)' <=> FirstRow(1, i)
        <5>1. \A i \in Rows(1) : /\ Row(1, i) # Hole /\ Row(1, i)' # Hole
                                 /\ Row(1, i)'.id = Row(1, i).id
          BY <2>2, <3>1, <3>3, <4>1
        <5> QED
          BY <3>1, <3>3, <5>1, FirstsStay
      <4>4. ASSUME NEW i, FirstRow(1, i)'
            PROVE  Row(1, i)'.fade = intent'[Row(1, i)'.id]
        <5>1. FirstRow(1, i) /\ i \in Rows(1)
          BY <4>3, <4>4 DEF FirstRow
        <5>2. CASE i = p
          BY <4>1, <4>2, <5>2
        <5>3. CASE i # p
          <6>1. Row(1, i)' = Row(1, i) /\ Row(1, i).id # b /\ Row(1, i).id \in Badges
            BY <2>2, <3>1, <3>3, <4>1, <5>1, <5>3
          <6> QED
            BY <2>2, <3>3, <4>2, <5>1, <6>1
        <5> QED
          BY <5>2, <5>3
      <4>5. \A q \in Requests : ~ Unstirred(q)'
        BY <2>0, <3>1, FadeAlone
      <4> QED
        BY <2>3, <4>4, <4>5
    <3> QED
      BY <3>2, <3>3
  <2>10. ASSUME NEW s \in Bodies, Replaces(s)
         PROVE  FadeInv'
    <3>1. /\ 1 \in DOMAIN docs /\ docs'[1].badges = s /\ s \in Seq(Badge)
          /\ intent' = [b \in Badges |-> IF b \in Ids(s) THEN s[Position(s, b)].fade ELSE Active]
          /\ Beside({"delete", "edit"}, "nobody")
      BY <2>10 DEF Replaces, Replaced
    <3>2. s \in Seq(Badge \cup {Hole})
      BY <3>1
    <3>3. ASSUME NEW i, FirstRow(1, i)'
          PROVE  Row(1, i)'.fade = intent'[Row(1, i)'.id]
      <4>1. i \in Firsts(s)
        BY <2>0, <3>1, <3>3, NextFirstRows
      <4>2. PICK b : b = s[i].id
        OBVIOUS
      <4>3. i \in DOMAIN s /\ b \in Ids(s) /\ b \in Badges
        <5>1. i \in DOMAIN s /\ s[i] # Hole
          BY <3>2, <4>1, FirstFacts
        <5>2. s[i] \in Badge
          BY <3>1, <5>1
        <5> QED
          BY <4>2, <5>1, <5>2 DEF Ids, Badge
      <4>4. PICK p : p = Position(s, b)
        OBVIOUS
      <4>5. p \in Firsts(s) /\ s[p].id = b
        BY <3>2, <4>3, <4>4, PositionFacts
      <4>6. i = p
        BY <3>2, <4>1, <4>2, <4>5, FirstOnce
      <4>7. Row(1, i)' = s[i]
        BY <3>1 DEF Row
      <4> QED
        BY <3>1, <4>2, <4>3, <4>4, <4>6, <4>7
    <3>4. \A q \in Requests : ~ Unstirred(q)'
      BY <2>0, <3>1, FadeAlone
    <3> QED
      BY <2>3, <3>3, <3>4
  <2>11. CASE Leaves
    <3>1. UNCHANGED intent /\ (1 \in DOMAIN docs => /\ \A i : Row(1, i)' = Row(1, i)
                                                   /\ \A i : FirstRow(1, i)' <=> FirstRow(1, i))
      BY <2>11 DEF Leaves, Row, Rows, FirstRow
    <3> QED
      BY <2>2, <2>3, <2>5, <3>1
  <2> QED
    BY <1>1, <2>6, <2>7, <2>8, <2>9, <2>10, <2>11 DEF Writes
<1> QED
  BY <1>0, <1>1, FadeReads

LEMMA FadeStarts == Init => FadeInv
BY DEF Init, FadeInv, Unstirred, Current, Editing, Idle

-----------------------------------------------------------------------------
(* Unless a creation or an edit was saved over one of the writes that harm it,  *)
(* or a list came with a name twice, names are unique, and what waits to be      *)
(* saved keeps them so.                                                       *)

NameHarm == {<<"add", "add">>, <<"add", "edit">>, <<"edit", "edit">>, <<"edit", "delete">>,
             <<"list", "names">>}

\* No row of its document, but the one it edits, has the name it asks for.
NewName(r)  == \A i \in Rows(req[r].doc) : Row(req[r].doc, i).name # req[r].op.name
NewTitle(r) == \A i \in Rows(req[r].doc) :
                  i # req[r].seen.index => Row(req[r].doc, i).name # req[r].op.name

FreeAdd(r)  == Adding(r) /\ "add" \notin req[r].beside /\ "edit" \notin req[r].beside
FreeEdit(r) == Current(r) /\ "edit" \notin req[r].beside

NameInv ==
    Harmless(NameHarm) =>
        /\ \A d \in DOMAIN docs : \A i, j \in Rows(d) : Row(d, i).name = Row(d, j).name => i = j
        /\ \A r \in Requests : FreeAdd(r) => NewName(r)
        /\ \A r \in Requests : FreeEdit(r) => NewTitle(r)

\* A request that creates after a step was creating before it.
LEMMA AddingStep ==
    ASSUME TypeInv, NEW r \in Requests, Same(r), FreeAdd(r)'
    PROVE  /\ FreeAdd(r) /\ req'[r].op = req[r].op /\ req'[r].doc = req[r].doc
           /\ req[r].doc \in DOMAIN docs /\ req[r].op.kind = "add" /\ req'[r].at = "save"
           /\ req[r].beside \subseteq req'[r].beside
<1>1. /\ FreeAdd(r) /\ req'[r].op = req[r].op /\ req'[r].doc = req[r].doc
      /\ req[r].beside \subseteq req'[r].beside
  BY DEF Same, FreeAdd, Adding
<1> QED
  BY <1>1 DEF FreeAdd, Adding, TypeInv, TypeOK

LEMMA NameReads ==
    ASSUME RuleAssumption, TypeInv, KnownInv, NameInv, NEW r \in Requests, Reads(r)
    PROVE  NameInv'
<1> SUFFICES ASSUME Harmless(NameHarm) PROVE NameInv'
  BY DEF NameInv, Harmless, Reads, history
<1>1. \A d \in DOMAIN docs' : \A i, j \in Rows(d)' : Row(d, i)'.name = Row(d, j)'.name => i = j
  BY ReadsRows DEF NameInv
<1>2. ASSUME NEW q \in Requests \ {r}, FreeAdd(q)' PROVE NewName(q)'
  <2>1. /\ FreeAdd(q) /\ req'[q].op = req[q].op /\ req'[q].doc = req[q].doc
        /\ req[q].doc \in DOMAIN docs
    BY <1>2, ReadsRows, AddingStep
  <2>2. NewName(q)
    BY <2>1 DEF NameInv
  <2> QED
    BY <2>1, <2>2, ReadsRows DEF NewName, Row, Rows
<1>3. ASSUME NEW q \in Requests \ {r}, FreeEdit(q)' PROVE NewTitle(q)'
  <2>1. /\ Current(q) /\ req'[q].op = req[q].op /\ req'[q].doc = req[q].doc
        /\ req'[q].seen = req[q].seen /\ req[q].doc \in DOMAIN docs
        /\ req[q].beside \subseteq req'[q].beside
    BY <1>3, ReadsRows, ReadsDate, CurrentStep DEF FreeEdit
  <2>2. NewTitle(q)
    BY <1>3, <2>1 DEF NameInv, FreeEdit
  <2> QED
    BY <2>1, <2>2, ReadsRows DEF NewTitle, Row, Rows
<1>4. ASSUME FreeAdd(r)' PROVE NewName(r)'
  <2>1. PICK d \in DOMAIN docs' : d = req'[r].doc /\ Fresh(req'[r], docs'[d])
    BY <1>4 DEF Reads, FreeAdd, Adding
  <2>2. \A i \in DOMAIN docs'[d].badges : docs'[d].badges[i].name # req'[r].op.name
    BY <1>4, <2>1 DEF Fresh, FreeAdd, Adding
  <2> QED
    BY <2>1, <2>2 DEF NewName, Row, Rows
<1>5. ASSUME FreeEdit(r)' PROVE NewTitle(r)'
  <2>1. PICK d \in DOMAIN docs, k \in Nat : k \in Rows(d) /\ ReadRow(r, d, k)
    BY <1>5, ReadsEdit DEF FreeEdit, Current
  <2>2. d = req'[r].doc /\ k = req'[r].seen.index
        /\ \A i \in Rows(d) : i # k => Row(d, i).name # req'[r].op.name
    BY <2>1 DEF ReadRow
  <2>3. Rows(d)' = Rows(d) /\ \A i \in Rows(d) : Row(d, i)' = Row(d, i)
    BY ReadsRows
  <2> QED
    BY <2>2, <2>3 DEF NewTitle, Row, Rows
<1> QED
  BY <1>1, <1>2, <1>3, <1>4, <1>5 DEF NameInv, Row, Rows

\* Names that only stay or go stay free for who waits to save.
LEMMA NameRequests ==
    ASSUME TypeInv, KnownInv, NameInv, NEW q \in Requests, Same(q), Dated, Harmless(NameHarm),
           NEW d \in DOMAIN docs, d = req[q].doc,
           \A i \in Rows(d)' : i \in Rows(d) /\ Row(d, i)'.name = Row(d, i).name
    PROVE  (FreeAdd(q)' => NewName(q)') /\ (FreeEdit(q)' => NewTitle(q)')
<1>1. ASSUME FreeAdd(q)' PROVE NewName(q)'
  <2>1. FreeAdd(q) /\ req'[q].op = req[q].op /\ req'[q].doc = req[q].doc
    BY <1>1, AddingStep
  <2>2. NewName(q)
    BY <2>1 DEF NameInv
  <2> QED
    BY <2>1, <2>2 DEF NewName, Row, Rows
<1>2. ASSUME FreeEdit(q)' PROVE NewTitle(q)'
  <2>1. /\ Current(q) /\ req'[q].op = req[q].op /\ req'[q].doc = req[q].doc
        /\ req'[q].seen = req[q].seen /\ req[q].beside \subseteq req'[q].beside
    BY <1>2, CurrentStep DEF FreeEdit
  <2>2. NewTitle(q)
    BY <1>2, <2>1 DEF NameInv, FreeEdit
  <2> QED
    BY <2>1, <2>2 DEF NewTitle, Row, Rows
<1> QED
  BY <1>1, <1>2

\* A step that leaves the names where they are.
LEMMA NameStays ==
    ASSUME TypeInv, KnownInv, NameInv, \A q \in Requests : Same(q), Dated,
           Harmless(NameHarm), DOMAIN docs' = DOMAIN docs,
           \A d \in DOMAIN docs : /\ Rows(d)' = Rows(d)
                                  /\ \A i \in Rows(d) : Row(d, i)'.name = Row(d, i).name
    PROVE  NameInv'
<1>1. ASSUME NEW q \in Requests
      PROVE  (FreeAdd(q)' => NewName(q)') /\ (FreeEdit(q)' => NewTitle(q)')
  <2>1. ASSUME FreeAdd(q)' \/ FreeEdit(q)' PROVE req[q].doc \in DOMAIN docs
    BY <2>1, AddingStep, CurrentStep DEF FreeEdit
  <2> QED
    BY <2>1, NameRequests
<1>2. \A d \in DOMAIN docs' : \A i, j \in Rows(d)' : Row(d, i)'.name = Row(d, j)'.name => i = j
  BY DEF NameInv
<1> QED
  BY <1>1, <1>2 DEF NameInv, Row, Rows

LEMMA NameStep ==
    ASSUME RuleAssumption, TypeInv, KnownInv, PlacedInv, NameInv, [Next]_vars
    PROVE  NameInv'
<1>0. TypeOK /\ (Writes \/ \E r \in Requests : Reads(r))
  BY Shapes DEF TypeInv
<1>1. CASE Writes
  <2>0. Dated /\ DOMAIN docs' = DOMAIN docs /\ \A q \in Requests : Same(q)
    BY <1>1, WritesDate DEF Writes
  <2> SUFFICES ASSUME Harmless(NameHarm)' PROVE NameInv'
    BY DEF NameInv
  <2>1. Harmless(NameHarm) /\ Harmless({<<"edit", "delete">>})
    BY <2>0 DEF Harmless, Dated, NameHarm
  <2>2. \A d \in DOMAIN docs : \A i, j \in Rows(d) : Row(d, i).name = Row(d, j).name => i = j
    BY <2>1 DEF NameInv
  <2>3. ASSUME \A d \in DOMAIN docs : \A i, j \in Rows(d)' : Row(d, i)'.name = Row(d, j)'.name => i = j,
               \A q \in Requests : FreeAdd(q)' => NewName(q)',
               \A q \in Requests : FreeEdit(q)' => NewTitle(q)'
        PROVE  NameInv'
    BY <2>0, <2>3 DEF NameInv, Row, Rows
  <2>4. ASSUME NEW d \in DOMAIN docs, Only(d), NEW e \in DOMAIN docs, e # d
        PROVE  Rows(e)' = Rows(e) /\ \A i \in Rows(e) : Row(e, i)' = Row(e, i)
    BY <2>4 DEF Only, Row, Rows
  <2>5. ASSUME NEW r \in Requests, NEW d \in DOMAIN docs, NEW b \in Badges,
               NEW n \in Nat, Adds(r, d, b, n)
        PROVE  NameInv'
    <3>1. /\ Adding(r) /\ Overlapped(r) /\ Beside({"add"}, r)
          /\ d = req[r].doc /\ Only(d) /\ docs'[d].version = docs[d].version + 1
          /\ n \notin Rows(d) /\ Rows(d)' = Rows(d) \cup {n}
          /\ \A i \in Rows(d) : Row(d, i)' = Row(d, i)
          /\ Row(d, n)'.name = req[r].op.name
      BY <2>5 DEF Adds, Pushed
    <3>2. FreeAdd(r)
      BY <3>1 DEF FreeAdd, Overlapped, Adding, Harmless, NameHarm
    <3>3. \A i \in Rows(d) : Row(d, i).name # req[r].op.name
      BY <2>1, <3>1, <3>2 DEF NameInv, NewName
    <3>4. ASSUME NEW e \in DOMAIN docs
          PROVE  \A i, j \in Rows(e)' : Row(e, i)'.name = Row(e, j)'.name => i = j
      <4>1. CASE e = d
        BY <2>2, <3>1, <3>3, <4>1
      <4>2. CASE e # d
        BY <2>2, <2>4, <3>1, <4>2
      <4> QED
        BY <4>1, <4>2
    <3>5. ASSUME NEW q \in Requests, FreeAdd(q)' PROVE NewName(q)'
      BY <2>0, <3>1, <3>5, AddingStep DEF Beside, FreeAdd, Harm
    <3>6. ASSUME NEW q \in Requests, FreeEdit(q)' PROVE NewTitle(q)'
      <4>1. req[q].doc \in DOMAIN docs /\ req[q].doc # d
        BY <2>0, <3>1, <3>6, CurrentStep DEF FreeEdit
      <4> QED
        BY <2>0, <2>1, <2>4, <3>1, <3>6, <4>1, NameRequests
    <3> QED
      BY <2>3, <3>4, <3>5, <3>6
  <2>6. ASSUME NEW r \in Requests, NEW d \in DOMAIN docs, NEW k \in Nat, Edits(r, d, k)
        PROVE  NameInv'
    <3>1. /\ Editing(r) /\ docs[d].version = req[r].seen.version /\ Overlapped(r)
          /\ d = req[r].doc /\ k = req[r].seen.index /\ Only(d) /\ Beside(EditWrites(req[r].op), r)
          /\ "edit" \in EditWrites(req[r].op) /\ Merged(r).name = req[r].op.name
          /\ Row(d, k)' = Merged(r) /\ (k \in Rows(d) => Rows(d)' = Rows(d))
          /\ \A i \in Rows(d)' : i # k => Row(d, i)' = IF i \in Rows(d) THEN Row(d, i) ELSE Hole
      BY <2>6 DEF Edits, RowSet, EditWrites
    <3>2. "delete" \notin req[r].beside /\ "edit" \notin req[r].beside
      BY <3>1 DEF Overlapped, Editing, Harmless, NameHarm
    <3>3. FreeEdit(r) /\ k \in Rows(d)
      BY <2>1, <3>1, <3>2 DEF PlacedInv, Current, InPlace, FirstRow, FreeEdit
    <3>4. \A i \in Rows(d) : i # k => Row(d, i).name # req[r].op.name
      BY <2>1, <3>1, <3>3 DEF NameInv, NewTitle
    <3>5. ASSUME NEW e \in DOMAIN docs
          PROVE  \A i, j \in Rows(e)' : Row(e, i)'.name = Row(e, j)'.name => i = j
      <4>1. CASE e = d
        <5>1. /\ Rows(d)' = Rows(d) /\ Row(d, k)'.name = req[r].op.name
              /\ \A i \in Rows(d) : i # k => Row(d, i)' = Row(d, i)
          BY <3>1, <3>3
        <5> QED
          BY <2>2, <3>4, <4>1, <5>1
      <4>2. CASE e # d
        BY <2>2, <2>4, <3>1, <4>2
      <4> QED
        BY <4>1, <4>2
    <3>6. ASSUME NEW q \in Requests, FreeAdd(q)' PROVE NewName(q)'
      BY <2>0, <3>1, <3>6, AddingStep DEF Beside, FreeAdd, Harm
    <3>7. ASSUME NEW q \in Requests, FreeEdit(q)' PROVE NewTitle(q)'
      BY <2>0, <3>1, <3>7, CurrentStep DEF Beside, FreeEdit, Current, Editing, Harm
    <3> QED
      BY <2>3, <3>5, <3>6, <3>7
  <2>7. ASSUME NEW b \in Badges, NEW kept, Deletes(b, kept)
        PROVE  NameInv'
    <3>1. /\ 1 \in DOMAIN docs /\ Only(1) /\ Beside({"delete"}, "nobody")
          /\ kept \in [Rows(1)' -> Rows(1)]
          /\ \A i \in Rows(1)' : Row(1, i)' = Row(1, kept[i])
          /\ \A i, j \in Rows(1)' : i # j => kept[i] # kept[j]
      BY <2>7 DEF Deletes, Pulled
    <3>2. ASSUME NEW e \in DOMAIN docs
          PROVE  \A i, j \in Rows(e)' : Row(e, i)'.name = Row(e, j)'.name => i = j
      <4>1. CASE e = 1
        BY <2>2, <3>1, <4>1
      <4>2. CASE e # 1
        BY <2>2, <2>4, <3>1, <4>2
      <4> QED
        BY <4>1, <4>2
    <3>3. ASSUME NEW q \in Requests, FreeAdd(q)' PROVE NewName(q)'
      <4>1. /\ FreeAdd(q) /\ req'[q].op = req[q].op /\ req'[q].doc = req[q].doc
            /\ req[q].doc \in DOMAIN docs
        BY <2>0, <3>3, AddingStep
      <4>2. NewName(q)
        BY <2>1, <4>1 DEF NameInv
      <4>3. CASE req[q].doc = 1
        BY <3>1, <4>1, <4>2, <4>3 DEF NewName, Row, Rows
      <4>4. CASE req[q].doc # 1
        BY <2>0, <2>1, <2>4, <3>1, <3>3, <4>1, <4>4, NameRequests
      <4> QED
        BY <4>3, <4>4
    <3>4. ASSUME NEW q \in Requests, FreeEdit(q)' PROVE NewTitle(q)'
      BY <2>0, <3>1, <3>4, CurrentStep DEF Beside, FreeEdit, Current, Editing, Harm
    <3> QED
      BY <2>3, <3>2, <3>3, <3>4
  <2>8. ASSUME NEW b \in Fading, NEW d \in DOMAIN docs, NEW p \in Nat, NEW f \in Fade,
               Restates(b, d, p, f)
        PROVE  NameInv'
    <3>1. /\ Only(d) /\ p \in Rows(d) /\ Rows(d)' = Rows(d) /\ Row(d, p) \in Badge
          /\ Row(d, p)' = [Row(d, p) EXCEPT !.fade = f]
          /\ \A i \in Rows(d) : i # p => Row(d, i)' = Row(d, i)
      BY <2>8 DEF Restates, Restated
    <3>2. Row(d, p)'.name = Row(d, p).name
      BY <3>1 DEF Badge
    <3>3. ASSUME NEW e \in DOMAIN docs
          PROVE  Rows(e)' = Rows(e) /\ \A i \in Rows(e) : Row(e, i)'.name = Row(e, i).name
      <4>1. CASE e = d
        BY <3>1, <3>2, <4>1
      <4>2. CASE e # d
        BY <2>4, <3>1, <4>2
      <4> QED
        BY <4>1, <4>2
    <3> QED
      BY <2>0, <2>1, <3>3, NameStays
  <2>9. ASSUME NEW s \in Bodies, Replaces(s)
        PROVE  NameInv'
    <3>1. /\ 1 \in DOMAIN docs /\ Only(1) /\ docs'[1].badges = s
          /\ Beside({"delete", "edit"}, "nobody")
          /\ \A i, j \in DOMAIN s : s[i].name = s[j].name => i = j
      BY <2>9 DEF Replaces, Replaced, Harmless, NameHarm
    <3>2. ASSUME NEW e \in DOMAIN docs
          PROVE  \A i, j \in Rows(e)' : Row(e, i)'.name = Row(e, j)'.name => i = j
      <4>1. CASE e = 1
        BY <3>1, <4>1 DEF Row, Rows
      <4>2. CASE e # 1
        BY <2>2, <2>4, <3>1, <4>2
      <4> QED
        BY <4>1, <4>2
    <3>3. ASSUME NEW q \in Requests, FreeAdd(q)' PROVE FALSE
      BY <2>0, <3>1, <3>3, AddingStep DEF Beside, FreeAdd, Harm
    <3>4. ASSUME NEW q \in Requests, FreeEdit(q)' PROVE FALSE
      BY <2>0, <3>1, <3>4, CurrentStep DEF Beside, FreeEdit, Current, Editing, Harm
    <3> QED
      BY <2>3, <3>2, <3>3, <3>4
  <2>10. CASE Leaves
    <3>1. \A d \in DOMAIN docs : Rows(d)' = Rows(d) /\ \A i \in Rows(d) : Row(d, i)' = Row(d, i)
      BY <2>10 DEF Leaves, Row, Rows
    <3> QED
      BY <2>0, <2>1, <3>1, NameStays
  <2> QED
    BY <1>1, <2>5, <2>6, <2>7, <2>8, <2>9, <2>10 DEF Writes
<1> QED
  BY <1>0, <1>1, NameReads

LEMMA NameStarts == Init => NameInv
BY DEF Init, NameInv, FreeAdd, FreeEdit, Adding, Current, Editing, Idle

-----------------------------------------------------------------------------
(* Unless an edit was saved over a deletion or a new list, the one document of  *)
(* the project holds the rules the answered requests leave.                   *)

Holds(x) == x \in docs[1].scores \/ \E i \in Rows(1) : Row(1, i).id = x

LostInv ==
    (Harmless({<<"edit", "delete">>}) /\ Len(docs) = 1) =>
        \A x : x \in expected <=> Holds(x)

LEMMA LostReads ==
    ASSUME TypeInv, KnownInv, LostInv, NEW r \in Requests, Reads(r)
    PROVE  LostInv'
<1>0. UNCHANGED <<expected, overlaps>> /\ docs \in Seq(Doc)
  BY DEF Reads, history, TypeInv, TypeOK
<1>1. CASE docs' = docs
  BY <1>0, <1>1 DEF LostInv, Holds, Harmless, Row, Rows
<1>2. CASE docs' = Append(docs, NewDoc) /\ Len(docs') = 1
  <2>1. docs = <<>> /\ docs'[1] = NewDoc
    BY <1>0, <1>2
  <2>2. expected = {} /\ docs'[1].badges = <<>> /\ docs'[1].scores = {}
    BY <2>1 DEF KnownInv, NewDoc
  <2> QED
    BY <1>0, <2>2 DEF LostInv, Holds, Row, Rows
<1>3. CASE Len(docs') # 1
  BY <1>3 DEF LostInv
<1> QED
  BY <1>1, <1>2, <1>3 DEF Reads

LEMMA LostStep ==
    ASSUME RuleAssumption, TypeInv, KnownInv, PlacedInv, LostInv, [Next]_vars
    PROVE  LostInv'
<1>0. TypeOK /\ (Writes \/ \E r \in Requests : Reads(r))
  BY Shapes DEF TypeInv
<1>1. CASE Writes
  <2>0. Dated /\ DOMAIN docs' = DOMAIN docs /\ docs' \in Seq(Doc)
    BY <1>1, WritesDate
  <2> SUFFICES ASSUME Harmless({<<"edit", "delete">>})', Len(docs') = 1 PROVE LostInv'
    BY DEF LostInv
  <2>1. Harmless({<<"edit", "delete">>})
    BY <2>0 DEF Harmless, Dated
  <2>2. 1 \in DOMAIN docs /\ Len(docs) = 1 /\ DOMAIN docs = {1} /\ docs[1].scores \in SUBSET Scores
    <3>1. DOMAIN docs' = DOMAIN docs /\ docs \in Seq(Doc)
      BY <1>0, <2>0 DEF TypeOK
    <3>2. DOMAIN docs' = {1}
      BY <2>0
    <3>3. Len(docs) \in Nat /\ DOMAIN docs = 1..Len(docs) /\ 1..Len(docs) = {1}
      BY <1>0, <3>1, <3>2, DocFacts
    <3>4. Len(docs) \in 1..Len(docs)
      BY <3>3
    <3> QED
      BY <1>0, <3>1, <3>2, <3>4, DocFacts
  <2>3. \A x : x \in expected <=> Holds(x)
    BY <2>1, <2>2 DEF LostInv
  <2>4. ASSUME \A x : x \in expected' <=> Holds(x)' PROVE LostInv'
    BY <2>4 DEF LostInv, Holds, Row, Rows
  <2>10. \A i \in Rows(1) : Row(1, i) \in Badge /\ Row(1, i) # Hole /\ Row(1, i).id \in Badges
    <3>1. \A i \in Rows(1) : Row(1, i) \in Badge /\ Row(1, i) # Hole
      BY <1>0, <2>1, <2>2, DocFacts DEF PlacedInv
    <3> QED
      BY <3>1 DEF Badge
  <2>5. ASSUME NEW r \in Requests, NEW d \in DOMAIN docs, NEW b \in Badges,
               NEW n \in Nat, Adds(r, d, b, n)
        PROVE  LostInv'
    <3>1. /\ expected' = expected \cup {b} /\ docs'[1].scores = docs[1].scores
          /\ Rows(1)' = Rows(1) \cup {n} /\ Row(1, n)'.id = b
          /\ \A i \in Rows(1) : Row(1, i)' = Row(1, i)
      BY <2>2, <2>5 DEF Adds, Pushed
    <3>2. \A x : Holds(x)' <=> Holds(x) \/ x = b
      BY <3>1 DEF Holds
    <3> QED
      BY <2>3, <2>4, <3>1, <3>2
  <2>6. ASSUME NEW r \in Requests, NEW d \in DOMAIN docs, NEW k \in Nat, Edits(r, d, k)
        PROVE  LostInv'
    <3>1. /\ Editing(r) /\ docs[d].version = req[r].seen.version /\ Overlapped(r)
          /\ d = req[r].doc /\ k = req[r].seen.index /\ d = 1
          /\ Merged(r).id = req[r].seen.badge.id /\ UNCHANGED expected
          /\ docs'[1].scores = docs[1].scores
          /\ Row(d, k)' = Merged(r) /\ (k \in Rows(d) => Rows(d)' = Rows(d))
          /\ \A i \in Rows(d)' : i # k => Row(d, i)' = IF i \in Rows(d) THEN Row(d, i) ELSE Hole
      BY <2>2, <2>6 DEF Edits, RowSet
    <3>2. "delete" \notin req[r].beside
      BY <3>1 DEF Overlapped, Editing, Harmless
    <3>3. k \in Rows(1) /\ Row(1, k).id = req[r].seen.badge.id
      BY <2>1, <3>1, <3>2 DEF PlacedInv, Current, InPlace, FirstRow
    <3>4. /\ Rows(1)' = Rows(1) /\ Row(1, k)'.id = Row(1, k).id
          /\ \A i \in Rows(1) : i # k => Row(1, i)' = Row(1, i)
      BY <3>1, <3>3
    <3>5. \A x : Holds(x)' <=> Holds(x)
      BY <3>1, <3>4 DEF Holds
    <3> QED
      BY <2>3, <2>4, <3>1, <3>5
  <2>7. ASSUME NEW b \in Badges, NEW kept, Deletes(b, kept)
        PROVE  LostInv'
    <3>1. /\ expected' = expected \ {b} /\ docs'[1].scores = docs[1].scores
          /\ kept \in [Rows(1)' -> Rows(1)]
          /\ \A i \in Rows(1)' : Row(1, i)' = Row(1, kept[i])
          /\ \A i \in Rows(1)' : Row(1, i)' = Hole \/ Row(1, i)'.id # b
          /\ \A j \in Rows(1) : Row(1, j) = Hole \/ Row(1, j).id # b =>
                \E i \in Rows(1)' : kept[i] = j
      BY <2>7 DEF Deletes, Pulled
    <3>2. b \notin docs[1].scores
      BY <2>2 DEF RuleAssumption
    <3>3. \A i \in Rows(1)' : Row(1, i)'.id # b
      BY <2>10, <3>1
    <3>4. ASSUME NEW x PROVE Holds(x)' <=> Holds(x) /\ x # b
      <4>1. (\E i \in Rows(1)' : Row(1, i)'.id = x) => \E j \in Rows(1) : Row(1, j).id = x
        BY <3>1
      <4>2. ASSUME x # b, NEW j \in Rows(1), Row(1, j).id = x
            PROVE  \E i \in Rows(1)' : Row(1, i)'.id = x
        BY <3>1, <4>2
      <4> QED
        BY <3>1, <3>2, <3>3, <4>1, <4>2 DEF Holds
    <3> QED
      BY <2>3, <2>4, <3>1, <3>4
  <2>8. ASSUME NEW b \in Fading, NEW d \in DOMAIN docs, NEW p \in Nat, NEW f \in Fade,
               Restates(b, d, p, f)
        PROVE  LostInv'
    <3>1. /\ d = 1 /\ p \in Rows(d) /\ Rows(d)' = Rows(d) /\ Row(d, p) \in Badge
          /\ docs'[d].scores = docs[d].scores /\ UNCHANGED expected
          /\ Row(d, p)' = [Row(d, p) EXCEPT !.fade = f]
          /\ \A i \in Rows(d) : i # p => Row(d, i)' = Row(d, i)
      BY <2>2, <2>8 DEF Restates, Restated
    <3>2. Row(d, p)'.id = Row(d, p).id
      BY <3>1 DEF Badge
    <3>3. \A i \in Rows(1) : Row(1, i)'.id = Row(1, i).id
      BY <3>1, <3>2
    <3>4. \A x : Holds(x)' <=> Holds(x)
      BY <3>1, <3>3 DEF Holds
    <3> QED
      BY <2>3, <2>4, <3>1, <3>4
  <2>9. ASSUME NEW s \in Bodies, Replaces(s)
        PROVE  LostInv'
    <3>1. /\ docs'[1].badges = s /\ docs'[1].scores = docs[1].scores /\ s \in Seq(Badge)
          /\ expected' = (expected \ Badges) \cup Ids(s)
      BY <2>9 DEF Replaces, Replaced
    <3>2. \A i \in DOMAIN s : s[i] # Hole /\ s[i] \in Badge
      BY <3>1 DEF RuleAssumption
    <3>3. \A x : x \in Ids(s) <=> \E i \in Rows(1)' : Row(1, i)'.id = x
      BY <3>1, <3>2 DEF Ids, Row, Rows
    <3>4. \A x : x \in docs[1].scores <=> x \in expected \ Badges
      <4>1. \A x : x \in docs[1].scores => x \notin Badges
        BY <2>2 DEF RuleAssumption
      <4> QED
        BY <2>3, <2>10, <4>1 DEF Holds
    <3>5. \A x : Holds(x)' <=> x \in docs[1].scores \/ x \in Ids(s)
      BY <3>1, <3>3 DEF Holds
    <3> QED
      BY <2>4, <3>1, <3>4, <3>5
  <2>11. CASE Leaves
    <3>1. Rows(1)' = Rows(1) /\ \A i \in Rows(1) : Row(1, i)' = Row(1, i)
      BY <2>2, <2>11 DEF Leaves, Row, Rows
    <3>2. CASE UNCHANGED expected /\ \A d \in DOMAIN docs : docs'[d].scores = docs[d].scores
      <4>1. \A x : Holds(x)' <=> Holds(x)
        BY <2>2, <3>1, <3>2 DEF Holds
      <4> QED
        BY <2>3, <2>4, <3>2, <4>1
    <3>3. ASSUME NEW c \in Scores, expected' = expected \cup {c},
                 docs'[1].scores = docs[1].scores \cup {c}
          PROVE  LostInv'
      <4>1. \A x : Holds(x)' <=> Holds(x) \/ x = c
        BY <3>1, <3>3 DEF Holds
      <4> QED
        BY <2>3, <2>4, <3>3, <4>1
    <3>4. ASSUME NEW c \in Scores, expected' = expected \ {c},
                 docs'[1].scores = docs[1].scores \ {c}
          PROVE  LostInv'
      <4>1. \A i \in Rows(1) : Row(1, i).id # c
        BY <2>10 DEF RuleAssumption
      <4>2. \A x : Holds(x)' <=> Holds(x) /\ x # c
        BY <3>1, <3>4, <4>1 DEF Holds
      <4> QED
        BY <2>3, <2>4, <3>4, <4>2
    <3>5. ASSUME NEW cs \in SUBSET Scores, expected' = (expected \ Scores) \cup cs,
                 docs'[1].scores = cs
          PROVE  LostInv'
      <4>1. \A x : (\E i \in Rows(1) : Row(1, i).id = x) <=> x \in expected \ Scores
        <5>1. \A i \in Rows(1) : Row(1, i).id \notin Scores
          BY <2>10 DEF RuleAssumption
        <5> QED
          BY <2>2, <2>3, <5>1 DEF Holds
      <4>2. \A x : Holds(x)' <=> x \in cs \/ x \in expected \ Scores
        BY <3>1, <3>5, <4>1 DEF Holds
      <4> QED
        BY <2>4, <3>5, <4>2
    <3> QED
      BY <2>2, <2>11, <3>2, <3>3, <3>4, <3>5 DEF Leaves, Rescored
  <2> QED
    BY <1>1, <2>5, <2>6, <2>7, <2>8, <2>9, <2>11 DEF Writes
<1> QED
  BY <1>0, <1>1, LostReads

LEMMA LostStarts == Init => LostInv
BY DEF Init, LostInv

-----------------------------------------------------------------------------
(* The theorems. *)

RuleInv == /\ TypeInv /\ KnownInv /\ PlacedInv /\ ConsistentInv
           /\ FadeInv /\ NameInv /\ LostInv

LEMMA RuleStarts == Init => RuleInv
BY TypeStarts, KnownStarts, PlacedStarts, ConsistentStarts, FadeStarts, NameStarts, LostStarts
   DEF RuleInv

LEMMA RuleStays == RuleInv /\ [Next]_vars => RuleInv'
BY RuleAssumption, TypeStep, KnownStep, PlacedStep, ConsistentStep, FadeStep, NameStep, LostStep
   DEF RuleInv

LEMMA RulesHold == Spec => []RuleInv
BY RuleStarts, RuleStays, PTL DEF Spec

\* Without holes, every row of the document all see has an id.
LEMMA RowsSeen ==
    ASSUME RuleInv, docs # <<>>
    PROVE  /\ 1 \in DOMAIN docs /\ Visible = docs[1]
           /\ Harmless({<<"edit", "delete">>}) => \A i \in Rows(1) : Row(1, i) # Hole
<1>1. 1 \in DOMAIN docs
  BY DocFacts DEF RuleInv, TypeInv
<1> QED
  BY <1>1 DEF Visible, RuleInv, PlacedInv

\* Two badges of one project share a name only after a save went over another
\* creation or edit, or a list came with the name twice (addBadge 49-60, updateBadge
\* 303-318, updateGamification 96-98), whatever the number of badges and requests.
THEOREM NamesStayUnique == Spec => []UniqueNames
<1>1. RuleInv => UniqueNames
  BY DEF RuleInv, NameInv, UniqueNames, NameHarm, Row, Rows
<1> QED
  BY RulesHold, <1>1, PTL

\* The document all see holds just the rules the answered requests leave: created,
\* or in the last list, and not deleted since, whatever ids the bodies choose;
\* unless an edit was saved over a deletion or a new list, or two documents were
\* created (updateBadge 310, updateGamification 92-99, getGamificationByProjectId
\* 242-245).
THEOREM NoRuleIsLost == Spec => []NoRuleLost
<1>1. RuleInv => NoRuleLost
  <2> SUFFICES ASSUME RuleInv, Harmless({<<"edit", "delete">>}), Len(docs) < 2
               PROVE  Ids(Visible.badges) \cup Visible.scores = expected
    BY DEF NoRuleLost
  <2>1. CASE docs = <<>>
    BY <2>1 DEF RuleInv, KnownInv, Visible, NewDoc, Ids
  <2>2. CASE docs # <<>>
    <3>1. Len(docs) = 1
      <4>1. 1 \in 1..Len(docs) /\ Len(docs) \in Nat
        BY <2>2, RowsSeen, DocFacts DEF RuleInv, TypeInv
      <4>2. PICK n : n = Len(docs)
        OBVIOUS
      <4>3. n \in Nat /\ 1 <= n /\ n < 2
        BY <4>1, <4>2
      <4> QED
        BY <4>2, <4>3
    <3>2. \A x : x \in expected <=> Holds(x)
      BY <3>1 DEF RuleInv, LostInv
    <3>3. Visible = docs[1] /\ \A i \in Rows(1) : Row(1, i) # Hole
      BY <2>2, RowsSeen
    <3>4. \A x : x \in Ids(docs[1].badges) <=> \E i \in Rows(1) : Row(1, i).id = x
      BY <3>3 DEF Ids, Row, Rows
    <3> QED
      BY <3>2, <3>3, <3>4 DEF Holds
  <2> QED
    BY <2>1, <2>2
<1> QED
  BY RulesHold, <1>1, PTL

\* Every badge all see has the fade last asked for, by whichever of the four ways
\* and whatever ids the bodies choose, unless an edit was saved over a status update,
\* a deletion or a new list (updateBadge 310-315); and no row contradicts itself
\* that a body did not bring (updateBadgeStatus 129-136).
THEOREM FadesLast == Spec => []FadesHold
<1>1. RuleInv => FadeKept
  <2> SUFFICES ASSUME RuleInv, Harmless(FadeHarm), NEW i \in Firsts(Visible.badges)
               PROVE  Visible.badges[i].fade = intent[Visible.badges[i].id]
    BY DEF FadeKept, FadeHarm
  <2>1. docs # <<>>
    BY DEF Visible, NewDoc, Firsts
  <2>2. 1 \in DOMAIN docs /\ Visible = docs[1] /\ docs \in Seq(Doc)
    BY <2>1, RowsSeen DEF RuleInv, TypeInv, TypeOK
  <2>3. FirstRow(1, i)
    BY <2>2, FirstRows
  <2> QED
    BY <2>2, <2>3 DEF RuleInv, FadeInv, Row
<1>2. RuleInv => NoContradictoryRow
  BY NoContradiction DEF RuleInv
<1>3. RuleInv => FadesHold
  BY <1>1, <1>2 DEF FadesHold
<1> QED
  BY RulesHold, <1>3, PTL
=============================================================================
