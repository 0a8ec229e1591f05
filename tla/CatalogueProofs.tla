-------------------------- MODULE CatalogueProofs --------------------------
(* Theorems about Catalogue for any number of areas, types, tasks, images and *)
(* requests at once.                                                         *)
EXTENDS Catalogue, TLAPS

-----------------------------------------------------------------------------
(* What a step does to one request. *)

\* It stays as it is, but may learn of a write beside it.
Kept(q) ==
    \/ req'[q] = req[q]
    \/ req[q] # Idle /\ \E l \in Writes : req'[q] = [req[q] EXCEPT !.beside = @ \cup {l}]
Begins(q) ==
    \/ \E new \in SUBSET Areas : ReadAreas(q, new)
    \/ ReadAvailable(q)
    \/ \E fields \in Task : CheckTask(q, fields)
    \/ \E list \in SUBSET Task : StartBulk(q, list)
    \/ ReadForCleanup(q)
    \/ StartMigration(q)
Migrates(q) == MigrateImage(q) \/ ReadBadges(q)
Ends(q)     == req'[q] = Idle

\* An update of what tasks the project offers.
Reoffers == \E newTypes \in SUBSET Types, newIntervals \in SUBSET Intervals :
               UpdateOffer(newTypes, newIntervals)

\* The kind of a request says what it writes.
LEMMA Kinds ==
    ASSUME NEW q \in Request
    PROVE  /\ q.at = "idle" <=> q = Idle
           /\ q.at = "areas" => q \in Pend("areas", [Areas -> {"on", "off", "none"}])
           /\ q.at = "toggle" => q \in Pend("toggle", BOOLEAN)
           /\ q.at = "create" => q \in Pend("create", Task)
           /\ q.at = "bulk" => q \in Pend("bulk", SUBSET Task)
           /\ q.at = "cleanup" => q \in Pend("cleanup", View)
           /\ q.at = "migrate" => q \in Migration
  BY DEF Request, Pend, Migration, Idle

\* Learning of a write changes nothing else of a request.
LEMMA Learning ==
    ASSUME NEW q \in Request, q # Idle, NEW l \in Writes
    PROVE  LET marked == [q EXCEPT !.beside = @ \cup {l}]
           IN  /\ marked \in Request /\ marked # Idle
               /\ marked.at = q.at /\ marked.write = q.write
               /\ marked.beside = q.beside \cup {l}
               /\ q.at = "migrate" => marked.badges = q.badges /\ marked.failed = q.failed
<1> DEFINE marked == [q EXCEPT !.beside = @ \cup {l}]
<1>1. CASE q \in Migration
  <2>1. marked \in Migration
    BY <1>1 DEF Migration
  <2> QED
    BY <1>1, <2>1 DEF Migration, Request, Idle
<1>2. ASSUME NEW kind \in {"areas", "toggle", "create", "bulk", "cleanup"}, NEW writes,
             q \in Pend(kind, writes)
      PROVE  /\ marked \in Pend(kind, writes) /\ marked.at = q.at /\ marked.write = q.write
             /\ marked.beside = q.beside \cup {l} /\ marked.at \notin {"idle", "migrate"}
  BY <1>2 DEF Pend
<1> HIDE DEF marked
<1>3. CASE \E kind \in {"areas", "toggle", "create", "bulk", "cleanup"} :
               \E writes : q \in Pend(kind, writes) /\ Pend(kind, writes) \subseteq Request
  BY <1>2, <1>3 DEF Idle, marked
<1> QED
  BY <1>1, <1>3 DEF Request, marked

LEMMA KeptFields ==
    ASSUME req \in [Requests -> Request], NEW q \in Requests, Kept(q)
    PROVE  /\ req'[q] \in Request /\ req'[q].at = req[q].at
           /\ req[q].at # "idle" => /\ req'[q].write = req[q].write
                                    /\ req[q].beside \subseteq req'[q].beside
           /\ req[q].at = "migrate" => /\ req'[q].badges = req[q].badges
                                       /\ req'[q].failed = req[q].failed
<1>1. CASE req'[q] = req[q]
  BY <1>1
<1>2. CASE req[q] # Idle /\ \E l \in Writes : req'[q] = [req[q] EXCEPT !.beside = @ \cup {l}]
  BY <1>2, Learning
<1> QED
  BY <1>1, <1>2 DEF Kept

LEMMA WrittenEffect ==
    ASSUME req \in [Requests -> Request], NEW l \in Writes, NEW done, Written(l, done)
    PROVE  /\ req' \in [Requests -> Request]
           /\ \A q \in Requests \cap done : Ends(q)
           /\ \A q \in Requests \ done :
                 /\ Kept(q)
                 /\ <<req[q].at, l>> \in Harm => l \in req'[q].beside
<1>1. ASSUME NEW q \in Requests
      PROVE  /\ req'[q] \in Request
             /\ q \in done => Ends(q)
             /\ q \notin done => /\ Kept(q)
                                 /\ <<req[q].at, l>> \in Harm => l \in req'[q].beside
  <2>1. /\ req[q] \in Request /\ (req[q].at = "idle" <=> req[q] = Idle)
        /\ <<req[q].at, l>> \in Harm => req[q].at # "idle"
    BY Kinds DEF Harm
  <2>2. CASE q \in done
    BY <2>2 DEF Written, Ends, Request
  <2>3. CASE q \notin done /\ <<req[q].at, l>> \in Harm
    <3>1. req'[q] = [req[q] EXCEPT !.beside = @ \cup {l}] /\ req[q] # Idle
      BY <2>1, <2>3 DEF Written
    <3>2. req'[q] \in Request /\ req'[q].beside = req[q].beside \cup {l}
      BY <2>1, <3>1, Learning
    <3>3. Kept(q)
      BY <3>1 DEF Kept
    <3> QED
      BY <2>3, <3>2, <3>3
  <2>4. CASE q \notin done /\ <<req[q].at, l>> \notin Harm
    BY <2>1, <2>4 DEF Written, Kept
  <2> QED
    BY <2>2, <2>3, <2>4
<1> QED
  BY <1>1 DEF Written

\* A step that gives one request a new state leaves the others.
LEMMA OneMoves ==
    ASSUME req \in [Requests -> Request], NEW r \in Requests, NEW new \in Request,
           req' = [req EXCEPT ![r] = new]
    PROVE  /\ req' \in [Requests -> Request] /\ req'[r] = new
           /\ \A q \in Requests : q # r => Kept(q)
  BY DEF Kept

LEMMA Started ==
    ASSUME TypeOK, NEW r \in Requests, Begins(r)
    PROVE  /\ req' \in [Requests -> Request]
           /\ \A q \in Requests : q # r => Kept(q)
<1>0. req \in [Requests -> Request] /\ {} \subseteq Writes
  BY DEF TypeOK
<1>1. ASSUME NEW new \in SUBSET Areas, ReadAreas(r, new)
      PROVE  \E q \in Request : req' = [req EXCEPT ![r] = q]
  <2>1. NewFeatures(areas, new) \in [Areas -> {"on", "off", "none"}]
    BY DEF NewFeatures
  <2>2. [at |-> "areas", write |-> NewFeatures(areas, new), beside |-> {}] \in Request
    BY <1>0, <2>1 DEF Request, Pend
  <2> QED
    BY <1>1, <2>2 DEF ReadAreas, Pending
<1>2. ASSUME ReadAvailable(r) PROVE \E q \in Request : req' = [req EXCEPT ![r] = q]
  <2>1. [at |-> "toggle", write |-> Toggled(available), beside |-> {}] \in Request
    BY <1>0 DEF Request, Pend, Toggled, TypeOK
  <2> QED
    BY <1>2, <2>1 DEF ReadAvailable, Pending
<1>3. ASSUME NEW fields \in Task, CheckTask(r, fields)
      PROVE  \E q \in Request : req' = [req EXCEPT ![r] = q]
  <2>1. [at |-> "create", write |-> fields, beside |-> {}] \in Request
    BY <1>0 DEF Request, Pend
  <2> QED
    BY <1>3, <2>1 DEF CheckTask, Pending
<1>4. ASSUME NEW list \in SUBSET Task, StartBulk(r, list)
      PROVE  \E q \in Request : req' = [req EXCEPT ![r] = q]
  <2>1. [at |-> "bulk", write |-> list, beside |-> {}] \in Request
    BY <1>0 DEF Request, Pend
  <2> QED
    BY <1>4, <2>1 DEF StartBulk
<1>5. ASSUME ReadForCleanup(r) PROVE \E q \in Request : req' = [req EXCEPT ![r] = q]
  <2>1. [types |-> types, intervals |-> intervals, areas |-> Enabled] \in View
    BY DEF View, Enabled, TypeOK
  <2>2. [at |-> "cleanup",
          write |-> [types |-> types, intervals |-> intervals, areas |-> Enabled],
          beside |-> {}]
            \in Request
    BY <1>0, <2>1 DEF Request, Pend
  <2> QED
    BY <1>5, <2>2 DEF ReadForCleanup, Pending
<1>6. ASSUME StartMigration(r) PROVE \E q \in Request : req' = [req EXCEPT ![r] = q]
  <2>1. ToCopy({Cover}) \in [External({Cover}) -> Images] /\ External({Cover}) \subseteq Slots
    BY CatalogueAssumption DEF CatalogueAssumption, ToCopy, External
  <2>2. [at |-> "migrate", write |-> ToCopy({Cover}), badges |-> FALSE, failed |-> FALSE,
         beside |-> {}] \in Migration
    BY <1>0, <2>1 DEF Migration
  <2> QED
    BY <1>6, <2>2 DEF StartMigration, Request
<1>7. PICK q \in Request : req' = [req EXCEPT ![r] = q]
  BY <1>1, <1>2, <1>3, <1>4, <1>5, <1>6 DEF Begins
<1> QED
  BY <1>0, <1>7, OneMoves

\* A migration goes on: an image is dealt with, or the badges are read.
LEMMA Migrated ==
    ASSUME TypeOK, NEW r \in Requests, Migrates(r)
    PROVE  /\ req' \in [Requests -> Request]
           /\ \A q \in Requests : q # r => Kept(q)
           /\ req'[r].at = "migrate" /\ req'[r].beside = req[r].beside
           /\ req[r] \in Migration /\ req'[r] \in Migration
<1>0. req \in [Requests -> Request] /\ req[r].at = "migrate" /\ req[r] \in Migration
  BY Kinds DEF TypeOK, Migrates, MigrateImage, ReadBadges
<1>1. PICK slots \in SUBSET Slots : req[r].write \in [slots -> Images]
  BY <1>0 DEF Migration
<1>2. ASSUME NEW w, NEW b \in BOOLEAN, NEW f \in BOOLEAN, NEW left \in SUBSET Slots,
             w \in [left -> Images],
             req' = [req EXCEPT ![r] = [@ EXCEPT !.write = w, !.badges = b, !.failed = f]]
      PROVE  /\ req' \in [Requests -> Request]
             /\ \A q \in Requests : q # r => Kept(q)
             /\ req'[r].at = "migrate" /\ req'[r].beside = req[r].beside
             /\ req'[r] \in Migration
  <2> DEFINE new == [req[r] EXCEPT !.write = w, !.badges = b, !.failed = f]
  <2>1. new \in Migration /\ new.at = "migrate" /\ new.beside = req[r].beside
    BY <1>0, <1>2 DEF Migration
  <2>2. req' = [req EXCEPT ![r] = new]
    BY <1>2
  <2> HIDE DEF new
  <2> QED
    BY <1>0, <2>1, <2>2, OneMoves DEF Request
<1>3. ASSUME MigrateImage(r)
      PROVE  \E left \in SUBSET Slots : \E w \in [left -> Images], f \in BOOLEAN :
                req' = [req EXCEPT ![r] = [@ EXCEPT !.write = w, !.badges = req[r].badges,
                                                   !.failed = f]]
  <2>1. PICK s \in NextSlot(req[r]), f \in BOOLEAN :
           req' = [req EXCEPT ![r].write = Remaining(req[r], s), ![r].failed = f]
    BY <1>0, <1>3 DEF MigrateImage, Migration
  <2>2. Remaining(req[r], s) \in [slots \ {s} -> Images] /\ slots \ {s} \in SUBSET Slots
    BY <1>1 DEF Remaining
  <2>3. req' = [req EXCEPT ![r] = [@ EXCEPT !.write = Remaining(req[r], s),
                                             !.badges = req[r].badges, !.failed = f]]
    BY <1>0, <2>1 DEF Migration
  <2> QED
    BY <2>2, <2>3
<1>4. ASSUME ReadBadges(r)
      PROVE  \E left \in SUBSET Slots : \E w \in [left -> Images] :
                req' = [req EXCEPT ![r] = [@ EXCEPT !.write = w, !.badges = TRUE,
                                                   !.failed = req[r].failed]]
  <2> DEFINE w == ToCopy(Slots \ {Cover})
  <2>1. w \in [External(Slots \ {Cover}) -> Images] /\ External(Slots \ {Cover}) \subseteq Slots
    BY DEF ToCopy, External
  <2>2. req' = [req EXCEPT ![r].write = w, ![r].badges = TRUE]
    BY <1>4 DEF ReadBadges
  <2> HIDE DEF w
  <2>3. req' = [req EXCEPT ![r] = [@ EXCEPT !.write = w, !.badges = TRUE,
                                             !.failed = req[r].failed]]
    BY <1>0, <2>2 DEF Migration
  <2> QED
    BY <2>1, <2>3
<1>5. req[r].badges \in BOOLEAN /\ req[r].failed \in BOOLEAN
  BY <1>0 DEF Migration
<1> QED
  BY <1>0, <1>2, <1>3, <1>4, <1>5 DEF Migrates

\* Each request, in a step, is kept, ends, begins or goes on migrating; and the
\* requests stay what they may be.
LEMMA Carried ==
    ASSUME TypeOK, [Next]_vars
    PROVE  /\ req' \in [Requests -> Request]
           /\ \A q \in Requests : Kept(q) \/ Ends(q) \/ Begins(q) \/ Migrates(q)
<1>0. req \in [Requests -> Request] /\ Idle \in Request
  BY DEF TypeOK, Request
<1>1. ASSUME NEW r \in Requests, Begins(r)
      PROVE  /\ req' \in [Requests -> Request]
             /\ \A q \in Requests : Kept(q) \/ Begins(q)
  BY <1>1, Started
<1>2. ASSUME NEW r \in Requests, Migrates(r)
      PROVE  /\ req' \in [Requests -> Request]
             /\ \A q \in Requests : Kept(q) \/ Migrates(q)
  BY <1>2, Migrated
<1>3. ASSUME NEW l \in Writes, NEW done, Written(l, done)
      PROVE  /\ req' \in [Requests -> Request]
             /\ \A q \in Requests : Kept(q) \/ Ends(q)
  BY <1>0, <1>3, WrittenEffect
<1>4. ASSUME NEW r \in Requests, req' = [req EXCEPT ![r] = Idle]
      PROVE  /\ req' \in [Requests -> Request]
             /\ \A q \in Requests : Kept(q) \/ Ends(q)
  BY <1>0, <1>4, OneMoves DEF Ends
<1>5. ASSUME req' = req
      PROVE  req' \in [Requests -> Request] /\ \A q \in Requests : Kept(q)
  BY <1>0, <1>5 DEF Kept
<1>6. ASSUME NEW r \in Requests, ProjectNext(r) \/ TaskNext(r) \/ ImageNext(r) \/ BreakOff(r)
      PROVE  \/ Begins(r) \/ Migrates(r)
             \/ \E l \in Writes : Written(l, {r})
             \/ req' = [req EXCEPT ![r] = Idle]
  BY <1>6 DEF ProjectNext, TaskNext, ImageNext, BreakOff, Begins, Migrates, WriteAreas,
              WriteAvailable, CreateTask, InsertBulk, DeleteUseless, ReportMigration, Writes
<1>7. ASSUME \/ Reoffers
             \/ \E s \in Slots, i \in Images : SetImage(s, i)
      PROVE  \E l \in Writes : Written(l, {})
  BY <1>7 DEF Reoffers, UpdateOffer, SetImage, Writes
<1>8. ASSUME \/ \E t \in Tasks : \/ RemoveTask(t)
                                 \/ \E fields \in Task : UpdateTask(t, fields)
             \/ UNCHANGED vars
      PROVE  req' = req
  BY <1>8 DEF RemoveTask, UpdateTask, vars
<1> QED
  BY <1>1, <1>2, <1>3, <1>4, <1>5, <1>6, <1>7, <1>8 DEF Next, Reoffers

\* What each part of the state is changed by.
LEMMA Frames ==
    ASSUME [Next]_vars
    PROVE  /\ \/ UNCHANGED <<areas, everOn>>
              \/ \E r \in Requests : WriteAreas(r)
           /\ UNCHANGED <<types, intervals>> \/ Reoffers
           /\ \/ UNCHANGED <<available, toggles>>
              \/ \E r \in Requests : WriteAvailable(r)
           /\ \/ UNCHANGED <<image, wanted>>
              \/ \E s \in Slots, i \in Images : SetImage(s, i)
              \/ \E r \in Requests : MigrateImage(r)
           /\ \/ copied' = copied
              \/ \E s \in Slots, i \in Images : SetImage(s, i)
              \/ \E r \in Requests : ReportMigration(r)
           /\ wronged' = wronged \/ \E r \in Requests : DeleteUseless(r)
           /\ torn' = torn \/ \E r \in Requests : BreakOff(r)
           /\ \/ UNCHANGED <<tasks, expected, swept>>
              \/ \E r \in Requests : \/ WriteAreas(r) \/ CreateTask(r) \/ InsertBulk(r)
                                     \/ DeleteUseless(r)
                                     \/ \E list \in SUBSET Task : StartBulk(r, list)
              \/ Reoffers
              \/ \E t \in Tasks : \/ RemoveTask(t)
                                  \/ \E fields \in Task : UpdateTask(t, fields)
           /\ overlaps \subseteq overlaps'
<1>1. ASSUME NEW r \in Requests, ProjectNext(r)
      PROVE  /\ WriteAreas(r) \/ UNCHANGED <<areas, everOn, swept>>
             /\ WriteAvailable(r) \/ UNCHANGED <<available, toggles>>
             /\ UNCHANGED <<types, intervals, image, wanted, copied, wronged, torn, tasks,
                            expected>>
             /\ overlaps \subseteq overlaps'
  BY <1>1 DEF ProjectNext, ReadAreas, WriteAreas, ReadAvailable, WriteAvailable, Overlapped,
              project, history
<1>2. ASSUME NEW r \in Requests, TaskNext(r)
      PROVE  /\ \/ UNCHANGED <<tasks, expected, swept, wronged>>
                \/ CreateTask(r) /\ wronged' = wronged
                \/ InsertBulk(r) /\ wronged' = wronged
                \/ DeleteUseless(r)
                \/ (\E list \in SUBSET Task : StartBulk(r, list)) /\ wronged' = wronged
             /\ UNCHANGED <<areas, types, intervals, available, everOn, toggles, image, wanted,
                            copied, torn>>
             /\ overlaps \subseteq overlaps'
  BY <1>2 DEF TaskNext, CheckTask, StartBulk, CreateTask, InsertBulk, ReadForCleanup,
              DeleteUseless, Overlapped, project, history
<1>3. ASSUME NEW r \in Requests, ImageNext(r)
      PROVE  /\ MigrateImage(r) \/ image' = image
             /\ ReportMigration(r) \/ copied' = copied
             /\ UNCHANGED <<areas, types, intervals, available, everOn, toggles, wanted, torn,
                            tasks, expected, swept, wronged>>
             /\ overlaps \subseteq overlaps'
  BY <1>3 DEF ImageNext, StartMigration, MigrateImage, ReadBadges, ReportMigration, project,
              history
<1>4. ASSUME NEW r \in Requests, BreakOff(r)
      PROVE  UNCHANGED <<areas, types, intervals, available, everOn, toggles, image, wanted, copied,
                         tasks, expected, swept, wronged, overlaps>>
  BY <1>4 DEF BreakOff, project
<1>5. ASSUME Reoffers
      PROVE  UNCHANGED <<areas, available, everOn, toggles, image, wanted, copied, wronged, torn,
                         overlaps>>
  BY <1>5 DEF Reoffers, UpdateOffer
<1>6. ASSUME NEW t \in Tasks, RemoveTask(t) \/ \E fields \in Task : UpdateTask(t, fields)
      PROVE  UNCHANGED <<areas, types, intervals, available, everOn, toggles, image, wanted, copied,
                         wronged, torn, overlaps>>
  BY <1>6 DEF RemoveTask, UpdateTask, project
<1>7. ASSUME NEW s \in Slots, NEW i \in Images, SetImage(s, i)
      PROVE  UNCHANGED <<areas, types, intervals, available, everOn, toggles, torn, tasks, expected,
                         swept, wronged, overlaps>>
  BY <1>7 DEF SetImage, project
<1>8. CASE UNCHANGED vars
  BY <1>8 DEF vars, project, history
<1>9. CASE \E r \in Requests : ProjectNext(r)
  BY <1>1, <1>9
<1>10. CASE \E r \in Requests : TaskNext(r)
  BY <1>2, <1>10
<1>11. CASE \E r \in Requests : ImageNext(r)
  BY <1>3, <1>11
<1>12. CASE \E r \in Requests : BreakOff(r)
  BY <1>4, <1>12
<1>13. CASE Reoffers
  BY <1>5, <1>13
<1>14. CASE \E t \in Tasks : \/ RemoveTask(t)
                             \/ \E fields \in Task : UpdateTask(t, fields)
  BY <1>6, <1>14
<1>15. CASE \E s \in Slots, i \in Images : SetImage(s, i)
  BY <1>7, <1>15
<1> QED
  BY <1>8, <1>9, <1>10, <1>11, <1>12, <1>13, <1>14, <1>15 DEF Next, Reoffers

-----------------------------------------------------------------------------
(* Types. *)

LEMMA TypeStep ==
    ASSUME TypeOK, [Next]_vars
    PROVE  TypeOK'
<1>0. req' \in [Requests -> Request] /\ req \in [Requests -> Request]
  BY Carried DEF TypeOK
<1>1. areas' \in [Areas -> {"on", "off", "none"}] /\ everOn' \subseteq Areas
  <2>1. ASSUME NEW r \in Requests, WriteAreas(r)
        PROVE  areas' \in [Areas -> {"on", "off", "none"}] /\ everOn' \subseteq Areas
    <3>1. req[r].write \in [Areas -> {"on", "off", "none"}]
      BY <1>0, <2>1, Kinds DEF WriteAreas, Pend
    <3> QED
      BY <2>1, <3>1 DEF WriteAreas, TypeOK
  <2> QED
    BY <2>1, Frames DEF TypeOK
<1>2. types' \subseteq Types /\ intervals' \subseteq Intervals
  BY Frames DEF TypeOK, Reoffers, UpdateOffer
<1>3. available' \in BOOLEAN /\ toggles' \in BOOLEAN
  <2>1. ASSUME NEW r \in Requests, WriteAvailable(r)
        PROVE  available' \in BOOLEAN /\ toggles' \in BOOLEAN
    <3>1. req[r].write \in BOOLEAN
      BY <1>0, <2>1, Kinds DEF WriteAvailable, Pend
    <3> QED
      BY <2>1, <3>1 DEF WriteAvailable
  <2> QED
    BY <2>1, Frames DEF TypeOK
<1>4. /\ DOMAIN tasks' \subseteq Tasks /\ \A t \in DOMAIN tasks' : tasks'[t] \in Task
      /\ expected' \subseteq Tasks /\ swept' \in BOOLEAN
  <2>1. ASSUME NEW r \in Requests, CreateTask(r)
        PROVE  /\ DOMAIN tasks' \subseteq Tasks /\ \A t \in DOMAIN tasks' : tasks'[t] \in Task
               /\ expected' \subseteq Tasks /\ swept' \in BOOLEAN
    <3>1. req[r].write \in Task
      BY <1>0, <2>1, Kinds DEF CreateTask, Pend
    <3>2. PICK t \in Tasks : tasks' = New(t, req[r].write) /\ expected' = expected \cup {t}
      BY <2>1 DEF CreateTask
    <3> QED
      BY <2>1, <3>1, <3>2 DEF CreateTask, New, Stored, TypeOK
  <2>2. ASSUME NEW r \in Requests, InsertBulk(r)
        PROVE  /\ DOMAIN tasks' \subseteq Tasks /\ \A t \in DOMAIN tasks' : tasks'[t] \in Task
               /\ expected' \subseteq Tasks /\ swept' \in BOOLEAN
    <3>1. req[r].write \subseteq Task
      BY <1>0, <2>2, Kinds DEF InsertBulk, Pend
    <3>2. PICK ids \in SUBSET (Tasks \ Stored) : \E f \in [ids -> req[r].write] :
             /\ tasks' = [t \in Stored \cup ids |-> IF t \in ids THEN f[t] ELSE tasks[t]]
             /\ expected' = ids
      BY <2>2 DEF InsertBulk
    <3> QED
      BY <2>2, <3>1, <3>2 DEF InsertBulk, Stored, TypeOK
  <2>3. ASSUME NEW r \in Requests, DeleteUseless(r)
        PROVE  /\ DOMAIN tasks' \subseteq Tasks /\ \A t \in DOMAIN tasks' : tasks'[t] \in Task
               /\ expected' \subseteq Tasks /\ swept' \in BOOLEAN
    BY <2>3 DEF DeleteUseless, Only, Stored, TypeOK
  <2>4. ASSUME NEW r \in Requests, NEW list, StartBulk(r, list)
        PROVE  /\ DOMAIN tasks' \subseteq Tasks /\ \A t \in DOMAIN tasks' : tasks'[t] \in Task
               /\ expected' \subseteq Tasks /\ swept' \in BOOLEAN
    <3>1. DOMAIN tasks' = {}
      BY <2>4 DEF StartBulk
    <3> QED
      BY <2>4, <3>1 DEF StartBulk, history, TypeOK
  <2>5. ASSUME NEW t \in Tasks, RemoveTask(t) \/ \E fields \in Task : UpdateTask(t, fields)
        PROVE  /\ DOMAIN tasks' \subseteq Tasks /\ \A u \in DOMAIN tasks' : tasks'[u] \in Task
               /\ expected' \subseteq Tasks /\ swept' \in BOOLEAN
    BY <2>5 DEF RemoveTask, UpdateTask, Only, Stored, TypeOK
  <2>6. CASE \/ \E r \in Requests : WriteAreas(r)
             \/ Reoffers
             \/ UNCHANGED <<tasks, expected, swept>>
    BY <2>6 DEF WriteAreas, Reoffers, UpdateOffer, TypeOK
  <2> QED
    BY <2>1, <2>2, <2>3, <2>4, <2>5, <2>6, Frames
<1>5. image' \in [Slots -> Images \cup Copies] /\ wanted' \in [Slots -> Images]
  <2>1. ASSUME NEW s \in Slots, NEW i \in Images, SetImage(s, i)
        PROVE  image' \in [Slots -> Images \cup Copies] /\ wanted' \in [Slots -> Images]
    BY <2>1 DEF SetImage, TypeOK
  <2>2. ASSUME NEW r \in Requests, MigrateImage(r)
        PROVE  image' \in [Slots -> Images \cup Copies] /\ wanted' = wanted
    <3>1. req[r] \in Migration
      BY <1>0, <2>2, Kinds DEF MigrateImage
    <3>2. PICK s \in DOMAIN req[r].write :
             image' = image \/ image' = [image EXCEPT ![s] = [copy |-> req[r].write[s]]]
      BY <2>2 DEF MigrateImage, NextSlot
    <3>3. req[r].write[s] \in Images
      <4>1. PICK slots \in SUBSET Slots : req[r].write \in [slots -> Images]
        BY <3>1 DEF Migration
      <4> QED
        BY <4>1
    <3>4. [copy |-> req[r].write[s]] \in Copies
      BY <3>3 DEF Copies
    <3>5. wanted' = wanted
      BY <2>2 DEF MigrateImage
    <3> QED
      BY <3>2, <3>4, <3>5 DEF TypeOK
  <2> QED
    BY <2>1, <2>2, Frames DEF TypeOK
<1>6. copied' \in BOOLEAN
  <2>1. ASSUME NEW r \in Requests, ReportMigration(r) PROVE copied' \in BOOLEAN
    <3>1. req[r] \in Migration
      BY <1>0, <2>1, Kinds DEF ReportMigration
    <3> QED
      BY <2>1 DEF ReportMigration, TypeOK
  <2> QED
    BY <2>1, Frames DEF SetImage, TypeOK
<1>7. wronged' \subseteq Tasks
  BY Frames DEF DeleteUseless, Stored, TypeOK
<1>8. torn' \in BOOLEAN
  BY Frames DEF BreakOff, TypeOK
<1>9. overlaps' \subseteq Harm
  <2>1. ASSUME NEW r \in Requests, Overlapped(r) PROVE overlaps' \subseteq Harm
    BY <2>1 DEF Overlapped, TypeOK
  <2>2. ASSUME NEW r \in Requests, MigrateImage(r) PROVE overlaps' \subseteq Harm
    BY <2>2 DEF MigrateImage, Harm, TypeOK
  <2>3. ASSUME NEW r \in Requests, ProjectNext(r) \/ TaskNext(r)
        PROVE  Overlapped(r) \/ overlaps' = overlaps
    BY <2>3 DEF ProjectNext, TaskNext, ReadAreas, WriteAreas, ReadAvailable, WriteAvailable,
                CheckTask, StartBulk, CreateTask, InsertBulk, ReadForCleanup, DeleteUseless,
                history
  <2>4. ASSUME NEW r \in Requests, ImageNext(r)
        PROVE  MigrateImage(r) \/ overlaps' = overlaps
    BY <2>4 DEF ImageNext, StartMigration, ReadBadges, ReportMigration, history
  <2>5. CASE \/ \E r \in Requests : BreakOff(r)
             \/ Reoffers
             \/ \E t \in Tasks : \/ RemoveTask(t)
                                 \/ \E fields \in Task : UpdateTask(t, fields)
             \/ \E s \in Slots, i \in Images : SetImage(s, i)
             \/ UNCHANGED vars
    BY <2>5 DEF BreakOff, Reoffers, UpdateOffer, RemoveTask, UpdateTask, SetImage, vars,
                history, TypeOK
  <2> QED
    BY <2>1, <2>2, <2>3, <2>4, <2>5 DEF Next, Reoffers, TypeOK
<1> QED
  BY <1>0, <1>1, <1>2, <1>3, <1>4, <1>5, <1>6, <1>7, <1>8, <1>9 DEF TypeOK

LEMMA TypeInit == Init => TypeOK
<1> SUFFICES ASSUME Init PROVE TypeOK
  OBVIOUS
<1>1. DOMAIN tasks = {}
  BY DEF Init
<1>2. req \in [Requests -> Request]
  BY DEF Init, Request
<1> QED
  BY <1>1, <1>2 DEF Init, TypeOK

\* The project, its tasks, its images and the requests are always well formed.
THEOREM CatalogueTyped == Spec => []TypeOK
  BY TypeInit, TypeStep, PTL DEF Spec

-----------------------------------------------------------------------------
(* The project document. *)

\* An update of the areas that was not overlapped keeps every area there is.
AreasInv ==
    /\ AreasKept
    /\ \A r \in Requests :
          (req[r].at = "areas" /\ "areas" \notin req[r].beside) =>
              \A a \in Areas : areas[a] # "none" => req[r].write[a] # "none"

\* A toggle that was not overlapped writes the opposite of what is stored.
OpenInv ==
    /\ OpenAsToggled
    /\ \A r \in Requests :
          (req[r].at = "toggle" /\ "toggle" \notin req[r].beside) =>
              req[r].write = ~ available

LEMMA AreasStep ==
    ASSUME TypeOK, AreasInv, [Next]_vars
    PROVE  AreasInv'
<1>0. req \in [Requests -> Request] /\ overlaps \subseteq overlaps'
  BY Frames DEF TypeOK
<1>1. ASSUME NEW q \in Requests, req'[q].at = "areas", "areas" \notin req'[q].beside,
             NEW a \in Areas, areas'[a] # "none"
      PROVE  req'[q].write[a] # "none"
  <2>1. CASE Kept(q)
    <3>1. /\ req[q].at = "areas" /\ req'[q].write = req[q].write /\ "areas" \notin req[q].beside
      BY <1>0, <1>1, <2>1, KeptFields
    <3>2. CASE areas' = areas
      BY <1>1, <3>1, <3>2 DEF AreasInv
    <3>3. ASSUME NEW r \in Requests, WriteAreas(r) PROVE FALSE
      <4>1. Written("areas", {r})
        BY <3>3 DEF WriteAreas
      <4>2. q # r
        BY <1>0, <1>1, <4>1, WrittenEffect DEF Ends, Idle, Writes
      <4> QED
        BY <1>0, <1>1, <3>1, <4>1, <4>2, WrittenEffect DEF Harm, Writes
    <3> QED
      BY <3>2, <3>3, Frames
  <2>2. CASE Ends(q)
    BY <1>1, <2>2 DEF Ends, Idle
  <2>3. CASE Begins(q)
    <3>1. PICK new \in SUBSET Areas : ReadAreas(q, new)
      BY <1>0, <1>1, <2>3 DEF Begins, ReadAvailable, CheckTask, StartBulk, ReadForCleanup,
                              StartMigration, Pending
    <3>2. req'[q].write = NewFeatures(areas, new) /\ areas' = areas
      BY <1>0, <3>1 DEF ReadAreas, Pending, project
    <3> QED
      BY <1>1, <3>2 DEF NewFeatures
  <2>4. CASE Migrates(q)
    BY <1>1, <2>4, Migrated
  <2> QED
    BY <2>1, <2>2, <2>3, <2>4, Carried
<1>2. AreasKept'
  <2>1. CASE UNCHANGED <<areas, everOn>>
    BY <1>0, <2>1 DEF AreasInv, AreasKept, Harmless
  <2>2. ASSUME NEW r \in Requests, WriteAreas(r) PROVE AreasKept'
    <3> SUFFICES ASSUME <<"areas", "areas">> \notin overlaps', NEW a \in everOn'
                 PROVE  areas'[a] # "none"
      BY DEF AreasKept, Harmless
    <3>1. "areas" \notin req[r].beside /\ <<"areas", "areas">> \notin overlaps
      BY <2>2 DEF WriteAreas, Overlapped, Harm
    <3>2. overlaps \cap ({"areas"} \X {"areas"}) = {}
      BY <3>1
    <3>3. a \in Areas /\ (a \in everOn \/ req[r].write[a] = "on")
      BY <2>2 DEF WriteAreas, TypeOK
    <3>4. a \in everOn => areas[a] # "none"
      BY <3>2 DEF AreasInv, AreasKept, Harmless
    <3> QED
      BY <2>2, <3>1, <3>3, <3>4 DEF AreasInv, WriteAreas
  <2> QED
    BY <2>1, <2>2, Frames
<1> QED
  BY <1>1, <1>2 DEF AreasInv

LEMMA OpenStep ==
    ASSUME TypeOK, OpenInv, [Next]_vars
    PROVE  OpenInv'
<1>0. req \in [Requests -> Request] /\ overlaps \subseteq overlaps'
  BY Frames DEF TypeOK
<1>1. ASSUME NEW q \in Requests, req'[q].at = "toggle", "toggle" \notin req'[q].beside
      PROVE  req'[q].write = ~ available'
  <2>1. CASE Kept(q)
    <3>1. /\ req[q].at = "toggle" /\ req'[q].write = req[q].write /\ "toggle" \notin req[q].beside
      BY <1>0, <1>1, <2>1, KeptFields
    <3>2. CASE available' = available
      BY <1>1, <3>1, <3>2 DEF OpenInv
    <3>3. ASSUME NEW r \in Requests, WriteAvailable(r) PROVE FALSE
      <4>1. Written("toggle", {r})
        BY <3>3 DEF WriteAvailable
      <4>2. q # r
        BY <1>0, <1>1, <4>1, WrittenEffect DEF Ends, Idle, Writes
      <4> QED
        BY <1>0, <1>1, <3>1, <4>1, <4>2, WrittenEffect DEF Harm, Writes
    <3> QED
      BY <3>2, <3>3, Frames
  <2>2. CASE Ends(q)
    BY <1>1, <2>2 DEF Ends, Idle
  <2>3. CASE Begins(q)
    <3>1. ReadAvailable(q)
      BY <1>0, <1>1, <2>3 DEF Begins, ReadAreas, CheckTask, StartBulk, ReadForCleanup,
                              StartMigration, Pending
    <3> QED
      BY <1>0, <3>1 DEF ReadAvailable, Pending, project, Toggled
  <2>4. CASE Migrates(q)
    BY <1>1, <2>4, Migrated
  <2> QED
    BY <2>1, <2>2, <2>3, <2>4, Carried
<1>2. OpenAsToggled'
  <2>1. CASE UNCHANGED <<available, toggles>>
    BY <1>0, <2>1 DEF OpenInv, OpenAsToggled, Harmless
  <2>2. ASSUME NEW r \in Requests, WriteAvailable(r) PROVE OpenAsToggled'
    <3> SUFFICES ASSUME <<"toggle", "toggle">> \notin overlaps'
                 PROVE  available' = toggles'
      BY DEF OpenAsToggled, Harmless
    <3>1. "toggle" \notin req[r].beside /\ <<"toggle", "toggle">> \notin overlaps
      BY <2>2 DEF WriteAvailable, Overlapped, Harm
    <3>2. overlaps \cap ({"toggle"} \X {"toggle"}) = {}
      BY <3>1
    <3>3. available = toggles
      BY <3>2 DEF OpenInv, OpenAsToggled, Harmless
    <3> QED
      BY <2>2, <3>1, <3>3 DEF OpenInv, WriteAvailable
  <2> QED
    BY <2>1, <2>2, Frames
<1> QED
  BY <1>1, <1>2 DEF OpenInv

\* The project document is what its updates asked for: no area that was ever
\* offered is forgotten, and the project is open as the toggles leave it, unless
\* two updates of the same overlapped.
THEOREM ProjectStaysAsSet == Spec => []ProjectAsSet
<1>1. Init => TypeOK /\ AreasInv /\ OpenInv
  <2>1. ASSUME Init PROVE AreasInv /\ OpenInv
    <3>1. \A r \in Requests : req[r].at = "idle"
      BY <2>1 DEF Init, Idle
    <3> QED
      BY <2>1, <3>1 DEF Init, AreasInv, OpenInv, AreasKept, OpenAsToggled
  <2> QED
    BY <2>1, TypeInit
<1>2. TypeOK /\ AreasInv /\ OpenInv /\ [Next]_vars => TypeOK' /\ AreasInv' /\ OpenInv'
  BY TypeStep, AreasStep, OpenStep
<1>3. AreasInv /\ OpenInv => ProjectAsSet
  BY DEF AreasInv, OpenInv, ProjectAsSet
<1> QED
  BY <1>1, <1>2, <1>3, PTL DEF Spec

-----------------------------------------------------------------------------
(* Tasks. *)

\* A cleanup that was not overlapped holds the project as it is; a creation the
\* same, of a task whose type and area the project has.
SweepInv ==
    /\ SweepSound
    /\ \A r \in Requests :
          /\ (req[r].at = "cleanup" /\ req[r].beside \cap {"areas", "offer"} = {}) =>
                 req[r].write = [types |-> types, intervals |-> intervals, areas |-> Enabled]
          /\ (req[r].at = "create" /\ req[r].beside = {}) =>
                 req[r].write \in Task /\ CanCreate(req[r].write)

\* While a bulk save that was not overlapped is between its calls there is no task.
BulkInv ==
    /\ TasksAsAnswered
    /\ \A r \in Requests :
          (req[r].at = "bulk" /\ req[r].beside \cap {"bulk", "create"} = {}) => Stored = {}

\* A write of the areas or of the types reaches each cleanup and each creation.
LEMMA Noticed ==
    ASSUME TypeOK, [Next]_vars, NEW q \in Requests, req'[q].at \in {"cleanup", "create"},
           req'[q].beside \cap {"areas", "offer"} = {}
    PROVE  UNCHANGED <<areas, types, intervals>>
<1>0. req \in [Requests -> Request]
  BY DEF TypeOK
<1>1. ASSUME NEW l \in {"areas", "offer"}, NEW done, Written(l, done) PROVE FALSE
  <2>1. l \in Writes
    BY DEF Writes
  <2>2. q \notin done
    BY <1>0, <1>1, <2>1, WrittenEffect DEF Ends, Idle
  <2>3. Kept(q) /\ (<<req[q].at, l>> \in Harm => l \in req'[q].beside)
    BY <1>0, <1>1, <2>1, <2>2, WrittenEffect
  <2>4. req[q].at \in {"cleanup", "create"}
    BY <1>0, <2>3, KeptFields
  <2> QED
    BY <2>3, <2>4 DEF Harm
<1> QED
  BY <1>1, Frames DEF WriteAreas, Reoffers, UpdateOffer

LEMMA SweepStep ==
    ASSUME TypeOK, SweepInv, [Next]_vars
    PROVE  SweepInv'
<1>0. req \in [Requests -> Request] /\ overlaps \subseteq overlaps'
  BY Frames DEF TypeOK
<1>1. ASSUME NEW q \in Requests, req'[q].at = "cleanup",
             req'[q].beside \cap {"areas", "offer"} = {}
      PROVE  req'[q].write = [types |-> types', intervals |-> intervals', areas |-> Enabled']
  <2>0. Enabled' = Enabled /\ types' = types /\ intervals' = intervals
    BY <1>1, Noticed DEF Enabled
  <2>1. CASE Kept(q)
    <3>1. /\ req[q].at = "cleanup" /\ req'[q].write = req[q].write
          /\ req[q].beside \cap {"areas", "offer"} = {}
      BY <1>0, <1>1, <2>1, KeptFields
    <3> QED
      BY <2>0, <3>1 DEF SweepInv
  <2>2. CASE Ends(q)
    BY <1>1, <2>2 DEF Ends, Idle
  <2>3. CASE Begins(q)
    <3>1. ReadForCleanup(q)
      BY <1>0, <1>1, <2>3 DEF Begins, ReadAreas, ReadAvailable, CheckTask, StartBulk,
                              StartMigration, Pending
    <3> QED
      BY <1>0, <2>0, <3>1 DEF ReadForCleanup, Pending
  <2>4. CASE Migrates(q)
    BY <1>1, <2>4, Migrated
  <2> QED
    BY <2>1, <2>2, <2>3, <2>4, Carried
<1>2. ASSUME NEW q \in Requests, req'[q].at = "create", req'[q].beside = {}
      PROVE  /\ req'[q].write \in Task /\ req'[q].write.type \in types'
             /\ req'[q].write.area \in Enabled'
  <2>0. types' = types /\ Enabled' = Enabled
    BY <1>2, Noticed DEF Enabled
  <2>1. CASE Kept(q)
    <3>1. req[q].at = "create" /\ req'[q].write = req[q].write /\ req[q].beside = {}
      BY <1>0, <1>2, <2>1, KeptFields
    <3> QED
      BY <2>0, <3>1 DEF SweepInv, CanCreate
  <2>2. CASE Ends(q)
    BY <1>2, <2>2 DEF Ends, Idle
  <2>3. CASE Begins(q)
    <3>1. PICK fields \in Task : CheckTask(q, fields)
      BY <1>0, <1>2, <2>3 DEF Begins, ReadAreas, ReadAvailable, StartBulk, ReadForCleanup,
                              StartMigration, Pending
    <3>2. req'[q].write = fields
      BY <1>0, <3>1 DEF CheckTask, Pending
    <3> QED
      BY <2>0, <3>1, <3>2 DEF CheckTask, CanCreate
  <2>4. CASE Migrates(q)
    BY <1>2, <2>4, Migrated
  <2> QED
    BY <2>1, <2>2, <2>3, <2>4, Carried
<1>3. ASSUME NEW r \in Requests, DeleteUseless(r),
             req[r].beside \cap {"areas", "offer"} = {}, NEW t \in Stored
      PROVE  Useless(tasks[t], req[r].write) <=> ~ Offered(tasks[t])
  <2>1. req[r].write = [types |-> types, intervals |-> intervals, areas |-> Enabled]
    BY <1>3 DEF SweepInv, DeleteUseless
  <2>2. tasks[t] \in Task
    BY DEF Stored, TypeOK
  <2> QED
    BY <2>1, <2>2 DEF Useless, Offered, Combinations, Task
<1>4. ASSUME swept', NEW t \in Stored' PROVE tasks'[t] \in Combinations'
  <2>1. ASSUME NEW r \in Requests, CreateTask(r) PROVE tasks'[t] \in Combinations'
    <3>1. swept /\ req[r].beside = {} /\ Combinations' = Combinations
      BY <1>4, <2>1 DEF CreateTask, project, Combinations, Enabled
    <3>2. Offered(req[r].write)
      BY <1>4, <2>1, <3>1 DEF SweepInv, CreateTask, CanCreate, Offered, Combinations
    <3>3. tasks'[t] = req[r].write \/ (t \in Stored /\ tasks'[t] = tasks[t])
      BY <2>1 DEF CreateTask, New, Stored
    <3> QED
      BY <3>1, <3>2, <3>3 DEF SweepInv, SweepSound, Offered
  <2>2. ASSUME NEW r \in Requests, DeleteUseless(r) PROVE tasks'[t] \in Combinations'
    <3>1. /\ req[r].beside \cap {"areas", "offer"} = {} /\ Combinations' = Combinations
          /\ t \in Stored /\ tasks'[t] = tasks[t] /\ ~ Useless(tasks[t], req[r].write)
      BY <1>4, <2>2 DEF DeleteUseless, Only, Stored, project, Combinations, Enabled
    <3> QED
      BY <1>3, <2>2, <3>1 DEF Offered
  <2>3. ASSUME NEW r \in Requests, NEW list, StartBulk(r, list) PROVE tasks'[t] \in Combinations'
    <3>1. DOMAIN tasks' = {}
      BY <2>3 DEF StartBulk
    <3> QED
      BY <3>1 DEF Stored
  <2>4. ASSUME NEW u \in Tasks, RemoveTask(u) PROVE tasks'[t] \in Combinations'
    <3>1. swept /\ t \in Stored /\ tasks'[t] = tasks[t] /\ Combinations' = Combinations
      BY <1>4, <2>4 DEF RemoveTask, Only, Stored, project, Combinations, Enabled
    <3> QED
      BY <3>1 DEF SweepInv, SweepSound, Offered
  <2>5. CASE UNCHANGED <<tasks, expected, swept, areas, types, intervals>>
    <3>1. Combinations' = Combinations /\ tasks' = tasks /\ swept
      BY <1>4, <2>5 DEF Combinations, Enabled
    <3> QED
      BY <3>1 DEF SweepInv, SweepSound, Offered, Stored
  <2>6. CASE \/ \E r \in Requests : WriteAreas(r) \/ InsertBulk(r)
             \/ Reoffers
             \/ \E u \in Tasks, fields \in Task : UpdateTask(u, fields)
    BY <1>4, <2>6 DEF WriteAreas, InsertBulk, Reoffers, UpdateOffer, UpdateTask
  <2>7. UNCHANGED <<areas, types, intervals>> \/ (\E r \in Requests : WriteAreas(r))
        \/ Reoffers
    BY Frames
  <2> QED
    BY <2>1, <2>2, <2>3, <2>4, <2>5, <2>6, <2>7, Frames
<1>5. Harmless({"cleanup"}, {"areas", "offer"})' => wronged' = {}
  <2> SUFFICES ASSUME <<"cleanup", "areas">> \notin overlaps',
                      <<"cleanup", "offer">> \notin overlaps'
               PROVE  wronged' = {}
    BY DEF Harmless
  <2>1. Harmless({"cleanup"}, {"areas", "offer"})
    BY <1>0 DEF Harmless
  <2>2. wronged = {}
    BY <2>1 DEF SweepInv, SweepSound
  <2>3. ASSUME NEW r \in Requests, DeleteUseless(r) PROVE wronged' = {}
    <3>1. req[r].beside \cap {"areas", "offer"} = {}
      BY <2>3 DEF DeleteUseless, Overlapped, Harm
    <3>2. wronged' = wronged \cup {t \in {u \in Stored : Useless(tasks[u], req[r].write)} :
                                      Offered(tasks[t])}
      BY <2>3 DEF DeleteUseless
    <3> QED
      BY <1>3, <2>2, <2>3, <3>1, <3>2
  <2> QED
    BY <2>2, <2>3, Frames
<1> QED
  BY <1>1, <1>2, <1>4, <1>5 DEF SweepInv, SweepSound, Offered, CanCreate

\* After a cleanup every task is one the project offers until the project or a task
\* changes or a task is created within an interval the project has not, and
\* no cleanup that was not overlapped deletes a task the project offers.
THEOREM SweepsAreSound == Spec => []SweepSound
<1>1. Init => TypeOK /\ SweepInv
  <2>1. ASSUME Init PROVE SweepInv
    <3>1. \A r \in Requests : req[r].at = "idle"
      BY <2>1 DEF Init, Idle
    <3> QED
      BY <2>1, <3>1 DEF Init, SweepInv, SweepSound
  <2> QED
    BY <2>1, TypeInit
<1>2. TypeOK /\ SweepInv /\ [Next]_vars => TypeOK' /\ SweepInv'
  BY TypeStep, SweepStep
<1>3. SweepInv => SweepSound
  BY DEF SweepInv
<1> QED
  BY <1>1, <1>2, <1>3, PTL DEF Spec

\* A bulk save ends by its insertion, or is broken off.
LEMMA BulkEnds ==
    ASSUME TypeOK, [Next]_vars, NEW q \in Requests, req[q].at = "bulk",
           req'[q].at # "bulk"
    PROVE  InsertBulk(q) \/ BreakOff(q)
<1>0. req \in [Requests -> Request] /\ ~ Kept(q)
  BY KeptFields DEF TypeOK
<1>1. ASSUME NEW r \in Requests, Begins(r) PROVE FALSE
  <2>1. r = q
    BY <1>0, <1>1, Started
  <2> QED
    BY <1>1, <2>1 DEF Begins, ReadAreas, ReadAvailable, CheckTask, StartBulk, ReadForCleanup,
                      StartMigration, Idle
<1>2. ASSUME NEW r \in Requests, Migrates(r) PROVE FALSE
  <2>1. r = q
    BY <1>0, <1>2, Migrated
  <2> QED
    BY <1>2, <2>1, Migrated DEF Migration
<1>3. ASSUME NEW r \in Requests, NEW l \in Writes, Written(l, {r}) PROVE r = q
  <2>1. \A p \in Requests \ {r} : Kept(p)
    BY <1>0, <1>3, WrittenEffect
  <2> QED
    BY <1>0, <2>1
<1>4. ASSUME NEW l \in Writes, Written(l, {}) PROVE FALSE
  <2>1. \A p \in Requests \ {} : Kept(p)
    BY <1>0, <1>4, WrittenEffect
  <2> QED
    BY <1>0, <2>1
<1>5. ASSUME NEW r \in Requests, req' = [req EXCEPT ![r] = Idle] PROVE r = q
  BY <1>0, <1>5, OneMoves DEF Request
<1>6. ASSUME req' = req PROVE FALSE
  BY <1>6
<1>7. ASSUME NEW r \in Requests, WriteAreas(r) \/ WriteAvailable(r) \/ CreateTask(r) PROVE FALSE
  <2>1. PICK l \in Writes : Written(l, {r})
    BY <1>7 DEF WriteAreas, WriteAvailable, CreateTask, Writes
  <2>2. r = q
    BY <1>3, <2>1
  <2> QED
    BY <1>7, <2>2 DEF WriteAreas, WriteAvailable, CreateTask
<1>8. ASSUME NEW r \in Requests, InsertBulk(r) PROVE InsertBulk(q)
  <2>1. Written("bulk", {r}) /\ "bulk" \in Writes
    BY <1>8 DEF InsertBulk, Writes
  <2> QED
    BY <1>3, <1>8, <2>1
<1>9. ASSUME NEW r \in Requests, DeleteUseless(r) \/ ReportMigration(r) PROVE FALSE
  <2>1. r = q
    BY <1>5, <1>9 DEF DeleteUseless, ReportMigration
  <2> QED
    BY <1>9, <2>1 DEF DeleteUseless, ReportMigration
<1>10. ASSUME NEW r \in Requests, BreakOff(r) PROVE BreakOff(q)
  BY <1>5, <1>10 DEF BreakOff
<1>11. ASSUME Reoffers PROVE FALSE
  BY <1>4, <1>11 DEF Reoffers, UpdateOffer, Writes
<1>12. ASSUME NEW s \in Slots, NEW i \in Images, SetImage(s, i) PROVE FALSE
  BY <1>4, <1>12 DEF SetImage, Writes
<1>13. CASE \/ \E t \in Tasks : \/ RemoveTask(t)
                                \/ \E fields \in Task : UpdateTask(t, fields)
            \/ UNCHANGED vars
  BY <1>6, <1>13 DEF RemoveTask, UpdateTask, vars
<1>14. ASSUME NEW r \in Requests, ProjectNext(r) \/ TaskNext(r) \/ ImageNext(r) \/ BreakOff(r)
       PROVE  \/ Begins(r) \/ Migrates(r)
              \/ WriteAreas(r) \/ WriteAvailable(r) \/ CreateTask(r) \/ InsertBulk(r)
              \/ DeleteUseless(r) \/ ReportMigration(r) \/ BreakOff(r)
  BY <1>14 DEF ProjectNext, TaskNext, ImageNext, Begins, Migrates
<1> QED
  BY <1>1, <1>2, <1>7, <1>8, <1>9, <1>10, <1>11, <1>12, <1>13, <1>14 DEF Next, Reoffers

LEMMA BulkStep ==
    ASSUME TypeOK, BulkInv, [Next]_vars
    PROVE  BulkInv'
<1>0. req \in [Requests -> Request] /\ overlaps \subseteq overlaps'
  BY Frames DEF TypeOK
<1>1. ASSUME NEW q \in Requests, req'[q].at = "bulk", req'[q].beside \cap {"bulk", "create"} = {}
      PROVE  Stored' = {}
  <2>1. CASE Kept(q)
    <3>1. req[q].at = "bulk" /\ req[q].beside \cap {"bulk", "create"} = {}
      BY <1>0, <1>1, <2>1, KeptFields
    <3>2. Stored = {}
      BY <3>1 DEF BulkInv
    <3>3. ASSUME NEW r \in Requests, NEW l \in {"bulk", "create"}, Written(l, {r}) PROVE FALSE
      <4>1. l \in Writes /\ <<req[q].at, l>> \in Harm
        BY <3>1 DEF Writes, Harm
      <4>2. q # r
        BY <1>0, <1>1, <3>3, <4>1, WrittenEffect DEF Ends, Idle
      <4> QED
        BY <1>0, <1>1, <3>3, <4>1, <4>2, WrittenEffect
    <3>4. CASE \E r \in Requests : CreateTask(r) \/ InsertBulk(r)
      BY <3>3, <3>4 DEF CreateTask, InsertBulk
    <3>5. CASE \E r \in Requests : DeleteUseless(r)
      BY <3>2, <3>5 DEF DeleteUseless, Only, Stored
    <3>6. CASE \E r \in Requests, list \in SUBSET Task : StartBulk(r, list)
      <4>1. DOMAIN tasks' = {}
        BY <3>6 DEF StartBulk
      <4> QED
        BY <4>1 DEF Stored
    <3>7. CASE \E t \in Tasks : RemoveTask(t) \/ \E fields \in Task : UpdateTask(t, fields)
      BY <3>2, <3>7 DEF RemoveTask, UpdateTask
    <3>8. CASE tasks' = tasks
      BY <3>2, <3>8 DEF Stored
    <3> QED
      BY <3>4, <3>5, <3>6, <3>7, <3>8, Frames DEF WriteAreas, Reoffers, UpdateOffer
  <2>2. CASE Ends(q)
    BY <1>1, <2>2 DEF Ends, Idle
  <2>3. CASE Begins(q)
    <3>1. PICK list \in SUBSET Task : StartBulk(q, list)
      BY <1>0, <1>1, <2>3 DEF Begins, ReadAreas, ReadAvailable, CheckTask, ReadForCleanup,
                              StartMigration, Pending
    <3>2. DOMAIN tasks' = {}
      BY <3>1 DEF StartBulk
    <3> QED
      BY <3>2 DEF Stored
  <2>4. CASE Migrates(q)
    BY <1>1, <2>4, Migrated
  <2> QED
    BY <2>1, <2>2, <2>3, <2>4, Carried
<1>2. TasksAsAnswered'
  <2> SUFFICES ASSUME ~ torn', <<"bulk", "bulk">> \notin overlaps',
                      <<"bulk", "create">> \notin overlaps',
                      \A r \in Requests : req'[r].at # "bulk"
               PROVE  Stored' = expected'
    BY DEF TasksAsAnswered, Harmless
  <2>1. /\ Harmless({"bulk"}, {"bulk", "create"})
        /\ ~ torn
    BY <1>0, Frames DEF Harmless, BreakOff, TypeOK
  <2>2. ASSUME NEW q \in Requests, req[q].at = "bulk" PROVE Stored' = expected'
    <3>1. InsertBulk(q)
      BY <2>2, BulkEnds DEF BreakOff
    <3>2. req[q].beside \cap {"bulk", "create"} = {}
      BY <3>1 DEF InsertBulk, Overlapped, Harm
    <3>3. Stored = {}
      BY <2>2, <3>2 DEF BulkInv
    <3>4. PICK ids : /\ DOMAIN tasks' = Stored \cup ids /\ expected' = ids
      BY <3>1 DEF InsertBulk
    <3> QED
      BY <3>3, <3>4 DEF Stored
  <2>3. CASE \A r \in Requests : req[r].at # "bulk"
    <3>1. Stored = expected
      BY <2>1, <2>3 DEF BulkInv, TasksAsAnswered
    <3>2. CASE \E r \in Requests : CreateTask(r)
      <4>1. PICK t, fields : tasks' = New(t, fields) /\ expected' = expected \cup {t}
        BY <3>2 DEF CreateTask
      <4> QED
        BY <3>1, <4>1 DEF New, Stored
    <3>3. CASE \E r \in Requests : DeleteUseless(r)
      BY <3>1, <3>3 DEF DeleteUseless, Only, Stored
    <3>4. CASE \E t \in Tasks : RemoveTask(t) \/ \E fields \in Task : UpdateTask(t, fields)
      BY <3>1, <3>4 DEF RemoveTask, UpdateTask, Only, Stored
    <3>5. CASE UNCHANGED <<tasks, expected>>
      BY <3>1, <3>5 DEF Stored
    <3>6. CASE \E r \in Requests : InsertBulk(r) \/ \E list \in SUBSET Task : StartBulk(r, list)
      BY <1>0, <2>3, <3>6 DEF InsertBulk, StartBulk
    <3> QED
      BY <3>2, <3>3, <3>4, <3>5, <3>6, Frames DEF WriteAreas, Reoffers, UpdateOffer
  <2> QED
    BY <2>2, <2>3
<1> QED
  BY <1>1, <1>2 DEF BulkInv

\* The tasks are those the answered creations, bulk saves and deletions leave,
\* unless a bulk save was broken off or overlapped another insertion.
THEOREM TasksStayAsAnswered == Spec => []TasksAsAnswered
<1>1. Init => TypeOK /\ BulkInv
  <2>1. ASSUME Init PROVE BulkInv
    <3>1. \A r \in Requests : req[r].at = "idle"
      BY <2>1 DEF Init, Idle
    <3>2. DOMAIN tasks = {} /\ expected = {}
      BY <2>1 DEF Init
    <3> QED
      BY <3>1, <3>2 DEF BulkInv, TasksAsAnswered, Stored
  <2> QED
    BY <2>1, TypeInit
<1>2. TypeOK /\ BulkInv /\ [Next]_vars => TypeOK' /\ BulkInv'
  BY TypeStep, BulkStep
<1>3. BulkInv => TasksAsAnswered
  BY DEF BulkInv
<1> QED
  BY <1>1, <1>2, <1>3, PTL DEF Spec

-----------------------------------------------------------------------------
(* Images. *)

Untouched(r) == req[r].at = "migrate" /\ req[r].beside = {}

\* A migration beside which no image was set holds the images as they are wanted.
ImagesInv ==
    /\ ImagesAsSet
    /\ Harmless({"migrate"}, {"image"}) =>
          \A r \in Requests : Untouched(r) =>
              \A s \in DOMAIN req[r].write : req[r].write[s] = wanted[s]

\* If it has also failed nowhere, what is left on another site of what it has
\* read is still before it.
CompleteInv ==
    /\ MigrationComplete
    /\ \A r \in Requests : (Untouched(r) /\ ~ req[r].failed) =>
          \A s \in Slots : (image[s] \in Images /\ (req[r].badges \/ s = Cover)) =>
                              s \in DOMAIN req[r].write

\* An image that is set is noticed by every migration.
LEMMA NoneSet ==
    ASSUME TypeOK, [Next]_vars, NEW q \in Requests, req'[q].at = "migrate",
           req'[q].beside = {}, NEW s \in Slots, NEW i \in Images
    PROVE  ~ SetImage(s, i)
<1> SUFFICES ASSUME SetImage(s, i) PROVE FALSE
  OBVIOUS
<1>1. Written("image", {}) /\ "image" \in Writes /\ req \in [Requests -> Request]
  BY DEF SetImage, Writes, TypeOK
<1>2. Kept(q) /\ (<<req[q].at, "image">> \in Harm => "image" \in req'[q].beside)
  BY <1>1, WrittenEffect
<1>3. req[q].at = "migrate"
  BY <1>1, <1>2, KeptFields
<1> QED
  BY <1>2, <1>3 DEF Harm

\* What dealing with one image does.
LEMMA MigrateEffect ==
    ASSUME TypeOK, NEW r \in Requests, MigrateImage(r)
    PROVE  \E s \in DOMAIN req[r].write :
              /\ s \in Slots /\ req[r].write[s] \in Images
              /\ DOMAIN req'[r].write = DOMAIN req[r].write \ {s}
              /\ \A u \in DOMAIN req'[r].write : req'[r].write[u] = req[r].write[u]
              /\ req'[r].badges = req[r].badges
              /\ \/ /\ image' = [image EXCEPT ![s] = [copy |-> req[r].write[s]]]
                    /\ req[r].beside # {} => <<"migrate", "image">> \in overlaps'
                    /\ ~ req'[r].failed => ~ req[r].failed
                 \/ image' = image /\ req'[r].failed
              /\ wanted' = wanted
<1>1. req \in [Requests -> Request] /\ req[r] \in Migration
  BY Kinds DEF TypeOK, MigrateImage
<1>2. PICK slots \in SUBSET Slots : req[r].write \in [slots -> Images]
  BY <1>1 DEF Migration
<1>3. PICK s \in DOMAIN req[r].write, ok \in BOOLEAN :
         /\ image' = IF ok THEN [image EXCEPT ![s] = [copy |-> req[r].write[s]]] ELSE image
         /\ req' = [req EXCEPT ![r].write = Remaining(req[r], s), ![r].failed = @ \/ ~ ok]
         /\ ok /\ req[r].beside # {} => <<"migrate", "image">> \in overlaps'
  BY DEF MigrateImage, NextSlot
<1>4. /\ req'[r].write = Remaining(req[r], s)
      /\ req'[r].failed = (req[r].failed \/ ~ ok)
      /\ req'[r].badges = req[r].badges
  BY <1>1, <1>3 DEF Migration
<1>5. wanted' = wanted
  BY DEF MigrateImage
<1>6. req[r].failed \in BOOLEAN
  BY <1>1 DEF Migration
<1>7. CASE ok = TRUE
  BY <1>2, <1>3, <1>4, <1>5, <1>6, <1>7 DEF Remaining
<1>8. CASE ok = FALSE
  BY <1>2, <1>3, <1>4, <1>5, <1>6, <1>8 DEF Remaining
<1> QED
  BY <1>7, <1>8

LEMMA ImagesStep ==
    ASSUME TypeOK, ImagesInv, [Next]_vars
    PROVE  ImagesInv'
<1>0. /\ req \in [Requests -> Request] /\ overlaps \subseteq overlaps'
      /\ wanted \in [Slots -> Images] /\ image \in [Slots -> Images \cup Copies]
      /\ Images \cap Copies = {}
  BY Frames, CatalogueAssumption DEF TypeOK, CatalogueAssumption, Copies
<1> SUFFICES ASSUME <<"migrate", "image">> \notin overlaps'
             PROVE  /\ \A s \in Slots : image'[s] \in {wanted'[s], [copy |-> wanted'[s]]}
                    /\ \A r \in Requests :
                          (req'[r].at = "migrate" /\ req'[r].beside = {}) =>
                              \A s \in DOMAIN req'[r].write : req'[r].write[s] = wanted'[s]
  BY DEF ImagesInv, ImagesAsSet, Harmless, Untouched
<1>1. Harmless({"migrate"}, {"image"})
  BY <1>0 DEF Harmless
<1>2. /\ \A s \in Slots : image[s] \in {wanted[s], [copy |-> wanted[s]]}
      /\ \A r \in Requests : Untouched(r) =>
            \A s \in DOMAIN req[r].write : req[r].write[s] = wanted[s]
  BY <1>1 DEF ImagesInv, ImagesAsSet
<1>3. ASSUME NEW slots \in SUBSET Slots, NEW s \in DOMAIN ToCopy(slots)
      PROVE  ToCopy(slots)[s] = wanted[s]
  <2>1. s \in Slots /\ image[s] \in Images /\ ToCopy(slots)[s] = image[s]
    BY DEF ToCopy, External
  <2>2. [copy |-> wanted[s]] \in Copies
    BY <1>0, <2>1 DEF Copies
  <2> QED
    BY <1>0, <1>2, <2>1, <2>2
<1>4. \A s \in Slots : image'[s] \in {wanted'[s], [copy |-> wanted'[s]]}
  <2>1. ASSUME NEW s \in Slots, NEW i \in Images, SetImage(s, i)
        PROVE  \A u \in Slots : image'[u] \in {wanted'[u], [copy |-> wanted'[u]]}
    BY <1>0, <1>2, <2>1 DEF SetImage
  <2>2. ASSUME NEW r \in Requests, MigrateImage(r)
        PROVE  \A u \in Slots : image'[u] \in {wanted'[u], [copy |-> wanted'[u]]}
    <3>1. PICK s \in DOMAIN req[r].write :
             /\ s \in Slots
             /\ \/ /\ image' = [image EXCEPT ![s] = [copy |-> req[r].write[s]]]
                   /\ req[r].beside # {} => <<"migrate", "image">> \in overlaps'
                \/ image' = image
             /\ wanted' = wanted
      BY <2>2, MigrateEffect
    <3>2. CASE image' = image
      BY <1>2, <3>1, <3>2
    <3>3. CASE /\ image' = [image EXCEPT ![s] = [copy |-> req[r].write[s]]]
               /\ req[r].beside # {} => <<"migrate", "image">> \in overlaps'
      <4>1. Untouched(r)
        BY <2>2, <3>3 DEF Untouched, MigrateImage
      <4>2. req[r].write[s] = wanted[s]
        BY <1>2, <3>1, <4>1
      <4> QED
        BY <1>0, <1>2, <3>1, <3>3, <4>2
    <3> QED
      BY <3>1, <3>2, <3>3
  <2>3. CASE UNCHANGED <<image, wanted>>
    BY <1>2, <2>3
  <2> QED
    BY <2>1, <2>2, <2>3, Frames
<1>5. ASSUME NEW q \in Requests, req'[q].at = "migrate", req'[q].beside = {}
      PROVE  \A s \in DOMAIN req'[q].write : req'[q].write[s] = wanted'[s]
  <2>0. wanted' = wanted
    BY <1>5, NoneSet, Frames DEF MigrateImage
  <2>1. CASE Kept(q)
    <3>1. Untouched(q) /\ req'[q].write = req[q].write
      BY <1>0, <1>5, <2>1, KeptFields DEF Untouched
    <3> QED
      BY <1>2, <2>0, <3>1
  <2>2. CASE Ends(q)
    BY <1>5, <2>2 DEF Ends, Idle
  <2>3. CASE Begins(q)
    <3>1. StartMigration(q)
      BY <1>0, <1>5, <2>3 DEF Begins, ReadAreas, ReadAvailable, CheckTask, StartBulk,
                              ReadForCleanup, Pending
    <3>2. req'[q].write = ToCopy({Cover}) /\ {Cover} \subseteq Slots
      BY <1>0, <3>1, CatalogueAssumption DEF StartMigration, CatalogueAssumption
    <3> QED
      BY <1>3, <2>0, <3>2
  <2>4. CASE MigrateImage(q)
    <3>1. Untouched(q)
      BY <1>5, <2>4, Migrated DEF Untouched, Migrates, MigrateImage
    <3>2. PICK s \in DOMAIN req[q].write :
             /\ DOMAIN req'[q].write = DOMAIN req[q].write \ {s}
             /\ \A u \in DOMAIN req'[q].write : req'[q].write[u] = req[q].write[u]
      BY <2>4, MigrateEffect
    <3> QED
      BY <1>2, <2>0, <3>1, <3>2
  <2>5. CASE ReadBadges(q)
    <3>1. req[q] \in Migration
      BY <2>5, Migrated DEF Migrates
    <3>2. req'[q].write = ToCopy(Slots \ {Cover})
      BY <1>0, <2>5, <3>1 DEF ReadBadges, Migration
    <3> QED
      BY <1>3, <2>0, <3>2
  <2> QED
    BY <2>1, <2>2, <2>3, <2>4, <2>5, Carried DEF Migrates
<1> QED
  BY <1>4, <1>5

LEMMA CompleteStep ==
    ASSUME TypeOK, CompleteInv, [Next]_vars
    PROVE  CompleteInv'
<1>0. /\ req \in [Requests -> Request] /\ image \in [Slots -> Images \cup Copies]
      /\ Images \cap Copies = {} /\ Cover \in Slots
  BY CatalogueAssumption DEF TypeOK, CatalogueAssumption, Copies
\* Only a setting brings an image of another site.
<1>1. ASSUME \A s \in Slots, i \in Images : ~ SetImage(s, i)
      PROVE  \A u \in Slots : image'[u] \in Images => image[u] \in Images
  <2>1. ASSUME NEW r \in Requests, MigrateImage(r)
        PROVE  \A u \in Slots : image'[u] \in Images => image[u] \in Images
    <3>1. PICK s \in DOMAIN req[r].write :
             /\ req[r].write[s] \in Images
             /\ image' = image \/ image' = [image EXCEPT ![s] = [copy |-> req[r].write[s]]]
      BY <2>1, MigrateEffect
    <3>2. [copy |-> req[r].write[s]] \in Copies
      BY <3>1 DEF Copies
    <3> QED
      BY <1>0, <3>1, <3>2
  <2>2. image' = image \/ \E r \in Requests : MigrateImage(r)
    BY <1>1, Frames
  <2> QED
    BY <2>1, <2>2
<1>2. ASSUME NEW q \in Requests, req'[q].at = "migrate", req'[q].beside = {},
             ~ req'[q].failed, NEW u \in Slots, image'[u] \in Images,
             req'[q].badges \/ u = Cover
      PROVE  u \in DOMAIN req'[q].write
  <2>0. image[u] \in Images
    BY <1>1, <1>2, NoneSet
  <2>1. CASE Kept(q)
    <3>1. /\ Untouched(q) /\ ~ req[q].failed /\ req'[q].write = req[q].write
          /\ req'[q].badges = req[q].badges
      BY <1>0, <1>2, <2>1, KeptFields DEF Untouched
    <3> QED
      BY <1>2, <2>0, <3>1 DEF CompleteInv
  <2>2. CASE Ends(q)
    BY <1>2, <2>2 DEF Ends, Idle
  <2>3. CASE Begins(q)
    <3>1. StartMigration(q)
      BY <1>0, <1>2, <2>3 DEF Begins, ReadAreas, ReadAvailable, CheckTask, StartBulk,
                              ReadForCleanup, Pending
    <3>2. req'[q].write = ToCopy({Cover}) /\ ~ req'[q].badges
      BY <1>0, <3>1 DEF StartMigration
    <3> QED
      BY <1>2, <2>0, <3>2 DEF ToCopy, External
  <2>4. CASE MigrateImage(q)
    <3>1. Untouched(q)
      BY <1>2, <2>4, Migrated DEF Untouched, Migrates, MigrateImage
    <3>2. PICK s \in DOMAIN req[q].write :
             /\ s \in Slots /\ req[q].write[s] \in Images
             /\ DOMAIN req'[q].write = DOMAIN req[q].write \ {s}
             /\ req'[q].badges = req[q].badges /\ ~ req[q].failed
             /\ image' = [image EXCEPT ![s] = [copy |-> req[q].write[s]]]
      BY <1>2, <2>4, MigrateEffect
    <3>3. image'[s] \in Copies
      BY <1>0, <3>2 DEF Copies
    <3>4. u \in DOMAIN req[q].write
      BY <1>2, <2>0, <3>1, <3>2 DEF CompleteInv
    <3> QED
      BY <1>0, <1>2, <3>2, <3>3, <3>4
  <2>5. CASE ReadBadges(q)
    <3>1. Untouched(q) /\ req[q] \in Migration
      BY <1>2, <2>5, Migrated DEF Untouched, Migrates, ReadBadges
    <3>2. /\ req'[q].write = ToCopy(Slots \ {Cover}) /\ ~ req[q].failed
          /\ DOMAIN req[q].write = {}
      BY <1>0, <1>2, <2>5, <3>1 DEF ReadBadges, Migration
    <3>3. u # Cover
      BY <2>0, <3>1, <3>2 DEF CompleteInv
    <3> QED
      BY <2>0, <3>2, <3>3 DEF ToCopy, External
  <2> QED
    BY <2>1, <2>2, <2>3, <2>4, <2>5, Carried DEF Migrates
<1>3. MigrationComplete'
  <2> SUFFICES ASSUME copied', NEW u \in Slots, image'[u] \in Images PROVE FALSE
    BY DEF MigrationComplete, External
  <2>1. \A s \in Slots, i \in Images : ~ SetImage(s, i)
    BY DEF SetImage
  <2>2. image[u] \in Images
    BY <1>1, <2>1
  <2>3. CASE copied
    BY <2>2, <2>3 DEF CompleteInv, MigrationComplete, External
  <2>4. ASSUME NEW r \in Requests, ReportMigration(r), ~ copied PROVE FALSE
    <3>1. Untouched(r) /\ ~ req[r].failed /\ req[r].badges /\ DOMAIN req[r].write = {}
      BY <2>4 DEF ReportMigration, Untouched
    <3> QED
      BY <2>2, <3>1 DEF CompleteInv
  <2> QED
    BY <2>1, <2>3, <2>4, Frames
<1> QED
  BY <1>2, <1>3 DEF CompleteInv, Untouched

\* Each slot shows the image last set there or the stored copy of it, unless one was
\* set during a migration; and a migration that reports no failure leaves no image
\* on another site.
THEOREM ImagesAreKept == Spec => []ImagesKept
<1>1. Init => TypeOK /\ ImagesInv /\ CompleteInv
  <2>1. ASSUME Init PROVE ImagesInv /\ CompleteInv
    <3>1. \A r \in Requests : req[r].at = "idle"
      BY <2>1 DEF Init, Idle
    <3> QED
      BY <2>1, <3>1 DEF Init, ImagesInv, ImagesAsSet, CompleteInv, MigrationComplete, Untouched
  <2> QED
    BY <2>1, TypeInit
<1>2. TypeOK /\ ImagesInv /\ CompleteInv /\ [Next]_vars => TypeOK' /\ ImagesInv' /\ CompleteInv'
  BY TypeStep, ImagesStep, CompleteStep
<1>3. ImagesInv /\ CompleteInv => ImagesKept
  BY DEF ImagesInv, CompleteInv, ImagesKept
<1> QED
  BY <1>1, <1>2, <1>3, PTL DEF Spec
=============================================================================
