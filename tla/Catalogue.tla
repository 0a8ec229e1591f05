----------------------------- MODULE Catalogue -----------------------------
(***************************************************************************)
(* One project, its tasks and its images, as the admins work on them:       *)
(* project.service.ts, project.dao.ts, task.service.ts, task.dao.ts.        *)
(*                                                                         *)
(* A request that reads first and writes later is two steps, and nothing    *)
(* ties them together; the process may stop in between.                    *)
(***************************************************************************)
EXTENDS Naturals, FiniteSets

CONSTANTS
    Areas, Types, Intervals,    \* those a project or a body may name
    Tasks,          \* task ids: this bounds the tasks ever created
    Images,         \* image URLs of other sites
    Slots,          \* where an image is shown: the cover and the badges
    Cover,
    Requests        \* requests that may run at once

\* A stored copy is no image of another site.
ASSUME CatalogueAssumption ==
    /\ Cover \in Slots
    /\ Images \cap {[copy |-> i] : i \in Images} = {}

VARIABLES
    areas,          \* per area of the project, "on" or disabled, "off"
    types,          \* task types
    intervals,      \* time intervals
    available,
    tasks,          \* the stored tasks: a function of their ids
    image,          \* per slot, the image it shows
    req,
    \* history
    everOn,         \* the areas an answered update enabled
    toggles,        \* what the last answered toggle made of available
    expected,       \* the task ids the answered requests should leave
    torn,           \* a bulkSave was broken off after its deletion
    swept,          \* a cleanup was answered and nothing changed what it relies on
    wronged,        \* the offered tasks cleanups deleted
    wanted,         \* per slot, the image last set there
    copied,         \* a migration that failed nowhere was answered, no image set since
    overlaps        \* <<k, l>>: a request k wrote over a write l since its read

project == <<areas, types, intervals, available>>
history == <<everOn, toggles, expected, torn, swept, wronged, wanted, copied, overlaps>>
vars    == <<project, tasks, image, req, history>>

\* A task names a type, an area and an interval, which the project may not have.
Task   == [type : Types, area : Areas, interval : Intervals]
Copies == {[copy |-> i] : i \in Images}
Idle   == [at |-> "idle"]

\* What a request may have missed since it read: the writes that harm it.
Harm  == {<<"areas", "areas">>, <<"toggle", "toggle">>, <<"bulk", "bulk">>, <<"bulk", "create">>,
          <<"cleanup", "areas">>, <<"cleanup", "offer">>, <<"create", "areas">>,
          <<"create", "offer">>, <<"migrate", "image">>}

\* What a request does last, with what, and beside which writes.
Writes == {"areas", "offer", "toggle", "bulk", "create", "image"}
View   == [types : SUBSET Types, intervals : SUBSET Intervals, areas : SUBSET Areas]
Pend(kind, writes) == [at : {kind}, write : writes, beside : SUBSET Writes]
Migration ==
    [at : {"migrate"}, write : UNION {[slots -> Images] : slots \in SUBSET Slots},
     badges : BOOLEAN, failed : BOOLEAN, beside : SUBSET Writes]
Request ==
    {Idle} \cup Pend("areas", [Areas -> {"on", "off", "none"}]) \cup Pend("toggle", BOOLEAN)
        \cup Pend("create", Task) \cup Pend("bulk", SUBSET Task) \cup Pend("cleanup", View)
        \cup Migration

TypeOK ==
    /\ areas \in [Areas -> {"on", "off", "none"}]
    /\ types \subseteq Types /\ intervals \subseteq Intervals /\ available \in BOOLEAN
    /\ DOMAIN tasks \subseteq Tasks /\ \A t \in DOMAIN tasks : tasks[t] \in Task
    /\ image \in [Slots -> Images \cup Copies]
    /\ req \in [Requests -> Request]
    /\ everOn \subseteq Areas /\ expected \subseteq Tasks /\ wronged \subseteq Tasks
    /\ toggles \in BOOLEAN /\ torn \in BOOLEAN /\ swept \in BOOLEAN /\ copied \in BOOLEAN
    /\ wanted \in [Slots -> Images] /\ overlaps \subseteq Harm

\* A project without tasks, some areas and intervals and every type offered, its images
\* elsewhere.
Init ==
    /\ areas \in [Areas -> {"on", "none"}] /\ types = Types /\ intervals \in SUBSET Intervals
    /\ available = TRUE
    /\ tasks = <<>>
    /\ image \in [Slots -> Images]
    /\ req = [r \in Requests |-> Idle]
    /\ everOn = {a \in Areas : areas[a] = "on"} /\ toggles = TRUE /\ expected = {} /\ torn = FALSE
    /\ swept = FALSE /\ wronged = {} /\ wanted = image /\ copied = FALSE
    /\ overlaps = {}

Enabled == {a \in Areas : areas[a] = "on"}
Stored  == DOMAIN tasks

\* getTaskCombinations: every task the project offers; a disabled area has none.
Combinations == {t \in Task : t.type \in types /\ t.interval \in intervals /\ t.area \in Enabled}
Offered(t)   == t \in Combinations

Pending(r, kind, write) ==
    req' = [req EXCEPT ![r] = [at |-> kind, write |-> write, beside |-> {}]]

\* A write l ends the request that does it, if one does: those it can harm are
\* overlapped.
Written(l, done) ==
    req' = [q \in Requests |->
               IF q \in done THEN Idle
               ELSE IF req[q].at # "idle" /\ <<req[q].at, l>> \in Harm
                    THEN [req[q] EXCEPT !.beside = @ \cup {l}]
               ELSE req[q]]
Overlapped(r) ==
    overlaps' = overlaps \cup ({<<req[r].at, l>> : l \in req[r].beside} \cap Harm)

-----------------------------------------------------------------------------
(* The project document. *)

\* Slips a change could make; no step of Next takes them.
NewFeatures_Replaced(old, new) == [a \in Areas |-> IF a \in new THEN "on" ELSE "none"]

\* getNewFeaturesFor: an area no longer listed is kept, disabled.
NewFeatures(old, new) ==
    [a \in Areas |-> IF a \in new THEN "on" ELSE IF old[a] # "none" THEN "off" ELSE "none"]

ReadAreas(r, new) ==
    /\ req[r] = Idle
    /\ Pending(r, "areas", NewFeatures(areas, new))
    /\ UNCHANGED <<project, tasks, image, history>>

WriteAreas(r) ==
    /\ req[r].at = "areas"
    /\ areas' = req[r].write
    /\ everOn' = everOn \cup {a \in Areas : req[r].write[a] = "on"}
    /\ swept' = FALSE
    /\ Overlapped(r)
    /\ Written("areas", {r})
    /\ UNCHANGED <<types, intervals, available, tasks, image, toggles, expected, torn, wronged,
                   wanted, copied>>

\* An update of other fields: the same read, only to find the project, and a $set.
UpdateOffer(newTypes, newIntervals) ==
    /\ <<newTypes, newIntervals>> # <<types, intervals>>
    /\ types' = newTypes /\ intervals' = newIntervals
    /\ swept' = FALSE
    /\ Written("offer", {})
    /\ UNCHANGED <<areas, available, tasks, image, everOn, toggles, expected, torn,
                   wronged, wanted, copied, overlaps>>

Toggled_Same(b) == TRUE
Toggled(b) == ~ b

ReadAvailable(r) ==
    /\ req[r] = Idle
    /\ Pending(r, "toggle", Toggled(available))
    /\ UNCHANGED <<project, tasks, image, history>>

WriteAvailable(r) ==
    /\ req[r].at = "toggle"
    /\ available' = req[r].write
    /\ toggles' = ~ toggles
    /\ Overlapped(r)
    /\ Written("toggle", {r})
    /\ UNCHANGED <<areas, types, intervals, tasks, image, everOn, expected, torn, swept, wronged,
                   wanted, copied>>

-----------------------------------------------------------------------------
(* Tasks. *)

New(t, fields) == [u \in Stored \cup {t} |-> IF u = t THEN fields ELSE tasks[u]]
Only(s) == [t \in s |-> tasks[t]]

\* TaskService.create: the type and the area must be the project's, not the interval.
CanCreate_AnyArea(t) == t.type \in types
CanCreate(t) == t.type \in types /\ t.area \in Enabled

CheckTask(r, fields) ==
    /\ req[r] = Idle
    /\ CanCreate(fields)
    /\ Pending(r, "create", fields)
    /\ UNCHANGED <<project, tasks, image, history>>

CreateTask(r) ==
    /\ req[r].at = "create"
    /\ \E t \in Tasks \ (Stored \cup expected) :
          /\ tasks' = New(t, req[r].write)
          /\ expected' = expected \cup {t}
    /\ swept' = (swept /\ req[r].beside = {} /\ req[r].write.interval \in intervals)
    /\ Overlapped(r)
    /\ Written("create", {r})
    /\ UNCHANGED <<project, image, everOn, toggles, torn, wronged, wanted, copied>>

\* updateTask writes any field, unchecked.
UpdateTask(t, fields) ==
    /\ t \in Stored
    /\ tasks' = [tasks EXCEPT ![t] = fields]
    /\ swept' = FALSE
    /\ UNCHANGED <<project, image, req, everOn, toggles, expected, torn, wronged, wanted,
                   copied, overlaps>>

RemoveTask(t) ==
    /\ t \in Stored
    /\ tasks' = Only(Stored \ {t})
    /\ expected' = expected \ {t}
    /\ UNCHANGED <<project, image, req, everOn, toggles, torn, swept, wronged, wanted,
                   copied, overlaps>>

\* bulkSave deletes the project's tasks and then inserts the list, in two calls.
StartBulk_NoDeletion(r, list) ==
    /\ req[r] = Idle
    /\ tasks' = tasks
    /\ req' = [req EXCEPT ![r] = [at |-> "bulk", write |-> list, beside |-> {}]]
    /\ UNCHANGED <<project, image, history>>

StartBulk(r, list) ==
    /\ req[r] = Idle
    /\ tasks' = <<>>
    /\ req' = [req EXCEPT ![r] = [at |-> "bulk", write |-> list, beside |-> {}]]
    /\ UNCHANGED <<project, image, history>>

InsertBulk(r) ==
    /\ req[r].at = "bulk"
    /\ \E ids \in SUBSET (Tasks \ Stored) : \E f \in [ids -> req[r].write] :
          /\ Cardinality(ids) = Cardinality(req[r].write)
          /\ {f[t] : t \in ids} = req[r].write
          /\ tasks' = [t \in Stored \cup ids |-> IF t \in ids THEN f[t] ELSE tasks[t]]
          /\ expected' = ids
    /\ swept' = FALSE
    /\ Overlapped(r)
    /\ Written("bulk", {r})
    /\ UNCHANGED <<project, image, everOn, toggles, torn, wronged, wanted, copied>>

\* removeUselessFrom: the project as read decides what is deleted.
Useless_AnyInterval(t, view) == t.type \notin view.types \/ t.area \notin view.areas
Useless(t, view) ==
    t.type \notin view.types \/ t.interval \notin view.intervals \/ t.area \notin view.areas

ReadForCleanup_AllAreas(r) ==
    /\ req[r] = Idle
    /\ Pending(r, "cleanup", [types |-> types, intervals |-> intervals,
                              areas |-> {a \in Areas : areas[a] # "none"}])
    /\ UNCHANGED <<project, tasks, image, history>>
ReadForCleanup(r) ==
    /\ req[r] = Idle
    /\ Pending(r, "cleanup", [types |-> types, intervals |-> intervals, areas |-> Enabled])
    /\ UNCHANGED <<project, tasks, image, history>>

DeleteUseless(r) ==
    /\ req[r].at = "cleanup"
    /\ LET gone == {t \in Stored : Useless(tasks[t], req[r].write)}
       IN  /\ tasks' = Only(Stored \ gone)
           /\ expected' = expected \ gone
           /\ wronged' = wronged \cup {t \in gone : Offered(tasks[t])}
    /\ swept' = (req[r].beside = {})
    /\ Overlapped(r)
    /\ req' = [req EXCEPT ![r] = Idle]
    /\ UNCHANGED <<project, image, everOn, toggles, torn, wanted, copied>>

-----------------------------------------------------------------------------
(* Images. *)

External(slots) == {s \in slots : image[s] \in Images}

SetImage(s, i) ==
    /\ image' = [image EXCEPT ![s] = i]
    /\ wanted' = [wanted EXCEPT ![s] = i]
    /\ copied' = FALSE
    /\ Written("image", {})
    /\ UNCHANGED <<project, tasks, everOn, toggles, expected, torn, swept, wronged, overlaps>>

\* migrateImages: the cover as findOne read it, then the badges as read after it.
ToCopy_StoredToo(slots) == [s \in slots |-> image[s]]
ToCopy_CoverOnly(slots) == [s \in External(slots) |-> image[Cover]]
ToCopy(slots) == [s \in External(slots) |-> image[s]]

StartMigration(r) ==
    /\ req[r] = Idle
    /\ req' = [req EXCEPT ![r] = [at |-> "migrate", write |-> ToCopy({Cover}), badges |-> FALSE,
                                  failed |-> FALSE, beside |-> {}]]
    /\ UNCHANGED <<project, tasks, image, history>>

\* One image: fetched, optimised, stored and its key written, or noted as failed.
\* fetchImageBuffer follows redirects and refuses a status that is not 2xx, more
\* than 30 MB and 20 seconds of silence; optimizeImage always gives an image.
Fetch  == {"body", "refused"}
Upload == {"key", "refused"}

NextSlot(q) == {s \in DOMAIN q.write : s = Cover \/ Cover \notin DOMAIN q.write}
Remaining(q, s) == [u \in DOMAIN q.write \ {s} |-> q.write[u]]

MigrateImage(r) ==
    LET q == req[r]
    IN  /\ q.at = "migrate"
        /\ \E s \in NextSlot(q), fetched \in Fetch, sent \in Upload :
              LET ok == fetched = "body" /\ sent = "key"
              IN
              /\ image' = IF ok THEN [image EXCEPT ![s] = [copy |-> q.write[s]]] ELSE image
              /\ req' = [req EXCEPT ![r].write = Remaining(q, s), ![r].failed = @ \/ ~ ok]
              /\ overlaps' = IF ok /\ q.beside # {} THEN overlaps \cup {<<"migrate", "image">>}
                             ELSE overlaps
        /\ UNCHANGED <<project, tasks, everOn, toggles, expected, torn, swept, wronged,
                       wanted, copied>>

ReadBadges_None(r) ==
    /\ req[r].at = "migrate" /\ DOMAIN req[r].write = {} /\ ~ req[r].badges
    /\ req' = [req EXCEPT ![r].badges = TRUE]
    /\ UNCHANGED <<project, tasks, image, history>>
ReadBadges(r) ==
    /\ req[r].at = "migrate" /\ DOMAIN req[r].write = {} /\ ~ req[r].badges
    /\ req' = [req EXCEPT ![r].write = ToCopy(Slots \ {Cover}), ![r].badges = TRUE]
    /\ UNCHANGED <<project, tasks, image, history>>

ReportMigration(r) ==
    /\ req[r].at = "migrate" /\ DOMAIN req[r].write = {} /\ req[r].badges
    /\ copied' = (copied \/ (~ req[r].failed /\ req[r].beside = {}))
    /\ req' = [req EXCEPT ![r] = Idle]
    /\ UNCHANGED <<project, tasks, image, everOn, toggles, expected, torn, swept, wronged,
                   wanted, overlaps>>

-----------------------------------------------------------------------------

\* The process stops, or the database refuses the second call of a request.
BreakOff(r) ==
    /\ req[r] # Idle
    /\ torn' = (torn \/ req[r].at = "bulk")
    /\ req' = [req EXCEPT ![r] = Idle]
    /\ UNCHANGED <<project, tasks, image, everOn, toggles, expected, swept, wronged,
                   wanted, copied, overlaps>>

ProjectNext(r) ==
    \/ \E new \in SUBSET Areas : ReadAreas(r, new)
    \/ WriteAreas(r) \/ ReadAvailable(r) \/ WriteAvailable(r)
TaskNext(r) ==
    \/ \E fields \in Task : CheckTask(r, fields)
    \/ \E list \in SUBSET Task : StartBulk(r, list)
    \/ CreateTask(r) \/ InsertBulk(r) \/ ReadForCleanup(r) \/ DeleteUseless(r)
ImageNext(r) ==
    StartMigration(r) \/ MigrateImage(r) \/ ReadBadges(r) \/ ReportMigration(r)

Next ==
    \/ \E r \in Requests : ProjectNext(r) \/ TaskNext(r) \/ ImageNext(r) \/ BreakOff(r)
    \/ \E newTypes \in SUBSET Types, newIntervals \in SUBSET Intervals :
          UpdateOffer(newTypes, newIntervals)
    \/ \E t \in Tasks : \/ RemoveTask(t)
                        \/ \E fields \in Task : UpdateTask(t, fields)
    \/ \E s \in Slots, i \in Images : SetImage(s, i)

Spec == Init /\ [][Next]_vars

-----------------------------------------------------------------------------
(* Properties. *)

Harmless(kinds, over) == overlaps \cap (kinds \X over) = {}

\* An area that was ever offered stays known to the project, so the check-ins and
\* tasks that name it can be resolved, unless two updates of the areas overlapped
\* (project.dao.ts 78-92).
AreasKept == Harmless({"areas"}, {"areas"}) => \A a \in everOn : areas[a] # "none"

\* After a cleanup every task is one the project offers until the project or a task
\* changes or a task is created within an interval the project has not, which no
\* creation checks (task.service.ts 26-38), and a cleanup deletes no task the project
\* offers, unless the project was updated between its read and its deletion (100-103).
SweepSound ==
    /\ swept => \A t \in Stored : Offered(tasks[t])
    /\ Harmless({"cleanup"}, {"areas", "offer"}) => wronged = {}

\* The tasks are those the answered creations, bulk saves and deletions leave,
\* unless a bulk save was broken off after its deletion or overlapped another
\* insertion (task.service.ts 91-94).
TasksAsAnswered ==
    (~ torn /\ Harmless({"bulk"}, {"bulk", "create"}) /\ \A r \in Requests : req[r].at # "bulk") =>
        Stored = expected

\* The project is open when the toggles answered so far leave it open, unless two
\* overlapped: each then writes the opposite of what both read (project.dao.ts 96-104).
OpenAsToggled == Harmless({"toggle"}, {"toggle"}) => available = toggles

\* The project document is what its updates asked for.
ProjectAsSet == AreasKept /\ OpenAsToggled

\* Each slot shows the image last set there, or the stored copy of that image,
\* unless an image was set while a migration was under way.
ImagesAsSet ==
    Harmless({"migrate"}, {"image"}) =>
        \A s \in Slots : image[s] \in {wanted[s], [copy |-> wanted[s]]}

\* A migration that reports no failure leaves no image on another site, badges
\* included, until one is set again (project.service.ts 304-386).
MigrationComplete == copied => External(Slots) = {}

\* Images are moved, and none is lost on the way.
ImagesKept == ImagesAsSet /\ MigrationComplete
=============================================================================
