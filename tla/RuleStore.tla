----------------------------- MODULE RuleStore -----------------------------
(***************************************************************************)
(* The gamification document of one project: its badge rules, their fading  *)
(* window and its point rules, as gamification-dao.service.ts keeps them.   *)
(*                                                                         *)
(* A Mongoose save() of a document read earlier sends only what changed: a  *)
(* pushed rule as $push, which counts the document's version up, and a rule *)
(* changed in place as a $set of its position, which matches only the       *)
(* version that was read.  The updates of findOneAndUpdate, a $pull, a       *)
(* positional $set or a whole new list, neither count nor check versions.   *)
(* Nothing strips a body of the fields its DTO does not name, and what the  *)
(* code spreads may bring an id and a fade of the client's own.             *)
(***************************************************************************)
EXTENDS Naturals, Sequences

CONSTANTS
    Requests,       \* requests that may run at once
    Badges,         \* badge ids: this bounds the badges ever created
    Fading,         \* the badges whose status the admins change: a bound
    Names,          \* badge names
    Scores,         \* point rule ids: a bound too
    LastNow,        \* bound on the clock
    Brought,        \* the fades that bodies bring, or make with what the row had
    Bodies,         \* the badge lists that replace the project's
    Hole,           \* the null MongoDB pads an array with
    Unset           \* what a body does not give

VARIABLES
    docs,           \* the documents of the project, in the order of findOne
    now,
    req,            \* the requests that read first and write later
    \* history
    created,        \* the ids that badges and point rules have had
    expected,       \* the rules the answered requests leave
    intent,         \* per badge, the fade that was last asked for
    overlaps        \* <<k, l>>: a save of kind k went over a write of kind l

vars    == <<docs, now, req, created, expected, intent, overlaps>>
history == <<created, expected, intent, overlaps>>

Saves == {"add", "edit", "score"}
Kinds == Saves \cup {"delete", "status"}

\* status, fadedSince, expiresAt; 0 is an absent date.
Fade   == [status : {"active", "faded", "expired"}, since : Nat, until : Nat]
Active == [status |-> "active", since |-> 0, until |-> 0]
Badge  == [id : Badges, name : Names, fade : Fade]
Doc    == [badges : Seq(Badge \cup {Hole}), scores : SUBSET Scores, version : Nat]
NewDoc == [badges |-> <<>>, scores |-> {}, version |-> 0]

ASSUME RuleAssumption ==
    /\ Fading \subseteq Badges /\ Badges \cap Scores = {}
    /\ LastNow \in Nat \ {0}
    /\ Brought \subseteq Fade
    /\ Bodies \subseteq Seq([id : Badges, name : Names, fade : {Active} \cup Brought])
    /\ Hole \notin Badge /\ Unset \notin Badges \cup Scores \cup Fade

\* What a request asks for; the id and the fade only a body that names them has.
Op == [kind : {"read"}] \cup [kind : {"score"}, id : Scores \cup {Unset}]
         \cup [kind : {"add"}, name : Names, id : Badges \cup {Unset}, fade : Brought \cup {Unset}]
         \cup [kind : {"edit"}, name : Names, badge : Badges, fade : Brought \cup {Unset}]

\* What an edit has read: the badge, where it was, and the version.
Copy    == [badge : Badge, index : Nat \ {0}, version : Nat]
NoCopy  == [index |-> 0]
Idle    == [at |-> "idle"]
Request ==
    {Idle} \cup [at : {"create"}, op : Op]
           \cup [at : {"save"}, op : Op, doc : Nat \ {0}, seen : Copy \cup {NoCopy},
                 beside : SUBSET Kinds]

\* The overlaps of a save with an earlier write that some property tells apart, and
\* the lists that came with a name twice.
Harm == {<<"add", "add">>, <<"add", "edit">>, <<"edit", "edit">>, <<"edit", "delete">>,
         <<"edit", "status">>, <<"list", "names">>}

TypeOK ==
    /\ docs \in Seq(Doc)
    /\ now \in 1..LastNow
    /\ req \in [Requests -> Request]
    /\ \A r \in Requests : req[r].at = "save" => req[r].doc \in DOMAIN docs
    /\ created \subseteq Badges \cup Scores
    /\ expected \subseteq Badges \cup Scores
    /\ intent \in [Badges -> Fade]
    /\ overlaps \subseteq Harm

Init ==
    /\ docs = <<>>
    /\ now = 1
    /\ req = [r \in Requests |-> Idle]
    /\ created = {} /\ expected = {}
    /\ intent = [b \in Badges |-> Active]
    /\ overlaps = {}

-----------------------------------------------------------------------------
(* The fade of a badge. *)

\* Slips a change could make; no step of Next takes them.
FadeTo_DatesKept(f, status, until) == [f EXCEPT !.status = status]

\* What a status update makes of a fade record.
FadeTo(f, status, until) ==
    CASE status = "faded"   -> [status |-> "faded", since |-> now, until |-> until]
      [] status = "expired" -> [f EXCEPT !.status = "expired", !.until = now]
      [] status = "active"  -> Active

-----------------------------------------------------------------------------
(* Requests that read the document, decide, and save. *)

Ids(s)         == {s[i].id : i \in {j \in DOMAIN s : s[j] # Hole}}
\* The rows that findIndex and the positional $ find: the first of each id.
Firsts(s)      == {i \in DOMAIN s :
                     s[i] # Hole /\ \A j \in 1..(i - 1) : s[j] = Hole \/ s[j].id # s[i].id}
Position(s, b) == CHOOSE i \in Firsts(s) : s[i].id = b

\* The name is taken by another badge of the list; the badge to edit is not in
\* it; or the list has a hole, which every loop over it trips on.
Taken(o, s) == \E i \in DOMAIN s :
                  s[i].name = o.name /\ (o.kind = "edit" => i # Position(s, o.badge))
Refused(o, s) ==
    \/ Hole \in {s[i] : i \in DOMAIN s} /\ o.kind # "score"
    \/ o.kind = "edit" /\ o.badge \notin Ids(s)
    \/ o.kind \in {"add", "edit"} /\ Taken(o, s)

\* The request has read document d, at position i.
Look(o, i, d) ==
    IF o.kind = "read" \/ Refused(o, d.badges) THEN Idle
    ELSE [at |-> "save", op |-> o, doc |-> i, beside |-> {},
          seen |-> IF o.kind # "edit" THEN NoCopy
                   ELSE [badge |-> d.badges[Position(d.badges, o.badge)],
                         index |-> Position(d.badges, o.badge), version |-> d.version]]

Find(r, o) ==
    /\ req[r] = Idle
    /\ req' = [req EXCEPT ![r] = IF docs = <<>> THEN [at |-> "create", op |-> o]
                                                ELSE Look(o, 1, docs[1])]
    /\ UNCHANGED <<docs, now, history>>

\* A slip: a new document that is never stored.
Create_NotStored(r) ==
    /\ req[r].at = "create"
    /\ req' = [req EXCEPT ![r] = Look(req[r].op, Len(docs) + 1, NewDoc)]
    /\ UNCHANGED <<docs, now, history>>

\* createNewGamificationFor: no index keeps a second document out.
Create(r) ==
    /\ req[r].at = "create"
    /\ docs' = Append(docs, NewDoc)
    /\ req' = [req EXCEPT ![r] = Look(req[r].op, Len(docs) + 1, NewDoc)]
    /\ UNCHANGED <<now, history>>

\* A write of some kinds is done: whoever has read and not saved yet is overlapped.
Written(kinds, r) ==
    req' = [q \in Requests |->
               IF q = r THEN Idle
               ELSE IF req[q].at = "save"
                    THEN [req[q] EXCEPT !.beside =
                             @ \cup {k \in kinds : <<req[q].op.kind, k>> \in Harm}]
               ELSE req[q]]

Saving(r, k) == req[r].at = "save" /\ req[r].op.kind = k
Overlapped(r) ==
    overlaps' = overlaps \cup {<<req[r].op.kind, l>> : l \in req[r].beside}

\* The badge as read with the request's fields over it, its id last.
Merged_FieldsOnly(r) == [req[r].seen.badge EXCEPT !.name = req[r].op.name, !.fade = Active]
Merged_TheirId(r) ==
    [req[r].seen.badge EXCEPT !.name = req[r].op.name,
                              !.id = CHOOSE b \in Badges : b # @]
Merged(r) ==
    [req[r].seen.badge EXCEPT !.name = req[r].op.name,
                              !.fade = IF req[r].op.fade = Unset THEN @ ELSE req[r].op.fade]

\* The request's fields over a new id and the default status, the body's own last.
NewId(o, ids)  == IF o.id = Unset THEN ids \ created ELSE {o.id}
NewBadge(o, b) == [id |-> b, name |-> o.name, fade |-> IF o.fade = Unset THEN Active ELSE o.fade]

\* A badge of document d fades as asked; all see the first document alone.
Asked(d, b, f) == intent' = IF d = 1 THEN [intent EXCEPT ![b] = f] ELSE intent

SaveNewBadge(r) ==
    LET d == req[r].doc  o == req[r].op
    IN  /\ Saving(r, "add")
        /\ \E b \in NewId(o, Badges) :
              /\ docs' = [docs EXCEPT ![d].badges = Append(@, NewBadge(o, b)), ![d].version = @ + 1]
              /\ created' = created \cup {b}
              /\ expected' = expected \cup {b}
              /\ IF b \in Ids(docs[d].badges) THEN intent' = intent
                                               ELSE Asked(d, b, NewBadge(o, b).fade)
        /\ Overlapped(r)
        /\ Written({"add"}, r)
        /\ UNCHANGED now

SaveNewScore(r) ==
    /\ Saving(r, "score")
    /\ \E c \in NewId(req[r].op, Scores) :
          /\ docs' = [docs EXCEPT ![req[r].doc].scores = @ \cup {c},
                                  ![req[r].doc].version = @ + 1]
          /\ created' = created \cup {c}
          /\ expected' = expected \cup {c}
    /\ Overlapped(r)
    /\ Written({"score"}, r)
    /\ UNCHANGED <<now, intent>>

\* $set of one position, behind the end after nulls.
SetAt(s, i, x) ==
    [j \in 1..(IF i > Len(s) THEN i ELSE Len(s)) |->
        IF j = i THEN x ELSE IF j <= Len(s) THEN s[j] ELSE Hole]

\* An edit is a status update too when its body brings a fade.
EditWrites(o) == {"edit"} \cup {k \in {"status"} : o.fade # Unset}

SaveBadge_Unversioned(r) ==
    /\ Saving(r, "edit")
    /\ docs' = [docs EXCEPT ![req[r].doc].badges = SetAt(@, req[r].seen.index, Merged(r))]
    /\ intent' = intent
    /\ Overlapped(r)
    /\ Written({"edit"}, r)
    /\ UNCHANGED <<now, created, expected>>

\* updateBadge's save(): a VersionError after a push since the read.
SaveBadge(r) ==
    LET q == req[r]
    IN  /\ Saving(r, "edit")
        /\ \/ /\ docs[q.doc].version # q.seen.version
              /\ req' = [req EXCEPT ![r] = Idle]
              /\ UNCHANGED <<docs, intent, overlaps>>
           \/ /\ docs[q.doc].version = q.seen.version
              /\ docs' = [docs EXCEPT ![q.doc].badges = SetAt(@, q.seen.index, Merged(r))]
              /\ IF q.op.fade = Unset THEN intent' = intent
                                      ELSE Asked(q.doc, q.seen.badge.id, q.op.fade)
              /\ Overlapped(r)
              /\ Written(EditWrites(q.op), r)
        /\ UNCHANGED <<now, created, expected>>

-----------------------------------------------------------------------------
(* Updates in one step. *)

\* $pull, of the document findOneAndUpdate takes, the first: what stays keeps its order.
Pull(b) ==
    LET s == docs[1].badges
    IN  \E n \in 0..Len(s) : \E kept \in [1..n -> DOMAIN s] :
            /\ \A i, j \in 1..n : i < j => kept[i] < kept[j]
            /\ {kept[i] : i \in 1..n} = {i \in DOMAIN s : s[i] = Hole \/ s[i].id # b}
            /\ docs' = [docs EXCEPT ![1].badges = [i \in 1..n |-> s[kept[i]]]]

DeleteBadge(b) ==
    /\ b \in created
    /\ docs # <<>>
    /\ Pull(b)
    /\ expected' = expected \ {b}
    /\ intent' = [intent EXCEPT ![b] = Active]
    /\ Written({"delete"}, "nobody")
    /\ UNCHANGED <<now, created, overlaps>>

DeletePointRule(c) ==
    /\ c \in created
    /\ docs # <<>>
    /\ docs' = [docs EXCEPT ![1].scores = @ \ {c}]
    /\ expected' = expected \ {c}
    /\ UNCHANGED <<now, req, created, intent, overlaps>>

\* The badges the body has in place of all there were: to the edits under way, a
\* deletion and an edit.
ReplaceBadges(s) ==
    /\ docs # <<>>
    /\ docs' = [docs EXCEPT ![1].badges = s]
    /\ created' = created \cup Ids(s)
    /\ expected' = (expected \ Badges) \cup Ids(s)
    /\ intent' = [b \in Badges |-> IF b \in Ids(s) THEN s[Position(s, b)].fade ELSE Active]
    /\ overlaps' = overlaps \cup
          {h \in {<<"list", "names">>} : \E i, j \in DOMAIN s : i # j /\ s[i].name = s[j].name}
    /\ Written({"delete", "edit"}, "nobody")
    /\ UNCHANGED now

ReplaceScores(cs) ==
    /\ docs # <<>>
    /\ docs' = [docs EXCEPT ![1].scores = cs]
    /\ created' = created \cup cs
    /\ expected' = (expected \ Scores) \cup cs
    /\ UNCHANGED <<now, req, intent, overlaps>>

\* parseFadingWindow: a window must end in the future.
Window(status, until) == status = "faded" => until > now

\* The first document that has the badge, the first element that is it.
UpdateBadgeStatus(b, status, until) ==
    /\ Window(status, until)
    /\ \E d \in DOMAIN docs : \E p \in Firsts(docs[d].badges) :
          LET f == FadeTo(docs[d].badges[p].fade, status, until)
          IN  /\ docs[d].badges[p].id = b
              /\ \A e \in 1..(d - 1) : b \notin Ids(docs[e].badges)
              /\ docs' = [docs EXCEPT ![d].badges[p].fade = f]
              /\ Asked(d, b, f)
    /\ Written({"status"}, "nobody")
    /\ UNCHANGED <<now, created, expected, overlaps>>

Tick == now < LastNow /\ now' = now + 1 /\ UNCHANGED <<docs, req, history>>

Next ==
    \/ \E r \in Requests : \/ \E o \in Op : Find(r, o)
                           \/ Create(r) \/ SaveNewBadge(r) \/ SaveNewScore(r) \/ SaveBadge(r)
    \/ \E b \in Badges : DeleteBadge(b)
    \/ \E b \in Fading, status \in {"active", "faded", "expired"}, until \in 1..LastNow :
          UpdateBadgeStatus(b, status, until)
    \/ \E c \in Scores : DeletePointRule(c)
    \/ \E s \in Bodies : ReplaceBadges(s)
    \/ \E cs \in SUBSET Scores : ReplaceScores(cs)
    \/ Tick

Spec == Init /\ [][Next]_vars

-----------------------------------------------------------------------------
(* Properties.  The saves are not atomic; each says which overlaps harm it. *)

Visible == IF docs = <<>> THEN NewDoc ELSE docs[1]
Harmless(pairs) == overlaps \cap pairs = {}

\* Two badges have one name, which the engine's memo and the prerequisites take
\* for one badge, only if a save overlapped the creation or renaming of another, or
\* a list came with a name twice: the version stops a renaming behind a creation
\* (addBadge 49-60, updateBadge 303-318, updateGamification 96-98).
UniqueNames ==
    Harmless({<<"add", "add">>, <<"add", "edit">>, <<"edit", "edit">>, <<"edit", "delete">>,
              <<"list", "names">>}) =>
        \A d \in {docs[i] : i \in DOMAIN docs} : \A i, j \in DOMAIN d.badges :
            d.badges[i].name = d.badges[j].name => i = j

\* A rule stays until it is deleted or a list comes without it, and then it is
\* gone with every row of its id, unless a badge was edited beside a deletion or a
\* new list, which move the positions (updateBadge 310, updateGamification 92-99),
\* or two requests created the document at once (getGamificationByProjectId 242-245).
NoRuleLost ==
    (Harmless({<<"edit", "delete">>}) /\ Len(docs) < 2) =>
        Ids(Visible.badges) \cup Visible.scores = expected

\* The badge all see has the fade that was last asked for, by its creation, a new
\* list, an edit or a status update, whatever else happens to the document, unless
\* another asked, deleted or replaced between the read and the save of an edit
\* (updateBadge 310-315, updateBadgeStatus 177-181).
FadeKept ==
    Harmless({<<"edit", "status">>, <<"edit", "delete">>}) =>
        \A i \in Firsts(Visible.badges) : Visible.badges[i].fade = intent[Visible.badges[i].id]

\* "effectiveBadgeStatus never has to reconcile a contradictory row" (129-136): an
\* active badge has no window, a closed one closed in the past, an announced one
\* closes after its announcement; so too for the copies edits write back.  A row a
\* body brought is as the body had it, until a status update.
Consistent(f) ==
    /\ f.status = "active" => f = Active
    /\ f.status = "faded" => f.since < f.until /\ f.since <= now
    /\ f.status = "expired" => f.until # 0 /\ f.until <= now

NoContradictoryRow ==
    \A d \in {docs[i] : i \in DOMAIN docs} : \A b \in {d.badges[i] : i \in DOMAIN d.badges} :
        b # Hole => b.fade \in Brought \/ Consistent(b.fade)

\* Both of the fades the document holds.
FadesHold == FadeKept /\ NoContradictoryRow
=============================================================================
