------------------------------ MODULE Accounts ------------------------------
(***************************************************************************)
(* The accounts: registration, e-mail verification, password recovery,      *)
(* Google sign-in, the subscription toggle and every other request that     *)
(* reads a user document, changes the entity in memory and writes it back   *)
(* whole (auth.service.ts, users/, volunteer.service.ts).                   *)
(*                                                                         *)
(* A read and a write are one step each; the requests overlap freely.  An   *)
(* e-mail identifies an account: nothing changes or deletes it.  The game   *)
(* profiles are those of one project.                                       *)
(***************************************************************************)
EXTENDS Naturals, Sequences, FiniteSets

CONSTANTS
    Emails, Names, Subs,    \* e-mails, user names, Google identities
    Tokens,                 \* values of resetToken: this bounds the links mailed
    Passwords,
    Requests,               \* requests that may run at once
    MaxCredits,             \* bound on the points of a profile
    None                    \* an absent account, token or Google identity


VARIABLES
    accounts,       \* the user document of each e-mail
    req,
    \* history
    issued,         \* per account, the token of the last link
    used,           \* the tokens a request that used them was answered for
    told,           \* what the last answers say of each account
    overlaps        \* <<k, l>>: a save of kind k went over a write of kind l

vars    == <<accounts, req, issued, used, told, overlaps>>
history == <<issued, used, told, overlaps>>

Profile == [active : BOOLEAN, points : 0..MaxCredits]
\* What writes a user document: "save" edits the profile or adds a rating.
Kinds == {"verify", "recover", "forgot", "google", "toggle", "credit", "save"}

\* The token of an entity no request has given one to.
Unset == "unset"

Idle == [at |-> "idle"]
Told == [verified : BOOLEAN, password : Passwords, googleId : Subs \cup {None},
         subscribed : BOOLEAN, points : Nat]

\* The overlaps of a save with an earlier write that some property tells apart.
Harm == {<<k, l>> : k \in Kinds, l \in {"verify", "recover", "google", "toggle", "credit"}}
           \cup {<<"verify", "forgot">>, <<"recover", "forgot">>}

Exists(e) == accounts[e] # None

Account(tokens) == [name : Names, verified : BOOLEAN, password : Passwords,
                    token : tokens, googleId : Subs \cup {None},
                    gameProfiles : Seq(Profile)]

Request ==
    {Idle} \cup [at : {"email"}, email : Emails, sub : Subs]
           \cup [at : {"again"}, email : Emails]
           \cup [at : {"create"}, email : Emails, name : Names, sub : Subs \cup {None}]
           \cup [at : {"save"}, kind : Kinds, email : Emails, token : Tokens \cup {None},
                 user : Account(Tokens \cup {None, Unset}), beside : SUBSET Kinds]

ASSUME AccountAssumption ==
    /\ None \notin Subs \cup Tokens \cup Account(Tokens \cup {None}) \cup Told
    /\ Unset \notin Tokens \cup {None}
    /\ MaxCredits \in Nat

TypeOK ==
    /\ accounts \in [Emails -> Account(Tokens \cup {None}) \cup {None}]
    /\ req \in [Requests -> Request]
    /\ \A r \in Requests : req[r].at \in {"again", "save"} => Exists(req[r].email)
    /\ issued \in [Emails -> Tokens \cup {None}]
    /\ used \subseteq Tokens
    /\ told \in [Emails -> Told \cup {None}]
    /\ \A e \in Emails : Exists(e) => told[e] # None
    /\ overlaps \subseteq Harm

Init ==
    /\ accounts = [e \in Emails |-> None]
    /\ req = [r \in Requests |-> Idle]
    /\ issued = [e \in Emails |-> None]
    /\ used = {}
    /\ told = [e \in Emails |-> None]
    /\ overlaps = {}

-----------------------------------------------------------------------------
(* Game profiles of a volunteer in the project. *)

IsSubscribed(s) == \E i \in DOMAIN s : s[i].active

UnsubscribeFromProject(s) == [i \in DOMAIN s |-> [s[i] EXCEPT !.active = FALSE]]

\* A slip a change could make: the last profile is taken up again.
SubscribeToProject_Reactivates(s) ==
    IF s = <<>> THEN <<[active |-> TRUE, points |-> 0]>>
    ELSE [s EXCEPT ![Len(s)].active = TRUE, ![Len(s)].points = 0]

\* Subscribed or not there is no active profile: a new one, with no points.
SubscribeToProject(s) ==
    IF IsSubscribed(s) THEN [i \in DOMAIN s |-> [s[i] EXCEPT !.active = TRUE]]
    ELSE Append(s, [active |-> TRUE, points |-> 0])

Toggle(s) == IF IsSubscribed(s) THEN UnsubscribeFromProject(s) ELSE SubscribeToProject(s)

\* getGameProfileFromProject is a find: the first profile gets the points.
AddPoints_LastProfile(s) == [s EXCEPT ![Len(s)].points = @ + 1]
AddPoints(s) == [s EXCEPT ![1].points = @ + 1]

-----------------------------------------------------------------------------
(* The user document and the entity. *)

\* Slips a change could make; no step of Next takes them.
ToEntity_CarriesToken(a) == a
ToTemplate_GoogleToo(u, a) == [u EXCEPT !.token = IF @ = Unset THEN a.token ELSE @]
ToTemplate_TokenToo(u, a)  == [u EXCEPT !.googleId = IF @ = None THEN a.googleId ELSE @]
Clashes_NoIndex(e, name, sub) == Exists(e)

ToEntity(a) == [a EXCEPT !.token = Unset]

\* What an update leaves: an undefined token and an empty Google id are not sent.
ToTemplate(u, a) ==
    [u EXCEPT !.token = IF @ = Unset THEN a.token ELSE @,
              !.googleId = IF @ = None THEN a.googleId ELSE @]

\* The unique indexes: e-mail, user name, Google id.
Clashes(e, name, sub) ==
    \/ Exists(e)
    \/ \E f \in {f \in Emails : Exists(f)} :
          accounts[f].name = name \/ (sub # None /\ accounts[f].googleId = sub)

\* A request has read account e and changed the entity to u in memory.
Saving(kind, e, u, token) ==
    [at |-> "save", kind |-> kind, email |-> e, user |-> u, token |-> token, beside |-> {}]
Read(r, kind, e, u, token) ==
    req' = [req EXCEPT ![r] = Saving(kind, e, u, token)]

\* uuids are fresh; a request that needs one starts while there is one to spare.
FreshTokens == Tokens \ (used \cup {issued[e] : e \in Emails}
                  \cup {accounts[e].token : e \in {f \in Emails : Exists(f)}}
                  \cup {req[r].token : r \in {q \in Requests : req[q].at = "save"}})
Needing == {r \in Requests : req[r].at \in {"again", "create"}}
Spare   == Cardinality(FreshTokens) > Cardinality(Needing)

\* The accounts a link leads to.
Linked(t) == {e \in Emails : Exists(e) /\ accounts[e].token = t}

-----------------------------------------------------------------------------
(* Reads. *)

\* register: the name or e-mail in use is a 400; the hash is computed before Create.
Register(r, e, n) ==
    /\ req[r] = Idle
    /\ Spare
    /\ ~ Exists(e) /\ \A f \in Emails : Exists(f) => accounts[f].name # n
    /\ req' = [req EXCEPT ![r] = [at |-> "create", email |-> e, name |-> n, sub |-> None]]
    /\ UNCHANGED <<accounts, history>>

\* authenticateWithGoogle: by Google id, then by e-mail.  An account found by its id
\* is saved when unverified or without the picture Google has (not modelled, so any
\* found account may be saved); else nothing is written, which is no step.
SignedIn_Unverified(a, s) == [ToEntity(a) EXCEPT !.googleId = s]
SignedIn(a, s) == [ToEntity(a) EXCEPT !.googleId = s, !.verified = TRUE]

GoogleById(r, e, s) ==
    /\ req[r] = Idle
    /\ LET found == {f \in Emails : Exists(f) /\ accounts[f].googleId = s}
       IN  IF found = {} THEN req' = [req EXCEPT ![r] = [at |-> "email", email |-> e, sub |-> s]]
           ELSE \E f \in found : Read(r, "google", f, SignedIn(accounts[f], s), None)
    /\ UNCHANGED <<accounts, history>>

GoogleByEmail(r) ==
    LET q == req[r]
    IN  /\ q.at = "email"
        /\ IF Exists(q.email)
           THEN Read(r, "google", q.email, SignedIn(accounts[q.email], q.sub), None)
           ELSE \/ req' = [req EXCEPT ![r] = Idle]     \* 400: no user name, or one in use
                \/ \E n \in {n \in Names : \A f \in Emails : Exists(f) => accounts[f].name # n} :
                      req' = [req EXCEPT ![r] = [at |-> "create", email |-> q.email,
                                                 name |-> n, sub |-> q.sub]]
        /\ UNCHANGED <<accounts, history>>

\* verifyEmail and recoverPassword: any link will do for either.
VerifyEmail(r, t) ==
    /\ req[r] = Idle
    /\ \E e \in Linked(t) :
          Read(r, "verify", e, [ToEntity(accounts[e]) EXCEPT !.verified = TRUE, !.token = None], t)
    /\ UNCHANGED <<accounts, history>>

RecoverPassword(r, t, pw) ==
    /\ req[r] = Idle
    /\ \E e \in Linked(t) :
          Read(r, "recover", e, [ToEntity(accounts[e]) EXCEPT !.password = pw, !.token = None], t)
    /\ UNCHANGED <<accounts, history>>

\* forgotPassword reads the account twice: by e-mail, then in saveResetToken.
ForgotPassword(r, e) ==
    /\ req[r] = Idle
    /\ Spare
    /\ Exists(e)
    /\ req' = [req EXCEPT ![r] = [at |-> "again", email |-> e]]
    /\ UNCHANGED <<accounts, history>>

SaveResetToken(r) ==
    /\ req[r].at = "again"
    /\ \E t \in FreshTokens :
          Read(r, "forgot", req[r].email, [ToEntity(accounts[req[r].email]) EXCEPT !.token = t], t)
    /\ UNCHANGED <<accounts, history>>

\* updateProfile and rate.
UpdateProfile(r, e) ==
    /\ req[r] = Idle
    /\ Exists(e)
    /\ Read(r, "save", e, ToEntity(accounts[e]), None)
    /\ UNCHANGED <<accounts, history>>

\* VolunteerService.subscribeToProject.
ToggleSubscription(r, e) ==
    /\ req[r] = Idle
    /\ Exists(e) /\ Len(accounts[e].gameProfiles) < 2       \* a bound
    /\ Read(r, "toggle", e, [ToEntity(accounts[e]) EXCEPT !.gameProfiles = Toggle(@)], None)
    /\ UNCHANGED <<accounts, history>>

\* A check-in in the project: CheckinFlow's reward, seen from the account.
Credit(r, e) ==
    /\ req[r] = Idle
    /\ Exists(e) /\ accounts[e].gameProfiles # <<>>
    /\ \A i \in DOMAIN accounts[e].gameProfiles : accounts[e].gameProfiles[i].points < MaxCredits
    /\ told[e].points < MaxCredits       \* a bound
    /\ Read(r, "credit", e, [ToEntity(accounts[e]) EXCEPT !.gameProfiles = AddPoints(@)], None)
    /\ UNCHANGED <<accounts, history>>

-----------------------------------------------------------------------------
(* Writes. *)

\* A write of kind k on account e is done: who has read it and not saved is overlapped.
Written(k, e, r) ==
    req' = [p \in Requests |->
               IF p = r THEN Idle
               ELSE IF req[p].at = "save" /\ req[p].email = e /\ <<req[p].kind, k>> \in Harm
                    THEN [req[p] EXCEPT !.beside = @ \cup {k}]
               ELSE req[p]]

Create(r) ==
    LET q == req[r]
    IN  /\ q.at = "create"
        /\ IF Clashes(q.email, q.name, q.sub)
           THEN /\ req' = [req EXCEPT ![r] = Idle]
                /\ UNCHANGED <<accounts, history>>
           ELSE \E t \in IF q.sub = None THEN FreshTokens ELSE {None}, pw \in Passwords :
                   /\ accounts' = [accounts EXCEPT ![q.email] =
                         [name |-> q.name, verified |-> q.sub # None, password |-> pw,
                          token |-> t, googleId |-> q.sub, gameProfiles |-> <<>>]]
                   /\ told' = [told EXCEPT ![q.email] =
                         [verified |-> q.sub # None, password |-> pw, googleId |-> q.sub,
                          subscribed |-> FALSE, points |-> 0]]
                   /\ issued' = [issued EXCEPT ![q.email] = t]
                   /\ req' = [req EXCEPT ![r] = Idle]
                   /\ UNCHANGED <<used, overlaps>>

\* What the answer of a save of kind k tells of the account, given what it wrote.
Tell(d, k, u) ==
    CASE k = "verify"  -> [d EXCEPT !.verified = TRUE]
      [] k = "recover" -> [d EXCEPT !.password = u.password]
      [] k = "google"  -> [d EXCEPT !.verified = TRUE, !.googleId = u.googleId]
      [] k = "toggle"  -> [d EXCEPT !.subscribed = IsSubscribed(u.gameProfiles)]
      [] k = "credit"  -> [d EXCEPT !.points = @ + 1]
      [] OTHER         -> d

\* UserDao.update; an index refuses a Google id another account has.
Update(r) ==
    LET q == req[r]
        e == q.email
        new == ToTemplate(q.user, accounts[e])
    IN  /\ q.at = "save"
        /\ IF \E f \in Emails \ {e} : /\ Exists(f) /\ new.googleId # None
                                      /\ accounts[f].googleId = new.googleId
           THEN /\ req' = [req EXCEPT ![r] = Idle]
                /\ UNCHANGED <<accounts, history>>
           ELSE /\ accounts' = [accounts EXCEPT ![e] = new]
                /\ told' = [told EXCEPT ![e] = Tell(@, q.kind, q.user)]
                /\ used' = IF q.kind \in {"verify", "recover"} THEN used \cup {q.token} ELSE used
                /\ issued' = IF q.kind = "forgot" THEN [issued EXCEPT ![e] = q.token] ELSE issued
                /\ overlaps' = overlaps \cup {<<q.kind, l>> : l \in q.beside}
                /\ Written(q.kind, e, r)

Next ==
    \E r \in Requests :
        \/ \E e \in Emails, n \in Names : Register(r, e, n)
        \/ \E e \in Emails, s \in Subs : GoogleById(r, e, s)
        \/ \E t \in Tokens : VerifyEmail(r, t)
        \/ \E t \in Tokens, pw \in Passwords : RecoverPassword(r, t, pw)
        \/ \E e \in Emails : \/ ForgotPassword(r, e) \/ UpdateProfile(r, e)
                             \/ ToggleSubscription(r, e) \/ Credit(r, e)
        \/ GoogleByEmail(r) \/ SaveResetToken(r) \/ Create(r) \/ Update(r)

Spec == Init /\ [][Next]_vars

-----------------------------------------------------------------------------
(* Properties.  The writes are whole documents read earlier: each property    *)
(* says which overlaps may break it, and that nothing else does.              *)

Harmless(kinds, over) == overlaps \cap (kinds \X over) = {}
Known == {e \in Emails : Exists(e)}

\* The last link sent to an account works until it is used, and never again after:
\* verification and recovery share one token, and toEntity leaves it out, so no
\* other save can bring a used link back or drop a live one; only using an old
\* link beside a request for a new one can (verifyEmail 209, recoverPassword 363).
LastLinkWorks ==
    /\ \A e \in Known : accounts[e].token \notin used
    /\ Harmless({"verify", "recover"}, {"forgot"}) =>
          \A e \in Known :
              accounts[e].token = IF issued[e] \in used THEN None ELSE issued[e]

\* A verified account stays verified and keeps the last password set, unless a
\* save read the account before that and wrote after it (UserMapper 28-51).
AnswersHold ==
    \A e \in Known :
        /\ Harmless(Kinds, {"verify", "google"}) => accounts[e].verified = told[e].verified
        /\ Harmless(Kinds, {"recover"}) => accounts[e].password = told[e].password

\* A Google account is linked to one account, which stays linked through every
\* stale save: toTemplate leaves an empty googleId out.
LinkStays ==
    \A e \in Known :
        /\ told[e].googleId # None => accounts[e].googleId # None
        /\ Harmless(Kinds, {"google"}) => accounts[e].googleId = told[e].googleId
        /\ \A f \in Known \ {e} : accounts[e].googleId # None =>
                                      accounts[e].googleId # accounts[f].googleId

\* However toggles, check-ins and other saves overlap, a volunteer has one active
\* profile at most and it is the last, and points are in the first
\* (user.entity.ts 212-214, 254-291).
ProfilesSane ==
    \A e \in Known :
        LET s == accounts[e].gameProfiles
        IN  /\ \A i \in DOMAIN s : s[i].active => i = Len(s)
            /\ \A i \in DOMAIN s : s[i].points > 0 => i = 1

\* The subscription is what the last toggle answered, and no point is lost, unless
\* a save read the account before and wrote after (volunteer.service.ts 15-24).
ProfilesKept ==
    \A e \in Known :
        LET s == accounts[e].gameProfiles
        IN  /\ Harmless(Kinds, {"toggle"}) => IsSubscribed(s) = told[e].subscribed
            /\ Harmless(Kinds, {"credit", "toggle"}) =>
                  told[e].points = IF s = <<>> THEN 0 ELSE s[1].points

\* The game profiles are well formed and are what the volunteer was told.
ProfilesAsTold == ProfilesSane /\ ProfilesKept

\* Two accounts never have one user name, though the lookup and the creation are
\* two steps (auth.service.ts 97-119, user.schema.ts 38-42).
UniqueAccounts == \A e, f \in Known : accounts[e].name = accounts[f].name => e = f

\* How one signs in to an account, by name and password or by Google, lasts.
SignInsHold == AnswersHold /\ LinkStays /\ UniqueAccounts
=============================================================================
