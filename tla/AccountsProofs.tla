---------------------------- MODULE AccountsProofs ----------------------------
(* Theorems about Accounts, for any number of e-mails, names, links and of    *)
(* requests at once.                                                         *)
EXTENDS Accounts, TLAPS

Entity == Account(Tokens \cup {None, Unset})

-----------------------------------------------------------------------------
(* The four shapes of a step. *)

Profiles(kind, s) == IF kind = "toggle" THEN Toggle(s) ELSE IF kind = "credit" THEN AddPoints(s) ELSE s

\* What a request of this kind makes in memory of the account it has read.
Made(kind, a, u, t) ==
    /\ u.name = a.name
    /\ u.verified = IF kind \in {"verify", "google"} THEN TRUE ELSE a.verified
    /\ kind # "recover" => u.password = a.password
    /\ IF kind = "google" THEN u.googleId \in Subs ELSE u.googleId = a.googleId
    /\ kind \in {"verify", "recover"} => t \in Tokens /\ a.token = t /\ u.token = None
    /\ kind = "forgot" => t \in FreshTokens /\ u.token = t
    /\ kind \notin {"verify", "recover", "forgot"} => t = None /\ u.token = Unset
    /\ u.gameProfiles = Profiles(kind, a.gameProfiles)
    /\ kind = "credit" => a.gameProfiles # <<>>

ReadStep(r) ==
    /\ UNCHANGED <<accounts, history>>
    /\ \E kind \in Kinds, e \in Emails, u \in Entity, t \in Tokens \cup {None} :
          Exists(e) /\ Made(kind, accounts[e], u, t) /\ Read(r, kind, e, u, t)

MoveStep(r) ==
    /\ UNCHANGED <<accounts, history>>
    /\ \E q \in Request : /\ q.at # "save" /\ (q.at = "again" => Exists(q.email))
                          /\ req' = [req EXCEPT ![r] = q]

NewAccount(n, s, t, pw) ==
    [name |-> n, verified |-> s # None, password |-> pw, token |-> t, googleId |-> s,
     gameProfiles |-> <<>>]

CreateStep(r) ==
    /\ UNCHANGED <<used, overlaps>>
    /\ req' = [req EXCEPT ![r] = Idle]
    /\ \E e \in Emails, n \in Names, s \in Subs \cup {None}, t \in FreshTokens \cup {None},
          pw \in Passwords :
          /\ ~ Clashes(e, n, s)
          /\ accounts' = [accounts EXCEPT ![e] = NewAccount(n, s, t, pw)]
          /\ told' = [told EXCEPT ![e] = [verified |-> s # None, password |-> pw, googleId |-> s,
                                          subscribed |-> FALSE, points |-> 0]]
          /\ issued' = [issued EXCEPT ![e] = t]

UpdateStep(r) ==
    LET q == req[r]
        e == q.email
        new == ToTemplate(q.user, accounts[e])
    IN  /\ q.at = "save"
        /\ \A f \in Emails \ {e} :
              Exists(f) /\ new.googleId # None => accounts[f].googleId # new.googleId
        /\ accounts' = [accounts EXCEPT ![e] = new]
        /\ told' = [told EXCEPT ![e] = Tell(@, q.kind, q.user)]
        /\ used' = IF q.kind \in {"verify", "recover"} THEN used \cup {q.token} ELSE used
        /\ issued' = IF q.kind = "forgot" THEN [issued EXCEPT ![e] = q.token] ELSE issued
        /\ overlaps' = overlaps \cup {<<q.kind, l>> : l \in q.beside}
        /\ Written(q.kind, e, r)

\* A toggle keeps the profiles a list of profiles.
LEMMA TogglesTyped ==
    ASSUME NEW s \in Seq(Profile)
    PROVE  Toggle(s) \in Seq(Profile)
<1>1. CASE IsSubscribed(s)
  <2>1. ASSUME NEW i \in 1..Len(s) PROVE [s[i] EXCEPT !.active = FALSE] \in Profile
    <3>1. s[i] \in Profile
      OBVIOUS
    <3> QED BY <3>1 DEF Profile
  <2>2. UnsubscribeFromProject(s) \in [1..Len(s) -> Profile]
    BY <2>1 DEF UnsubscribeFromProject
  <2> QED BY <1>1, <2>2 DEF Toggle
<1>2. CASE ~ IsSubscribed(s)
  <2>1. [active |-> TRUE, points |-> 0] \in Profile
    BY AccountAssumption DEF Profile
  <2> QED BY <1>2, <2>1 DEF Toggle, SubscribeToProject
<1> QED BY <1>1, <1>2

\* So does a reward that stays within the bound.
LEMMA CreditsTyped ==
    ASSUME NEW s \in Seq(Profile), s # <<>>, \A i \in DOMAIN s : s[i].points < MaxCredits
    PROVE  AddPoints(s) \in Seq(Profile)
<1>1. 1 \in DOMAIN s /\ s[1] \in Profile
  OBVIOUS
<1>2. [s[1] EXCEPT !.points = @ + 1] \in Profile
  BY <1>1, AccountAssumption DEF Profile
<1> QED BY <1>1, <1>2 DEF AddPoints

\* An entity keeps the fields of the account it is read from.
LEMMA ToEntityTyped ==
    ASSUME NEW a \in Account(Tokens \cup {None})
    PROVE  ToEntity(a) \in Entity /\ ToEntity(a).token = Unset
  BY DEF ToEntity, Account, Entity

\* Every step has one of the four shapes.
LEMMA Steps ==
    ASSUME TypeOK, Next
    PROVE  \E r \in Requests : ReadStep(r) \/ MoveStep(r) \/ CreateStep(r) \/ UpdateStep(r)
<1> USE AccountAssumption
<1>1. PICK r \in Requests :
        \/ \E e \in Emails, n \in Names : Register(r, e, n)
        \/ \E e \in Emails, s \in Subs : GoogleById(r, e, s)
        \/ \E t \in Tokens : VerifyEmail(r, t)
        \/ \E t \in Tokens, pw \in Passwords : RecoverPassword(r, t, pw)
        \/ \E e \in Emails : \/ ForgotPassword(r, e) \/ UpdateProfile(r, e)
                             \/ ToggleSubscription(r, e) \/ Credit(r, e)
        \/ GoogleByEmail(r) \/ SaveResetToken(r) \/ Create(r) \/ Update(r)
  BY DEF Next
<1>2. \A e \in Emails : Exists(e) => accounts[e] \in Account(Tokens \cup {None})
  BY DEF TypeOK, Exists
<1>3. req[r] \in Request /\ (req[r].at \in {"again", "save"} => Exists(req[r].email))
  BY DEF TypeOK
<1>4. ASSUME NEW e \in Emails, NEW n \in Names, Register(r, e, n) PROVE MoveStep(r)
  BY <1>4 DEF Register, MoveStep, Request
<1>5. ASSUME NEW e \in Emails, NEW s \in Subs, Exists(e) PROVE
        /\ SignedIn(accounts[e], s) \in Entity
        /\ Made("google", accounts[e], SignedIn(accounts[e], s), None)
  BY <1>2, <1>5 DEF Made, SignedIn, ToEntity, Entity, Account, Profiles
<1>6. ASSUME NEW e \in Emails, NEW s \in Subs, GoogleById(r, e, s)
      PROVE  MoveStep(r) \/ ReadStep(r)
  <2> DEFINE found == {f \in Emails : Exists(f) /\ accounts[f].googleId = s}
  <2>1. CASE found = {}
    <3>1. req' = [req EXCEPT ![r] = [at |-> "email", email |-> e, sub |-> s]]
      BY <1>6, <2>1 DEF GoogleById
    <3> QED BY <1>6, <3>1 DEF GoogleById, MoveStep, Request
  <2>2. CASE found # {}
    <3>1. PICK f \in found : Read(r, "google", f, SignedIn(accounts[f], s), None)
      BY <1>6, <2>2 DEF GoogleById
    <3> QED BY <1>5, <1>6, <3>1 DEF GoogleById, ReadStep, Kinds
  <2> QED BY <2>1, <2>2
<1>7. ASSUME GoogleByEmail(r) PROVE MoveStep(r) \/ ReadStep(r)
  <2>1. req[r].email \in Emails /\ req[r].sub \in Subs
    BY <1>3, <1>7 DEF GoogleByEmail, Request, Idle
  <2>2. CASE Exists(req[r].email)
    BY <1>5, <1>7, <2>1, <2>2 DEF GoogleByEmail, ReadStep, Kinds
  <2>3. CASE ~ Exists(req[r].email)
    BY <1>7, <2>1, <2>3 DEF GoogleByEmail, MoveStep, Request, Idle
  <2> QED BY <2>2, <2>3
<1>8. ASSUME NEW t \in Tokens, VerifyEmail(r, t) PROVE ReadStep(r)
  <2>1. PICK e \in Linked(t) : Read(r, "verify", e,
            [ToEntity(accounts[e]) EXCEPT !.verified = TRUE, !.token = None], t)
    BY <1>8 DEF VerifyEmail
  <2> DEFINE u == [ToEntity(accounts[e]) EXCEPT !.verified = TRUE, !.token = None]
  <2>2. e \in Emails /\ Exists(e) /\ accounts[e].token = t
    BY DEF Linked
  <2>3. u \in Entity /\ Made("verify", accounts[e], u, t)
    BY <1>2, <2>2 DEF Made, ToEntity, Entity, Account, Profiles
  <2> QED BY <1>8, <2>1, <2>2, <2>3 DEF VerifyEmail, ReadStep, Kinds
<1>9. ASSUME NEW t \in Tokens, NEW pw \in Passwords, RecoverPassword(r, t, pw) PROVE ReadStep(r)
  <2>1. PICK e \in Linked(t) : Read(r, "recover", e,
            [ToEntity(accounts[e]) EXCEPT !.password = pw, !.token = None], t)
    BY <1>9 DEF RecoverPassword
  <2> DEFINE u == [ToEntity(accounts[e]) EXCEPT !.password = pw, !.token = None]
  <2>2. e \in Emails /\ Exists(e) /\ accounts[e].token = t
    BY DEF Linked
  <2>3. u \in Entity /\ Made("recover", accounts[e], u, t)
    BY <1>2, <2>2 DEF Made, ToEntity, Entity, Account, Profiles
  <2> QED BY <1>9, <2>1, <2>2, <2>3 DEF RecoverPassword, ReadStep, Kinds
<1>10. ASSUME NEW e \in Emails, ForgotPassword(r, e) PROVE MoveStep(r)
  BY <1>10 DEF ForgotPassword, MoveStep, Request
<1>11. ASSUME SaveResetToken(r) PROVE ReadStep(r)
  <2> DEFINE e == req[r].email
  <2>1. PICK t \in FreshTokens : Read(r, "forgot", e, [ToEntity(accounts[e]) EXCEPT !.token = t], t)
    BY <1>11 DEF SaveResetToken
  <2> DEFINE u == [ToEntity(accounts[e]) EXCEPT !.token = t]
  <2>2. e \in Emails /\ Exists(e) /\ t \in Tokens
    BY <1>3, <1>11 DEF SaveResetToken, Request, Idle, FreshTokens
  <2>3. u \in Entity /\ Made("forgot", accounts[e], u, t)
    BY <1>2, <2>2 DEF Made, ToEntity, Entity, Account, Profiles
  <2> QED BY <1>11, <2>1, <2>2, <2>3 DEF SaveResetToken, ReadStep, Kinds
<1>12. ASSUME NEW e \in Emails, UpdateProfile(r, e) PROVE ReadStep(r)
  <2>1. ToEntity(accounts[e]) \in Entity /\ Made("save", accounts[e], ToEntity(accounts[e]), None)
    BY <1>2, <1>12 DEF UpdateProfile, Made, ToEntity, Entity, Account, Profiles
  <2> QED BY <1>12, <2>1 DEF UpdateProfile, ReadStep, Kinds
<1>13. ASSUME NEW e \in Emails, ToggleSubscription(r, e) PROVE ReadStep(r)
  <2> DEFINE u == [ToEntity(accounts[e]) EXCEPT !.gameProfiles = Toggle(@)]
  <2>1. Exists(e) /\ Toggle(accounts[e].gameProfiles) \in Seq(Profile)
    BY <1>2, <1>13, TogglesTyped DEF ToggleSubscription, Account
  <2>2. u \in Entity /\ Made("toggle", accounts[e], u, None)
    BY <1>2, <2>1 DEF Made, ToEntity, Entity, Account, Profiles
  <2> QED BY <1>13, <2>1, <2>2 DEF ToggleSubscription, ReadStep, Kinds
<1>14. ASSUME NEW e \in Emails, Credit(r, e) PROVE ReadStep(r)
  <2> DEFINE u == [ToEntity(accounts[e]) EXCEPT !.gameProfiles = AddPoints(@)]
  <2>1. /\ Exists(e) /\ accounts[e].gameProfiles # <<>>
        /\ AddPoints(accounts[e].gameProfiles) \in Seq(Profile)
    BY <1>2, <1>14, CreditsTyped DEF Credit, Account
  <2>2. u \in Entity /\ Made("credit", accounts[e], u, None)
    BY <1>2, <2>1 DEF Made, ToEntity, Entity, Account, Profiles
  <2> QED BY <1>14, <2>1, <2>2 DEF Credit, ReadStep, Kinds
<1>15. ASSUME Create(r) PROVE MoveStep(r) \/ CreateStep(r)
  <2>1. /\ req[r].email \in Emails /\ req[r].name \in Names /\ req[r].sub \in Subs \cup {None}
    BY <1>3, <1>15 DEF Create, Request, Idle
  <2>2. CASE Clashes(req[r].email, req[r].name, req[r].sub)
    BY <1>15, <2>2 DEF Create, MoveStep, Request, Idle
  <2>3. CASE ~ Clashes(req[r].email, req[r].name, req[r].sub)
    <3>1. PICK t \in FreshTokens \cup {None}, pw \in Passwords :
            /\ accounts' = [accounts EXCEPT ![req[r].email] =
                  NewAccount(req[r].name, req[r].sub, t, pw)]
            /\ told' = [told EXCEPT ![req[r].email] =
                  [verified |-> req[r].sub # None, password |-> pw, googleId |-> req[r].sub,
                   subscribed |-> FALSE, points |-> 0]]
            /\ issued' = [issued EXCEPT ![req[r].email] = t]
            /\ req' = [req EXCEPT ![r] = Idle]
            /\ UNCHANGED <<used, overlaps>>
      BY <1>15, <2>3 DEF Create, NewAccount
    <3> QED BY <2>1, <2>3, <3>1 DEF CreateStep
  <2> QED BY <2>2, <2>3
<1>16. ASSUME Update(r) PROVE MoveStep(r) \/ UpdateStep(r)
  <2> DEFINE new == ToTemplate(req[r].user, accounts[req[r].email])
             refused == \E f \in Emails \ {req[r].email} :
                           /\ Exists(f) /\ new.googleId # None
                           /\ accounts[f].googleId = new.googleId
  <2>1. CASE refused
    BY <1>16, <2>1 DEF Update, MoveStep, Request, Idle
  <2>2. CASE ~ refused
    BY <1>16, <2>2 DEF Update, UpdateStep
  <2> QED BY <2>1, <2>2
<1> QED
  BY <1>1, <1>4, <1>6, <1>7, <1>8, <1>9, <1>10, <1>11, <1>12, <1>13, <1>14, <1>15, <1>16

-----------------------------------------------------------------------------
(* Types. *)

\* Whether the last profile of a list is active is a Boolean.
LEMMA ProfilesTyped ==
    ASSUME NEW s \in Seq(Profile)
    PROVE  IsSubscribed(s) \in BOOLEAN
  BY DEF IsSubscribed

\* The token a save brings, and the overlaps it has seen.
SavesTyped ==
    \A r \in Requests : req[r].at = "save" =>
        /\ req[r].kind \in {"verify", "recover", "forgot"} => req[r].token \in Tokens
        /\ \A l \in req[r].beside : <<req[r].kind, l>> \in Harm

\* A read leaves the state typed.
LEMMA TypeReads ==
    ASSUME TypeOK, NEW r \in Requests, ReadStep(r) \/ MoveStep(r)
    PROVE  TypeOK'
<1> USE AccountAssumption
<1>1. CASE ReadStep(r)
  <2>1. PICK kind \in Kinds, e \in Emails, u \in Entity, t \in Tokens \cup {None} :
           Exists(e) /\ Read(r, kind, e, u, t)
    BY <1>1 DEF ReadStep
  <2>2. Saving(kind, e, u, t) \in Request
    BY DEF Saving, Request, Entity
  <2>3. req' \in [Requests -> Request]
    BY <2>1, <2>2 DEF TypeOK, Read
  <2>4. \A p \in Requests : req'[p].at \in {"again", "save"} => Exists(req'[p].email)
    BY <2>1 DEF TypeOK, Read, Saving
  <2> QED BY <1>1, <2>3, <2>4 DEF ReadStep, TypeOK, history, Exists
<1>2. CASE MoveStep(r)
  <2>1. PICK q \in Request : /\ q.at # "save" /\ (q.at = "again" => Exists(q.email))
                             /\ req' = [req EXCEPT ![r] = q]
    BY <1>2 DEF MoveStep
  <2> QED BY <1>2, <2>1 DEF MoveStep, TypeOK, history, Exists
<1> QED BY <1>1, <1>2

\* So do a creation and its refusal.
LEMMA TypeCreates ==
    ASSUME TypeOK, NEW r \in Requests, CreateStep(r)
    PROVE  TypeOK'
<1> USE AccountAssumption
<1>1. PICK e \in Emails, n \in Names, s \in Subs \cup {None}, t \in FreshTokens \cup {None},
           pw \in Passwords :
         /\ ~ Clashes(e, n, s)
         /\ accounts' = [accounts EXCEPT ![e] = NewAccount(n, s, t, pw)]
         /\ told' = [told EXCEPT ![e] = [verified |-> s # None, password |-> pw, googleId |-> s,
                                         subscribed |-> FALSE, points |-> 0]]
         /\ issued' = [issued EXCEPT ![e] = t]
  BY DEF CreateStep
<1>2. t \in Tokens \cup {None}
  BY DEF FreshTokens
<1>3. <<>> \in Seq(Profile)
  OBVIOUS
<1>4. NewAccount(n, s, t, pw) \in Account(Tokens \cup {None})
  BY <1>2, <1>3 DEF NewAccount, Account
<1>5. [verified |-> s # None, password |-> pw, googleId |-> s,
       subscribed |-> FALSE, points |-> 0] \in Told
  BY DEF Told
<1>6. accounts' \in [Emails -> Account(Tokens \cup {None}) \cup {None}]
  BY <1>1, <1>4 DEF TypeOK
<1>7. told' \in [Emails -> Told \cup {None}] /\ issued' \in [Emails -> Tokens \cup {None}]
  BY <1>1, <1>2, <1>5 DEF TypeOK
<1>8. Idle \in Request /\ Idle.at \notin {"again", "save"}
  BY DEF Request, Idle
<1>9. req' \in [Requests -> Request]
  BY <1>8 DEF TypeOK, CreateStep
<1>10. \A f \in Emails : Exists(f) => accounts'[f] # None
  BY <1>1, <1>4 DEF TypeOK, Exists
<1>11. \A p \in Requests : req'[p].at \in {"again", "save"} => accounts'[req'[p].email] # None
  <2> SUFFICES ASSUME NEW p \in Requests, req'[p].at \in {"again", "save"}
               PROVE  accounts'[req'[p].email] # None
    OBVIOUS
  <2>1. p # r /\ req'[p] = req[p]
    BY <1>8 DEF CreateStep, TypeOK
  <2>2. req[p].email \in Emails /\ Exists(req[p].email)
    BY <2>1 DEF TypeOK, Request, Idle
  <2> QED BY <1>10, <2>1, <2>2 DEF Exists
<1>12. \A f \in Emails : Exists(f)' => told'[f] # None
  BY <1>1, <1>5 DEF TypeOK, Exists
<1> QED BY <1>6, <1>7, <1>9, <1>11, <1>12 DEF CreateStep, TypeOK, Exists

SaveRequest ==
    [at : {"save"}, kind : Kinds, email : Emails, token : Tokens \cup {None}, user : Entity,
     beside : SUBSET Kinds]

\* A save under way.
LEMMA SaveTyped ==
    ASSUME TypeOK, NEW r \in Requests, req[r].at = "save"
    PROVE  req[r] \in SaveRequest
<1>1. req[r] \in Request
  BY DEF TypeOK
<1> QED BY <1>1 DEF Request, Idle, Entity, SaveRequest

\* A pending save has the fields of one, and its account exists.
LEMMA Saves ==
    ASSUME TypeOK, NEW r \in Requests, req[r].at = "save"
    PROVE  /\ req[r].kind \in Kinds /\ req[r].email \in Emails /\ Exists(req[r].email)
           /\ req[r].token \in Tokens \cup {None} /\ req[r].user \in Entity
           /\ req[r].beside \in SUBSET Kinds
           /\ accounts[req[r].email] \in Account(Tokens \cup {None})
           /\ told[req[r].email] \in Told
<1>1. req[r] \in SaveRequest
  BY SaveTyped
<1>2. Exists(req[r].email)
  BY DEF TypeOK
<1> QED BY <1>1, <1>2 DEF TypeOK, Exists, SaveRequest

\* What an update does to the requests.
LEMMA UpdateMarks ==
    ASSUME TypeOK, NEW r \in Requests, UpdateStep(r), NEW p \in Requests, req'[p].at = "save"
    PROVE  /\ p # r /\ req[p].at = "save"
           /\ req'[p].kind = req[p].kind /\ req'[p].email = req[p].email
           /\ req'[p].user = req[p].user /\ req'[p].token = req[p].token
           /\ req[p].beside \subseteq req'[p].beside
           /\ req[p].email = req[r].email /\ <<req[p].kind, req[r].kind>> \in Harm
                 => req[r].kind \in req'[p].beside
<1>1. req'[p] = IF p = r THEN Idle
               ELSE IF req[p].at = "save" /\ req[p].email = req[r].email
                       /\ <<req[p].kind, req[r].kind>> \in Harm
                    THEN [req[p] EXCEPT !.beside = @ \cup {req[r].kind}]
               ELSE req[p]
  BY DEF UpdateStep, Written
<1>2. p # r
  BY <1>1 DEF Idle
<1>3. req[p].at = "save"
  BY <1>1, <1>2
<1>4. req[p] \in SaveRequest
  BY <1>3, SaveTyped
<1> QED BY <1>1, <1>2, <1>3, <1>4 DEF SaveRequest

\* What an update does to the account.
LEMMA UpdateWrites ==
    ASSUME TypeOK, NEW r \in Requests, UpdateStep(r)
    PROVE  LET e == req[r].email
               u == req[r].user
               a == accounts'[e]
           IN  /\ a \in Account(Tokens \cup {None})
               /\ a.name = u.name /\ a.verified = u.verified /\ a.password = u.password
               /\ a.gameProfiles = u.gameProfiles
               /\ a.token = IF u.token = Unset THEN accounts[e].token ELSE u.token
               /\ a.googleId = IF u.googleId = None THEN accounts[e].googleId ELSE u.googleId
               /\ \A f \in Emails \ {e} : accounts'[f] = accounts[f]
<1>1. req[r].at = "save"
  BY DEF UpdateStep
<1>2. accounts' = [accounts EXCEPT ![req[r].email] =
                     ToTemplate(req[r].user, accounts[req[r].email])]
  BY DEF UpdateStep
<1>3. accounts \in [Emails -> Account(Tokens \cup {None}) \cup {None}]
  BY DEF TypeOK
<1> QED BY <1>1, <1>2, <1>3, Saves DEF ToTemplate, Account, Entity

\* What is told, t, after a save of kind k that wrote u, where d was told before.
ToldAfter(d, k, u, t) ==
    /\ t \in Told
    /\ t.verified = IF k \in {"verify", "google"} THEN TRUE ELSE d.verified
    /\ t.password = IF k = "recover" THEN u.password ELSE d.password
    /\ t.googleId = IF k = "google" THEN u.googleId ELSE d.googleId
    /\ t.subscribed = IF k = "toggle" THEN IsSubscribed(u.gameProfiles) ELSE d.subscribed
    /\ t.points = IF k = "credit" THEN d.points + 1 ELSE d.points

\* What an answer may change of what was told, field by field.
LEMMA Tells ==
    ASSUME NEW d \in Told, NEW k \in Kinds, NEW u, u.password \in Passwords,
           u.googleId \in Subs \cup {None}
    PROVE  ToldAfter(d, k, u, Tell(d, k, u))
<1>1. IsSubscribed(u.gameProfiles) \in BOOLEAN
  BY DEF IsSubscribed
<1>2. CASE k = "verify"
  BY <1>2 DEF Tell, Told, ToldAfter
<1>3. CASE k = "recover"
  BY <1>3 DEF Tell, Told, ToldAfter
<1>4. CASE k = "google"
  BY <1>4 DEF Tell, Told, ToldAfter
<1>5. CASE k = "toggle"
  BY <1>1, <1>5 DEF Tell, Told, ToldAfter
<1>6. CASE k = "credit"
  BY <1>6 DEF Tell, Told, ToldAfter
<1>7. CASE k \in {"forgot", "save"}
  BY <1>7 DEF Tell, Told, ToldAfter
<1> QED BY <1>2, <1>3, <1>4, <1>5, <1>6, <1>7 DEF Kinds

\* What an update's answer tells.
LEMMA UpdateTells ==
    ASSUME TypeOK, NEW r \in Requests, UpdateStep(r)
    PROVE  /\ ToldAfter(told[req[r].email], req[r].kind, req[r].user, told'[req[r].email])
           /\ \A f \in Emails \ {req[r].email} : told'[f] = told[f]
<1>1. req[r].at = "save"
  BY DEF UpdateStep
<1>2. told' = [told EXCEPT ![req[r].email] = Tell(@, req[r].kind, req[r].user)]
  BY DEF UpdateStep
<1>3. IsSubscribed(req[r].user.gameProfiles) \in BOOLEAN
  BY DEF IsSubscribed
<1>4. told \in [Emails -> Told \cup {None}]
  BY DEF TypeOK
<1>5. /\ req[r].kind \in Kinds /\ req[r].email \in Emails /\ told[req[r].email] \in Told
      /\ req[r].user.password \in Passwords /\ req[r].user.googleId \in Subs \cup {None}
  BY <1>1, Saves DEF Entity, Account
<1>6. told'[req[r].email] = Tell(told[req[r].email], req[r].kind, req[r].user)
  BY <1>2, <1>4, <1>5
<1>7. \A f \in Emails \ {req[r].email} : told'[f] = told[f]
  BY <1>2, <1>4
<1>8. ToldAfter(told[req[r].email], req[r].kind, req[r].user,
                Tell(told[req[r].email], req[r].kind, req[r].user))
  BY <1>5, Tells
<1> QED BY <1>6, <1>7, <1>8

\* An update leaves the state typed.
LEMMA TypeUpdates ==
    ASSUME TypeOK, SavesTyped, NEW r \in Requests, UpdateStep(r)
    PROVE  TypeOK'
<1> DEFINE e == req[r].email
<1>1. req[r].at = "save"
  BY DEF UpdateStep
<1>2. /\ e \in Emails /\ Exists(e) /\ req[r].kind \in Kinds /\ req[r].beside \subseteq Kinds
  BY <1>1, Saves
<1>3. /\ accounts'[e] \in Account(Tokens \cup {None}) /\ told'[e] \in Told
      /\ \A f \in Emails \ {e} : accounts'[f] = accounts[f] /\ told'[f] = told[f]
  BY UpdateWrites, UpdateTells DEF ToldAfter
<1>4. accounts' \in [Emails -> Account(Tokens \cup {None}) \cup {None}]
  <2>1. accounts' = [accounts EXCEPT ![e] = accounts'[e]]
    BY <1>2 DEF UpdateStep, TypeOK
  <2> QED BY <1>3, <2>1 DEF TypeOK
<1>5. told' \in [Emails -> Told \cup {None}]
  <2>1. told' = [told EXCEPT ![e] = told'[e]]
    BY <1>2 DEF UpdateStep, TypeOK
  <2> QED BY <1>3, <2>1 DEF TypeOK
<1>6. \A f \in Emails : Exists(f) <=> Exists(f)'
  BY <1>2, <1>3, AccountAssumption DEF Exists
<1>7. \A f \in Emails : Exists(f)' => told'[f] # None
  BY <1>3, <1>6, AccountAssumption DEF TypeOK
<1>8. /\ used' \subseteq Tokens /\ issued' \in [Emails -> Tokens \cup {None}]
  <2>1. req[r].kind \in {"verify", "recover", "forgot"} => req[r].token \in Tokens
    BY <1>1 DEF SavesTyped
  <2> QED BY <1>2, <2>1 DEF UpdateStep, TypeOK
<1>9. overlaps' \subseteq Harm
  BY <1>1 DEF UpdateStep, TypeOK, SavesTyped
<1>10. req' \in [Requests -> Request]
  <2>1. Idle \in Request
    BY DEF Request
  <2>2. ASSUME NEW p \in Requests, req[p].at = "save"
        PROVE  [req[p] EXCEPT !.beside = @ \cup {req[r].kind}] \in Request
    <3>1. [req[p] EXCEPT !.beside = @ \cup {req[r].kind}] \in SaveRequest
      BY <1>2, <2>2, SaveTyped DEF SaveRequest
    <3> QED BY <3>1 DEF Request, SaveRequest, Entity
  <2> QED BY <2>1, <2>2 DEF UpdateStep, Written, TypeOK
<1>11. \A p \in Requests : req'[p].at \in {"again", "save"} => accounts'[req'[p].email] # None
  <2> SUFFICES ASSUME NEW p \in Requests, req'[p].at \in {"again", "save"}
               PROVE  accounts'[req'[p].email] # None
    OBVIOUS
  <2>1. req[p].at = req'[p].at /\ req[p].email = req'[p].email
    <3>1. CASE req[p].at = "save" /\ p # r
      <4>1. req[p] \in SaveRequest
        BY <3>1, SaveTyped
      <4> QED BY <3>1, <4>1 DEF UpdateStep, Written, SaveRequest
    <3>2. CASE ~ (req[p].at = "save" /\ p # r)
      BY <3>2 DEF UpdateStep, Written, Idle
    <3> QED BY <3>1, <3>2
  <2>2. Exists(req[p].email) /\ req[p].email \in Emails
    BY <2>1 DEF TypeOK, Request, Idle
  <2> QED BY <1>6, <2>1, <2>2 DEF Exists
<1> QED BY <1>4, <1>5, <1>7, <1>8, <1>9, <1>10, <1>11 DEF TypeOK, Exists

\* Whatever the step, the saves after it were under way before it, or are read in it.
LEMMA SavesAfter ==
    ASSUME TypeOK, NEW r \in Requests, MoveStep(r) \/ CreateStep(r), NEW p \in Requests,
           req'[p].at = "save"
    PROVE  p # r /\ req'[p] = req[p]
  BY DEF MoveStep, CreateStep, TypeOK, Idle

\* Pending saves stay typed.
LEMMA SaveTypes ==
    ASSUME TypeOK, SavesTyped, NEW r \in Requests,
           ReadStep(r) \/ MoveStep(r) \/ CreateStep(r) \/ UpdateStep(r)
    PROVE  SavesTyped'
<1> SUFFICES ASSUME NEW p \in Requests, req'[p].at = "save"
             PROVE  /\ req'[p].kind \in {"verify", "recover", "forgot"} => req'[p].token \in Tokens
                    /\ \A l \in req'[p].beside : <<req'[p].kind, l>> \in Harm
  BY DEF SavesTyped
<1>1. CASE ReadStep(r)
  <2>1. PICK kind \in Kinds, e \in Emails, u \in Entity, t \in Tokens \cup {None} :
           Made(kind, accounts[e], u, t) /\ Read(r, kind, e, u, t)
    BY <1>1 DEF ReadStep
  <2>2. CASE p = r
    <3>1. req'[p] = Saving(kind, e, u, t)
      BY <2>1, <2>2 DEF Read, TypeOK
    <3>2. kind \in {"verify", "recover", "forgot"} => t \in Tokens
      BY <2>1 DEF Made, FreshTokens
    <3> QED BY <3>1, <3>2 DEF Saving
  <2>3. CASE p # r
    BY <2>1, <2>3 DEF Read, TypeOK, SavesTyped
  <2> QED BY <2>2, <2>3
<1>2. CASE MoveStep(r) \/ CreateStep(r)
  BY <1>2, SavesAfter DEF SavesTyped
<1>3. CASE UpdateStep(r)
  <2>1. \/ req'[p] = req[p]
        \/ /\ <<req[p].kind, req[r].kind>> \in Harm
           /\ req'[p] = [req[p] EXCEPT !.beside = @ \cup {req[r].kind}]
    BY <1>3 DEF UpdateStep, Written, Idle
  <2>2. /\ p # r /\ req[p].at = "save" /\ req'[p].kind = req[p].kind
        /\ req'[p].token = req[p].token
    BY <1>3, UpdateMarks
  <2>3. req'[p].beside \subseteq req[p].beside \cup {req[r].kind}
    BY <2>1, <2>2, SaveTyped DEF SaveRequest
  <2> QED BY <2>1, <2>2, <2>3 DEF SavesTyped
<1> QED BY <1>1, <1>2, <1>3

Typed == TypeOK /\ SavesTyped

\* The state is typed at first,
LEMMA TypedStarts == Init => Typed
  BY AccountAssumption DEF Init, Typed, TypeOK, SavesTyped, Request, Idle, Exists

\* and every step keeps it so.
LEMMA TypedStays == Typed /\ [Next]_vars => Typed'
<1> SUFFICES ASSUME Typed, [Next]_vars PROVE Typed'
  OBVIOUS
<1>1. CASE Next
  <2>1. PICK r \in Requests : ReadStep(r) \/ MoveStep(r) \/ CreateStep(r) \/ UpdateStep(r)
    BY <1>1, Steps DEF Typed
  <2> QED BY <2>1, TypeReads, TypeCreates, TypeUpdates, SaveTypes DEF Typed
<1>2. CASE UNCHANGED vars
  BY <1>2 DEF Typed, TypeOK, SavesTyped, vars, Exists
<1> QED BY <1>1, <1>2

\* Every reachable state is well typed, with any requests overlapping.
THEOREM AccountsTyped == Spec => []TypeOK
<1>1. Typed => TypeOK
  BY DEF Typed
<1> QED BY TypedStarts, TypedStays, <1>1, PTL DEF Spec

-----------------------------------------------------------------------------
(* What each shape of a step does, in one fact each. *)

\* A read adds one pending save, of the account as it is.
LEMMA Reads ==
    ASSUME TypeOK, NEW r \in Requests, ReadStep(r), NEW p \in Requests, req'[p].at = "save"
    PROVE  \/ p # r /\ req'[p] = req[p]
           \/ /\ p = r /\ req'[p] \in SaveRequest /\ req'[p].beside = {} /\ Exists(req'[p].email)
              /\ Made(req'[p].kind, accounts[req'[p].email], req'[p].user, req'[p].token)
<1>1. PICK kind \in Kinds, e \in Emails, u \in Entity, t \in Tokens \cup {None} :
         Exists(e) /\ Made(kind, accounts[e], u, t) /\ Read(r, kind, e, u, t)
  BY DEF ReadStep
<1>2. CASE p = r
  <2>1. req'[p] = Saving(kind, e, u, t)
    BY <1>1, <1>2 DEF Read, TypeOK
  <2>2. req'[p] \in SaveRequest /\ req'[p].beside = {} /\ req'[p].email = e
        /\ req'[p].kind = kind /\ req'[p].user = u /\ req'[p].token = t
    BY <2>1 DEF Saving, SaveRequest
  <2> QED BY <1>1, <1>2, <2>2
<1>3. CASE p # r
  BY <1>1, <1>3 DEF Read, TypeOK
<1> QED BY <1>2, <1>3

\* Account e is created with these values: it did not exist, so nobody is saving it.
Creation(r, e, n, s, t, pw) ==
    /\ ~ Clashes(e, n, s) /\ ~ Exists(e)
    /\ accounts'[e] = NewAccount(n, s, t, pw) /\ accounts'[e] # None
    /\ told'[e] = [verified |-> s # None, password |-> pw, googleId |-> s,
                   subscribed |-> FALSE, points |-> 0]
    /\ issued'[e] = t
    /\ \A f \in Emails \ {e} : accounts'[f] = accounts[f] /\ told'[f] = told[f]
                               /\ issued'[f] = issued[f]
    /\ \A p \in Requests : req'[p].at = "save" =>
          p # r /\ req'[p] = req[p] /\ req[p].email \in Emails \ {e}

\* A creation adds one account, under a name and an identity no account has.
LEMMA Creates ==
    ASSUME TypeOK, NEW r \in Requests, CreateStep(r)
    PROVE  \E e \in Emails, n \in Names, s \in Subs \cup {None}, t \in FreshTokens \cup {None},
              pw \in Passwords : Creation(r, e, n, s, t, pw)
<1>1. PICK e \in Emails, n \in Names, s \in Subs \cup {None}, t \in FreshTokens \cup {None},
           pw \in Passwords :
         /\ ~ Clashes(e, n, s)
         /\ accounts' = [accounts EXCEPT ![e] = NewAccount(n, s, t, pw)]
         /\ told' = [told EXCEPT ![e] = [verified |-> s # None, password |-> pw, googleId |-> s,
                                         subscribed |-> FALSE, points |-> 0]]
         /\ issued' = [issued EXCEPT ![e] = t]
  BY DEF CreateStep
<1>2. ~ Exists(e)
  BY <1>1 DEF Clashes
<1>3. /\ accounts'[e] = NewAccount(n, s, t, pw) /\ issued'[e] = t
      /\ told'[e] = [verified |-> s # None, password |-> pw, googleId |-> s,
                     subscribed |-> FALSE, points |-> 0]
      /\ \A f \in Emails \ {e} : accounts'[f] = accounts[f] /\ told'[f] = told[f]
                                 /\ issued'[f] = issued[f]
  BY <1>1 DEF TypeOK
<1>4. accounts'[e] # None
  <2>1. t \in Tokens \cup {None} /\ <<>> \in Seq(Profile)
    BY DEF FreshTokens
  <2>2. NewAccount(n, s, t, pw) \in Account(Tokens \cup {None})
    BY <2>1 DEF NewAccount, Account
  <2> QED BY <1>3, <2>2, AccountAssumption
<1>5. ASSUME NEW p \in Requests, req'[p].at = "save"
      PROVE  p # r /\ req'[p] = req[p] /\ req[p].email \in Emails \ {e}
  BY <1>2, <1>5, SavesAfter, Saves
<1>6. Creation(r, e, n, s, t, pw)
  BY <1>1, <1>2, <1>3, <1>4, <1>5 DEF Creation
<1> QED BY <1>6

\* Nothing of these kinds was written under a save's feet, its own or another's.
Abreast(p, over) == req[p].beside \cap over = {} /\ Harmless(Kinds, over)

\* A save after which no harmful overlap of some kinds is on record was overlapped by none.
LEMMA AbreastWriter ==
    ASSUME TypeOK, NEW r \in Requests, UpdateStep(r), NEW over, Harmless(Kinds, over)'
    PROVE  Abreast(r, over)
<1>1. /\ overlaps' = overlaps \cup {<<req[r].kind, l>> : l \in req[r].beside}
      /\ req[r].kind \in Kinds
  BY Saves DEF UpdateStep
<1>2. Harmless(Kinds, over)
  BY <1>1 DEF Harmless
<1>3. ASSUME NEW l \in req[r].beside, l \in over PROVE FALSE
  <2>1. <<req[r].kind, l>> \in overlaps' /\ <<req[r].kind, l>> \in Kinds \X over
    BY <1>1, <1>3
  <2> QED BY <2>1 DEF Harmless
<1> QED BY <1>2, <1>3 DEF Abreast

\* Who is abreast after a step was so before, and nothing of those kinds was written.
LEMMA AbreastStays ==
    ASSUME TypeOK, NEW r \in Requests, UpdateStep(r), NEW p \in Requests, req'[p].at = "save",
           NEW over \in SUBSET {"verify", "recover", "google", "toggle", "credit"},
           req'[p].beside \cap over = {}, Harmless(Kinds, over)'
    PROVE  /\ Abreast(p, over)
           /\ req[p].email = req[r].email => req[r].kind \notin over
<1>1. Harmless(Kinds, over)
  BY AbreastWriter DEF Abreast
<1>2. req[p].at = "save" /\ req[p].beside \subseteq req'[p].beside
  BY UpdateMarks
<1>3. ASSUME req[p].email = req[r].email, req[r].kind \in over PROVE FALSE
  <2>1. <<req[p].kind, req[r].kind>> \in Harm
    <3>1. req[p].kind \in Kinds
      BY <1>2, Saves
    <3>2. req[r].kind \in {"verify", "recover", "google", "toggle", "credit"}
      BY <1>3
    <3> QED BY <3>1, <3>2 DEF Harm
  <2> QED BY <1>3, <2>1, UpdateMarks
<1> QED BY <1>1, <1>2, <1>3 DEF Abreast

-----------------------------------------------------------------------------
(* User names.  A save carries the name it read, and names never change. *)

NamesInv ==
    /\ UniqueAccounts
    /\ \A r \in Requests : req[r].at = "save" => req[r].user.name = accounts[req[r].email].name

\* Names stay unique.
LEMMA NamesStay ==
    ASSUME Typed, NamesInv, Next
    PROVE  NamesInv'
<1> USE DEF Typed, Known, Exists
<1>1. PICK r \in Requests : ReadStep(r) \/ MoveStep(r) \/ CreateStep(r) \/ UpdateStep(r)
  BY Steps
<1>2. CASE ReadStep(r) \/ MoveStep(r)
  <2>1. UNCHANGED accounts
    BY <1>2 DEF ReadStep, MoveStep
  <2>2. ASSUME NEW p \in Requests, req'[p].at = "save"
        PROVE  req'[p].user.name = accounts'[req'[p].email].name
    <3>1. CASE p # r
      BY <1>2, <2>1, <2>2, <3>1, Reads, SavesAfter DEF NamesInv
    <3>2. CASE p = r
      BY <1>2, <2>1, <2>2, <3>2, Reads, SavesAfter DEF Made
    <3> QED BY <3>1, <3>2
  <2> QED BY <2>1, <2>2 DEF NamesInv, UniqueAccounts
<1>3. CASE CreateStep(r)
  <2>1. PICK e \in Emails, n \in Names, s \in Subs \cup {None}, t \in FreshTokens \cup {None},
             pw \in Passwords : Creation(r, e, n, s, t, pw)
    BY <1>3, Creates
  <2>2. accounts'[e].name = n /\ \A f \in Emails \ {e} : accounts'[f] = accounts[f]
    BY <2>1 DEF Creation, NewAccount
  <2>3. \A f \in Emails : Exists(f) => accounts[f].name # n
    BY <2>1 DEF Creation, Clashes
  <2>4. UniqueAccounts'
    BY <2>2, <2>3 DEF NamesInv, UniqueAccounts
  <2> QED BY <2>1, <2>2, <2>4 DEF NamesInv, Creation
<1>4. CASE UpdateStep(r)
  <2>1. req[r].at = "save" /\ req[r].email \in Emails /\ Exists(req[r].email)
    BY <1>4, Saves DEF UpdateStep
  <2>2. \A f \in Emails : Exists(f) => accounts'[f].name = accounts[f].name
    BY <1>4, <2>1, UpdateWrites DEF NamesInv
  <2>3. \A f \in Emails : accounts'[f] # None => Exists(f)
    BY <1>4, <2>1, UpdateWrites
  <2>4. ASSUME NEW p \in Requests, req'[p].at = "save"
        PROVE  req'[p].user.name = accounts'[req'[p].email].name
    <3>1. /\ req[p].at = "save" /\ req'[p].email = req[p].email /\ req'[p].user = req[p].user
      BY <1>4, <2>4, UpdateMarks
    <3>2. req[p].email \in Emails /\ Exists(req[p].email)
      BY <3>1, Saves
    <3> QED BY <2>2, <3>1, <3>2 DEF NamesInv
  <2> QED BY <2>2, <2>3, <2>4 DEF NamesInv, UniqueAccounts
<1> QED BY <1>1, <1>2, <1>3, <1>4

\* Two accounts never have one user name.
THEOREM NamesAreUnique == Spec => []UniqueAccounts
<1>1. Init => NamesInv
  BY DEF Init, NamesInv, UniqueAccounts, Known, Exists, Idle
<1>2. Typed /\ NamesInv /\ [Next]_vars => NamesInv'
  <2> SUFFICES ASSUME Typed, NamesInv, [Next]_vars PROVE NamesInv'
    OBVIOUS
  <2>1. CASE UNCHANGED vars
    BY <2>1 DEF NamesInv, UniqueAccounts, Known, Exists, vars
  <2> QED BY <2>1, NamesStay
<1>3. NamesInv => UniqueAccounts
  BY DEF NamesInv
<1> QED BY TypedStarts, TypedStays, <1>1, <1>2, <1>3, PTL DEF Spec

-----------------------------------------------------------------------------
(* The Google link. *)

LinkInv ==
    /\ LinkStays
    /\ \A r \in Requests : req[r].at = "save" =>
          /\ req[r].kind = "google" => req[r].user.googleId \in Subs
          /\ req[r].kind # "google" /\ Abreast(r, {"google"}) =>
                req[r].user.googleId = accounts[req[r].email].googleId

\* Links stay.
LEMMA LinksStay ==
    ASSUME Typed, LinkInv, Next
    PROVE  LinkInv'
<1> USE DEF Typed, Known, Exists
<1>1. PICK r \in Requests : ReadStep(r) \/ MoveStep(r) \/ CreateStep(r) \/ UpdateStep(r)
  BY Steps
<1>2. CASE ReadStep(r) \/ MoveStep(r)
  <2>1. UNCHANGED <<accounts, history>>
    BY <1>2 DEF ReadStep, MoveStep
  <2>2. LinkStays'
    BY <2>1 DEF LinkInv, LinkStays, Harmless, history
  <2>3. ASSUME NEW p \in Requests, req'[p].at = "save"
        PROVE  /\ req'[p].kind = "google" => req'[p].user.googleId \in Subs
               /\ req'[p].kind # "google" /\ Abreast(p, {"google"})' =>
                     req'[p].user.googleId = accounts'[req'[p].email].googleId
    <3>1. CASE p = r
      BY <1>2, <2>1, <2>3, <3>1, Reads, SavesAfter DEF Made
    <3>2. CASE p # r
      BY <1>2, <2>1, <2>3, <3>2, Reads, SavesAfter DEF LinkInv, Abreast, Harmless, history
    <3> QED BY <3>1, <3>2
  <2> QED BY <2>2, <2>3 DEF LinkInv
<1>3. CASE CreateStep(r)
  <2>1. PICK e \in Emails, n \in Names, s \in Subs \cup {None}, t \in FreshTokens \cup {None},
             pw \in Passwords : Creation(r, e, n, s, t, pw)
    BY <1>3, Creates
  <2>2. /\ accounts'[e].googleId = s /\ told'[e].googleId = s
        /\ \A f \in Emails \ {e} : accounts'[f] = accounts[f] /\ told'[f] = told[f]
    BY <2>1 DEF Creation, NewAccount
  <2>3. s # None => \A f \in Emails : Exists(f) => accounts[f].googleId # s
    BY <2>1 DEF Creation, Clashes
  <2>4. overlaps' = overlaps
    BY <1>3 DEF CreateStep
  <2>5. LinkStays'
    BY <2>2, <2>3, <2>4 DEF LinkInv, LinkStays, Harmless
  <2>6. ASSUME NEW p \in Requests, req'[p].at = "save"
        PROVE  req'[p] = req[p] /\ accounts'[req[p].email] = accounts[req[p].email]
    BY <2>1, <2>6 DEF Creation
  <2> QED BY <2>4, <2>5, <2>6 DEF LinkInv, Abreast, Harmless
<1>4. CASE UpdateStep(r)
  <2> DEFINE e == req[r].email
             u == req[r].user
  <2>1. /\ req[r].at = "save" /\ e \in Emails /\ Exists(e)
        /\ u.googleId \in Subs \cup {None} /\ accounts[e].googleId \in Subs \cup {None}
    BY <1>4, Saves DEF UpdateStep, Entity, Account
  <2>2. /\ accounts'[e].googleId = IF u.googleId = None THEN accounts[e].googleId ELSE u.googleId
        /\ \A f \in Emails \ {e} : accounts'[f] = accounts[f] /\ told'[f] = told[f]
        /\ told'[e].googleId = IF req[r].kind = "google" THEN u.googleId ELSE told[e].googleId
    BY <1>4, UpdateWrites, UpdateTells DEF ToldAfter
  <2>3. \A f \in Emails \ {e} : Exists(f) /\ accounts'[e].googleId # None =>
                                  accounts[f].googleId # accounts'[e].googleId
    <3>1. accounts'[e] = ToTemplate(u, accounts[e])
      BY <1>4, <2>1 DEF UpdateStep, TypeOK
    <3> QED BY <1>4, <3>1 DEF UpdateStep
  <2>4. Harmless(Kinds, {"google"})' => Abreast(r, {"google"})
    BY <1>4, AbreastWriter
  <2>5. req[r].kind = "google" => u.googleId \in Subs
    BY <2>1 DEF LinkInv
  <2>6. req[r].kind # "google" /\ Abreast(r, {"google"}) => accounts'[e].googleId = accounts[e].googleId
    BY <2>1, <2>2 DEF LinkInv
  <2>7. LinkStays'
    <3> SUFFICES ASSUME NEW f \in Known'
                 PROVE  /\ told'[f].googleId # None => accounts'[f].googleId # None
                        /\ Harmless(Kinds, {"google"})' => accounts'[f].googleId = told'[f].googleId
                        /\ \A g \in Known' \ {f} : accounts'[f].googleId # None =>
                                            accounts'[f].googleId # accounts'[g].googleId
      BY DEF LinkStays
    <3>1. f \in Known
      BY <2>1, <2>2
    <3>2. CASE f = e
      <4>1. told'[e].googleId # None => accounts'[e].googleId # None
        BY <2>1, <2>2, <2>5, AccountAssumption DEF LinkInv, LinkStays
      <4>2. Harmless(Kinds, {"google"})' => accounts'[e].googleId = told'[e].googleId
        BY <2>1, <2>2, <2>4, <2>5, <2>6, AccountAssumption DEF LinkInv, LinkStays, Abreast
      <4>3. \A g \in Known' \ {e} : accounts'[e].googleId # None =>
                                   accounts'[e].googleId # accounts'[g].googleId
        BY <2>2, <2>3
      <4> QED BY <3>2, <4>1, <4>2, <4>3
    <3>3. CASE f # e
      <4>1. \A g \in Known' \ {f} : accounts'[f].googleId # None =>
                                   accounts'[f].googleId # accounts'[g].googleId
        BY <2>1, <2>2, <2>3, <3>1, <3>3 DEF LinkInv, LinkStays
      <4>2. Harmless(Kinds, {"google"})' => Harmless(Kinds, {"google"})
        BY <2>4 DEF Abreast
      <4> QED BY <2>2, <3>1, <3>3, <4>1, <4>2 DEF LinkInv, LinkStays
    <3> QED BY <3>2, <3>3
  <2>8. ASSUME NEW p \in Requests, req'[p].at = "save"
        PROVE  /\ req'[p].kind = "google" => req'[p].user.googleId \in Subs
               /\ req'[p].kind # "google" /\ Abreast(p, {"google"})' =>
                     req'[p].user.googleId = accounts'[req'[p].email].googleId
    <3>1. /\ req[p].at = "save" /\ req'[p].kind = req[p].kind /\ req'[p].email = req[p].email
          /\ req'[p].user = req[p].user /\ req[p].email \in Emails
      BY <1>4, <2>8, UpdateMarks, Saves
    <3>2. ASSUME req'[p].beside \cap {"google"} = {}, Harmless(Kinds, {"google"})'
          PROVE  /\ Abreast(p, {"google"}) /\ Abreast(r, {"google"})
                 /\ req[p].email = e => req[r].kind # "google"
      BY <1>4, <2>4, <2>8, <3>2, AbreastStays
    <3>3. ASSUME req[p].kind # "google", req'[p].beside \cap {"google"} = {},
                 Harmless(Kinds, {"google"})'
          PROVE  req[p].user.googleId = accounts'[req[p].email].googleId
      <4>1. req[p].user.googleId = accounts[req[p].email].googleId
        BY <3>1, <3>2, <3>3 DEF LinkInv
      <4>2. accounts'[req[p].email].googleId = accounts[req[p].email].googleId
        BY <2>2, <2>6, <3>1, <3>2, <3>3
      <4> QED BY <4>1, <4>2
    <3>4. req[p].kind = "google" => req[p].user.googleId \in Subs
      BY <3>1 DEF LinkInv
    <3> QED BY <3>1, <3>3, <3>4 DEF Abreast
  <2> QED BY <2>7, <2>8 DEF LinkInv
<1> QED BY <1>1, <1>2, <1>3, <1>4

\* An account stays linked to its Google identity, and no other account has it.
THEOREM LinksHold == Spec => []LinkStays
<1>1. Init => LinkInv
  BY DEF Init, LinkInv, LinkStays, Known, Exists, Idle
<1>2. Typed /\ LinkInv /\ [Next]_vars => LinkInv'
  <2> SUFFICES ASSUME Typed, LinkInv, [Next]_vars PROVE LinkInv'
    OBVIOUS
  <2>1. CASE UNCHANGED vars
    BY <2>1 DEF LinkInv, LinkStays, Known, Exists, Abreast, Harmless, vars
  <2> QED BY <2>1, LinksStay
<1>3. LinkInv => LinkStays
  BY DEF LinkInv
<1> QED BY TypedStarts, TypedStays, <1>1, <1>2, <1>3, PTL DEF Spec

-----------------------------------------------------------------------------
(* What the answers promise of verification and passwords. *)

Verifying == {"verify", "google"}

AnswersInv ==
    /\ AnswersHold
    /\ \A r \in Requests : req[r].at = "save" =>
          /\ req[r].kind \in Verifying => req[r].user.verified = TRUE
          /\ req[r].kind \notin Verifying /\ Abreast(r, Verifying) =>
                req[r].user.verified = accounts[req[r].email].verified
          /\ req[r].kind # "recover" /\ Abreast(r, {"recover"}) =>
                req[r].user.password = accounts[req[r].email].password

\* What was answered stays.
LEMMA AnswersStay ==
    ASSUME Typed, AnswersInv, Next
    PROVE  AnswersInv'
<1> USE DEF Typed, Known, Exists
<1>1. PICK r \in Requests : ReadStep(r) \/ MoveStep(r) \/ CreateStep(r) \/ UpdateStep(r)
  BY Steps
<1>2. CASE ReadStep(r) \/ MoveStep(r)
  <2>1. UNCHANGED <<accounts, history>>
    BY <1>2 DEF ReadStep, MoveStep
  <2>2. AnswersHold'
    BY <2>1 DEF AnswersInv, AnswersHold, Harmless, history
  <2>3. ASSUME NEW p \in Requests, req'[p].at = "save"
        PROVE  /\ req'[p].kind \in Verifying => req'[p].user.verified = TRUE
               /\ req'[p].kind \notin Verifying /\ Abreast(p, Verifying)' =>
                     req'[p].user.verified = accounts'[req'[p].email].verified
               /\ req'[p].kind # "recover" /\ Abreast(p, {"recover"})' =>
                     req'[p].user.password = accounts'[req'[p].email].password
    <3>1. CASE p = r
      BY <1>2, <2>1, <2>3, <3>1, Reads, SavesAfter DEF Made, Verifying
    <3>2. CASE p # r
      BY <1>2, <2>1, <2>3, <3>2, Reads, SavesAfter DEF AnswersInv, Abreast, Harmless, history
    <3> QED BY <3>1, <3>2
  <2> QED BY <2>2, <2>3 DEF AnswersInv
<1>3. CASE CreateStep(r)
  <2>1. PICK e \in Emails, n \in Names, s \in Subs \cup {None}, t \in FreshTokens \cup {None},
             pw \in Passwords : Creation(r, e, n, s, t, pw)
    BY <1>3, Creates
  <2>2. /\ accounts'[e].verified = told'[e].verified /\ accounts'[e].password = told'[e].password
        /\ \A f \in Emails \ {e} : accounts'[f] = accounts[f] /\ told'[f] = told[f]
    BY <2>1 DEF Creation, NewAccount
  <2>3. overlaps' = overlaps
    BY <1>3 DEF CreateStep
  <2>4. AnswersHold'
    BY <2>2, <2>3 DEF AnswersInv, AnswersHold, Harmless
  <2>5. ASSUME NEW p \in Requests, req'[p].at = "save"
        PROVE  req'[p] = req[p] /\ accounts'[req[p].email] = accounts[req[p].email]
    BY <2>1, <2>5 DEF Creation
  <2> QED BY <2>3, <2>4, <2>5 DEF AnswersInv, Abreast, Harmless
<1>4. CASE UpdateStep(r)
  <2> DEFINE e == req[r].email
             u == req[r].user
  <2>1. req[r].at = "save" /\ e \in Emails /\ Exists(e)
    BY <1>4, Saves DEF UpdateStep
  <2>2. /\ accounts'[e].verified = u.verified /\ accounts'[e].password = u.password
        /\ \A f \in Emails \ {e} : accounts'[f] = accounts[f] /\ told'[f] = told[f]
        /\ told'[e].verified = IF req[r].kind \in Verifying THEN TRUE ELSE told[e].verified
        /\ told'[e].password = IF req[r].kind = "recover" THEN u.password ELSE told[e].password
    BY <1>4, UpdateWrites, UpdateTells DEF ToldAfter, Verifying
  <2>3. /\ Harmless(Kinds, Verifying)' => Abreast(r, Verifying)
        /\ Harmless(Kinds, {"recover"})' => Abreast(r, {"recover"})
    BY <1>4, AbreastWriter
  <2>4. /\ req[r].kind \in Verifying => u.verified = TRUE
        /\ req[r].kind \notin Verifying /\ Abreast(r, Verifying) => u.verified = accounts[e].verified
        /\ req[r].kind # "recover" /\ Abreast(r, {"recover"}) => u.password = accounts[e].password
    BY <2>1 DEF AnswersInv
  <2>5. AnswersHold'
    <3> SUFFICES ASSUME NEW f \in Known'
                 PROVE  /\ Harmless(Kinds, Verifying)' => accounts'[f].verified = told'[f].verified
                        /\ Harmless(Kinds, {"recover"})' => accounts'[f].password = told'[f].password
      BY DEF AnswersHold, Verifying
    <3>1. f \in Known
      BY <2>1, <2>2
    <3>2. /\ Harmless(Kinds, Verifying)' => accounts[f].verified = told[f].verified
          /\ Harmless(Kinds, {"recover"})' => accounts[f].password = told[f].password
      BY <2>3, <3>1 DEF AnswersInv, AnswersHold, Abreast, Verifying
    <3>3. CASE f = e
      BY <2>2, <2>3, <2>4, <3>2, <3>3
    <3>4. CASE f # e
      BY <2>2, <3>2, <3>4
    <3> QED BY <3>3, <3>4
  <2>6. ASSUME NEW p \in Requests, req'[p].at = "save"
        PROVE  /\ req'[p].kind \in Verifying => req'[p].user.verified = TRUE
               /\ req'[p].kind \notin Verifying /\ Abreast(p, Verifying)' =>
                     req'[p].user.verified = accounts'[req'[p].email].verified
               /\ req'[p].kind # "recover" /\ Abreast(p, {"recover"})' =>
                     req'[p].user.password = accounts'[req'[p].email].password
    <3>1. /\ req[p].at = "save" /\ req'[p].kind = req[p].kind /\ req'[p].email = req[p].email
          /\ req'[p].user = req[p].user /\ req[p].email \in Emails
      BY <1>4, <2>6, UpdateMarks, Saves
    <3>2. ASSUME req'[p].beside \cap Verifying = {}, Harmless(Kinds, Verifying)',
                 req[p].kind \notin Verifying
          PROVE  req[p].user.verified = accounts'[req[p].email].verified
      <4>1. Abreast(p, Verifying) /\ (req[p].email = e => req[r].kind \notin Verifying)
        BY <1>4, <2>6, <3>2, AbreastStays DEF Verifying
      <4>2. req[p].user.verified = accounts[req[p].email].verified
        BY <3>1, <3>2, <4>1 DEF AnswersInv
      <4>3. accounts'[req[p].email].verified = accounts[req[p].email].verified
        BY <2>2, <2>3, <2>4, <3>1, <3>2, <4>1
      <4> QED BY <4>2, <4>3
    <3>3. ASSUME req'[p].beside \cap {"recover"} = {}, Harmless(Kinds, {"recover"})',
                 req[p].kind # "recover"
          PROVE  req[p].user.password = accounts'[req[p].email].password
      <4>1. Abreast(p, {"recover"}) /\ (req[p].email = e => req[r].kind # "recover")
        BY <1>4, <2>6, <3>3, AbreastStays
      <4>2. req[p].user.password = accounts[req[p].email].password
        BY <3>1, <3>3, <4>1 DEF AnswersInv
      <4>3. accounts'[req[p].email].password = accounts[req[p].email].password
        BY <2>2, <2>3, <2>4, <3>1, <3>3, <4>1
      <4> QED BY <4>2, <4>3
    <3>4. req[p].kind \in Verifying => req[p].user.verified = TRUE
      BY <3>1 DEF AnswersInv
    <3> QED BY <3>1, <3>2, <3>3, <3>4 DEF Abreast
  <2> QED BY <2>5, <2>6 DEF AnswersInv
<1> QED BY <1>1, <1>2, <1>3, <1>4

\* A verified account stays verified and keeps the last password its owner was
\* answered for, unless a save read it before and wrote after.
THEOREM AnswersAreKept == Spec => []AnswersHold
<1>1. Init => AnswersInv
  BY DEF Init, AnswersInv, AnswersHold, Known, Exists, Idle
<1>2. Typed /\ AnswersInv /\ [Next]_vars => AnswersInv'
  <2> SUFFICES ASSUME Typed, AnswersInv, [Next]_vars PROVE AnswersInv'
    OBVIOUS
  <2>1. CASE UNCHANGED vars
    BY <2>1 DEF AnswersInv, AnswersHold, Known, Exists, Abreast, Harmless, vars
  <2> QED BY <2>1, AnswersStay
<1>3. AnswersInv => AnswersHold
  BY DEF AnswersInv
<1> QED BY TypedStarts, TypedStays, <1>1, <1>2, <1>3, PTL DEF Spec

-----------------------------------------------------------------------------
(* Game profiles. *)

First(s) == IF s = <<>> THEN 0 ELSE s[1].points

Sane(s) == /\ \A i \in DOMAIN s : s[i].active => i = Len(s)
           /\ \A i \in DOMAIN s : s[i].points > 0 => i = 1

\* A toggle keeps the order: active last, points first.
LEMMA TogglesKeep ==
    ASSUME NEW s \in Seq(Profile)
    PROVE  /\ Sane(s) => Sane(Toggle(s))
           /\ First(Toggle(s)) = First(s)
<1> USE AccountAssumption
<1>1. CASE IsSubscribed(s)
  <2>1. /\ Toggle(s) = [i \in 1..Len(s) |-> [s[i] EXCEPT !.active = FALSE]]
        /\ Toggle(s) \in Seq(Profile)
    BY <1>1, TogglesTyped DEF Toggle, UnsubscribeFromProject
  <2>2. Len(Toggle(s)) = Len(s) /\ s # <<>>
    BY <1>1, <2>1 DEF IsSubscribed
  <2>3. ASSUME NEW i \in 1..Len(s)
        PROVE  ~ Toggle(s)[i].active /\ Toggle(s)[i].points = s[i].points
    <3>1. s[i] \in Profile
      OBVIOUS
    <3> QED BY <2>1, <3>1 DEF Profile
  <2> QED BY <2>1, <2>2, <2>3 DEF Sane, First
<1>2. CASE ~ IsSubscribed(s)
  <2>1. Toggle(s) = Append(s, [active |-> TRUE, points |-> 0])
    BY <1>2 DEF Toggle, SubscribeToProject
  <2>2. \A i \in 1..Len(s) : ~ s[i].active
    BY <1>2 DEF IsSubscribed, Profile
  <2> QED BY <2>1, <2>2 DEF Sane, First
<1> QED BY <1>1, <1>2

\* So does a reward, which adds its point to the first.
LEMMA CreditsKeep ==
    ASSUME NEW s \in Seq(Profile), s # <<>>
    PROVE  /\ Sane(s) => Sane(AddPoints(s))
           /\ IsSubscribed(AddPoints(s)) = IsSubscribed(s)
           /\ First(AddPoints(s)) = First(s) + 1
<1>1. 1 \in DOMAIN s /\ s[1] \in Profile /\ DOMAIN AddPoints(s) = DOMAIN s
  BY DEF AddPoints
<1>2. \A i \in DOMAIN s : /\ AddPoints(s)[i].active = s[i].active
                          /\ i # 1 => AddPoints(s)[i] = s[i]
  BY <1>1 DEF AddPoints, Profile
<1>3. AddPoints(s)[1].points = s[1].points + 1
  BY <1>1 DEF AddPoints, Profile
<1>4. Len(AddPoints(s)) = Len(s) /\ AddPoints(s) # <<>>
  BY <1>1 DEF AddPoints
<1> QED BY <1>1, <1>2, <1>3, <1>4 DEF Sane, IsSubscribed, First

ProfilesInv ==
    /\ ProfilesSane
    /\ ProfilesKept
    /\ \A r \in Requests : req[r].at = "save" =>
          LET u == req[r].user
              a == accounts[req[r].email]
          IN  /\ Sane(u.gameProfiles)
              /\ req[r].kind # "toggle" /\ Abreast(r, {"toggle"}) =>
                    IsSubscribed(u.gameProfiles) = IsSubscribed(a.gameProfiles)
              /\ Abreast(r, {"credit", "toggle"}) =>
                    First(u.gameProfiles) =
                        IF req[r].kind = "credit" THEN First(a.gameProfiles) + 1
                                                  ELSE First(a.gameProfiles)

\* What a request makes of the profiles it has read.
LEMMA Profiled ==
    ASSUME NEW a \in Account(Tokens \cup {None}), NEW u, NEW t, NEW kind, Made(kind, a, u, t)
    PROVE  /\ Sane(a.gameProfiles) => Sane(u.gameProfiles)
           /\ kind # "toggle" => IsSubscribed(u.gameProfiles) = IsSubscribed(a.gameProfiles)
           /\ First(u.gameProfiles) = IF kind = "credit" THEN First(a.gameProfiles) + 1
                                                         ELSE First(a.gameProfiles)
<1>1. a.gameProfiles \in Seq(Profile)
  BY DEF Account
<1>2. CASE kind = "toggle"
  BY <1>1, <1>2, TogglesKeep DEF Made, Profiles
<1>3. CASE kind = "credit"
  BY <1>1, <1>3, CreditsKeep DEF Made, Profiles
<1>4. CASE kind \notin {"toggle", "credit"}
  BY <1>4 DEF Made, Profiles
<1> QED BY <1>2, <1>3, <1>4

\* Profiles stay sane and as answered.
LEMMA ProfilesStay ==
    ASSUME Typed, ProfilesInv, Next
    PROVE  ProfilesInv'
<1> USE DEF Typed, Known, Exists
<1>1. PICK r \in Requests : ReadStep(r) \/ MoveStep(r) \/ CreateStep(r) \/ UpdateStep(r)
  BY Steps
<1> DEFINE Saved(p) ==
      /\ Sane(req'[p].user.gameProfiles)
      /\ req'[p].kind # "toggle" /\ Abreast(p, {"toggle"})' =>
            IsSubscribed(req'[p].user.gameProfiles)
                = IsSubscribed(accounts'[req'[p].email].gameProfiles)
      /\ Abreast(p, {"credit", "toggle"})' =>
            First(req'[p].user.gameProfiles) =
                IF req'[p].kind = "credit" THEN First(accounts'[req'[p].email].gameProfiles) + 1
                                           ELSE First(accounts'[req'[p].email].gameProfiles)
<1>2. CASE ReadStep(r) \/ MoveStep(r)
  <2>1. UNCHANGED <<accounts, history>>
    BY <1>2 DEF ReadStep, MoveStep
  <2>2. ProfilesSane' /\ ProfilesKept'
    BY <2>1 DEF ProfilesInv, ProfilesSane, ProfilesKept, Harmless, history
  <2>3. ASSUME NEW p \in Requests, req'[p].at = "save" PROVE Saved(p)
    <3>1. CASE p = r
      <4>1. /\ req'[p].email \in Emails /\ Exists(req'[p].email)
            /\ Made(req'[p].kind, accounts[req'[p].email], req'[p].user, req'[p].token)
        BY <1>2, <2>3, <3>1, Reads, SavesAfter DEF SaveRequest
      <4>2. Sane(accounts[req'[p].email].gameProfiles)
        BY <4>1 DEF ProfilesInv, ProfilesSane, Sane
      <4>3. accounts[req'[p].email] \in Account(Tokens \cup {None})
        BY <4>1 DEF TypeOK
      <4>4. accounts' = accounts
        BY <2>1
      <4> QED BY <4>1, <4>2, <4>3, <4>4, Profiled
    <3>2. CASE p # r
      BY <1>2, <2>1, <2>3, <3>2, Reads, SavesAfter DEF ProfilesInv, Abreast, Harmless, history
    <3> QED BY <3>1, <3>2
  <2> QED BY <2>2, <2>3 DEF ProfilesInv
<1>3. CASE CreateStep(r)
  <2>1. PICK e \in Emails, n \in Names, s \in Subs \cup {None}, t \in FreshTokens \cup {None},
             pw \in Passwords : Creation(r, e, n, s, t, pw)
    BY <1>3, Creates
  <2>2. /\ accounts'[e].gameProfiles = <<>> /\ ~ told'[e].subscribed /\ told'[e].points = 0
        /\ \A f \in Emails \ {e} : accounts'[f] = accounts[f] /\ told'[f] = told[f]
    BY <2>1 DEF Creation, NewAccount
  <2>3. overlaps' = overlaps
    BY <1>3 DEF CreateStep
  <2>4. ProfilesSane'
    BY <2>2 DEF ProfilesInv, ProfilesSane
  <2>5. ProfilesKept'
    <3>1. IsSubscribed(<<>>) = FALSE
      BY DEF IsSubscribed
    <3>2. told'[e].subscribed = FALSE
      BY <2>1 DEF Creation
    <3> QED BY <2>2, <2>3, <3>1, <3>2 DEF ProfilesInv, ProfilesKept, Harmless
  <2>6. ASSUME NEW p \in Requests, req'[p].at = "save"
        PROVE  req'[p] = req[p] /\ accounts'[req[p].email] = accounts[req[p].email]
    BY <2>1, <2>6 DEF Creation
  <2> QED BY <2>3, <2>4, <2>5, <2>6 DEF ProfilesInv, Abreast, Harmless
<1>4. CASE UpdateStep(r)
  <2> DEFINE e == req[r].email
             u == req[r].user
             k == req[r].kind
  <2>1. req[r].at = "save" /\ e \in Emails /\ Exists(e)
    BY <1>4, Saves DEF UpdateStep
  <2>2. /\ accounts'[e].gameProfiles = u.gameProfiles
        /\ \A f \in Emails \ {e} : accounts'[f] = accounts[f] /\ told'[f] = told[f]
        /\ told'[e].subscribed = IF k = "toggle" THEN IsSubscribed(u.gameProfiles)
                                                 ELSE told[e].subscribed
        /\ told'[e].points = IF k = "credit" THEN told[e].points + 1 ELSE told[e].points
    BY <1>4, UpdateWrites, UpdateTells DEF ToldAfter
  <2>3. /\ Harmless(Kinds, {"toggle"})' => Abreast(r, {"toggle"})
        /\ Harmless(Kinds, {"credit", "toggle"})' => Abreast(r, {"credit", "toggle"})
    BY <1>4, AbreastWriter
  <2>4. /\ Sane(u.gameProfiles)
        /\ k # "toggle" /\ Abreast(r, {"toggle"}) =>
              IsSubscribed(u.gameProfiles) = IsSubscribed(accounts[e].gameProfiles)
        /\ Abreast(r, {"credit", "toggle"}) =>
              First(u.gameProfiles) = IF k = "credit" THEN First(accounts[e].gameProfiles) + 1
                                                      ELSE First(accounts[e].gameProfiles)
    BY <2>1 DEF ProfilesInv
  <2>5. Known' = Known
    BY <1>4, <2>1, UpdateWrites, AccountAssumption
  <2>6. ProfilesSane'
    BY <2>2, <2>4, <2>5 DEF ProfilesInv, ProfilesSane, Sane
  <2>7. ProfilesKept'
    <3> SUFFICES ASSUME NEW f \in Known
                 PROVE  /\ Harmless(Kinds, {"toggle"})' =>
                              IsSubscribed(accounts'[f].gameProfiles) = told'[f].subscribed
                        /\ Harmless(Kinds, {"credit", "toggle"})' =>
                              told'[f].points = First(accounts'[f].gameProfiles)
      BY <2>5 DEF ProfilesKept, First
    <3>1. /\ Harmless(Kinds, {"toggle"})' => IsSubscribed(accounts[f].gameProfiles) = told[f].subscribed
          /\ Harmless(Kinds, {"credit", "toggle"})' => told[f].points = First(accounts[f].gameProfiles)
      BY <2>3 DEF ProfilesInv, ProfilesKept, Abreast, First
    <3>2. CASE f = e
      BY <2>2, <2>3, <2>4, <3>1, <3>2
    <3>3. CASE f # e
      BY <2>2, <3>1, <3>3
    <3> QED BY <3>2, <3>3
  <2>8. ASSUME NEW p \in Requests, req'[p].at = "save" PROVE Saved(p)
    <3> DEFINE v == req[p].user.gameProfiles
               m == req[p].email
    <3>1. /\ req[p].at = "save" /\ req'[p].kind = req[p].kind /\ req'[p].email = m
          /\ req'[p].user = req[p].user /\ m \in Emails
      BY <1>4, <2>8, UpdateMarks, Saves
    <3>2. Sane(v)
      BY <3>1 DEF ProfilesInv
    <3>3. ASSUME req'[p].beside \cap {"toggle"} = {}, Harmless(Kinds, {"toggle"})',
                 req[p].kind # "toggle"
          PROVE  IsSubscribed(v) = IsSubscribed(accounts'[m].gameProfiles)
      <4>1. Abreast(p, {"toggle"}) /\ (m = e => k # "toggle")
        BY <1>4, <2>8, <3>3, AbreastStays
      <4>2. IsSubscribed(v) = IsSubscribed(accounts[m].gameProfiles)
        BY <3>1, <3>3, <4>1 DEF ProfilesInv
      <4>3. CASE m = e
        BY <2>2, <2>3, <2>4, <3>3, <4>1, <4>2, <4>3
      <4>4. CASE m # e
        BY <2>2, <3>1, <4>2, <4>4
      <4> QED BY <4>3, <4>4
    <3>4. ASSUME req'[p].beside \cap {"credit", "toggle"} = {},
                 Harmless(Kinds, {"credit", "toggle"})'
          PROVE  First(v) = IF req[p].kind = "credit" THEN First(accounts'[m].gameProfiles) + 1
                                                      ELSE First(accounts'[m].gameProfiles)
      <4>1. Abreast(p, {"credit", "toggle"}) /\ (m = e => k \notin {"credit", "toggle"})
        BY <1>4, <2>8, <3>4, AbreastStays
      <4>2. First(v) = IF req[p].kind = "credit" THEN First(accounts[m].gameProfiles) + 1
                                                 ELSE First(accounts[m].gameProfiles)
        BY <3>1, <4>1 DEF ProfilesInv
      <4>3. CASE m = e
        BY <2>2, <2>3, <2>4, <3>4, <4>1, <4>2, <4>3
      <4>4. CASE m # e
        BY <2>2, <3>1, <4>2, <4>4
      <4> QED BY <4>3, <4>4
    <3> QED BY <3>1, <3>2, <3>3, <3>4 DEF Abreast
  <2> QED BY <2>6, <2>7, <2>8 DEF ProfilesInv
<1> QED BY <1>1, <1>2, <1>3, <1>4

\* ProfilesInv is inductive beside Typed.
LEMMA ProfilesHold ==
    /\ Init => ProfilesInv
    /\ Typed /\ ProfilesInv /\ [Next]_vars => ProfilesInv'
<1>1. Init => ProfilesInv
  BY DEF Init, ProfilesInv, ProfilesSane, ProfilesKept, Known, Exists, Idle
<1>2. ASSUME Typed, ProfilesInv, UNCHANGED vars PROVE ProfilesInv'
  BY <1>2 DEF ProfilesInv, ProfilesSane, ProfilesKept, Known, Exists, Abreast, Harmless, vars
<1> QED BY <1>1, <1>2, ProfilesStay

\* However requests overlap, one profile at most is active, the last, and points are
\* in the first.
THEOREM ProfilesStaySane == Spec => []ProfilesSane
<1>1. ProfilesInv => ProfilesSane
  BY DEF ProfilesInv
<1> QED BY TypedStarts, TypedStays, ProfilesHold, <1>1, PTL DEF Spec

\* The subscription is what the last toggle answered and no point is lost, unless
\* a save read the account before and wrote after.
THEOREM ProfilesAreKept == Spec => []ProfilesKept
<1>1. ProfilesInv => ProfilesKept
  BY DEF ProfilesInv
<1> QED BY TypedStarts, TypedStays, ProfilesHold, <1>1, PTL DEF Spec

-----------------------------------------------------------------------------
(* Links.  A token is on one account at most, and one that is being written is  *)
(* nowhere else yet.                                                          *)

Using == {"verify", "recover"}

\* No link was used on an account beside a request for a new one.
NoneBeside == Harmless(Using, {"forgot"})

SaveLinks(r) ==
    LET q == req[r]
    IN  /\ q.kind \in Using => /\ q.user.token = None
                               /\ \A f \in Known : f # q.email => accounts[f].token # q.token
                               /\ NoneBeside /\ "forgot" \notin q.beside => q.token = issued[q.email]
        /\ q.kind = "forgot" => /\ q.user.token = q.token /\ q.token \notin used
                                /\ \A f \in Known : accounts[f].token # q.token
                                /\ \A f \in Emails : issued[f] # q.token
                                /\ \A p \in Requests : p # r /\ req[p].at = "save" =>
                                                         req[p].token # q.token
        /\ q.kind \notin Using \cup {"forgot"} => q.user.token = Unset /\ q.token = None

TokensInv ==
    /\ LastLinkWorks
    /\ \A e, f \in Known : e # f /\ accounts[e].token # None => accounts[e].token # accounts[f].token
    /\ \A e, f \in Emails : e # f /\ issued[e] # None => issued[e] # issued[f]
    /\ \A r \in Requests : req[r].at = "save" => SaveLinks(r)

\* A fresh token is nowhere yet.
LEMMA FreshOnes ==
    ASSUME NEW t \in FreshTokens
    PROVE  /\ t \in Tokens /\ t \notin used
           /\ \A e \in Emails : issued[e] # t
           /\ \A e \in Known : accounts[e].token # t
           /\ \A p \in Requests : req[p].at = "save" => req[p].token # t
  BY DEF FreshTokens, Known

\* Who has no request for a link beside it after a step had none before.
LEMMA NoneBesideBefore ==
    ASSUME TypeOK, NEW r \in Requests, UpdateStep(r), NoneBeside'
    PROVE  NoneBeside /\ (req[r].kind \in Using => "forgot" \notin req[r].beside)
<1>1. overlaps' = overlaps \cup {<<req[r].kind, l>> : l \in req[r].beside}
  BY DEF UpdateStep
<1>2. NoneBeside
  BY <1>1 DEF NoneBeside, Harmless
<1>3. ASSUME req[r].kind \in Using, "forgot" \in req[r].beside PROVE FALSE
  <2>1. <<req[r].kind, "forgot">> \in overlaps' /\ <<req[r].kind, "forgot">> \in Using \X {"forgot"}
    BY <1>1, <1>3
  <2> QED BY <2>1 DEF NoneBeside, Harmless
<1> QED BY <1>2, <1>3

\* Links stay sound when a request reads,
LEMMA TokenReads ==
    ASSUME Typed, TokensInv, NEW r \in Requests, ReadStep(r) \/ MoveStep(r)
    PROVE  TokensInv'
<1> USE DEF Typed
<1>1. UNCHANGED <<accounts, issued, used, told, overlaps>>
  BY DEF ReadStep, MoveStep, history
<1>2. Known' = Known /\ NoneBeside' = NoneBeside
  BY <1>1 DEF Known, Exists, NoneBeside, Harmless
<1>3. ASSUME NEW p \in Requests, req'[p].at = "save", p # r
      PROVE  req[p].at = "save" /\ req'[p] = req[p]
  BY <1>3, Reads, SavesAfter
<1>4. ASSUME NEW p \in Requests, req'[p].at = "save", p = r
      PROVE  /\ req'[p].email \in Emails /\ Exists(req'[p].email) /\ req'[p].beside = {}
             /\ Made(req'[p].kind, accounts[req'[p].email], req'[p].user, req'[p].token)
  BY <1>4, Reads, SavesAfter DEF SaveRequest
<1>5. ASSUME NEW p \in Requests, req'[p].at = "save", NEW q \in Requests, q # p,
             req'[q].at = "save", req'[p].kind = "forgot"
      PROVE  req'[q].token # req'[p].token
  <2>1. CASE p = r
    <3>1. req'[p].token \in FreshTokens
      BY <1>4, <1>5, <2>1 DEF Made
    <3> QED BY <1>3, <1>5, <2>1, <3>1, FreshOnes
  <2>2. CASE q = r
    <3>1. /\ req[p] = req'[p] /\ req[p].at = "save" /\ req[p].kind = "forgot"
          /\ req[p].token \in Tokens /\ \A f \in Known : accounts[f].token # req[p].token
      BY <1>3, <1>5, <2>2 DEF TokensInv, SaveLinks, SavesTyped
    <3> DEFINE x == req'[q]
    <3>2. x.email \in Known /\ Made(x.kind, accounts[x.email], x.user, x.token)
      BY <1>4, <1>5, <2>2 DEF Known
    <3>3. CASE x.kind \in Using
      <4>1. x.kind \in {"verify", "recover"}
        BY <3>3 DEF Using
      <4>2. accounts[x.email].token = x.token
        BY <3>2, <4>1 DEF Made
      <4> QED BY <3>1, <3>2, <4>2
    <3>4. CASE x.kind = "forgot"
      <4>1. x.token \in FreshTokens
        BY <3>2, <3>4 DEF Made
      <4> QED BY <3>1, <4>1, FreshOnes
    <3>5. CASE x.kind \notin Using \cup {"forgot"}
      <4>1. x.token = None
        BY <3>2, <3>5 DEF Made, Using
      <4> QED BY <3>1, <4>1, AccountAssumption
    <3> QED BY <3>1, <3>3, <3>4, <3>5
  <2>3. CASE p # r /\ q # r
    BY <1>3, <1>5, <2>3 DEF TokensInv, SaveLinks
  <2> QED BY <2>1, <2>2, <2>3
<1>6. ASSUME NEW p \in Requests, req'[p].at = "save" PROVE SaveLinks(p)'
  <2>1. CASE p # r
    <3>1. req[p].at = "save" /\ req'[p] = req[p] /\ SaveLinks(p)
      BY <1>3, <1>6, <2>1 DEF TokensInv
    <3> QED BY <1>1, <1>2, <1>5, <1>6, <3>1 DEF SaveLinks
  <2>2. CASE p = r
    <3> DEFINE q == req'[p]
               a == accounts[q.email]
    <3>1. q.email \in Known /\ q.beside = {} /\ Made(q.kind, a, q.user, q.token)
      BY <1>4, <1>6, <2>2 DEF Known
    <3>2. CASE q.kind \in Using
      <4>1. q.user.token = None /\ q.token \in Tokens /\ a.token = q.token
        BY <3>1, <3>2 DEF Made, Using
      <4>2. \A f \in Known : f # q.email => accounts[f].token # q.token
        BY <3>1, <4>1, AccountAssumption DEF TokensInv
      <4>3. NoneBeside => q.token = issued[q.email]
        BY <3>1, <4>1, AccountAssumption DEF TokensInv, LastLinkWorks, NoneBeside, Using
      <4> QED BY <1>1, <1>2, <3>2, <4>1, <4>2, <4>3 DEF SaveLinks, Using
    <3>3. CASE q.kind = "forgot"
      <4>1. q.user.token = q.token /\ q.token \in FreshTokens
        BY <3>1, <3>3 DEF Made
      <4>2. /\ q.token \notin used /\ \A f \in Emails : issued[f] # q.token
            /\ \A f \in Known : accounts[f].token # q.token
        BY <4>1, FreshOnes
      <4>3. \A o \in Requests : o # p /\ req'[o].at = "save" => req'[o].token # q.token
        BY <1>5, <1>6, <3>3
      <4> QED BY <1>1, <1>2, <3>3, <4>1, <4>2, <4>3 DEF SaveLinks, Using
    <3>4. CASE q.kind \notin Using \cup {"forgot"}
      <4>1. q.token = None /\ q.user.token = Unset
        BY <3>1, <3>4 DEF Made, Using
      <4> QED BY <3>4, <4>1 DEF SaveLinks, Using
    <3> QED BY <3>2, <3>3, <3>4
  <2> QED BY <2>1, <2>2
<1>7. LastLinkWorks'
  BY <1>1, <1>2 DEF TokensInv, LastLinkWorks, Harmless
<1> QED BY <1>1, <1>2, <1>6, <1>7 DEF TokensInv

\* when an account is created,
LEMMA TokenCreates ==
    ASSUME Typed, TokensInv, NEW r \in Requests, CreateStep(r)
    PROVE  TokensInv'
<1> USE DEF Typed
<1>1. PICK e \in Emails, n \in Names, s \in Subs \cup {None}, t \in FreshTokens \cup {None},
           pw \in Passwords : Creation(r, e, n, s, t, pw)
  BY Creates
<1>2. /\ accounts'[e].token = t /\ issued'[e] = t /\ accounts'[e] # None /\ ~ Exists(e)
      /\ \A f \in Emails \ {e} : accounts'[f] = accounts[f] /\ issued'[f] = issued[f]
  BY <1>1 DEF Creation, NewAccount
<1>3. used' = used /\ NoneBeside' = NoneBeside /\ overlaps' = overlaps
  BY DEF CreateStep, NoneBeside, Harmless
<1>4. Known' = Known \cup {e}
  BY <1>2 DEF Known, Exists
<1>5. t # None => /\ t \in Tokens /\ t \notin used
                  /\ \A f \in Emails : issued[f] # t
                  /\ \A f \in Known : accounts[f].token # t
                  /\ \A p \in Requests : req[p].at = "save" => req[p].token # t
  BY FreshOnes
<1>6. None \notin used /\ e \notin Known /\ Known \subseteq Emails
  BY <1>2, AccountAssumption DEF TypeOK, Known
<1>7. LastLinkWorks'
  <2>1. \A f \in Known' : accounts'[f].token \notin used
    BY <1>2, <1>4, <1>5, <1>6 DEF TokensInv, LastLinkWorks
  <2>2. NoneBeside => \A f \in Known' :
            accounts'[f].token = IF issued'[f] \in used THEN None ELSE issued'[f]
    BY <1>2, <1>4, <1>5, <1>6 DEF TokensInv, LastLinkWorks, NoneBeside, Using
  <2> QED BY <1>3, <2>1, <2>2 DEF LastLinkWorks, NoneBeside, Using
<1>8. \A f, g \in Known' : f # g /\ accounts'[f].token # None => accounts'[f].token # accounts'[g].token
  BY <1>2, <1>4, <1>5, <1>6 DEF TokensInv
<1>9. \A f, g \in Emails : f # g /\ issued'[f] # None => issued'[f] # issued'[g]
  BY <1>2, <1>5 DEF TokensInv
<1>10. ASSUME NEW p \in Requests, req'[p].at = "save" PROVE SaveLinks(p)'
  <2>1. /\ req'[p] = req[p] /\ req[p].at = "save" /\ req[p].email # e /\ req[p].email \in Emails
        /\ SaveLinks(p)
    BY <1>1, <1>10 DEF Creation, TokensInv
  <2>2. /\ req[p].token # t \/ req[p].kind \notin Using \cup {"forgot"}
        /\ req[p].kind \in Using \cup {"forgot"} => req[p].token # None
    BY <1>5, <2>1, AccountAssumption DEF SavesTyped, Using
  <2>3. \A q \in Requests : req'[q].at = "save" => req[q].at = "save" /\ req'[q] = req[q]
    BY <1>1 DEF Creation
  <2> QED BY <1>2, <1>3, <1>4, <1>6, <2>1, <2>2, <2>3 DEF SaveLinks
<1> QED BY <1>7, <1>8, <1>9, <1>10 DEF TokensInv

\* and when one is written.
LEMMA TokenUpdates ==
    ASSUME Typed, TokensInv, NEW r \in Requests, UpdateStep(r)
    PROVE  TokensInv'
<1> USE DEF Typed
<1> DEFINE e == req[r].email
           t == req[r].token
           k == req[r].kind
<1>1. req[r].at = "save" /\ e \in Known /\ e \in Emails /\ SaveLinks(r)
  BY Saves DEF UpdateStep, Known, TokensInv
<1>2. /\ \A f \in Emails \ {e} : accounts'[f] = accounts[f]
      /\ Known' = Known /\ Known \subseteq Emails
  BY <1>1, UpdateWrites, AccountAssumption DEF Known, Exists
<1>3. accounts'[e].token = IF k \in Using THEN None ELSE IF k = "forgot" THEN t
                          ELSE accounts[e].token
  <2>1. accounts'[e].token = IF req[r].user.token = Unset THEN accounts[e].token
                             ELSE req[r].user.token
    BY UpdateWrites
  <2>2. k = "forgot" => t # Unset
    BY <1>1, AccountAssumption DEF SavesTyped
  <2> QED BY <1>1, <2>1, <2>2, AccountAssumption DEF SaveLinks, Using
<1>4. used' = IF k \in Using THEN used \cup {t} ELSE used
  BY DEF UpdateStep, Using
<1>5. issued' = IF k = "forgot" THEN [issued EXCEPT ![e] = t] ELSE issued
  BY DEF UpdateStep
<1>6. NoneBeside' => NoneBeside /\ (k \in Using => t = issued[e])
  BY <1>1, NoneBesideBefore DEF SaveLinks
<1>7. k \in Using \cup {"forgot"} => t \in Tokens /\ t # None
  BY <1>1, AccountAssumption DEF SavesTyped, Using
<1>8. LastLinkWorks'
  <2>1. \A f \in Known' : accounts'[f].token \notin used'
    BY <1>1, <1>2, <1>3, <1>4, <1>7, AccountAssumption DEF TokensInv, LastLinkWorks, SaveLinks, TypeOK, Using
  <2>2. ASSUME NoneBeside', NEW f \in Known'
        PROVE  accounts'[f].token = IF issued'[f] \in used' THEN None ELSE issued'[f]
    <3>1. f \in Emails /\ accounts[f].token = IF issued[f] \in used THEN None ELSE issued[f]
      BY <1>2, <1>6, <2>2 DEF TokensInv, LastLinkWorks, NoneBeside, Using
    <3>2. CASE k \in Using
      <4>1. t = issued[e] /\ issued' = issued /\ used' = used \cup {t}
        BY <1>4, <1>5, <1>6, <2>2, <3>2 DEF Using
      <4>2. f # e => issued[f] # t
        BY <1>1, <1>7, <3>1, <3>2, <4>1 DEF TokensInv
      <4> QED BY <1>2, <1>3, <3>1, <3>2, <4>1, <4>2
    <3>3. CASE k = "forgot"
      BY <1>1, <1>2, <1>3, <1>4, <1>5, <3>1, <3>3 DEF SaveLinks, TypeOK, Using
    <3>4. CASE k \notin Using \cup {"forgot"}
      BY <1>2, <1>3, <1>4, <1>5, <3>1, <3>4
    <3> QED BY <3>2, <3>3, <3>4
  <2> QED BY <2>1, <2>2 DEF LastLinkWorks, NoneBeside, Using
<1>9. \A f, g \in Known' : f # g /\ accounts'[f].token # None => accounts'[f].token # accounts'[g].token
  BY <1>1, <1>2, <1>3 DEF TokensInv, SaveLinks, Using
<1>10. \A f, g \in Emails : f # g /\ issued'[f] # None => issued'[f] # issued'[g]
  BY <1>1, <1>5, <1>7 DEF TokensInv, SaveLinks, TypeOK
<1>11. ASSUME NEW p \in Requests, req'[p].at = "save" PROVE SaveLinks(p)'
  <2>1. /\ p # r /\ req[p].at = "save" /\ req'[p].kind = req[p].kind /\ req'[p].email = req[p].email
        /\ req'[p].user = req[p].user /\ req'[p].token = req[p].token
        /\ req[p].beside \subseteq req'[p].beside
        /\ req[p].email = e /\ <<req[p].kind, k>> \in Harm => k \in req'[p].beside
        /\ SaveLinks(p) /\ req[p].email \in Emails
    BY <1>11, UpdateMarks, Saves DEF TokensInv
  <2>2. CASE req[p].kind \in Using
    <3>1. \A f \in Known : f # req[p].email => accounts'[f].token # req[p].token
      BY <1>1, <1>2, <1>3, <2>1, <2>2, AccountAssumption DEF SaveLinks, SavesTyped, Using
    <3>2. ASSUME NoneBeside', "forgot" \notin req'[p].beside
          PROVE  req[p].token = issued'[req[p].email]
      <4>1. req[p].token = issued[req[p].email]
        BY <1>6, <2>1, <2>2, <3>2 DEF SaveLinks
      <4>2. <<req[p].kind, "forgot">> \in Harm
        BY <2>2 DEF Harm, Using
      <4> QED BY <1>5, <2>1, <3>2, <4>1, <4>2 DEF TypeOK
    <3> QED BY <1>2, <2>1, <2>2, <3>1, <3>2 DEF SaveLinks, Using
  <2>3. CASE req[p].kind = "forgot"
    <3>1. t # req[p].token
      BY <1>1, <2>1, <2>3 DEF SaveLinks
    <3>2. req[p].token # None
      BY <2>1, <2>3, AccountAssumption DEF SavesTyped
    <3>3. \A f \in Known : accounts'[f].token # req[p].token
      BY <1>2, <1>3, <2>1, <2>3, <3>1, <3>2 DEF SaveLinks
    <3>4. req[p].token \notin used' /\ \A f \in Emails : issued'[f] # req[p].token
      BY <1>4, <1>5, <2>1, <2>3, <3>1 DEF SaveLinks, TypeOK
    <3>5. ASSUME NEW q \in Requests, q # p, req'[q].at = "save" PROVE req'[q].token # req[p].token
      BY <2>1, <2>3, <3>5, UpdateMarks DEF SaveLinks
    <3> QED BY <1>2, <2>1, <2>3, <3>3, <3>4, <3>5 DEF SaveLinks, Using
  <2>4. CASE req[p].kind \notin Using \cup {"forgot"}
    BY <2>1, <2>4 DEF SaveLinks, Using
  <2> QED BY <2>2, <2>3, <2>4
<1> QED BY <1>8, <1>9, <1>10, <1>11 DEF TokensInv

\* The last link sent works until it is used and never after, unless an old link is
\* used beside a request for a new one.
THEOREM LinksWork == Spec => []LastLinkWorks
<1>1. Init => TokensInv
  BY DEF Init, TokensInv, LastLinkWorks, Known, Exists, Idle
<1>2. Typed /\ TokensInv /\ [Next]_vars => TokensInv'
  <2> SUFFICES ASSUME Typed, TokensInv, [Next]_vars PROVE TokensInv'
    OBVIOUS
  <2>1. CASE UNCHANGED vars
    BY <2>1 DEF TokensInv, LastLinkWorks, SaveLinks, NoneBeside, Known, Exists, Harmless, vars
  <2>2. CASE Next
    <3>1. PICK r \in Requests : ReadStep(r) \/ MoveStep(r) \/ CreateStep(r) \/ UpdateStep(r)
      BY <2>2, Steps DEF Typed
    <3> QED BY <3>1, TokenReads, TokenCreates, TokenUpdates
  <2> QED BY <2>1, <2>2
<1>3. TokensInv => LastLinkWorks
  BY DEF TokensInv
<1> QED BY TypedStarts, TypedStays, <1>1, <1>2, <1>3, PTL DEF Spec

\* How one signs in lasts, but for the overlaps AnswersHold and LinkStays name.
THEOREM SignInsLast == Spec => []SignInsHold
<1>1. AnswersHold /\ LinkStays /\ UniqueAccounts => SignInsHold
  BY DEF SignInsHold
<1> QED
  BY <1>1, AnswersAreKept, LinksHold, NamesAreUnique, PTL

\* The profiles are well formed and as told, but for the overlaps ProfilesKept names.
THEOREM ProfilesFollow == Spec => []ProfilesAsTold
<1>1. ProfilesSane /\ ProfilesKept => ProfilesAsTold
  BY DEF ProfilesAsTold
<1> QED
  BY <1>1, ProfilesStaySane, ProfilesAreKept, PTL
=============================================================================
